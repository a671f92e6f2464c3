------------------------------- MODULE TreeWear -------------------------------
(***************************************************************************)
(* How far a tree of util/rbtree.c can be relied on, as its users' models  *)
(* count it: a tree that was filled finds what was inserted and not        *)
(* deleted up to its second deletion (RBTreeProofs!TrimIsDictionary).  A   *)
(* third deletion, or an insertion after a deletion, may lose keys and     *)
(* find deleted ones again (TreeReturns): from then on the tree is worn.   *)
(***************************************************************************)
EXTENDS Naturals

Worn == 3
Wear == 0 .. Worn

(* The wear of a tree is the number of keys deleted from it, until it is   *)
(* worn.                                                                   *)
AfterInsert(wear) == IF wear = 0 THEN 0 ELSE Worn
AfterDelete(wear) == IF wear < 2 THEN wear + 1 ELSE Worn
=============================================================================
