------------------------------- MODULE MCRBTree -------------------------------
(* Small instances of RBTree for TLC.                                      *)
EXTENDS RBTree, Integers, Sequences

(* Nine packets are recorded in the order of their numbers, and four of    *)
(* them are acknowledged in between: k inserts the key k, -k deletes it.   *)
Calls == <<1, 2, 3, -2, 4, 5, -3, 6, 7, -6, -4, 8, 9>>

Called == Cardinality(inserted) + Cardinality(deleted)

CallsNext ==
  \/ Running
  \/ /\ Called < Len(Calls)
     /\ LET k == Calls[Called + 1]
        IN IF k > 0 THEN BeginInsert(k) ELSE Delete(- k)

CallsSpec == Init /\ [][CallsNext]_vars
=============================================================================
