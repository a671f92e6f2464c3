------------------------------ MODULE LinkedList ------------------------------
(***************************************************************************)
(* The intrusive circular list of util/linked_list.c.  The pointers of all *)
(* nodes are one record of two functions; ListHead is the list head, which is  *)
(* a node like any other.  ll_remove leaves the pointers of the removed    *)
(* node as they were.                                                      *)
(***************************************************************************)
EXTENDS Naturals, Sequences

CONSTANTS Node, ListHead

(* A node that was never linked points to itself: nothing reads it.        *)
HeadInit ==
  [next |-> [n \in Node \cup {ListHead} |-> n], prev |-> [n \in Node \cup {ListHead} |-> n]]

InsertBefore(l, place, newly) ==
  [next |-> [l.next EXCEPT ![newly] = place, ![l.prev[place]] = newly],
   prev |-> [l.prev EXCEPT ![newly] = l.prev[place], ![place] = newly]]

Remove(l, node) ==
  [next |-> [l.next EXCEPT ![l.prev[node]] = l.next[node]],
   prev |-> [l.prev EXCEPT ![l.next[node]] = l.prev[node]]]

(* The list holds exactly the nodes of s, in that order, both ways.        *)
Holds(l, s) ==
  LET ring == <<ListHead>> \o s \o <<ListHead>>
  IN \A i \in 1 .. Len(ring) - 1 :
       l.next[ring[i]] = ring[i + 1] /\ l.prev[ring[i + 1]] = ring[i]
=============================================================================
