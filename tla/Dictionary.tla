------------------------------ MODULE Dictionary ------------------------------
(***************************************************************************)
(* What the users of a search tree (the sent-packet history, the packet    *)
(* store, the version registry) expect of it: a set of keys.               *)
(***************************************************************************)
CONSTANT Keys

VARIABLE keys

Init == keys = {}

Insert(k) == keys' = keys \cup {k}

Delete(k) == keys' = keys \ {k}

Next == \E k \in Keys : Insert(k) \/ Delete(k)

Spec == Init /\ [][Next]_keys
=============================================================================
