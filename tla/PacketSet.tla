------------------------------ MODULE PacketSet ------------------------------
(***************************************************************************)
(* What an acknowledgement history promises to the endpoint that keeps it: *)
(* the set of packet numbers an ACK frame built now would report.  A       *)
(* packet enters the set when it is received and leaves it only when the   *)
(* endpoint has said that it no longer cares about numbers below a bound.  *)
(***************************************************************************)
EXTENDS Naturals

CONSTANT PNums      \* the packet numbers that may be received

VARIABLE held       \* the packet numbers the history reports

Init == held = {}

Receive(p) == held' = held \cup {p}

(* Forgetting below p may drop any of the numbers below p and no other.    *)
Forget(p) ==
  /\ held' \subseteq held
  /\ \A q \in held : q >= p => q \in held'

Next == \E p \in PNums : Receive(p) \/ Forget(p)

Spec == Init /\ [][Next]_held
=============================================================================
