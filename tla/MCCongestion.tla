----------------------------- MODULE MCCongestion -----------------------------
(* Small instances of Congestion for TLC.                                  *)
EXTENDS Congestion

(* All packets full, or the odd ones small.                                *)
FullSize == [p \in Packets |-> Mss]
MixedSize == [p \in Packets |-> IF p % 2 = 0 THEN Mss ELSE 1]
=============================================================================
