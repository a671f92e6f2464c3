--------------------------------- MODULE Cubic ---------------------------------
(***************************************************************************)
(* The window function of congestion/cubic.c.  A state of struct cubic is  *)
(* a record; of its fields ack_cnt is 0 between calls, time_peroid is 0    *)
(* because w_last_max stays 0, and cnt, delay_min and w_last are never     *)
(* read.  The floating point factors are the fractions they stand for:     *)
(* __alpha() is 21/13 and 1 - CUBIC_FACTOR_BETA is 3/10.                   *)
(***************************************************************************)
EXTENDS Integers

(* cubic_init                                                              *)
CubicInit ==
  [started |-> FALSE,   \* epoch_start is set
   age |-> 0,           \* 4 (t - time_peroid)^3 for the last t of this epoch
   cwnd |-> 0,
   wLastMax |-> 0,
   origin |-> 0]

(* The epoch an ACK falls in: a new one if none runs.                      *)
Epoch(c, cwnd) ==
  IF c.started THEN c
  ELSE [c EXCEPT !.started = TRUE, !.age = 0, !.cwnd = cwnd,
                 !.origin = IF cwnd < c.wLastMax THEN c.wLastMax ELSE cwnd]

(* cubic_received_ack, the parameters in the order of cubic.c; age is      *)
(* 4 t^3, which grows with the time of the ACK.  The window it asks for is *)
(* CubicTarget of the state it leaves.                                     *)
CubicReceivedAck(c, mss, acked, cwnd, age) ==
  LET e == Epoch(c, cwnd)
  IN [e EXCEPT !.age = age, !.cwnd = @ + (21 * acked * mss) \div (13 * e.cwnd)]

(* Mutant of CubicTarget: the friendly window is not a lower bound.        *)
CubicTargetConcave(c, mss) == c.origin + c.age * mss

CubicTarget(c, mss) ==
  IF c.origin + c.age * mss < c.cwnd THEN c.cwnd ELSE c.origin + c.age * mss

(* cubic_packet_loss: the state it leaves and the window it returns.       *)
CubicPacketLoss(c, cwnd) ==
  [c EXCEPT !.started = FALSE,
            !.wLastMax = IF cwnd < @ THEN (13 * cwnd) \div 20 ELSE @]

CubicReduced(cwnd) == (3 * cwnd) \div 10
=============================================================================
