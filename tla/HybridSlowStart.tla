---------------------------- MODULE HybridSlowStart ----------------------------
(***************************************************************************)
(* Hybrid slow start, congestion/hybrid_slow_start.c: slow start ends      *)
(* early when the first round-trip times of a round of packets are all     *)
(* well above the minimum.                                                 *)
(***************************************************************************)
EXTENDS Naturals

CONSTANTS
  MinSamples,   \* SLOW_START_MIN_SIMPLE
  Threshold,    \* the clamped eighth of the minimum round-trip time
  LowWindow     \* the window, in packets, below which slow start goes on

ASSUME SamplesAssumption == MinSamples \in Nat \ {0}
ASSUME ThresholdAssumption == Threshold \in Nat
ASSUME LowWindowAssumption == LowWindow \in Nat

(* slow_start_init                                                         *)
SlowStartInit ==
  [started |-> FALSE, found |-> FALSE, minRtt |-> 0, samples |-> 0,
   endPnum |-> 0, lastSend |-> 0]

(* slowstart_start_receive_round                                           *)
SlowStartRound(s) ==
  [s EXCEPT !.minRtt = 0, !.samples = 0, !.started = TRUE, !.endPnum = s.lastSend]

(* slowstart_restart                                                       *)
SlowStartRestart(s) == [s EXCEPT !.started = FALSE, !.found = FALSE]

(* Mutant of SlowStartSample: the round's last sample stands for it.       *)
SlowStartSampleLast(s, lastRtt, minRtt) ==
  LET n == s.samples + 1
  IN [s EXCEPT !.samples = n, !.minRtt = lastRtt,
               !.found = @ \/ (n = MinSamples /\ lastRtt > minRtt + Threshold)]

(* One sample: the minimum of the first MinSamples of a round, judged at   *)
(* the last of them.  0 stands for no minimum yet.                         *)
SlowStartSample(s, lastRtt, minRtt) ==
  LET n == s.samples + 1
      least == IF n <= MinSamples /\ (s.minRtt = 0 \/ s.minRtt > lastRtt)
               THEN lastRtt ELSE s.minRtt
  IN [s EXCEPT !.samples = n, !.minRtt = least,
               !.found = @ \/ (n = MinSamples /\ least > minRtt + Threshold)]

(* slowstart_received_ack: the state it leaves and what it returns.        *)
SlowStartReceivedAck(s, lastRtt, minRtt) ==
  LET round == IF s.started THEN s ELSE SlowStartRound(s)
  IN IF round.found THEN round ELSE SlowStartSample(round, lastRtt, minRtt)

SlowStartExits(s, lastRtt, minRtt, window) ==
  \/ s.found
  \/ window >= LowWindow /\ SlowStartReceivedAck(s, lastRtt, minRtt).found
=============================================================================
