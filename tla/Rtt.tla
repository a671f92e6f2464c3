---------------------------------- MODULE Rtt ----------------------------------
(***************************************************************************)
(* The round-trip time estimator of timer/rtt.c: a smoothed time, scaled   *)
(* by 8, its variance, scaled by 4, and the retransmission timeout that    *)
(* follows from both.                                                      *)
(***************************************************************************)
EXTENDS Integers

CONSTANTS
  Rtts,         \* what a sample may be, in ticks
  RttMin,       \* MIN_TV
  MaxTv,        \* MAX_TV
  MaxMeasured   \* bound: samples

ASSUME RttAssumption == Rtts \subseteq Nat
ASSUME TimeoutAssumption == RttMin \in Nat \ {0} /\ MaxTv \in Nat /\ RttMin <= MaxTv
ASSUME MeasuredAssumption == MaxMeasured \in Nat

VARIABLES
  rtt,          \* struct rtt_status
  least, most,  \* history variables: the smallest and largest sample
  measured      \* history variable: how many samples there were

rttVars == <<rtt, least, most, measured>>

Clamped(x, low, high) == IF x > high THEN high ELSE IF x < low THEN low ELSE x
AtLeastOne(x) == IF x <= 0 THEN 1 ELSE x
Abs(x) == IF x < 0 THEN -x ELSE x

Timeout(srtt, rttvar) == Clamped((srtt \div 8) + rttvar, RttMin, MaxTv)

(* rtt_status_init: rto is half of four times SRTT_DEFAULT, rttvar eight   *)
(* times RTT_DEFAULT.  It does not set last_rtt, which a sample sets       *)
(* before congestion_try_slow_start reads it.                              *)
RttInitial ==
  [srtt |-> 0, rttvar |-> 24, rto |-> Clamped(12, RttMin, MaxTv), last |-> 0]

(* Mutant of Drift: the shift of the variance.                             *)
DriftFast(n, srtt) == n - 1 - (srtt \div 4)

(* delta: how far the sample is from the smoothed time.                    *)
Drift(n, srtt) == n - 1 - (srtt \div 8)

Smoothed(n, srtt) == AtLeastOne(srtt + Drift(n, srtt))

Varied(n, srtt, rttvar) ==
  AtLeastOne(rttvar + Abs(Drift(n, srtt)) - (rttvar \div 4))

(* rtt_status_update: a smoothed time of 0 stands for none yet.            *)
RttUpdated(r, n) ==
  LET srtt == IF r.srtt = 0 THEN 8 * n ELSE Smoothed(n, r.srtt)
      rttvar == IF r.srtt = 0 THEN 2 * n ELSE Varied(n, r.srtt, r.rttvar)
  IN [srtt |-> srtt, rttvar |-> rttvar, rto |-> Timeout(srtt, rttvar), last |-> n]

RttInit ==
  /\ rtt = RttInitial
  /\ least = 0 /\ most = 0
  /\ measured = 0

Measure(n) ==
  /\ measured < MaxMeasured
  /\ rtt' = RttUpdated(rtt, n)
  /\ least' = IF measured = 0 \/ n < least THEN n ELSE least
  /\ most' = IF n > most THEN n ELSE most
  /\ measured' = measured + 1

RttNext == \E n \in Rtts : Measure(n)

RttSpec == RttInit /\ [][RttNext]_rttVars

-----------------------------------------------------------------------------
RttTypeOK ==
  /\ rtt \in [srtt : Nat, rttvar : Nat, rto : RttMin .. MaxTv, last : Nat]
  /\ least \in Nat /\ most \in Nat /\ measured \in Nat

(* However the samples come, the rounding of the scaled integers adds up   *)
(* to less than a tick: the smoothed time is never above the largest       *)
(* sample and never a whole tick below the smallest.                       *)
SmoothedInRange ==
  measured > 0 =>
    /\ 8 * least - 7 <= rtt.srtt
    /\ rtt.srtt <= 8 * most

(* The variance is bounded by the spread of the samples and by the first   *)
(* one: old deviations decay at least as fast as new ones add to them.     *)
VarianceBounded ==
  measured > 0 =>
    \/ rtt.rttvar <= 2 * most
    \/ rtt.rttvar <= 4 * (most - least + 1)

(* The timeout is above the smoothed time, or as long as it may be.        *)
TimeoutCovers ==
  measured > 0 => rtt.rto > rtt.srtt \div 8 \/ rtt.rto = MaxTv

(* What the estimator says stays within what its samples said: mean,       *)
(* spread and timeout, however long the sequence that rounding adds up in. *)
EstimatesInRange == SmoothedInRange /\ VarianceBounded /\ TimeoutCovers

(* A sample, not even one of 0 ticks, makes the estimator forget what it   *)
(* measured: after the first sample that is not 0 the next ones are always *)
(* smoothed in.                                                            *)
StaysMeasured == [][rtt.srtt # 0 => rtt'.srtt # 0]_rttVars
=============================================================================
