------------------------------- MODULE Congestion -------------------------------
(***************************************************************************)
(* The congestion controller of congestion/congestion.c over its cubic,    *)
(* hybrid slow start and rate reduction parts and the round-trip time      *)
(* estimator it shares with the sender, and around it the sender           *)
(* that calls it: packets leave in ascending order, each is at most once   *)
(* reported acknowledged or lost, and the sender keeps to the window.      *)
(* Sizes are in arbitrary units.                                           *)
(***************************************************************************)
EXTENDS Cubic, Recovery, HybridSlowStart, Rtt, FiniteSets

CONSTANTS
  Packets,          \* packet numbers
  Size,             \* bytes of each packet
  Retransmittable,  \* packets sent with is_retrans set
  Mss, MaxBurst,    \* arguments of the sender's calls
  InitCwnd, MaxCwnd, MinCwnd, \* arguments of congestion_init
  Reduction,        \* reduction: no function of congestion.c sets it
  Ages              \* what 4 t^3 may be t seconds into a cubic epoch

ASSUME PacketsAssumption == IsFiniteSet(Packets) /\ Packets \subseteq Nat \ {0}
ASSUME SizeAssumption == Size \in [Packets -> 1 .. Mss]
ASSUME RetransmittableAssumption == Retransmittable \subseteq Packets
ASSUME WindowAssumption ==
  /\ {Mss, InitCwnd, MaxCwnd, MinCwnd} \subseteq Nat \ {0}
  /\ MinCwnd <= InitCwnd /\ InitCwnd <= MaxCwnd
  /\ MaxBurst \in Nat
ASSUME ReductionAssumption == Reduction \in BOOLEAN
ASSUME TimeAssumption == Ages \subseteq Nat

VARIABLES
  cwnd, threshold,          \* cwnd, slow_start_threshold
  largeSent, largeAcked,    \* large_sent, large_acked
  cutback,                  \* cb_large_sent: large_sent at the last cut
  exited, minEcwnd,         \* slow_start_exited, slow_start_min_ecwnd
  lostPackets, lostBytes,   \* lost_packet, lost_bytes
  prr, slow, cubic,         \* struct prr, struct slow_start, struct cubic
  flying,   \* packets in flight
  acked,    \* packets acknowledged
  lost,     \* packets lost
  current,  \* history variable: retransmittable packets sent since a reset
  cut,      \* history variable: those sent when the window was last cut
  unpaced,  \* history variable: bytes sent since the last cut outside recovery
  slowSeen  \* history variable: slow samples since slow start was entered

window == <<cwnd, threshold, minEcwnd>>
numbers == <<largeSent, largeAcked, cutback>>
losses == <<exited, lostPackets, lostBytes>>
packets == <<flying, acked, lost>>
epoch == <<current, cut, unpaced>>
vars == <<window, numbers, losses, prr, slow, cubic, packets, epoch, slowSeen,
          rttVars>>

Init ==
  /\ cwnd = InitCwnd
  /\ threshold = MaxCwnd
  /\ largeSent = 0 /\ largeAcked = 0 /\ cutback = 0
  /\ exited = FALSE /\ minEcwnd = 0
  /\ lostPackets = 0 /\ lostBytes = 0
  /\ prr = PrrInit
  /\ slow = SlowStartInit
  /\ cubic = CubicInit
  /\ flying = {} /\ acked = {} /\ lost = {}
  /\ current = {} /\ cut = {}
  /\ unpaced = 0
  /\ slowSeen = 0
  /\ RttInit

-----------------------------------------------------------------------------
Larger(a, b) == IF a > b THEN a ELSE b
Smaller(a, b) == IF a < b THEN a ELSE b

(* The bytes of the packets of S, counted one by one.                      *)
Bytes(S) == Cardinality({b \in S \X (1 .. Mss) : b[2] <= Size[b[1]]})

(* Mutant of Recovering: an ACK of the last packet before the cut ends it. *)
RecoveringBelow == largeAcked < cutback /\ largeAcked # 0

Recovering == largeAcked <= cutback /\ largeAcked # 0
InSlowStart == cwnd < threshold

(* What counts as in flight.                                               *)
InFlight(S) == Bytes(S \cap Retransmittable)

(* The sender's part: in recovery it sends when congestion_next_sent_delay *)
(* lets PRR decide, and else while the window is open.                     *)
MaySend ==
  IF Recovering THEN PrrCheckSend(prr, Mss, cwnd, InFlight(flying), threshold)
  ELSE InFlight(flying) < cwnd

Sent == flying \cup acked \cup lost

(* congestion_on_sent.                                                     *)
OnSent(p) ==
  /\ \A q \in Sent : q < p
  /\ p \in Retransmittable => MaySend
  /\ flying' = flying \cup {p}
  /\ IF p \in Retransmittable
     THEN /\ prr' = IF Recovering THEN PrrSent(prr, Size[p]) ELSE prr
          /\ largeSent' = p
          /\ slow' = [slow EXCEPT !.lastSend = p]
          /\ current' = current \cup {p}
          /\ unpaced' = IF Recovering THEN unpaced ELSE unpaced + Size[p]
     ELSE UNCHANGED <<prr, largeSent, slow, current, unpaced>>
  /\ UNCHANGED <<window, largeAcked, cutback, losses, cubic, acked, lost, cut,
                 slowSeen, rttVars>>

(* An ACK that yields a sample: the sender updates the estimator and calls *)
(* congestion_try_slow_start, which reads last_rtt and rtt_min.            *)
TrySlowStart(n) ==
  /\ Measure(n)
  /\ slowSeen' = IF InSlowStart /\ n > RttMin + Threshold
                 THEN slowSeen + 1 ELSE slowSeen
  /\ IF InSlowStart
     THEN /\ slow' = SlowStartReceivedAck(slow, rtt'.last, RttMin)
          /\ threshold' = IF SlowStartExits(slow, rtt'.last, RttMin, cwnd \div Mss)
                          THEN cwnd ELSE threshold
     ELSE UNCHANGED <<slow, threshold>>
  /\ UNCHANGED <<cwnd, minEcwnd, numbers, losses, prr, cubic, packets, epoch>>

CwndLimited(flight) ==
  \/ flight >= cwnd
  \/ InSlowStart /\ flight > cwnd \div 2
  \/ cwnd - flight <= MaxBurst

(* __increase_cwnd.  The cubic function gets the acknowledged bytes, the   *)
(* window and the segment size where it expects the segment size, the      *)
(* acknowledged bytes and the window.                                      *)
GrowCubic(bytes, age) ==
  LET c == CubicReceivedAck(cubic, bytes, cwnd, Mss, age)
  IN /\ cubic' = c
     /\ cwnd' = Smaller(CubicTarget(c, bytes), MaxCwnd)

IncreaseCwnd(bytes, flight, age) ==
  IF ~ CwndLimited(flight)
  THEN cubic' = [cubic EXCEPT !.started = FALSE] /\ UNCHANGED cwnd
  ELSE IF cwnd >= MaxCwnd
  THEN UNCHANGED <<cubic, cwnd>>
  ELSE IF InSlowStart
  THEN cwnd' = cwnd + Mss /\ UNCHANGED cubic
  ELSE GrowCubic(bytes, age)

(* The age of an ACK in the cubic epoch it falls in: time does not go back. *)
AgeNow(age) == IF cubic.started THEN age >= cubic.age ELSE age = 0

(* The bytes in flight the sender reports with p: p counted or not.        *)
Flight(p) == {InFlight(flying), InFlight(flying \ {p})}

Landed(p) == p \in flying /\ flying' = flying \ {p}

(* congestion_received_acked.                                              *)
ReceivedAcked(p, flight, age) ==
  /\ Landed(p)
  /\ AgeNow(age)
  /\ acked' = acked \cup {p}
  /\ largeAcked' = Larger(largeAcked, p)
  /\ UNCHANGED <<threshold, minEcwnd, largeSent, cutback, losses, lost, epoch,
                 slowSeen, rttVars>>
  /\ IF Recovering'
     THEN prr' = PrrReceivedAck(prr, Size[p]) /\ UNCHANGED <<cwnd, cubic, slow>>
     ELSE /\ IncreaseCwnd(Size[p], flight, age)
          /\ slow' = IF InSlowStart' /\ slow.endPnum < p
                     THEN [slow EXCEPT !.started = FALSE] ELSE slow
          /\ UNCHANGED prr

-----------------------------------------------------------------------------
(* congestion_loss of a packet that was sent before the last cut.          *)
LossBeforeCut(p) ==
  /\ p <= cutback
  /\ IF exited
     THEN /\ lostPackets' = lostPackets + 1
          /\ lostBytes' = lostBytes + Size[p]
          /\ IF Reduction
             THEN /\ cwnd' = Smaller(minEcwnd, cwnd - Size[p])
                  /\ threshold' = cwnd'
             ELSE UNCHANGED <<cwnd, threshold>>
     ELSE UNCHANGED <<lostPackets, lostBytes, cwnd, threshold>>
  /\ UNCHANGED <<minEcwnd, numbers, exited, prr, cubic, epoch>>

(* Mutant of Reduced: the window is not held at min_cwnd.                  *)
ReducedFreely(w) == w

Reduced(w) == Larger(w, MinCwnd)

(* Mutant of CutBound: the packet that was lost.                           *)
CutBoundLost(p) == p

(* The cut covers everything up to this packet.                            *)
CutBound(p) == largeSent

(* And of one sent after it, which cuts the window.                        *)
LossAfterCut(p, flight) ==
  /\ p > cutback
  /\ exited' = InSlowStart
  /\ lostPackets' = IF InSlowStart THEN lostPackets + 1 ELSE lostPackets
  /\ prr' = PrrPacketLoss(flight)
  /\ IF Reduction /\ InSlowStart
     THEN /\ minEcwnd' = IF cwnd >= 2 * InitCwnd THEN cwnd \div 2 ELSE minEcwnd
          /\ cwnd' = Reduced(cwnd - Mss)
          /\ UNCHANGED cubic
     ELSE /\ cubic' = CubicPacketLoss(cubic, cwnd)
          /\ cwnd' = Reduced(CubicReduced(cwnd))
          /\ UNCHANGED minEcwnd
  /\ threshold' = cwnd'
  /\ cutback' = CutBound(p)
  /\ cut' = current
  /\ unpaced' = 0
  /\ UNCHANGED <<largeSent, largeAcked, lostBytes, current>>

Loss(p, flight) ==
  /\ Landed(p)
  /\ lost' = lost \cup {p}
  /\ LossBeforeCut(p) \/ LossAfterCut(p, flight)
  /\ UNCHANGED <<slow, acked, slowSeen, rttVars>>

(* congestion_retransmission_timeout                                       *)
RetransmissionTimeout(retransed) ==
  /\ cutback' = 0
  /\ cut' = {} /\ unpaced' = 0
  /\ IF retransed
     THEN /\ slow' = SlowStartRestart(slow)
          /\ cubic' = CubicInit
          /\ threshold' = cwnd \div 2
          /\ cwnd' = MinCwnd
          /\ slowSeen' = 0
     ELSE UNCHANGED <<slow, cubic, threshold, cwnd, slowSeen>>
  /\ UNCHANGED <<minEcwnd, largeSent, largeAcked, losses, prr, packets, current,
                 rttVars>>

(* congestion_reset                                                        *)
CongestionReset ==
  /\ slow' = SlowStartRestart(slow)
  /\ prr' = PrrInit
  /\ cubic' = CubicInit
  /\ largeAcked' = 0 /\ largeSent' = 0 /\ cutback' = 0
  /\ exited' = FALSE
  /\ cwnd' = InitCwnd
  /\ threshold' = MaxCwnd
  /\ current' = {} /\ cut' = {}
  /\ unpaced' = 0
  /\ slowSeen' = 0
  /\ UNCHANGED <<minEcwnd, lostPackets, lostBytes, packets, rttVars>>

Next ==
  \/ \E p \in Packets :
       \/ OnSent(p)
       \/ \E flight \in Flight(p) :
            \/ \E age \in Ages : ReceivedAcked(p, flight, age)
            \/ Loss(p, flight)
  \/ \E n \in Rtts : TrySlowStart(n)
  \/ \E retransed \in BOOLEAN : RetransmissionTimeout(retransed)
  \/ CongestionReset

Spec == Init /\ [][Next]_vars

-----------------------------------------------------------------------------
TypeOK ==
  /\ {cwnd, threshold, minEcwnd, lostPackets, lostBytes, unpaced, slowSeen} \subseteq Nat
  /\ {largeSent, largeAcked, cutback} \subseteq Packets \cup {0}
  /\ exited \in BOOLEAN
  /\ prr \in [sent : Nat, delivered : Nat, acked : Nat, flight : Nat]
  /\ slow \in [started : BOOLEAN, found : BOOLEAN, minRtt : Nat, samples : Nat,
               endPnum : Packets \cup {0}, lastSend : Packets \cup {0}]
  /\ cubic \in [started : BOOLEAN, age : Nat, cwnd : Nat, wLastMax : {0}, origin : Nat]
  /\ Sent \subseteq Packets
  /\ cut \subseteq current /\ current \subseteq Sent

(* Whatever is acknowledged, lost or timed out, the window stays between   *)
(* the smaller of a segment and min_cwnd and a segment above max_cwnd, so  *)
(* that it never blocks the sender and congestion_next_sent_delay never    *)
(* divides by zero.  Nor does any counter of the controller or of its      *)
(* parts, all of them unsigned, fall below zero.                           *)
CwndBounded ==
  /\ TypeOK
  /\ cwnd >= Smaller(Mss, MinCwnd)
  /\ cwnd < MaxCwnd + Mss

(* Of the packets sent since a reset, the loss of one sent before the last *)
(* cut never cuts the window again, and the loss of one sent after it      *)
(* always does: a flight of losses counts as one.                          *)
OneCutPerFlight ==
  [][\A p \in current \cap (lost' \ lost) :
         IF p \in cut THEN cwnd' = cwnd /\ threshold' = threshold
         ELSE cut' = current /\ cwnd' <= Larger(cwnd - 1, MinCwnd)]_vars

(* Once a loss has cut the window, acknowledgements do not widen it until  *)
(* one is for a packet later than every packet sent before the cut.        *)
NoGrowthInRecovery ==
  [][acked' # acked /\ cwnd' > cwnd =>
       \E p \in acked' : \A q \in cut : q < p]_vars

(* Slow start is ended by round-trip times only after as many slow samples *)
(* as one round needs, however acknowledgements and rounds interleave.  A  *)
(* sample of 0 ticks, which the code takes for none, makes a round forget  *)
(* its faster samples: nothing is said of a connection that measured one.  *)
DelayExitNeedsSamples == slow.found /\ least > 0 => slowSeen >= MinSamples

(* While the sender recovers, rate reduction keeps what is in flight below *)
(* the largest of the window, a segment and what was in flight at the      *)
(* loss, but for one packet and for what was sent after the loss while the *)
(* first acknowledgement of the connection was still to come: prr has not  *)
(* counted that.                                                           *)
RecoveryDrains ==
  Recovering =>
    InFlight(flying) <= Larger(Larger(cwnd, Mss), prr.flight) + unpaced + Mss

(* Once slow start is left, acknowledgements do not lead back into it.     *)
SlowStartLeft ==
  [][acked' # acked /\ ~ InSlowStart => ~ InSlowStart']_vars

(* The ACK that opens a cubic epoch widens the window by alpha segments    *)
(* squared over the window, as the tests of cubic.c expect.                *)
FirstAckGrowth ==
  [][~ cubic.started /\ cubic'.started =>
       cwnd' = Smaller(cwnd + (21 * Mss * Mss) \div (13 * cwnd), MaxCwnd)]_vars
=============================================================================
