---------------------------- MODULE CongestionProofs ----------------------------
(***************************************************************************)
(* Theorems about Congestion, and Rtt in it, for every set of packets and  *)
(* samples, every size and every window.  NoReduction, FullPackets and     *)
(* AllRetransmittable are hypotheses of the theorems that need them.       *)
(***************************************************************************)
EXTENDS Congestion, TLAPS, FiniteSetTheorems

-----------------------------------------------------------------------------
(* The estimator of round-trip times, for every set of samples and every   *)
(* sequence of them.                                                       *)

(* What the three range properties rest on: the history variables are the  *)
(* bounds of the samples, and before the first one nothing is measured.    *)
RttInv ==
  /\ RttTypeOK
  /\ measured = 0 => rtt.srtt = 0 /\ most = 0
  /\ measured > 0 => least <= most
  /\ SmoothedInRange
  /\ VarianceBounded
  /\ TimeoutCovers

-----------------------------------------------------------------------------
(* A new smoothed time stays within the bounds of the samples: rounding    *)
(* down the eighth gives back what subtracting 1 takes.                    *)
LEMMA SmoothedBounds ==
  ASSUME NEW n \in Nat, NEW s \in Nat, NEW low \in Nat, NEW high \in Nat,
         low <= n, n <= high, s # 0, 8 * low - 7 <= s, s <= 8 * high
  PROVE  /\ Smoothed(n, s) \in Nat \ {0}
         /\ 8 * low - 7 <= Smoothed(n, s)
         /\ Smoothed(n, s) <= 8 * high
  BY DEF Smoothed, Drift, AtLeastOne

(* A sample deviates from the smoothed time by no more than the spread of  *)
(* the samples and one tick.                                               *)
LEMMA DriftBound ==
  ASSUME NEW n \in Nat, NEW s \in Nat, NEW low \in Nat, NEW high \in Nat,
         low <= n, n <= high, 8 * low - 7 <= s, s <= 8 * high
  PROVE  Abs(Drift(n, s)) \in 0 .. high - low + 1
  BY DEF Drift, Abs

(* So the variance stays below any bound of four times that deviation.     *)
LEMMA VariedBound ==
  ASSUME NEW n \in Nat, NEW s \in Nat, NEW v \in Nat, NEW d \in Nat \ {0},
         NEW bound \in Nat, Abs(Drift(n, s)) \in 0 .. d, 4 * d <= bound, v <= bound
  PROVE  Varied(n, s, v) \in 1 .. bound
  <1> DEFINE a == Abs(Drift(n, s))
  <1>1. a \in 0 .. d
    OBVIOUS
  <1>2. v + a - (v \div 4) <= bound
    <2> HIDE DEF a
    <2> QED BY <1>1
  <1>3. v + a - (v \div 4) \in Int
    BY <1>1
  <1> HIDE DEF a
  <1>4. AtLeastOne(v + a - (v \div 4)) \in 1 .. bound
    BY <1>2, <1>3 DEF AtLeastOne
  <1> QED
    BY <1>4 DEF Varied, a

LEMMA TimeoutType ==
  ASSUME NEW s \in Nat, NEW v \in Nat
  PROVE  Timeout(s, v) \in RttMin .. MaxTv
  BY TimeoutAssumption DEF Timeout, Clamped

(* The variance is what lifts the timeout above the smoothed time.         *)
LEMMA TimeoutAbove ==
  ASSUME NEW s \in Nat, NEW v \in Nat, s # 0 => v # 0
  PROVE  Timeout(s, v) > s \div 8 \/ Timeout(s, v) = MaxTv
  BY TimeoutAssumption DEF Timeout, Clamped

-----------------------------------------------------------------------------
(* The estimator after a sample, in terms of the bounds after it.          *)
LEMMA UpdateBounds ==
  ASSUME RttTypeOK, NEW n \in Nat, NEW low \in Nat, NEW high \in Nat,
         low <= n, n <= high,
         rtt.srtt # 0 =>
           /\ 8 * low - 7 <= rtt.srtt
           /\ rtt.srtt <= 8 * high
           /\ rtt.rttvar <= 2 * high \/ rtt.rttvar <= 4 * (high - low + 1)
  PROVE  LET r == RttUpdated(rtt, n)
         IN /\ r \in [srtt : Nat, rttvar : Nat, rto : RttMin .. MaxTv, last : Nat]
            /\ 8 * low - 7 <= r.srtt
            /\ r.srtt <= 8 * high
            /\ r.rttvar <= 2 * high \/ r.rttvar <= 4 * (high - low + 1)
            /\ r.rto > r.srtt \div 8 \/ r.rto = MaxTv
            /\ rtt.srtt # 0 => r.srtt # 0
  <1> DEFINE r == RttUpdated(rtt, n)
             Bounds(s, v) ==
               /\ s \in Nat /\ v \in Nat
               /\ 8 * low - 7 <= s
               /\ s <= 8 * high
               /\ v <= 2 * high \/ v <= 4 * (high - low + 1)
               /\ rtt.srtt # 0 => s # 0
  <1>1. rtt.srtt \in Nat /\ rtt.rttvar \in Nat
    BY DEF RttTypeOK
  <1>2. CASE rtt.srtt = 0
    <2>1. Bounds(8 * n, 2 * n)
      BY <1>2
    <2>2. r.srtt = 8 * n /\ r.rttvar = 2 * n
      BY <1>2 DEF RttUpdated
    <2>3. Bounds(r.srtt, r.rttvar)
      BY <2>1, <2>2
    <2>4. r \in [srtt : Nat, rttvar : Nat, rto : RttMin .. MaxTv, last : Nat]
      BY <1>2, <2>1, TimeoutType DEF RttUpdated
    <2>5. r.rto = Timeout(8 * n, 2 * n)
      BY <1>2 DEF RttUpdated
    <2>6. 8 * n \in Nat /\ 2 * n \in Nat /\ (8 * n # 0 => 2 * n # 0)
      OBVIOUS
    <2> HIDE DEF r
    <2>7. r.rto > r.srtt \div 8 \/ r.rto = MaxTv
      BY <2>2, <2>5, <2>6, TimeoutAbove
    <2> QED
      BY <2>3, <2>4, <2>7 DEF r
  <1>3. CASE rtt.srtt # 0
    <2> DEFINE s == Smoothed(n, rtt.srtt)
               v == Varied(n, rtt.srtt, rtt.rttvar)
               d == high - low + 1
    <2>1. s \in Nat \ {0} /\ 8 * low - 7 <= s /\ s <= 8 * high
      BY <1>1, <1>3, SmoothedBounds
    <2>2. d \in Nat \ {0} /\ Abs(Drift(n, rtt.srtt)) \in 0 .. d
      <3>1. 8 * low - 7 <= rtt.srtt /\ rtt.srtt <= 8 * high
        BY <1>3
      <3>2. Abs(Drift(n, rtt.srtt)) \in 0 .. d
        BY ONLY <1>1, <3>1, DriftBound, n \in Nat, low \in Nat, high \in Nat,
                low <= n, n <= high
      <3> QED
        BY <3>2
    <2>3. PICK bound \in {2 * high, 4 * d} : 4 * d <= bound /\ rtt.rttvar <= bound
      BY <1>1, <1>3
    <2>4. bound \in Nat
      BY <2>2, <2>3
    <2>5. v \in 1 .. bound
      BY <1>1, <2>2, <2>3, <2>4, VariedBound
    <2>6. v \in Nat /\ (v <= 2 * high \/ v <= 4 * d)
      BY <2>3, <2>4, <2>5
    <2>7. r.srtt = s /\ r.rttvar = v
      BY <1>3 DEF RttUpdated
    <2>8. r = [srtt |-> s, rttvar |-> v, rto |-> Timeout(s, v), last |-> n]
      BY <1>3 DEF RttUpdated
    <2> HIDE DEF s, v, r
    <2>9. Timeout(s, v) \in RttMin .. MaxTv
      BY <2>1, <2>6, TimeoutType
    <2>10. r \in [srtt : Nat, rttvar : Nat, rto : RttMin .. MaxTv, last : Nat]
      BY <2>1, <2>6, <2>8, <2>9
    <2>11. r.rto > r.srtt \div 8 \/ r.rto = MaxTv
      BY <2>1, <2>4, <2>5, <2>6, <2>8, TimeoutAbove
    <2> QED
      BY <2>1, <2>6, <2>7, <2>10, <2>11 DEF r
  <1> QED
    BY <1>2, <1>3

-----------------------------------------------------------------------------
LEMMA RttInitInv == RttInit => RttInv
  BY TimeoutAssumption
     DEF RttInit, RttInitial, RttInv, RttTypeOK, SmoothedInRange, VarianceBounded,
         TimeoutCovers, Clamped

LEMMA MeasureInv ==
  ASSUME RttInv, NEW n \in Rtts, Measure(n)
  PROVE  RttInv' /\ (rtt.srtt # 0 => rtt'.srtt # 0)
  <1>1. n \in Nat
    BY RttAssumption
  <1>2. /\ least' \in Nat /\ most' \in Nat
        /\ least' <= n /\ n <= most'
        /\ measured' \in Nat \ {0}
        /\ measured > 0 => least' <= least /\ most <= most'
    BY <1>1 DEF Measure, RttInv, RttTypeOK
  <1>3. rtt.srtt # 0 => measured > 0
    BY DEF RttInv, RttTypeOK
  <1>4. rtt.srtt # 0 =>
          /\ 8 * least' - 7 <= rtt.srtt
          /\ rtt.srtt <= 8 * most'
          /\ rtt.rttvar <= 2 * most' \/ rtt.rttvar <= 4 * (most' - least' + 1)
    BY <1>2, <1>3 DEF RttInv, RttTypeOK, SmoothedInRange, VarianceBounded
  <1>5. RttTypeOK
    BY DEF RttInv
  <1>6. rtt' = RttUpdated(rtt, n)
    BY DEF Measure
  <1>7. /\ rtt' \in [srtt : Nat, rttvar : Nat, rto : RttMin .. MaxTv, last : Nat]
        /\ 8 * least' - 7 <= rtt'.srtt
        /\ rtt'.srtt <= 8 * most'
        /\ rtt'.rttvar <= 2 * most' \/ rtt'.rttvar <= 4 * (most' - least' + 1)
        /\ rtt'.rto > rtt'.srtt \div 8 \/ rtt'.rto = MaxTv
        /\ rtt.srtt # 0 => rtt'.srtt # 0
    BY <1>1, <1>2, <1>4, <1>5, <1>6, UpdateBounds
  <1> QED
    BY <1>2, <1>7 DEF RttInv, RttTypeOK, SmoothedInRange, VarianceBounded, TimeoutCovers

LEMMA RttStep == RttInv /\ [RttNext]_rttVars => RttInv'
  <1> SUFFICES ASSUME RttInv, [RttNext]_rttVars PROVE RttInv'
    OBVIOUS
  <1>1. CASE RttNext
    BY <1>1, MeasureInv DEF RttNext
  <1>2. CASE UNCHANGED rttVars
    BY <1>2 DEF rttVars, RttInv, RttTypeOK, SmoothedInRange, VarianceBounded,
                TimeoutCovers
  <1> QED
    BY <1>1, <1>2

LEMMA RttInvariant == RttSpec => []RttInv
  BY RttInitInv, RttStep, PTL DEF RttSpec

-----------------------------------------------------------------------------
(* The estimator's fields keep their types and the timeout its bounds,     *)
(* whatever rtt_status_update is given.                                    *)
THEOREM RttTypes == RttSpec => []RttTypeOK
  <1>1. RttInv => RttTypeOK
    BY DEF RttInv
  <1> QED
    BY RttInvariant, <1>1, PTL

(* Over any sequence of calls of rtt_status_update the smoothed time stays *)
(* between the smallest and the largest sample, up to the rounding of its  *)
(* three fraction bits; the variance stays bounded by the spread of the    *)
(* samples or by what the first one set; and the timeout is longer than    *)
(* the smoothed time it was computed with, unless MAX_TV cuts it.          *)
THEOREM EstimatesStayInRange == RttSpec => []EstimatesInRange
  <1>1. RttInv => EstimatesInRange
    BY DEF RttInv, EstimatesInRange
  <1> QED
    BY RttInvariant, <1>1, PTL

(* Once a sample other than 0 was measured, rtt_status_update never again  *)
(* takes the smoothed time for unset, as 0 would have it.                  *)
THEOREM MeasureKept == RttSpec => StaysMeasured
  <1>1. RttInv /\ [RttNext]_rttVars => [rtt.srtt # 0 => rtt'.srtt # 0]_rttVars
    BY MeasureInv DEF RttNext
  <1> QED
    BY RttInvariant, <1>1, PTL DEF RttSpec, StaysMeasured

-----------------------------------------------------------------------------
(* The controller.                                                         *)

(* What congestion_init leaves: no function of congestion.c sets reduction. *)
NoReduction == ~ Reduction

(* Every packet has the size of a segment.                                 *)
FullPackets == \A p \in Packets : Size[p] = Mss

(* Every packet is sent with is_retrans set.                               *)
AllRetransmittable == Retransmittable = Packets

-----------------------------------------------------------------------------
(* The bytes of a set of packets: Bytes adds up.                           *)

(* The bytes of S, each a pair of its packet and its place in it.          *)
Units(S) == {b \in S \X (1 .. Mss) : b[2] <= Size[b[1]]}

LEMMA MssPositive == Mss \in Nat \ {0}
  BY WindowAssumption

LEMMA SizeType ==
  ASSUME NEW p \in Packets
  PROVE  Size[p] \in 1 .. Mss /\ Size[p] \in Nat
  BY SizeAssumption, MssPositive

LEMMA PairsFinite ==
  ASSUME NEW S \in SUBSET Packets
  PROVE  IsFiniteSet(Units(S)) /\ Bytes(S) = Cardinality(Units(S)) /\ Bytes(S) \in Nat
  <1>1. IsFiniteSet(S)
    BY PacketsAssumption, FS_Subset
  <1>2. IsFiniteSet(1 .. Mss)
    BY MssPositive, FS_Interval
  <1>3. IsFiniteSet(S \X (1 .. Mss))
    BY <1>1, <1>2, FS_Product
  <1>4. Units(S) \in SUBSET (S \X (1 .. Mss))
    BY DEF Units
  <1>5. IsFiniteSet(Units(S))
    BY <1>3, <1>4, FS_Subset
  <1>6. Cardinality(Units(S)) \in Nat
    BY <1>5, FS_CardinalityType
  <1> QED
    BY <1>5, <1>6 DEF Units, Bytes

LEMMA BytesOfNone == Bytes({}) = 0
  <1>1. Units({}) = {}
    BY DEF Units
  <1> QED
    BY <1>1, FS_EmptySet, PairsFinite

LEMMA BytesOfOne ==
  ASSUME NEW p \in Packets
  PROVE  Bytes({p}) = Size[p]
  <1> DEFINE n == Size[p]
             f == [i \in 1 .. n |-> <<p, i>>]
  <1>1. n \in 1 .. Mss
    BY SizeType
  <1>2. \A b : b \in Units({p}) <=> \E i \in 1 .. n : b = <<p, i>>
    BY <1>1, MssPositive DEF Units
  <1>3. f \in Bijection(1 .. n, Units({p}))
    <2>1. f \in [1 .. n -> Units({p})]
      BY <1>2
    <2>2. \A i, j \in 1 .. n : f[i] = f[j] => i = j
      OBVIOUS
    <2>3. \A b \in Units({p}) : \E i \in 1 .. n : f[i] = b
      BY <1>2
    <2> HIDE DEF f
    <2>4. IsInjective(f)
      BY <2>1, <2>2 DEF IsInjective
    <2> QED
      BY <2>1, <2>3, <2>4 DEF Bijection, Injection, Surjection
  <1>4. ExistsBijection(1 .. n, Units({p}))
    BY <1>3 DEF ExistsBijection
  <1>5. Cardinality(Units({p})) = n
    BY <1>1, <1>4, FS_CountingElements
  <1> QED
    BY <1>5, PairsFinite

LEMMA BytesOfUnion ==
  ASSUME NEW S \in SUBSET Packets, NEW T \in SUBSET Packets, S \cap T = {}
  PROVE  Bytes(S \cup T) = Bytes(S) + Bytes(T)
  <1>1. Units(S \cup T) = Units(S) \cup Units(T) /\ Units(S) \cap Units(T) = {}
    BY DEF Units
  <1>2. IsFiniteSet(Units(S)) /\ IsFiniteSet(Units(T))
    BY PairsFinite
  <1>3. Cardinality(Units(S) \cup Units(T))
          = Cardinality(Units(S)) + Cardinality(Units(T)) - Cardinality({})
    BY <1>1, <1>2, FS_Union
  <1>4. Cardinality({}) = 0
    BY FS_EmptySet
  <1>5. /\ Bytes(S \cup T) = Cardinality(Units(S) \cup Units(T))
        /\ Bytes(S) = Cardinality(Units(S)) /\ Bytes(S) \in Nat
        /\ Bytes(T) = Cardinality(Units(T)) /\ Bytes(T) \in Nat
    BY <1>1, PairsFinite
  <1> QED
    BY <1>3, <1>4, <1>5

(* What a packet adds to the bytes in flight and takes from them.          *)
LEMMA FlightType ==
  ASSUME NEW S \in SUBSET Packets
  PROVE  InFlight(S) \in Nat
  BY PairsFinite DEF InFlight

LEMMA FlightAdds ==
  ASSUME NEW S \in SUBSET Packets, NEW p \in Packets \ S
  PROVE  InFlight(S \cup {p}) =
           IF p \in Retransmittable THEN InFlight(S) + Size[p] ELSE InFlight(S)
  <1> DEFINE T == S \cap Retransmittable
  <1>1. CASE p \in Retransmittable
    <2>1. (S \cup {p}) \cap Retransmittable = T \cup {p}
      BY <1>1
    <2>2. T \cap {p} = {} /\ T \in SUBSET Packets /\ {p} \in SUBSET Packets
      OBVIOUS
    <2>3. Bytes(T \cup {p}) = Bytes(T) + Bytes({p})
      BY <2>2, BytesOfUnion
    <2> QED
      BY <1>1, <2>1, <2>3, BytesOfOne DEF InFlight
  <1>2. CASE p \notin Retransmittable
    <2>1. (S \cup {p}) \cap Retransmittable = T
      BY <1>2
    <2> QED
      BY <1>2, <2>1 DEF InFlight
  <1> QED
    BY <1>1, <1>2

LEMMA FlightTakes ==
  ASSUME NEW S \in SUBSET Packets, NEW p \in S
  PROVE  InFlight(S) =
           IF p \in Retransmittable THEN InFlight(S \ {p}) + Size[p]
           ELSE InFlight(S \ {p})
  <1>1. (S \ {p}) \cup {p} = S /\ p \in Packets \ (S \ {p})
    OBVIOUS
  <1> QED
    BY <1>1, FlightAdds

LEMMA ReportedFlight ==
  ASSUME flying \subseteq Packets, NEW p \in Packets, NEW flight \in Flight(p)
  PROVE  flight \in Nat /\ flight <= InFlight(flying)
  <1>1. InFlight(flying) \in Nat /\ InFlight(flying \ {p}) \in Nat
    BY FlightType
  <1>2. CASE p \in flying
    <2>1. InFlight(flying \ {p}) <= InFlight(flying)
      BY <1>1, <1>2, FlightTakes, SizeType
    <2> QED
      BY <1>1, <2>1 DEF Flight
  <1>3. CASE p \notin flying
    <2>1. flying \ {p} = flying
      BY <1>3
    <2> QED
      BY <1>1, <2>1 DEF Flight
  <1> QED
    BY <1>2, <1>3

-----------------------------------------------------------------------------
(* The window function over the arguments __increase_cwnd gives it: an     *)
(* epoch starts at a segment, and asks for no less from then on.           *)

CubicState ==
  [started : BOOLEAN, age : Nat, cwnd : Nat, wLastMax : {0}, origin : Nat]

PrrState == [sent : Nat, delivered : Nat, acked : Nat, flight : Nat]

SlowState ==
  [started : BOOLEAN, found : BOOLEAN, minRtt : Nat, samples : Nat,
   endPnum : Packets \cup {0}, lastSend : Packets \cup {0}]

(* In an epoch, what the window function starts from.                      *)
EpochInv == cubic.started => cubic.cwnd >= Mss /\ cubic.origin = Mss

LEMMA QuotientType ==
  ASSUME NEW a \in Nat, NEW b \in Nat \ {0}
  PROVE  a \div b \in Nat
  OBVIOUS

LEMMA QuotientBound ==
  ASSUME NEW a \in Nat, NEW b \in Nat \ {0}
  PROVE  a < b * ((a \div b) + 1)
  OBVIOUS

LEMMA ProductType ==
  ASSUME NEW a \in Nat, NEW b \in Nat
  PROVE  a * b \in Nat
  OBVIOUS

LEMMA EpochStep ==
  ASSUME cubic \in CubicState, EpochInv, NEW bytes \in Nat, NEW w \in Nat,
         NEW age \in Nat
  PROVE  LET c == CubicReceivedAck(cubic, bytes, w, Mss, age)
         IN /\ c \in CubicState
            /\ c.started /\ c.age = age /\ c.origin = Mss
            /\ c.cwnd >= Mss
            /\ CubicTarget(c, bytes) \in Nat
            /\ CubicTarget(c, bytes) >= Mss
            /\ ~ cubic.started =>
                 c.cwnd = Mss + (21 * w * bytes) \div (13 * Mss)
            /\ cubic.started => c.cwnd >= cubic.cwnd
  <1> DEFINE e == Epoch(cubic, Mss)
             grown == (21 * w * bytes) \div (13 * e.cwnd)
             c == CubicReceivedAck(cubic, bytes, w, Mss, age)
  <1>1. /\ e \in CubicState
        /\ e.started /\ e.origin = Mss
        /\ e.cwnd >= Mss
        /\ e.cwnd = IF cubic.started THEN cubic.cwnd ELSE Mss
    <2>1. CASE cubic.started
      BY <2>1, MssPositive DEF Epoch, CubicState, EpochInv
    <2>2. CASE ~ cubic.started
      <3>1. cubic.wLastMax = 0 /\ ~ (Mss < 0)
        BY MssPositive DEF CubicState
      <3>2. e = [cubic EXCEPT !.started = TRUE, !.age = 0, !.cwnd = Mss,
                              !.origin = Mss]
        BY <2>2, <3>1 DEF Epoch
      <3> HIDE DEF e
      <3>3. /\ e.started /\ e.origin = Mss /\ e.cwnd = Mss
            /\ e \in CubicState
        BY <3>2, MssPositive DEF CubicState
      <3> QED
        BY <2>2, <3>3, MssPositive
    <2> QED
      BY <2>1, <2>2
  <1>2. grown \in Nat
    <2>1. 13 * e.cwnd \in Nat \ {0}
      BY <1>1, MssPositive DEF CubicState
    <2>2. 21 * w \in Nat
      OBVIOUS
    <2>3. 21 * w * bytes \in Nat
      BY <2>2, ProductType
    <2> HIDE DEF e
    <2> QED
      BY <2>1, <2>3, QuotientType
  <1>3. c = [e EXCEPT !.age = age, !.cwnd = e.cwnd + grown]
    BY DEF CubicReceivedAck
  <1>4. ~ cubic.started => grown = (21 * w * bytes) \div (13 * Mss)
    BY <1>1
  <1> HIDE DEF e, grown, c
  <1>5. /\ c \in CubicState
        /\ c.started /\ c.age = age /\ c.origin = Mss
        /\ c.cwnd = e.cwnd + grown
    <2>1. /\ c.started = e.started /\ c.age = age /\ c.origin = e.origin
          /\ c.cwnd = e.cwnd + grown
      BY <1>1, <1>3 DEF CubicState
    <2>2. e.cwnd + grown \in Nat
      BY <1>1, <1>2 DEF CubicState
    <2>3. c \in CubicState
      BY <1>1, <1>3, <2>2 DEF CubicState
    <2> QED
      BY <1>1, <2>1, <2>3
  <1>6. c.cwnd >= Mss
    BY <1>1, <1>2, <1>5, MssPositive DEF CubicState
  <1>7. CubicTarget(c, bytes) \in Nat /\ CubicTarget(c, bytes) >= Mss
    <2>1. age * bytes \in Nat
      BY ProductType
    <2> QED
      BY <2>1, <1>5, <1>6, MssPositive DEF CubicTarget, CubicState
  <1> QED
    BY <1>1, <1>2, <1>4, <1>5, <1>6, <1>7, MssPositive DEF c, CubicState

-----------------------------------------------------------------------------
(* What the controller's packet numbers say of the packets they are of,    *)
(* whatever the windows are: a cut covers exactly what was sent up to      *)
(* cb_large_sent.                                                          *)
NumbersInv ==
  /\ Sent \subseteq Packets /\ current \subseteq Sent
  /\ largeSent \in Sent \cup {0} /\ cutback \in Sent \cup {0}
  /\ cutback <= largeSent
  /\ largeAcked \in acked \cup {0}
  /\ \A q \in current : q <= largeSent
  /\ cut = {q \in current : q <= cutback}

LEMMA PacketsNumbers == Packets \subseteq Nat \ {0}
  BY PacketsAssumption

LEMMA NaturalNumbers ==
  ASSUME NumbersInv
  PROVE  /\ largeSent \in Nat /\ cutback \in Nat /\ largeAcked \in Nat
         /\ flying \subseteq Packets /\ acked \subseteq Packets
         /\ Sent \subseteq Nat \ {0} /\ flying \subseteq Nat \ {0}
         /\ current \subseteq Nat \ {0}
  <1>1. /\ flying \subseteq Packets /\ acked \subseteq Packets
        /\ Sent \subseteq Packets /\ current \subseteq Packets
    BY DEF NumbersInv, Sent
  <1>2. \A q \in Packets : q \in Nat \ {0}
    BY PacketsNumbers
  <1>3. /\ largeSent \in Packets \cup {0} /\ cutback \in Packets \cup {0}
        /\ largeAcked \in Packets \cup {0}
    BY <1>1 DEF NumbersInv
  <1>4. largeSent \in Nat /\ cutback \in Nat /\ largeAcked \in Nat
    BY <1>2, <1>3
  <1> QED
    BY <1>1, <1>2, <1>4

LEMMA NumbersInit == Init => NumbersInv
  BY DEF Init, NumbersInv, Sent

LEMMA NumbersSent ==
  ASSUME NumbersInv, NEW p \in Packets, OnSent(p)
  PROVE  NumbersInv'
  <1>1. /\ Sent' = Sent \cup {p}
        /\ \A q \in Sent : q < p
        /\ UNCHANGED <<acked, lost, largeAcked, cutback, cut>>
    BY DEF OnSent, Sent
  <1>2. CASE p \in Retransmittable
    <2>1. largeSent' = p /\ current' = current \cup {p}
      BY <1>2 DEF OnSent
    <2> QED
      BY <1>1, <2>1, PacketsNumbers DEF NumbersInv
  <1>3. CASE p \notin Retransmittable
    <2>1. UNCHANGED <<largeSent, current>>
      BY <1>3 DEF OnSent
    <2> QED
      BY <1>1, <2>1, PacketsNumbers DEF NumbersInv
  <1> QED
    BY <1>2, <1>3

LEMMA LandedKeepsSent ==
  ASSUME NEW p, Landed(p), \/ acked' = acked \cup {p} /\ lost' = lost
                           \/ acked' = acked /\ lost' = lost \cup {p}
  PROVE  Sent' = Sent
  BY DEF Landed, Sent

LEMMA NumbersAcked ==
  ASSUME NumbersInv, NEW p \in Packets, NEW flight, NEW age,
         ReceivedAcked(p, flight, age)
  PROVE  NumbersInv'
  <1>1. /\ Landed(p) /\ acked' = acked \cup {p}
        /\ UNCHANGED <<lost, largeSent, cutback, current, cut>>
        /\ largeAcked' = Larger(largeAcked, p)
    BY DEF ReceivedAcked, epoch
  <1>2. Sent' = Sent
    BY <1>1, LandedKeepsSent
  <1> QED
    BY <1>1, <1>2 DEF NumbersInv, Larger

LEMMA NumbersLoss ==
  ASSUME NumbersInv, NEW p \in Packets, NEW flight, Loss(p, flight)
  PROVE  NumbersInv'
  <1>1. Landed(p) /\ lost' = lost \cup {p} /\ acked' = acked
    BY DEF Loss
  <1>2. Sent' = Sent
    BY <1>1, LandedKeepsSent
  <1>3. CASE LossBeforeCut(p)
    BY <1>1, <1>2, <1>3 DEF LossBeforeCut, numbers, epoch, NumbersInv
  <1>4. CASE LossAfterCut(p, flight)
    <2>1. /\ cutback' = largeSent /\ cut' = current
          /\ UNCHANGED <<largeSent, largeAcked, current>>
      BY <1>4 DEF LossAfterCut, CutBound
    <2>2. largeSent \in Nat /\ largeSent <= largeSent
      BY PacketsNumbers DEF NumbersInv
    <2>3. current = {q \in current : q <= largeSent}
      BY DEF NumbersInv
    <2> QED
      BY <1>1, <1>2, <2>1, <2>2, <2>3 DEF NumbersInv
  <1> QED
    BY <1>3, <1>4 DEF Loss

LEMMA NumbersTimeout ==
  ASSUME NumbersInv, NEW retransed, RetransmissionTimeout(retransed)
  PROVE  NumbersInv'
  <1>1. /\ cutback' = 0 /\ cut' = {}
        /\ UNCHANGED <<largeSent, largeAcked, current, flying, acked, lost>>
    BY DEF RetransmissionTimeout, packets
  <1>2. Sent' = Sent
    BY <1>1 DEF Sent
  <1>3. current \subseteq Nat \ {0} /\ largeSent \in Nat
    BY PacketsNumbers DEF NumbersInv
  <1>4. {q \in current : q <= 0} = {} /\ 0 <= largeSent
    <2>1. \A q \in current : ~ (q <= 0)
      BY <1>3
    <2>2. {q \in current : q <= 0} = {}
      BY ONLY <2>1
    <2> QED
      BY <2>2, <1>3
  <1> QED
    BY <1>1, <1>2, <1>4 DEF NumbersInv

LEMMA NumbersReset ==
  ASSUME NumbersInv, CongestionReset
  PROVE  NumbersInv'
  BY DEF CongestionReset, packets, Sent, NumbersInv

LEMMA NumbersSample ==
  ASSUME NumbersInv, NEW n, TrySlowStart(n)
  PROVE  NumbersInv'
  BY DEF TrySlowStart, packets, numbers, epoch, Sent, NumbersInv

LEMMA NumbersStep == NumbersInv /\ [Next]_vars => NumbersInv'
  <1> SUFFICES ASSUME NumbersInv, [Next]_vars PROVE NumbersInv'
    OBVIOUS
  <1>1. CASE UNCHANGED vars
    BY <1>1 DEF vars, packets, numbers, epoch, Sent, NumbersInv
  <1>2. CASE Next
    BY <1>2, NumbersSent, NumbersAcked, NumbersLoss, NumbersTimeout, NumbersReset,
       NumbersSample DEF Next
  <1> QED
    BY <1>1, <1>2

LEMMA NumbersInvariant == Spec => []NumbersInv
  BY NumbersInit, NumbersStep, PTL DEF Spec

-----------------------------------------------------------------------------
(* The types of the rest of the state.                                     *)
StateTypes ==
  /\ cwnd \in Nat /\ threshold \in Nat /\ minEcwnd \in Nat
  /\ lostPackets \in Nat /\ lostBytes \in Nat
  /\ unpaced \in Nat /\ slowSeen \in Nat
  /\ exited \in BOOLEAN
  /\ prr \in PrrState
  /\ slow \in SlowState
  /\ cubic \in CubicState

Bounds == cwnd >= Smaller(Mss, MinCwnd) /\ cwnd < MaxCwnd + Mss

(* The window: with its bounds, what the window function starts from.      *)
WindowInv == NumbersInv /\ StateTypes /\ Bounds /\ EpochInv

LEMMA WindowConstants ==
  /\ Mss \in Nat \ {0} /\ InitCwnd \in Nat \ {0}
  /\ MaxCwnd \in Nat \ {0} /\ MinCwnd \in Nat \ {0}
  /\ MinCwnd <= InitCwnd /\ InitCwnd <= MaxCwnd
  BY WindowAssumption

LEMMA WindowPositive ==
  ASSUME WindowInv
  PROVE  cwnd \in Nat \ {0}
  BY WindowConstants DEF WindowInv, StateTypes, Bounds, Smaller

LEMMA ReducedBounds ==
  ASSUME WindowInv
  PROVE  LET w == Reduced(CubicReduced(cwnd))
         IN /\ w \in Nat
            /\ w >= Smaller(Mss, MinCwnd)
            /\ w < MaxCwnd + Mss
            /\ w <= Larger(cwnd - 1, MinCwnd)
  <1>1. cwnd \in Nat \ {0} /\ cwnd < MaxCwnd + Mss
    BY WindowPositive DEF WindowInv, Bounds
  <1>2. CubicReduced(cwnd) \in Nat /\ CubicReduced(cwnd) <= cwnd - 1
    BY <1>1 DEF CubicReduced
  <1> DEFINE c == CubicReduced(cwnd)
  <1> HIDE DEF c
  <1>3. c \in Nat /\ c <= cwnd - 1
    BY <1>2 DEF c
  <1>4. /\ Reduced(c) \in Nat
        /\ Reduced(c) >= Smaller(Mss, MinCwnd)
        /\ Reduced(c) < MaxCwnd + Mss
        /\ Reduced(c) <= Larger(cwnd - 1, MinCwnd)
    BY <1>1, <1>3, WindowConstants DEF Reduced, Larger, Smaller
  <1> QED
    BY <1>4 DEF c

LEMMA WindowInit == Init => WindowInv
  <1> SUFFICES ASSUME Init PROVE WindowInv
    OBVIOUS
  <1>1. NumbersInv
    BY NumbersInit
  <1>2. cubic = CubicInit /\ prr = PrrInit /\ slow = SlowStartInit
    BY DEF Init
  <1>3. /\ cubic \in CubicState /\ ~ cubic.started
        /\ prr \in PrrState
        /\ slow \in SlowState
    BY <1>2 DEF CubicInit, PrrInit, SlowStartInit, CubicState, PrrState, SlowState
  <1>4. StateTypes
    BY <1>3, WindowConstants DEF Init, StateTypes
  <1>5. Bounds
    BY WindowConstants DEF Init, Bounds, Smaller
  <1> QED
    BY <1>1, <1>3, <1>4, <1>5 DEF WindowInv, EpochInv

LEMMA WindowSent ==
  ASSUME WindowInv, NEW p \in Packets, OnSent(p)
  PROVE  WindowInv'
  <1>1. NumbersInv'
    BY NumbersSent DEF WindowInv
  <1>2. UNCHANGED <<cwnd, threshold, minEcwnd, exited, lostPackets, lostBytes, cubic,
                    slowSeen>>
    BY DEF OnSent, window, losses
  <1>3. Size[p] \in Nat
    BY SizeType
  <1>4. prr' \in PrrState
    <2>1. prr' = prr \/ prr' = [prr EXCEPT !.sent = prr.sent + Size[p]]
      BY DEF OnSent, PrrSent
    <2> QED
      BY <2>1, <1>3 DEF WindowInv, StateTypes, PrrState
  <1>5. slow' \in SlowState
    <2>1. slow' = slow \/ slow' = [slow EXCEPT !.lastSend = p]
      BY DEF OnSent
    <2> QED
      BY <2>1 DEF WindowInv, StateTypes, SlowState
  <1>6. unpaced' \in Nat
    BY <1>3 DEF OnSent, WindowInv, StateTypes
  <1> QED
    BY <1>1, <1>2, <1>4, <1>5, <1>6 DEF WindowInv, StateTypes, Bounds, EpochInv

LEMMA SampleTypes ==
  ASSUME NEW s \in SlowState, NEW n \in Nat, NEW min \in Nat
  PROVE  SlowStartReceivedAck(s, n, min) \in SlowState
  <1> DEFINE round == IF s.started THEN s ELSE SlowStartRound(s)
  <1>1. round \in SlowState
    BY DEF SlowStartRound, SlowState
  <1> HIDE DEF round
  <1>2. SlowStartSample(round, n, min) \in SlowState
    <2> DEFINE k == round.samples + 1
               low == IF k <= MinSamples /\ (round.minRtt = 0 \/ round.minRtt > n)
                      THEN n ELSE round.minRtt
               found == round.found \/ (k = MinSamples /\ low > min + Threshold)
    <2>1. k \in Nat /\ low \in Nat /\ found \in BOOLEAN
      BY <1>1 DEF SlowState
    <2>2. SlowStartSample(round, n, min)
            = [round EXCEPT !.samples = k, !.minRtt = low, !.found = found]
      BY DEF SlowStartSample
    <2> HIDE DEF k, low, found
    <2> QED
      BY <1>1, <2>1, <2>2 DEF SlowState
  <1> QED
    BY <1>1, <1>2 DEF SlowStartReceivedAck, round

LEMMA WindowSample ==
  ASSUME WindowInv, NEW n \in Rtts, TrySlowStart(n)
  PROVE  WindowInv'
  <1>1. NumbersInv'
    BY NumbersSample DEF WindowInv
  <1>2. UNCHANGED <<cwnd, minEcwnd, exited, lostPackets, lostBytes, prr, cubic,
                    unpaced>>
    BY DEF TrySlowStart, losses, epoch
  <1>3. n \in Nat /\ RttMin \in Nat /\ rtt'.last = n
    BY RttAssumption, TimeoutAssumption DEF TrySlowStart, Measure, RttUpdated
  <1>4. slowSeen' \in Nat
    BY DEF TrySlowStart, WindowInv, StateTypes
  <1>5. threshold' \in Nat
    BY DEF TrySlowStart, WindowInv, StateTypes
  <1>6. slow' = slow \/ slow' = SlowStartReceivedAck(slow, n, RttMin)
    BY <1>3 DEF TrySlowStart
  <1>7. slow' \in SlowState
    BY <1>3, <1>6, SampleTypes DEF WindowInv, StateTypes
  <1> QED
    BY <1>1, <1>2, <1>4, <1>5, <1>7 DEF WindowInv, StateTypes, Bounds, EpochInv

(* __increase_cwnd: each of its branches.                                  *)
LEMMA WindowGrows ==
  ASSUME WindowInv, NEW bytes \in Nat, NEW flight \in Nat, NEW age \in Nat,
         IncreaseCwnd(bytes, flight, age)
  PROVE  /\ cwnd' \in Nat /\ cubic' \in CubicState
         /\ Bounds' /\ EpochInv'
  <1>1. cwnd \in Nat \ {0} /\ cubic \in CubicState /\ Bounds /\ EpochInv
    BY WindowPositive DEF WindowInv, StateTypes
  <1>2. CASE cubic' = [cubic EXCEPT !.started = FALSE] /\ UNCHANGED cwnd
    <2>1. cubic' \in CubicState /\ ~ cubic'.started
      BY <1>1, <1>2 DEF CubicState
    <2> QED
      BY <1>1, <1>2, <2>1 DEF Bounds, EpochInv
  <1>3. CASE UNCHANGED <<cubic, cwnd>>
    BY <1>1, <1>3 DEF Bounds, EpochInv
  <1>4. CASE cwnd < MaxCwnd /\ cwnd' = cwnd + Mss /\ UNCHANGED cubic
    BY <1>1, <1>4, WindowConstants DEF Bounds, EpochInv, Smaller
  <1>5. CASE GrowCubic(bytes, age)
    <2> DEFINE c == CubicReceivedAck(cubic, bytes, cwnd, Mss, age)
               target == CubicTarget(c, bytes)
    <2>1. /\ c \in CubicState /\ c.cwnd >= Mss /\ c.origin = Mss
          /\ target \in Nat /\ target >= Mss
      BY <1>1, EpochStep
    <2>2. cubic' = c /\ cwnd' = Smaller(target, MaxCwnd)
      BY <1>5 DEF GrowCubic
    <2> HIDE DEF c, target
    <2>3. cubic' \in CubicState /\ EpochInv'
      BY <2>1, <2>2 DEF EpochInv
    <2>4. cwnd' \in Nat /\ Bounds'
      BY <2>1, <2>2, WindowConstants DEF Bounds, Smaller
    <2> QED
      BY <2>3, <2>4
  <1> QED
    BY <1>1, <1>2, <1>3, <1>4, <1>5, WindowConstants DEF IncreaseCwnd

LEMMA WindowAcked ==
  ASSUME WindowInv, NEW p \in Packets, NEW flight \in Flight(p), NEW age \in Ages,
         ReceivedAcked(p, flight, age)
  PROVE  WindowInv'
  <1>1. NumbersInv'
    BY NumbersAcked DEF WindowInv
  <1>2. UNCHANGED <<threshold, minEcwnd, exited, lostPackets, lostBytes, unpaced,
                    slowSeen>>
    BY DEF ReceivedAcked, losses, epoch
  <1>3. Size[p] \in Nat /\ flight \in Nat /\ age \in Nat
    BY SizeType, ReportedFlight, TimeAssumption DEF WindowInv, NumbersInv, Sent
  <1>4. CASE Recovering'
    <2>1. prr' = PrrReceivedAck(prr, Size[p]) /\ UNCHANGED <<cwnd, cubic, slow>>
      BY <1>4 DEF ReceivedAcked
    <2>2. prr' \in PrrState
      <3>1. prr' = [prr EXCEPT !.delivered = prr.delivered + Size[p],
                               !.acked = prr.acked + 1]
        BY <2>1 DEF PrrReceivedAck
      <3>2. prr \in PrrState
        BY DEF WindowInv, StateTypes
      <3>3. prr.delivered + Size[p] \in Nat /\ prr.acked + 1 \in Nat
        BY <1>3, <3>2 DEF PrrState
      <3> QED
        BY <3>1, <3>2, <3>3 DEF PrrState
    <2> QED
      BY <1>1, <1>2, <2>1, <2>2 DEF WindowInv, StateTypes, Bounds, EpochInv
  <1>5. CASE ~ Recovering'
    <2>1. IncreaseCwnd(Size[p], flight, age) /\ UNCHANGED prr
      BY <1>5 DEF ReceivedAcked
    <2>2. cwnd' \in Nat /\ cubic' \in CubicState /\ Bounds' /\ EpochInv'
      BY <1>3, <2>1, WindowGrows
    <2>3. slow' = [slow EXCEPT !.started = FALSE] \/ slow' = slow
      BY <1>5 DEF ReceivedAcked
    <2>4. slow' \in SlowState
      BY <2>3 DEF WindowInv, StateTypes, SlowState
    <2> QED
      BY <1>1, <1>2, <2>1, <2>2, <2>4 DEF WindowInv, StateTypes
  <1> QED
    BY <1>4, <1>5

LEMMA WindowLoss ==
  ASSUME NoReduction, WindowInv, NEW p \in Packets, NEW flight \in Flight(p),
         Loss(p, flight)
  PROVE  WindowInv'
  <1>1. NumbersInv'
    BY NumbersLoss DEF WindowInv
  <1>2. UNCHANGED <<slow, slowSeen>>
    BY DEF Loss
  <1>3. Size[p] \in Nat /\ flight \in Nat
    BY SizeType, ReportedFlight DEF WindowInv, NumbersInv, Sent
  <1>4. CASE LossBeforeCut(p)
    <2>1. /\ UNCHANGED <<cwnd, threshold, minEcwnd, exited, prr, cubic, unpaced>>
          /\ lostPackets' \in {lostPackets, lostPackets + 1}
          /\ lostBytes' \in {lostBytes, lostBytes + Size[p]}
      BY <1>4 DEF LossBeforeCut, NoReduction, epoch
    <2> QED
      BY <1>1, <1>2, <1>3, <2>1 DEF WindowInv, StateTypes, Bounds, EpochInv
  <1>5. CASE LossAfterCut(p, flight)
    <2>1. /\ exited' = InSlowStart
          /\ lostPackets' \in {lostPackets, lostPackets + 1}
          /\ prr' = [sent |-> 0, delivered |-> 0, acked |-> 0, flight |-> flight]
          /\ cubic' = CubicPacketLoss(cubic, cwnd)
          /\ cwnd' = Reduced(CubicReduced(cwnd))
          /\ threshold' = cwnd' /\ unpaced' = 0
          /\ UNCHANGED <<minEcwnd, lostBytes>>
      BY <1>5 DEF LossAfterCut, NoReduction, PrrPacketLoss, PrrInit
    <2>2. cubic' \in CubicState /\ ~ cubic'.started
      <3>1. cubic.wLastMax = 0 /\ ~ (cwnd < 0)
        BY WindowPositive DEF WindowInv, StateTypes, CubicState
      <3>2. cubic' = [cubic EXCEPT !.started = FALSE, !.wLastMax = 0]
        BY <2>1, <3>1 DEF CubicPacketLoss
      <3> QED
        BY <3>2 DEF WindowInv, StateTypes, CubicState
    <2>3. cwnd' \in Nat /\ Bounds'
      BY <2>1, ReducedBounds DEF Bounds
    <2>4. prr' \in PrrState
      BY <1>3, <2>1 DEF PrrState
    <2>5. exited' \in BOOLEAN /\ lostPackets' \in Nat
      BY <2>1 DEF InSlowStart, WindowInv, StateTypes
    <2> QED
      BY <1>1, <1>2, <2>1, <2>2, <2>3, <2>4, <2>5 DEF WindowInv, StateTypes, EpochInv
  <1> QED
    BY <1>4, <1>5 DEF Loss

LEMMA WindowTimeout ==
  ASSUME WindowInv, NEW retransed \in BOOLEAN, RetransmissionTimeout(retransed)
  PROVE  WindowInv'
  <1>1. NumbersInv'
    BY NumbersTimeout DEF WindowInv
  <1>2. UNCHANGED <<minEcwnd, exited, lostPackets, lostBytes, prr>> /\ unpaced' = 0
    BY DEF RetransmissionTimeout, losses
  <1>3. CASE retransed
    <2>1. /\ slow' = SlowStartRestart(slow) /\ cubic' = CubicInit
          /\ threshold' = cwnd \div 2 /\ cwnd' = MinCwnd /\ slowSeen' = 0
      BY <1>3 DEF RetransmissionTimeout
    <2>2. slow' \in SlowState
      BY <2>1 DEF SlowStartRestart, SlowState, WindowInv, StateTypes
    <2>3. cubic' \in CubicState /\ ~ cubic'.started
      BY <2>1 DEF CubicInit, CubicState
    <2>4. threshold' \in Nat
      BY <2>1 DEF WindowInv, StateTypes
    <2>5. cwnd' \in Nat /\ Bounds'
      BY <2>1, WindowConstants DEF Bounds, Smaller
    <2> QED
      BY <1>1, <1>2, <2>1, <2>2, <2>3, <2>4, <2>5 DEF WindowInv, StateTypes, EpochInv
  <1>4. CASE ~ retransed
    <2>1. UNCHANGED <<slow, cubic, threshold, cwnd, slowSeen>>
      BY <1>4 DEF RetransmissionTimeout
    <2> QED
      BY <1>1, <1>2, <2>1 DEF WindowInv, StateTypes, Bounds, EpochInv
  <1> QED
    BY <1>3, <1>4

LEMMA WindowReset ==
  ASSUME WindowInv, CongestionReset
  PROVE  WindowInv'
  <1>1. NumbersInv'
    BY NumbersReset DEF WindowInv
  <1>2. /\ slow' = SlowStartRestart(slow) /\ prr' = PrrInit /\ cubic' = CubicInit
        /\ exited' = FALSE /\ unpaced' = 0 /\ slowSeen' = 0
        /\ cwnd' = InitCwnd /\ threshold' = MaxCwnd
        /\ UNCHANGED <<minEcwnd, lostPackets, lostBytes>>
    BY DEF CongestionReset
  <1>3. slow' \in SlowState
    BY <1>2 DEF SlowStartRestart, SlowState, WindowInv, StateTypes
  <1>4. cubic' \in CubicState /\ ~ cubic'.started /\ prr' \in PrrState
    BY <1>2 DEF CubicInit, CubicState, PrrInit, PrrState
  <1>5. Bounds'
    BY <1>2, WindowConstants DEF Bounds, Smaller
  <1> QED
    BY <1>1, <1>2, <1>3, <1>4, <1>5, WindowConstants DEF WindowInv, StateTypes, EpochInv

LEMMA WindowStep == NoReduction /\ WindowInv /\ [Next]_vars => WindowInv'
  <1> SUFFICES ASSUME NoReduction, WindowInv, [Next]_vars PROVE WindowInv'
    OBVIOUS
  <1>1. CASE UNCHANGED vars
    <2>1. NumbersInv'
      BY NumbersStep DEF WindowInv
    <2>2. UNCHANGED <<cwnd, threshold, minEcwnd, exited, lostPackets, lostBytes,
                      prr, slow, cubic, unpaced, slowSeen>>
      BY <1>1 DEF vars, window, losses, epoch
    <2> QED
      BY <2>1, <2>2 DEF WindowInv, StateTypes, Bounds, EpochInv
  <1>2. CASE Next
    BY <1>2, WindowSent, WindowAcked, WindowLoss, WindowTimeout, WindowReset,
       WindowSample DEF Next
  <1> QED
    BY <1>1, <1>2

LEMMA WindowInvariant == NoReduction => (Spec => []WindowInv)
  <1> SUFFICES ASSUME NoReduction PROVE Spec => []WindowInv
    OBVIOUS
  <1>1. WindowInv /\ [Next]_vars => WindowInv'
    BY WindowStep
  <1> QED
    BY <1>1, WindowInit, PTL DEF Spec

-----------------------------------------------------------------------------
(* Types, and the window's bounds: cwnd is never below the smaller of a    *)
(* segment and min_cwnd nor as much as a segment above max_cwnd, so that   *)
(* no division by it in congestion.c is by zero.                           *)
THEOREM WindowStaysBounded == NoReduction => (Spec => []CwndBounded)
  <1>1. WindowInv => CwndBounded
    <2> SUFFICES ASSUME WindowInv PROVE CwndBounded
      OBVIOUS
    <2>1. /\ {cwnd, threshold, minEcwnd, lostPackets, lostBytes, unpaced, slowSeen}
               \subseteq Nat
          /\ exited \in BOOLEAN
          /\ prr \in PrrState /\ slow \in SlowState /\ cubic \in CubicState
      BY DEF WindowInv, StateTypes
    <2>2. /\ {largeSent, largeAcked, cutback} \subseteq Packets \cup {0}
          /\ Sent \subseteq Packets
          /\ cut \subseteq current /\ current \subseteq Sent
      BY DEF WindowInv, NumbersInv, Sent
    <2>3. TypeOK
      BY <2>1, <2>2 DEF TypeOK, PrrState, SlowState, CubicState
    <2> QED
      BY <2>3 DEF WindowInv, Bounds, CwndBounded
  <1> QED
    BY <1>1, WindowInvariant, PTL

(* A loss is of a packet before or after the last cut by what its number   *)
(* says against cb_large_sent, and NumbersInv makes that the same as being *)
(* or not being of the packets the cut covered: congestion_loss cuts once  *)
(* for a flight.                                                           *)
THEOREM FlightCutOnce == NoReduction => (Spec => OneCutPerFlight)
  <1> SUFFICES ASSUME NoReduction PROVE Spec => OneCutPerFlight
    OBVIOUS
  <1>1. ASSUME WindowInv, [Next]_vars, NEW p \in current \cap (lost' \ lost)
        PROVE  IF p \in cut THEN cwnd' = cwnd /\ threshold' = threshold
               ELSE cut' = current /\ cwnd' <= Larger(cwnd - 1, MinCwnd)
    <2>1. PICK q \in Packets : \E flight : Loss(q, flight)
      BY <1>1 DEF Next, vars, packets, OnSent, ReceivedAcked, TrySlowStart,
                  RetransmissionTimeout, CongestionReset
    <2>2. lost' = lost \cup {q}
      BY <2>1 DEF Loss
    <2>3. q = p /\ \E flight : Loss(p, flight)
      BY <2>1, <2>2
    <2>4. p \in Nat /\ cutback \in Nat /\ (p \in cut <=> p <= cutback)
      BY <1>1, PacketsNumbers DEF WindowInv, NumbersInv
    <2>5. CASE LossBeforeCut(p)
      BY <1>1, <2>4, <2>5 DEF LossBeforeCut, NoReduction
    <2>6. CASE \E flight : LossAfterCut(p, flight)
      <3>1. cwnd' = Reduced(CubicReduced(cwnd)) /\ cut' = current /\ p > cutback
        BY <1>1, <2>6 DEF LossAfterCut, NoReduction
      <3>2. p \notin cut
        BY <2>4, <3>1
      <3> QED
        BY <1>1, <3>1, <3>2, ReducedBounds
    <2> QED
      BY <2>3, <2>5, <2>6 DEF Loss
  <1>2. WindowInv /\ [Next]_vars =>
          [\A p \in current \cap (lost' \ lost) :
             IF p \in cut THEN cwnd' = cwnd /\ threshold' = threshold
             ELSE cut' = current /\ cwnd' <= Larger(cwnd - 1, MinCwnd)]_vars
    BY <1>1
  <1> QED
    BY <1>2, WindowInvariant, PTL DEF Spec, OneCutPerFlight

(* Acknowledgements of packets up to cb_large_sent leave cwnd alone, and   *)
(* large_acked is one of them until a later packet is acknowledged: what   *)
(* congestion_received_acked checks with large_acked <= cb_large_sent.     *)
THEOREM WindowHeldInRecovery == NoReduction => (Spec => NoGrowthInRecovery)
  <1>1. ASSUME WindowInv, [Next]_vars, acked' # acked, cwnd' > cwnd
        PROVE  \E p \in acked' : \A q \in cut : q < p
    <2>1. PICK p \in Packets : \E flight, age : ReceivedAcked(p, flight, age)
      BY <1>1 DEF Next, vars, packets, OnSent, Loss, TrySlowStart,
                  RetransmissionTimeout, CongestionReset
    <2>2. /\ acked' = acked \cup {p}
          /\ largeAcked' = Larger(largeAcked, p)
          /\ UNCHANGED <<cutback, cut>>
          /\ Recovering' => cwnd' = cwnd
      BY <2>1 DEF ReceivedAcked, epoch
    <2>3. cwnd' # cwnd
      BY <1>1 DEF WindowInv, StateTypes
    <2>4. /\ largeAcked' \in acked' /\ largeAcked' \in Nat \ {0}
          /\ cutback \in Nat
      <3>1. /\ largeAcked \in acked \cup {0} /\ cutback \in Packets \cup {0}
            /\ acked \subseteq Packets
        BY <1>1 DEF WindowInv, NumbersInv, Sent
      <3>2. largeAcked \in Nat /\ cutback \in Nat /\ p \in Nat \ {0}
        BY <3>1, PacketsNumbers
      <3>3. acked \subseteq Nat \ {0}
        BY <3>1, PacketsNumbers
      <3> QED
        BY <2>2, <3>1, <3>2, <3>3 DEF Larger
    <2>5. cutback < largeAcked'
      BY <2>2, <2>3, <2>4 DEF Recovering
    <2>6. \A q \in cut : q < largeAcked'
      BY <1>1, <2>4, <2>5, PacketsNumbers DEF WindowInv, NumbersInv
    <2> QED
      BY <2>4, <2>6
  <1>2. WindowInv /\ [Next]_vars =>
          [acked' # acked /\ cwnd' > cwnd =>
             \E p \in acked' : \A q \in cut : q < p]_vars
    BY <1>1
  <1> QED
    BY <1>2, WindowInvariant, PTL DEF Spec, NoGrowthInRecovery

-----------------------------------------------------------------------------
(* Rate reduction.  What was in flight at a loss and is not acknowledged   *)
(* yet, and what was sent since, are counted by prr.                       *)

Before == {q \in flying : q <= cutback}
After == {q \in flying : q > cutback}

(* Acknowledgements take from the flight at the loss what they add to      *)
(* delivered_bytes; what is sent afterwards is counted, by prr or before   *)
(* the first acknowledgement by nobody but unpaced; and slow_start_thresh  *)
(* is the window for as long as the recovery lasts.                        *)
DrainInv ==
  /\ largeSent # 0 => \A q \in Sent : q <= largeSent
  /\ cutback # 0 => InFlight(Before) + prr.delivered <= prr.flight
  /\ cutback # 0 => InFlight(After) <= prr.sent + unpaced
  /\ largeAcked = 0 => prr.sent = 0
  /\ cutback # 0 /\ largeAcked <= cutback => threshold = cwnd
  /\ RecoveryDrains

(* What prr_check_send compares when the flight fills the window keeps the *)
(* flight below the window or what it was at the loss.                     *)
LEMMA Proportional ==
  ASSUME NEW d \in Nat, NEW s \in Nat, NEW F \in Nat, NEW T \in Nat,
         d <= F, d * T > s * F
  PROVE  F - d + s <= Larger(F, T)
  <1>1. CASE T <= F
    <2>1. d * T <= d * F
      BY <1>1
    <2>2. s * F < d * F
      BY <2>1
    <2>3. s < d
      BY <2>2
    <2> QED
      BY <2>3 DEF Larger
  <1>2. CASE T > F
    <2>1. SUFFICES ASSUME s > T - F + d PROVE FALSE
      BY <1>2 DEF Larger
    <2> DEFINE k == T - F
    <2>2. k \in Nat \ {0} /\ T = F + k /\ s >= k + d
      BY <1>2, <2>1
    <2> HIDE DEF k
    <2>3. s * F >= (k + d) * F
      BY <2>2
    <2>4. (k + d) * F = k * F + d * F /\ d * T = d * F + d * k
      BY <2>2
    <2>5. k * F < d * k
      BY <2>2, <2>3, <2>4
    <2>6. k * F >= k * d
      BY <2>2
    <2> QED
      BY <2>2, <2>5, <2>6
  <1> QED
    BY <1>1, <1>2

LEMMA FlyingSplit ==
  ASSUME AllRetransmittable, NumbersInv
  PROVE  /\ flying \subseteq Packets /\ Before \subseteq Packets /\ After \subseteq Packets
         /\ InFlight(Before) \in Nat /\ InFlight(After) \in Nat
         /\ InFlight(flying) = InFlight(Before) + InFlight(After)
  <1>1. /\ flying \subseteq Packets /\ Before \subseteq Packets /\ After \subseteq Packets
        /\ flying = Before \cup After /\ Before \cap After = {}
    <2>1. flying \subseteq Packets /\ cutback \in Nat
      BY NaturalNumbers
    <2>2. \A q \in flying : (q > cutback) <=> ~ (q <= cutback)
      BY <2>1, PacketsNumbers
    <2> QED
      BY <2>1, <2>2 DEF Before, After
  <1>2. \A S \in SUBSET Packets : S \cap Retransmittable = S
    BY DEF AllRetransmittable
  <1>3. Bytes(Before \cup After) = Bytes(Before) + Bytes(After)
    BY <1>1, BytesOfUnion
  <1> QED
    BY <1>1, <1>2, <1>3, PairsFinite DEF InFlight

LEMMA FlightDrops ==
  ASSUME NEW S \in SUBSET Packets, NEW p
  PROVE  InFlight(S \ {p}) \in Nat /\ InFlight(S) \in Nat
         /\ InFlight(S \ {p}) <= InFlight(S)
  <1>1. InFlight(S \ {p}) \in Nat /\ InFlight(S) \in Nat
    BY FlightType
  <1>2. CASE p \in S
    BY <1>1, <1>2, FlightTakes, SizeType
  <1>3. CASE p \notin S
    <2>1. S \ {p} = S
      BY <1>3
    <2> QED
      BY <1>1, <2>1
  <1> QED
    BY <1>2, <1>3

LEMMA DrainInit == Init => DrainInv
  BY DEF Init, DrainInv, RecoveryDrains, Recovering, PrrInit, Sent

(* Sending: prr_check_send admits it only while there is room.             *)
LEMMA DrainSent ==
  ASSUME AllRetransmittable, WindowInv, DrainInv, NEW p \in Packets, OnSent(p)
  PROVE  DrainInv'
  <1>1. /\ \A q \in Sent : q < p
        /\ MaySend
        /\ flying' = flying \cup {p} /\ Sent' = Sent \cup {p}
        /\ prr' = IF Recovering THEN PrrSent(prr, Size[p]) ELSE prr
        /\ unpaced' = IF Recovering THEN unpaced ELSE unpaced + Size[p]
        /\ largeSent' = p
        /\ UNCHANGED <<cwnd, threshold, largeAcked, cutback>>
    BY DEF OnSent, AllRetransmittable, Sent, window
  <1>2. /\ cutback \in Nat /\ p \in Nat \ {0} /\ p \notin flying
        /\ cutback # 0 => p > cutback
    <2>1. cutback \in Sent \cup {0} /\ Sent \subseteq Packets /\ flying \subseteq Sent
      BY DEF WindowInv, NumbersInv, Sent
    <2>2. p \in Nat \ {0} /\ Sent \subseteq Nat
      BY <2>1, PacketsNumbers
    <2>3. p \notin Sent
      BY <1>1, <2>2
    <2> QED
      BY <1>1, <2>1, <2>2, <2>3
  <1> DEFINE bo == InFlight(Before)
             bn == InFlight(After)
             k == Size[p]
  <1>3. /\ flying \subseteq Packets /\ Before \subseteq Packets /\ After \subseteq Packets
        /\ bo \in Nat /\ bn \in Nat /\ InFlight(flying) = bo + bn
    BY FlyingSplit DEF WindowInv
  <1>4. k \in Nat /\ k <= Mss /\ Mss \in Nat \ {0} /\ p \in Retransmittable
    BY SizeType, MssPositive DEF AllRetransmittable
  <1>5. /\ InFlight(flying') = bo + bn + k
        /\ cutback # 0 => InFlight(Before') = bo /\ InFlight(After') = bn + k
    <2>1. InFlight(flying') = bo + bn + k
      BY <1>1, <1>2, <1>3, <1>4, FlightAdds
    <2>2. ASSUME cutback # 0 PROVE InFlight(Before') = bo /\ InFlight(After') = bn + k
      <3>1. Before' = Before
        BY <1>1, <1>2, <2>2 DEF Before
      <3>2. After' = After \cup {p} /\ p \notin After
        BY <1>1, <1>2, <2>2 DEF After
      <3> QED
        BY <1>3, <1>4, <3>1, <3>2, FlightAdds
    <2> QED
      BY <2>1, <2>2
  <1>6. /\ prr \in PrrState /\ unpaced \in Nat /\ cwnd \in Nat /\ threshold \in Nat
        /\ prr.sent \in Nat /\ prr.delivered \in Nat /\ prr.flight \in Nat
    BY DEF WindowInv, StateTypes, PrrState
  <1>7. /\ prr'.delivered = prr.delivered /\ prr'.flight = prr.flight
        /\ prr'.sent = IF Recovering THEN prr.sent + k ELSE prr.sent
    BY <1>1, <1>6 DEF PrrSent, PrrState
  <1>8. Recovering' = Recovering
    BY <1>1 DEF Recovering
  <1> HIDE DEF bo, bn, k
  <1>9. RecoveryDrains'
    <2> SUFFICES ASSUME Recovering, cutback # 0
                 PROVE  bo + bn + k <= Larger(Larger(cwnd, Mss), prr.flight) + unpaced + Mss
      <3>1. Recovering => cutback # 0
        BY <1>2, NaturalNumbers DEF WindowInv, Recovering
      <3> QED
        BY <1>1, <1>5, <1>7, <1>8, <3>1 DEF RecoveryDrains
    <2>1. PrrCheckSend(prr, Mss, cwnd, bo + bn, threshold)
      BY <1>1, <1>3 DEF MaySend
    <2>2. /\ bo + prr.delivered <= prr.flight
          /\ bn <= prr.sent + unpaced
          /\ threshold = cwnd
      BY DEF DrainInv, bo, bn, Recovering
    <2>3. CASE prr.sent = 0
      BY <1>3, <1>4, <1>6, <2>2, <2>3 DEF Larger
    <2>4. CASE bo + bn < Mss
      BY <1>3, <1>4, <1>6, <2>4 DEF Larger
    <2>5. CASE cwnd > bo + bn
      BY <1>3, <1>4, <1>6, <2>5 DEF Larger
    <2>6. CASE prr.delivered * threshold > prr.sent * prr.flight
      <3>1. prr.delivered <= prr.flight
        BY <1>3, <1>6, <2>2
      <3>2. prr.flight - prr.delivered + prr.sent <= Larger(prr.flight, cwnd)
        BY ONLY <1>6, <2>2, <2>6, <3>1, Proportional
      <3>3. Larger(prr.flight, cwnd) <= Larger(Larger(cwnd, Mss), prr.flight)
            /\ Larger(prr.flight, cwnd) \in Nat
            /\ Larger(Larger(cwnd, Mss), prr.flight) \in Nat
        BY <1>4, <1>6 DEF Larger
      <3> QED
        BY <1>3, <1>4, <1>6, <2>2, <3>2, <3>3
    <2> QED
      BY <2>1, <2>3, <2>4, <2>5, <2>6 DEF PrrCheckSend
  <1>10. \A q \in Sent' : q <= largeSent'
    <2>1. Sent \subseteq Nat
      BY PacketsNumbers DEF WindowInv, NumbersInv
    <2> QED
      BY <1>1, <1>2, <2>1
  <1>11. cutback' # 0 =>
           /\ InFlight(Before') + prr'.delivered <= prr'.flight
           /\ InFlight(After') <= prr'.sent + unpaced'
    <2> SUFFICES ASSUME cutback # 0
                 PROVE  /\ bo + prr'.delivered <= prr'.flight
                        /\ bn + k <= prr'.sent + unpaced'
      BY <1>1, <1>5
    <2>1. bo + prr.delivered <= prr.flight /\ bn <= prr.sent + unpaced
      BY DEF DrainInv, bo, bn
    <2> QED
      BY <1>1, <1>3, <1>4, <1>6, <1>7, <2>1 DEF k
  <1>12. largeAcked' = 0 => prr'.sent = 0
    BY <1>1, <1>7 DEF DrainInv, Recovering
  <1>13. cutback' # 0 /\ largeAcked' <= cutback' => threshold' = cwnd'
    BY <1>1 DEF DrainInv
  <1>14. (InFlight(Before))' = InFlight(Before') /\ (InFlight(After))' = InFlight(After')
    BY DEF InFlight, Bytes
  <1> QED
    BY <1>9, <1>10, <1>11, <1>12, <1>13, <1>14 DEF DrainInv

(* A packet that is no longer in flight.                                   *)
LEMMA FlyingShrinks ==
  ASSUME AllRetransmittable, NumbersInv, NEW p \in Packets, Landed(p), cutback' = cutback
  PROVE  /\ Before' = Before \ {p} /\ After' = After \ {p}
         /\ InFlight(Before)' \in Nat /\ InFlight(Before)' <= InFlight(Before)
         /\ InFlight(After)' \in Nat /\ InFlight(After)' <= InFlight(After)
         /\ InFlight(flying)' \in Nat /\ InFlight(flying)' <= InFlight(flying)
         /\ p <= cutback => InFlight(Before) = InFlight(Before)' + Size[p]
  <1>1. flying' = flying \ {p} /\ p \in flying
    BY DEF Landed
  <1>2. Before' = Before \ {p} /\ After' = After \ {p}
    BY <1>1 DEF Before, After
  <1>3. flying \subseteq Packets /\ Before \subseteq Packets /\ After \subseteq Packets
    BY FlyingSplit
  <1>4. /\ InFlight(Before)' = InFlight(Before \ {p})
        /\ InFlight(After)' = InFlight(After \ {p})
        /\ InFlight(flying)' = InFlight(flying \ {p})
    BY <1>1, <1>2 DEF InFlight, Bytes
  <1>5. p <= cutback => InFlight(Before) = InFlight(Before \ {p}) + Size[p]
    <2> SUFFICES ASSUME p <= cutback PROVE InFlight(Before) = InFlight(Before \ {p}) + Size[p]
      OBVIOUS
    <2>1. p \in Before /\ p \in Retransmittable
      BY <1>1 DEF Before, AllRetransmittable
    <2> QED
      BY <1>3, <2>1, FlightTakes
  <1> QED
    BY <1>2, <1>3, <1>4, <1>5, FlightDrops

LEMMA DrainTypes ==
  ASSUME WindowInv
  PROVE  /\ prr.sent \in Nat /\ prr.delivered \in Nat /\ prr.flight \in Nat
         /\ unpaced \in Nat /\ cwnd \in Nat /\ Mss \in Nat
         /\ Larger(Larger(cwnd, Mss), prr.flight) \in Nat
         /\ Larger(Larger(cwnd, Mss), prr.flight) >= prr.flight
  BY MssPositive DEF WindowInv, StateTypes, PrrState, Larger

(* An acknowledgement counts for delivered_bytes while it is of the flight *)
(* before the cut.                                                         *)
LEMMA DrainAcked ==
  ASSUME AllRetransmittable, WindowInv, DrainInv, NEW p \in Packets, NEW flight, NEW age,
         ReceivedAcked(p, flight, age)
  PROVE  DrainInv'
  <1>1. /\ Landed(p) /\ acked' = acked \cup {p}
        /\ largeAcked' = Larger(largeAcked, p)
        /\ UNCHANGED <<lost, threshold, largeSent, cutback, unpaced>>
        /\ prr' = IF Recovering' THEN PrrReceivedAck(prr, Size[p]) ELSE prr
        /\ Recovering' => cwnd' = cwnd
    BY DEF ReceivedAcked, epoch
  <1>2. /\ Size[p] \in Nat /\ p \in Nat \ {0}
        /\ largeAcked \in Nat /\ cutback \in Nat
    BY SizeType, PacketsNumbers, NaturalNumbers DEF WindowInv
  <1>3. largeAcked' # 0 /\ largeAcked <= largeAcked' /\ p <= largeAcked'
        /\ largeAcked' \in Nat
    BY <1>1, <1>2 DEF Larger
  <1>4. /\ InFlight(Before)' \in Nat /\ InFlight(Before)' <= InFlight(Before)
        /\ InFlight(After)' \in Nat /\ InFlight(After)' <= InFlight(After)
        /\ InFlight(flying)' \in Nat /\ InFlight(flying)' <= InFlight(flying)
        /\ p <= cutback => InFlight(Before) = InFlight(Before)' + Size[p]
    BY <1>1, FlyingShrinks DEF WindowInv
  <1>5. /\ InFlight(Before) \in Nat /\ InFlight(After) \in Nat
        /\ InFlight(flying) = InFlight(Before) + InFlight(After)
    BY FlyingSplit DEF WindowInv
  <1>6. /\ prr'.sent = prr.sent /\ prr'.flight = prr.flight
        /\ prr'.delivered =
             IF Recovering' THEN prr.delivered + Size[p] ELSE prr.delivered
    BY <1>1 DEF PrrReceivedAck, PrrState, WindowInv, StateTypes
  <1>7. Recovering' => p <= cutback /\ largeAcked <= cutback /\ cutback # 0
    BY <1>1, <1>2, <1>3 DEF Recovering
  <1>8. (largeSent # 0 => \A q \in Sent : q <= largeSent)'
    BY <1>1, LandedKeepsSent DEF DrainInv
  <1>9. ASSUME cutback # 0
        PROVE  /\ InFlight(Before)' + prr'.delivered <= prr'.flight
               /\ InFlight(After)' <= prr'.sent + unpaced'
    <2>1. InFlight(Before) + prr.delivered <= prr.flight
          /\ InFlight(After) <= prr.sent + unpaced
      BY <1>9 DEF DrainInv
    <2>2. InFlight(After)' <= prr'.sent + unpaced'
      BY <1>1, <1>4, <1>5, <1>6, <2>1, DrainTypes
    <2>3. CASE Recovering'
      <3>1. InFlight(Before) = InFlight(Before)' + Size[p]
        BY <1>4, <1>7, <2>3
      <3>2. prr'.delivered = prr.delivered + Size[p]
        BY <1>6, <2>3
      <3> QED
        BY <1>2, <1>4, <1>6, <2>1, <2>2, <3>1, <3>2, DrainTypes
    <2>4. CASE ~ Recovering'
      <3>1. prr'.delivered = prr.delivered
        BY <1>6, <2>4
      <3> QED
        BY <1>4, <1>5, <1>6, <2>1, <2>2, <3>1, DrainTypes
    <2> QED
      BY <2>3, <2>4
  <1>10. ASSUME cutback # 0, largeAcked' <= cutback
         PROVE  threshold' = cwnd'
    <2>1. Recovering'
      BY <1>1, <1>3, <1>10 DEF Recovering
    <2> QED
      BY <1>1, <1>7, <1>10, <2>1 DEF DrainInv
  <1>11. RecoveryDrains'
    <2> SUFFICES ASSUME Recovering'
                 PROVE  InFlight(flying)'
                          <= Larger(Larger(cwnd, Mss), prr.flight) + unpaced + Mss
      BY <1>1, <1>6 DEF RecoveryDrains
    <2>1. CASE largeAcked # 0
      <3>1. Recovering
        BY <1>7, <2>1 DEF Recovering
      <3> QED
        BY <1>4, <1>5, <3>1, DrainTypes DEF DrainInv, RecoveryDrains
    <2>2. CASE largeAcked = 0
      <3>1. /\ InFlight(Before) + prr.delivered <= prr.flight
            /\ InFlight(After) <= unpaced
        BY <1>7, <2>2, DrainTypes DEF DrainInv
      <3> QED
        BY <1>4, <1>5, <3>1, DrainTypes
    <2> QED
      BY <2>1, <2>2
  <1> QED
    BY <1>1, <1>3, <1>8, <1>9, <1>10, <1>11 DEF DrainInv

LEMMA DrainLoss ==
  ASSUME NoReduction, AllRetransmittable, WindowInv, DrainInv, NEW p \in Packets,
         NEW flight \in Flight(p), Loss(p, flight)
  PROVE  DrainInv'
  <1>1. Landed(p) /\ lost' = lost \cup {p} /\ acked' = acked
    BY DEF Loss
  <1>2. Sent' = Sent
    BY <1>1, LandedKeepsSent
  <1>3. CASE LossBeforeCut(p)
    <2>1. UNCHANGED <<cwnd, threshold, largeSent, largeAcked, cutback, prr, unpaced>>
      BY <1>3 DEF LossBeforeCut, NoReduction, numbers, epoch
    <2>2. /\ InFlight(Before)' \in Nat /\ InFlight(Before)' <= InFlight(Before)
          /\ InFlight(After)' \in Nat /\ InFlight(After)' <= InFlight(After)
          /\ InFlight(flying)' \in Nat /\ InFlight(flying)' <= InFlight(flying)
      BY <1>1, <2>1, FlyingShrinks DEF WindowInv
    <2>3. /\ InFlight(Before) \in Nat /\ InFlight(After) \in Nat
          /\ InFlight(flying) \in Nat
      BY FlyingSplit DEF WindowInv
    <2>4. Recovering' = Recovering
      BY <2>1 DEF Recovering
    <2>5. RecoveryDrains'
      BY <2>1, <2>2, <2>3, <2>4, DrainTypes DEF DrainInv, RecoveryDrains
    <2>6. cutback # 0 => /\ InFlight(Before)' + prr.delivered <= prr.flight
                         /\ InFlight(After)' <= prr.sent + unpaced
      BY <2>2, <2>3, DrainTypes DEF DrainInv
    <2> QED
      BY <1>2, <2>1, <2>5, <2>6 DEF DrainInv
  <1>4. CASE LossAfterCut(p, flight)
    <2>1. /\ cutback' = largeSent /\ threshold' = cwnd' /\ unpaced' = 0
          /\ prr' = [sent |-> 0, delivered |-> 0, acked |-> 0, flight |-> flight]
          /\ UNCHANGED <<largeSent, largeAcked>>
      BY <1>4 DEF LossAfterCut, CutBound, PrrPacketLoss, PrrInit
    <2>2. /\ flying' = flying \ {p} /\ flying \subseteq Packets
          /\ flying' \subseteq Nat /\ flying' \subseteq Sent /\ largeSent \in Nat
      BY <1>1, NaturalNumbers DEF Landed, WindowInv, Sent
    <2>3. InFlight(flying') \in Nat /\ InFlight(flying') <= flight /\ flight \in Nat
      <3>1. flight \in {InFlight(flying), InFlight(flying \ {p})}
        BY DEF Flight
      <3> QED
        BY <2>2, <3>1, FlightDrops
    <2>4. ASSUME largeSent # 0
          PROVE  Before' = flying' /\ After' = {}
      <3>1. \A q \in flying' : q <= largeSent /\ ~ (q > largeSent)
        BY <2>2, <2>4 DEF DrainInv
      <3> QED
        BY <2>1, <3>1 DEF Before, After
    <2>5. InFlight({}) = 0
      BY BytesOfNone DEF InFlight
    <2>6. ASSUME largeSent # 0
          PROVE  /\ InFlight(Before)' + prr'.delivered <= prr'.flight
                 /\ InFlight(After)' <= prr'.sent + unpaced'
      <3>1. InFlight(Before)' = InFlight(flying') /\ InFlight(After)' = InFlight({})
        BY <2>4, <2>6 DEF InFlight, Bytes
      <3> QED
        BY <2>1, <2>3, <2>5, <3>1
    <2>7. RecoveryDrains'
      <3>1. cwnd' \in Nat /\ Mss \in Nat
        BY <1>4, ReducedBounds, MssPositive DEF LossAfterCut, NoReduction
      <3>2. InFlight(flying)' = InFlight(flying')
        BY DEF InFlight, Bytes
      <3>3. InFlight(flying') <= Larger(Larger(cwnd', Mss), flight) + 0 + Mss
        BY <2>3, <3>1 DEF Larger
      <3> QED
        BY <2>1, <3>2, <3>3 DEF RecoveryDrains
    <2> QED
      BY <1>2, <2>1, <2>6, <2>7 DEF DrainInv
  <1> QED
    BY <1>3, <1>4 DEF Loss

LEMMA DrainStep ==
  NoReduction /\ AllRetransmittable /\ WindowInv /\ DrainInv /\ [Next]_vars => DrainInv'
  <1> SUFFICES ASSUME NoReduction, AllRetransmittable, WindowInv, DrainInv, [Next]_vars
               PROVE  DrainInv'
    OBVIOUS
  <1>1. WindowInv'
    BY WindowStep
  <1>2. ASSUME UNCHANGED <<cwnd, numbers, packets, prr, epoch>>,
               threshold' \in {threshold, cwnd}
        PROVE  DrainInv'
    <2>1. UNCHANGED <<Sent, Before, After, Recovering>>
      BY <1>2 DEF packets, numbers, Sent, Before, After, Recovering
    <2>2. UNCHANGED <<InFlight(Before), InFlight(After), InFlight(flying)>>
      BY <1>2, <2>1 DEF InFlight, Bytes, packets
    <2>3. UNCHANGED <<cwnd, largeSent, largeAcked, cutback, prr, unpaced>>
      BY <1>2 DEF numbers, epoch
    <2>4. RecoveryDrains'
      BY <2>1, <2>2, <2>3 DEF DrainInv, RecoveryDrains
    <2>5. (cutback # 0 /\ largeAcked <= cutback => threshold = cwnd)'
      BY <1>2, <2>3 DEF DrainInv
    <2> QED
      BY <2>1, <2>2, <2>3, <2>4, <2>5 DEF DrainInv
  <1>3. ASSUME NEW retransed \in BOOLEAN, RetransmissionTimeout(retransed)
        PROVE  DrainInv'
    <2>1. cutback' = 0 /\ UNCHANGED <<largeSent, largeAcked, packets, prr>>
      BY <1>3 DEF RetransmissionTimeout
    <2>2. Sent' = Sent
      BY <2>1 DEF packets, Sent
    <2>3. ~ Recovering'
      BY <1>1, <2>1, NaturalNumbers DEF WindowInv, NumbersInv, Recovering, Sent, packets
    <2> QED
      BY <2>1, <2>2, <2>3 DEF DrainInv, RecoveryDrains
  <1>4. ASSUME CongestionReset PROVE DrainInv'
    BY <1>4 DEF CongestionReset, DrainInv, RecoveryDrains, Recovering, PrrInit
  <1>5. CASE UNCHANGED vars
    BY <1>2, <1>5 DEF vars, window
  <1>6. ASSUME NEW n \in Rtts, TrySlowStart(n) PROVE DrainInv'
    BY <1>2, <1>6 DEF TrySlowStart
  <1>7. CASE Next
    BY <1>3, <1>4, <1>6, <1>7, DrainSent, DrainAcked, DrainLoss DEF Next
  <1> QED
    BY <1>5, <1>7

(* While the sender recovers, prr_check_send keeps what is in flight below *)
(* the largest of cwnd, a segment and what was in flight at the loss: one  *)
(* packet more at the most, and what was sent uncounted before the first   *)
(* acknowledgement.  The acknowledgements prr_received_ack counts are of   *)
(* packets in flight: every packet has is_retrans set.                     *)
THEOREM FlightDrains == NoReduction /\ AllRetransmittable => (Spec => []RecoveryDrains)
  <1> SUFFICES ASSUME NoReduction, AllRetransmittable PROVE Spec => []RecoveryDrains
    OBVIOUS
  <1>1. WindowInv /\ DrainInv /\ [Next]_vars => DrainInv'
    BY DrainStep
  <1>2. DrainInv => RecoveryDrains
    BY DEF DrainInv
  <1>3. Spec => []WindowInv
    BY WindowInvariant
  <1> QED
    BY <1>1, <1>2, <1>3, DrainInit, PTL DEF Spec

-----------------------------------------------------------------------------
(* The estimator the controller reads, and slow start over its samples.    *)

LEMMA EstimatorStep == RttInv /\ [Next]_vars => RttInv'
  <1> SUFFICES ASSUME RttInv, [Next]_vars PROVE RttInv'
    OBVIOUS
  <1>1. [RttNext]_rttVars
    BY DEF Next, vars, OnSent, ReceivedAcked, Loss, TrySlowStart, RetransmissionTimeout,
           CongestionReset, RttNext, rttVars
  <1> QED
    BY <1>1, RttStep

LEMMA EstimatorInvariant == Spec => []RttInv
  <1>1. Init => RttInv
    BY RttInitInv DEF Init
  <1> QED
    BY <1>1, EstimatorStep, PTL DEF Spec

(* Between the controller's calls the estimator is given samples by        *)
(* nobody else: its bounds hold in the composed system.                    *)
THEOREM SharedEstimates == Spec => []EstimatesInRange
  <1>1. RttInv => EstimatesInRange
    BY DEF RttInv, EstimatesInRange
  <1> QED
    BY EstimatorInvariant, <1>1, PTL

(* What the samples of a round have shown: as many slow ones as there are, *)
(* or one whose delay keeps the round's minimum low.                       *)
Shown(s, seen) ==
  \/ s.samples <= seen
  \/ 0 < s.minRtt /\ s.minRtt <= RttMin + Threshold

SlowSeenInv ==
  /\ slow \in SlowState /\ slowSeen \in Nat
  /\ measured = 0 \/ least > 0 =>
       /\ slow.found => slowSeen >= MinSamples
       /\ slow.started /\ ~ slow.found /\ slow.samples < MinSamples =>
            Shown(slow, slowSeen)

(* A sample in slow start, of a time that is not 0.                        *)
LEMMA SampleShown ==
  ASSUME NEW s \in SlowState, NEW seen \in Nat, NEW n \in Nat \ {0},
         s.found => seen >= MinSamples,
         s.started /\ ~ s.found /\ s.samples < MinSamples => Shown(s, seen)
  PROVE  LET r == SlowStartReceivedAck(s, n, RttMin)
             after == IF n > RttMin + Threshold THEN seen + 1 ELSE seen
         IN /\ r.found => after >= MinSamples
            /\ r.started /\ ~ r.found /\ r.samples < MinSamples => Shown(r, after)
  <1> DEFINE round == IF s.started THEN s ELSE SlowStartRound(s)
             after == IF n > RttMin + Threshold THEN seen + 1 ELSE seen
             r == SlowStartReceivedAck(s, n, RttMin)
  <1>1. RttMin + Threshold \in Nat /\ MinSamples \in Nat \ {0}
    BY TimeoutAssumption, ThresholdAssumption, SamplesAssumption
  <1>2. /\ round \in SlowState /\ round.found = s.found
        /\ ~ round.found /\ round.samples < MinSamples => Shown(round, seen)
    <2>1. CASE s.started
      BY <2>1
    <2>2. CASE ~ s.started
      <3>1. round = [s EXCEPT !.minRtt = 0, !.samples = 0, !.started = TRUE,
                              !.endPnum = s.lastSend]
        BY <2>2 DEF SlowStartRound
      <3> HIDE DEF round
      <3>2. round \in SlowState /\ round.found = s.found /\ round.samples = 0
        BY <3>1 DEF SlowState
      <3> QED
        BY <3>2 DEF Shown
    <2> QED
      BY <2>1, <2>2
  <1>3. after \in Nat /\ seen <= after
    BY <1>1
  <1>4. CASE round.found
    <2>1. r = round
      BY <1>4 DEF SlowStartReceivedAck
    <2> QED
      BY <1>1, <1>2, <1>3, <1>4, <2>1
  <1>5. CASE ~ round.found
    <2> DEFINE k == round.samples + 1
               low == IF k <= MinSamples /\ (round.minRtt = 0 \/ round.minRtt > n)
                      THEN n ELSE round.minRtt
               found == k = MinSamples /\ low > RttMin + Threshold
    <2>1. r = SlowStartSample(round, n, RttMin)
      BY <1>5 DEF SlowStartReceivedAck
    <2>2. /\ round.samples \in Nat /\ round.minRtt \in Nat /\ k \in Nat
          /\ low \in Nat
      BY <1>2 DEF SlowState
    <2>3. r.samples = k /\ r.minRtt = low /\ r.found = (round.found \/ found)
      BY <1>2, <2>1 DEF SlowStartSample, SlowState
    <2>4. r.found <=> found
      BY <1>5, <2>3
    <2>5. k <= MinSamples => 0 < low /\ low <= n /\ (round.minRtt # 0 => low <= round.minRtt)
      BY <2>2
    <2> HIDE DEF round, r
    <2>6. ASSUME found PROVE after >= MinSamples
      <3>1. round.samples < MinSamples /\ low > RttMin + Threshold /\ k = MinSamples
        BY <1>1, <2>2, <2>6
      <3>2. ~ (0 < round.minRtt /\ round.minRtt <= RttMin + Threshold)
        BY <1>1, <2>2, <2>5, <3>1
      <3>3. round.samples <= seen
        BY <1>2, <1>5, <3>1, <3>2 DEF Shown
      <3>4. n > RttMin + Threshold
        BY <1>1, <2>2, <2>5, <3>1
      <3>5. after = seen + 1
        BY <3>4
      <3> QED
        BY <1>1, <2>2, <3>1, <3>3, <3>5
    <2>7. ASSUME k < MinSamples
          PROVE  k <= after \/ (0 < low /\ low <= RttMin + Threshold)
      <3>1. round.samples < MinSamples
        BY <1>1, <2>2, <2>7
      <3>2. \/ round.samples <= seen
            \/ 0 < round.minRtt /\ round.minRtt <= RttMin + Threshold
        BY <1>2, <1>5, <3>1 DEF Shown
      <3> QED
        BY <1>1, <2>2, <2>5, <2>7, <3>2
    <2> HIDE DEF k, low, found, after
    <2>8. r.found => after >= MinSamples
      BY <2>4, <2>6
    <2>9. r.samples < MinSamples => Shown(r, after)
      BY <2>3, <2>7 DEF Shown
    <2> QED
      BY <2>8, <2>9 DEF r, after
  <1> QED
    BY <1>4, <1>5

LEMMA SlowSeenInit == Init => SlowSeenInv
  BY DEF Init, SlowSeenInv, SlowStartInit, SlowState

LEMMA SlowSeenSample ==
  ASSUME RttInv, SlowSeenInv, NEW n \in Rtts, TrySlowStart(n)
  PROVE  SlowSeenInv'
  <1>1. n \in Nat /\ RttMin \in Nat /\ rtt'.last = n
    BY RttAssumption, TimeoutAssumption DEF TrySlowStart, Measure, RttUpdated
  <1>2. measured \in Nat /\ least \in Nat /\ measured' # 0
    BY DEF RttInv, RttTypeOK, TrySlowStart, Measure
  <1>3. least' > 0 => n > 0 /\ (measured = 0 \/ least > 0)
    BY <1>1, <1>2 DEF TrySlowStart, Measure
  <1>4. slow \in SlowState /\ slowSeen \in Nat
    BY DEF SlowSeenInv
  <1>5. CASE InSlowStart
    <2>1. /\ slow' = SlowStartReceivedAck(slow, n, RttMin)
          /\ slowSeen' = IF n > RttMin + Threshold THEN slowSeen + 1 ELSE slowSeen
      BY <1>1, <1>5 DEF TrySlowStart
    <2>2. slow' \in SlowState /\ slowSeen' \in Nat
      BY <1>1, <1>4, <2>1, SampleTypes
    <2>3. ASSUME least' > 0
          PROVE  /\ slow'.found => slowSeen' >= MinSamples
                 /\ slow'.started /\ ~ slow'.found /\ slow'.samples < MinSamples =>
                      Shown(slow', slowSeen')
      <3>1. /\ slow.found => slowSeen >= MinSamples
            /\ slow.started /\ ~ slow.found /\ slow.samples < MinSamples =>
                 Shown(slow, slowSeen)
        BY <1>3, <2>3 DEF SlowSeenInv
      <3>2. n \in Nat \ {0}
        BY <1>1, <1>3, <2>3
      <3> QED
        BY <1>4, <2>1, <3>1, <3>2, SampleShown
    <2> QED
      BY <1>2, <2>2, <2>3 DEF SlowSeenInv, Shown
  <1>6. CASE ~ InSlowStart
    <2>1. UNCHANGED <<slow, slowSeen>>
      BY <1>6 DEF TrySlowStart
    <2> QED
      BY <1>2, <1>3, <2>1 DEF SlowSeenInv, Shown
  <1> QED
    BY <1>5, <1>6

LEMMA SlowSeenStep == RttInv /\ SlowSeenInv /\ [Next]_vars => SlowSeenInv'
  <1> SUFFICES ASSUME RttInv, SlowSeenInv, [Next]_vars PROVE SlowSeenInv'
    OBVIOUS
  <1>1. ASSUME UNCHANGED <<slowSeen, rttVars>>, slow' \in SlowState,
               \/ slow' = slow
               \/ slow' = [slow EXCEPT !.lastSend = slow'.lastSend]
               \/ slow' = [slow EXCEPT !.started = FALSE]
        PROVE  SlowSeenInv'
    BY <1>1 DEF SlowSeenInv, rttVars, Shown, SlowState
  <1>2. ASSUME NEW p \in Packets, OnSent(p) PROVE SlowSeenInv'
    <2>1. slow' = slow \/ slow' = [slow EXCEPT !.lastSend = p]
      BY <1>2 DEF OnSent
    <2>2. slow' \in SlowState /\ (slow' = slow \/ slow'.lastSend = p)
      BY <2>1 DEF SlowSeenInv, SlowState
    <2> QED
      BY <1>1, <1>2, <2>1, <2>2 DEF OnSent
  <1>3. ASSUME NEW p \in Packets, NEW flight, NEW age, ReceivedAcked(p, flight, age)
        PROVE  SlowSeenInv'
    <2>1. slow' = slow \/ slow' = [slow EXCEPT !.started = FALSE]
      BY <1>3 DEF ReceivedAcked
    <2>2. slow' \in SlowState
      BY <2>1 DEF SlowSeenInv, SlowState
    <2> QED
      BY <1>1, <1>3, <2>1, <2>2 DEF ReceivedAcked
  <1>4. ASSUME NEW p \in Packets, NEW flight, Loss(p, flight) PROVE SlowSeenInv'
    BY <1>1, <1>4 DEF Loss, SlowSeenInv
  <1>5. ASSUME slow' = SlowStartRestart(slow), slowSeen' = 0, UNCHANGED rttVars
        PROVE  SlowSeenInv'
    <2>1. slow' \in SlowState /\ ~ slow'.started /\ ~ slow'.found
      BY <1>5 DEF SlowSeenInv, SlowState, SlowStartRestart
    <2> QED
      BY <1>5, <2>1 DEF SlowSeenInv
  <1>6. ASSUME NEW retransed \in BOOLEAN, RetransmissionTimeout(retransed)
        PROVE  SlowSeenInv'
    BY <1>1, <1>5, <1>6 DEF RetransmissionTimeout, SlowSeenInv
  <1>7. ASSUME CongestionReset PROVE SlowSeenInv'
    BY <1>5, <1>7 DEF CongestionReset
  <1>8. CASE UNCHANGED vars
    BY <1>1, <1>8 DEF vars, SlowSeenInv
  <1>9. CASE Next
    BY <1>2, <1>3, <1>4, <1>6, <1>7, <1>9, SlowSeenSample DEF Next
  <1> QED
    BY <1>8, <1>9

(* hybrid_slow_start_received_ack reports a delay only after as many slow  *)
(* samples as a round needs: a round's minimum is slow when each of its    *)
(* samples was, and an abandoned round leaves nothing to the next one.     *)
THEOREM DelayExitEarned == Spec => []DelayExitNeedsSamples
  <1>1. SlowSeenInv => DelayExitNeedsSamples
    BY DEF SlowSeenInv, DelayExitNeedsSamples
  <1> QED
    BY <1>1, SlowSeenInit, SlowSeenStep, EstimatorInvariant, PTL DEF Spec

-----------------------------------------------------------------------------
(* Leaving slow start.  In a cubic epoch the window is no larger than what *)
(* the epoch asks for, which only grows.                                   *)
LeftInv ==
  /\ InSlowStart => ~ cubic.started
  /\ cubic.started => cwnd <= CubicTarget(cubic, Mss)

(* The first ACK of an epoch asks for a segment and 21/13 windows.         *)
LEMMA FirstGrowth ==
  ASSUME NEW w \in Nat, NEW m \in Nat \ {0}
  PROVE  (21 * w * m) \div (13 * m) >= w
  <1> DEFINE a == 21 * w * m
             b == 13 * m
             q == a \div b
  <1>1. a \in Nat /\ b \in Nat \ {0} /\ q \in Nat
    <2>1. 21 * w \in Nat /\ 13 * m \in Nat \ {0}
      OBVIOUS
    <2>2. a \in Nat /\ b \in Nat \ {0}
      BY <2>1, ProductType
    <2> HIDE DEF a, b
    <2> QED
      BY <2>2, QuotientType
  <1>2. a < b * (q + 1)
    <2> HIDE DEF a, b
    <2> QED
      BY <1>1, QuotientBound DEF q
  <1>3. a >= b * w
    <2>1. a = 21 * (w * m) /\ b * w = 13 * (w * m)
      OBVIOUS
    <2>2. w * m \in Nat
      BY ProductType
    <2> QED
      BY <2>1, <2>2
  <1> HIDE DEF a, b, q
  <1>4. b * w < b * (q + 1)
    BY <1>1, <1>2, <1>3
  <1>5. w < q + 1
    BY <1>1, <1>4
  <1>6. q >= w
    BY <1>1, <1>5
  <1> QED
    BY <1>6 DEF q, a, b

(* An ACK of a full packet does not narrow the window: a new epoch asks    *)
(* for more, and a running one for no less than before.                    *)
LEMMA GrowthKeepsWindow ==
  ASSUME WindowInv, LeftInv, NEW age \in Nat, AgeNow(age), cwnd < MaxCwnd,
         GrowCubic(Mss, age)
  PROVE  /\ cwnd <= cwnd'
         /\ cwnd' <= CubicTarget(cubic', Mss)
  <1> DEFINE c == CubicReceivedAck(cubic, Mss, cwnd, Mss, age)
  <1>1. cwnd \in Nat \ {0} /\ Mss \in Nat \ {0} /\ MaxCwnd \in Nat
    BY WindowPositive, WindowConstants
  <1>2. cubic \in CubicState /\ EpochInv
    BY DEF WindowInv, StateTypes
  <1>3. /\ c \in CubicState /\ c.age = age /\ c.origin = Mss
        /\ CubicTarget(c, Mss) \in Nat
        /\ ~ cubic.started => c.cwnd = Mss + (21 * cwnd * Mss) \div (13 * Mss)
        /\ cubic.started => c.cwnd >= cubic.cwnd
    <2>1. Mss \in Nat /\ cwnd \in Nat
      BY <1>1
    <2>2. /\ c \in CubicState
          /\ c.started /\ c.age = age /\ c.origin = Mss
          /\ c.cwnd >= Mss
          /\ CubicTarget(c, Mss) \in Nat
          /\ CubicTarget(c, Mss) >= Mss
          /\ ~ cubic.started => c.cwnd = Mss + (21 * cwnd * Mss) \div (13 * Mss)
          /\ cubic.started => c.cwnd >= cubic.cwnd
      BY <1>2, <2>1, EpochStep, Zenon
    <2> QED
      BY <2>2, Zenon
  <1>4. cubic' = c /\ cwnd' = Smaller(CubicTarget(c, Mss), MaxCwnd)
    BY DEF GrowCubic
  <1> HIDE DEF c
  <1>5. c.cwnd \in Nat /\ c.age * Mss \in Nat
    BY <1>1, <1>3, ProductType DEF CubicState
  <1>6. cwnd <= CubicTarget(c, Mss)
    <2>1. CASE cubic.started
      <3>1. /\ cubic.age \in Nat /\ cubic.cwnd \in Nat /\ cubic.age <= age
            /\ cubic.origin = Mss
        BY <1>2, <2>1 DEF CubicState, EpochInv, AgeNow
      <3>2. cubic.age * Mss \in Nat /\ cubic.age * Mss <= age * Mss
        BY <1>1, <3>1
      <3>3. cwnd <= CubicTarget(cubic, Mss)
        BY <2>1 DEF LeftInv
      <3> QED
        BY <1>1, <1>3, <1>5, <2>1, <3>1, <3>2, <3>3 DEF CubicTarget
    <2>2. CASE ~ cubic.started
      <3>1. (21 * cwnd * Mss) \div (13 * Mss) >= cwnd
        BY <1>1, FirstGrowth
      <3> DEFINE q == (21 * cwnd * Mss) \div (13 * Mss)
      <3>2. q >= cwnd /\ c.cwnd = Mss + q
        BY <1>3, <2>2, <3>1
      <3>3. q \in Nat
        <4>1. 21 * cwnd \in Nat /\ 13 * Mss \in Nat \ {0}
          BY <1>1
        <4>2. 21 * cwnd * Mss \in Nat
          BY <1>1, <4>1, ProductType
        <4> QED
          BY <4>1, <4>2, QuotientType
      <3> HIDE DEF q
      <3>4. cwnd <= c.cwnd
        BY <1>1, <3>2, <3>3
      <3> QED
        BY <1>1, <1>3, <1>5, <3>4 DEF CubicTarget
    <2> QED
      BY <2>1, <2>2
  <1> QED
    BY <1>1, <1>3, <1>4, <1>6 DEF Smaller

(* Each branch of __increase_cwnd, and the window held in recovery.        *)
LEMMA LeftAcked ==
  ASSUME FullPackets, WindowInv, LeftInv, NEW p \in Packets, NEW flight,
         NEW age \in Ages, ReceivedAcked(p, flight, age)
  PROVE  LeftInv' /\ (~ InSlowStart => ~ InSlowStart')
  <1>1. UNCHANGED threshold /\ AgeNow(age) /\ age \in Nat /\ Size[p] = Mss
    BY TimeAssumption DEF ReceivedAcked, FullPackets
  <1>2. cwnd \in Nat /\ threshold \in Nat /\ cubic \in CubicState /\ Mss \in Nat
    BY MssPositive DEF WindowInv, StateTypes
  <1>3. CASE UNCHANGED <<cwnd, cubic>>
    BY <1>1, <1>3 DEF LeftInv, InSlowStart, CubicTarget
  <1>4. CASE cubic' = [cubic EXCEPT !.started = FALSE] /\ UNCHANGED cwnd
    <2>1. ~ cubic'.started
      BY <1>2, <1>4 DEF CubicState
    <2> QED
      BY <1>1, <1>4, <2>1 DEF LeftInv, InSlowStart
  <1>5. CASE InSlowStart /\ UNCHANGED cubic
    BY <1>5 DEF LeftInv
  <1>6. CASE ~ InSlowStart /\ cwnd < MaxCwnd /\ GrowCubic(Mss, age)
    <2>1. cwnd <= cwnd' /\ cwnd' <= CubicTarget(cubic', Mss)
      BY <1>1, <1>6, GrowthKeepsWindow
    <2>2. cwnd' \in Nat
      <3>1. CubicTarget(CubicReceivedAck(cubic, Mss, cwnd, Mss, age), Mss) \in Nat
        BY <1>1, <1>2, EpochStep DEF WindowInv
      <3> QED
        BY <1>6, <3>1, WindowConstants DEF GrowCubic, Smaller
    <2>3. ~ InSlowStart'
      BY <1>1, <1>2, <1>6, <2>1, <2>2 DEF InSlowStart
    <2> QED
      BY <2>1, <2>3 DEF LeftInv
  <1>7. \/ UNCHANGED <<cwnd, cubic>>
        \/ cubic' = [cubic EXCEPT !.started = FALSE] /\ UNCHANGED cwnd
        \/ InSlowStart /\ UNCHANGED cubic
        \/ ~ InSlowStart /\ cwnd < MaxCwnd /\ GrowCubic(Mss, age)
    BY <1>1, <1>2, WindowConstants DEF ReceivedAcked, IncreaseCwnd
  <1> QED
    BY <1>3, <1>4, <1>5, <1>6, <1>7

LEMMA LeftInit == Init => LeftInv
  BY DEF Init, LeftInv, CubicInit

LEMMA LeftStep ==
  NoReduction /\ FullPackets /\ WindowInv /\ LeftInv /\ [Next]_vars => LeftInv'
  <1> SUFFICES ASSUME NoReduction, FullPackets, WindowInv, LeftInv, [Next]_vars
               PROVE  LeftInv'
    OBVIOUS
  <1>1. ASSUME UNCHANGED <<cwnd, cubic>>, threshold' \in {threshold, cwnd}
        PROVE  LeftInv'
    BY <1>1 DEF LeftInv, InSlowStart, CubicTarget, WindowInv, StateTypes
  <1>2. ASSUME ~ cubic'.started PROVE LeftInv'
    BY <1>2 DEF LeftInv
  <1>3. ASSUME NEW p \in Packets, OnSent(p) PROVE LeftInv'
    BY <1>1, <1>3 DEF OnSent, window
  <1>4. ASSUME NEW p \in Packets, NEW flight, Loss(p, flight) PROVE LeftInv'
    <2>1. CASE LossBeforeCut(p)
      BY <1>1, <2>1 DEF LossBeforeCut, NoReduction
    <2>2. CASE LossAfterCut(p, flight)
      <3>1. cubic' = CubicPacketLoss(cubic, cwnd) /\ cubic \in CubicState
        BY <2>2 DEF LossAfterCut, NoReduction, WindowInv, StateTypes
      <3> QED
        BY <1>2, <3>1 DEF CubicPacketLoss, CubicState
    <2> QED
      BY <1>4, <2>1, <2>2 DEF Loss
  <1>5. ASSUME NEW n \in Rtts, TrySlowStart(n) PROVE LeftInv'
    BY <1>1, <1>5 DEF TrySlowStart
  <1>6. ASSUME NEW retransed \in BOOLEAN, RetransmissionTimeout(retransed) PROVE LeftInv'
    BY <1>1, <1>2, <1>6 DEF RetransmissionTimeout, CubicInit
  <1>7. ASSUME CongestionReset PROVE LeftInv'
    BY <1>2, <1>7 DEF CongestionReset, CubicInit
  <1>8. CASE UNCHANGED vars
    BY <1>1, <1>8 DEF vars, window
  <1>9. CASE Next
    BY <1>3, <1>4, <1>5, <1>6, <1>7, <1>9, LeftAcked DEF Next
  <1> QED
    BY <1>8, <1>9

(* When every packet is full, no acknowledgement leads back into slow      *)
(* start: __increase_cwnd takes what cubic_received_ack asks for, which is *)
(* never less than the window it is given.                                 *)
THEOREM SlowStartStaysLeft ==
  NoReduction /\ FullPackets => (Spec => SlowStartLeft)
  <1> SUFFICES ASSUME NoReduction, FullPackets PROVE Spec => SlowStartLeft
    OBVIOUS
  <1>1. WindowInv /\ LeftInv /\ [Next]_vars => LeftInv'
    BY LeftStep
  <1>2. WindowInv /\ LeftInv /\ [Next]_vars =>
          [acked' # acked /\ ~ InSlowStart => ~ InSlowStart']_vars
    <2> SUFFICES ASSUME WindowInv, LeftInv, Next, acked' # acked
                 PROVE  ~ InSlowStart => ~ InSlowStart'
      BY DEF vars
    <2>1. PICK p \in Packets, age \in Ages : \E flight : ReceivedAcked(p, flight, age)
      BY DEF Next, packets, OnSent, Loss, TrySlowStart, RetransmissionTimeout,
             CongestionReset
    <2> QED
      BY <2>1, LeftAcked
  <1>3. Spec => []WindowInv
    BY WindowInvariant
  <1> QED
    BY <1>1, <1>2, <1>3, LeftInit, PTL DEF Spec, SlowStartLeft
=============================================================================
