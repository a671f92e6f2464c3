--------------------------- MODULE AckExchangeProofs ---------------------------
(***************************************************************************)
(* Theorems about ReceivedHistory, for every modulus and every set of      *)
(* packet numbers, and about the frames that AckExchange makes of it, for  *)
(* every width of a byte and every list of blocks.                         *)
(***************************************************************************)
EXTENDS AckExchange, CodecProofs, FiniteSetTheorems

-----------------------------------------------------------------------------
(* What a reception does to the list, element by element.                  *)

(* A node for p alone becomes the k-th of the list.                        *)
Inserted(k, p) ==
  /\ Len(ranges') = Len(ranges) + 1
  /\ \A j \in 1 .. Len(ranges) + 1 :
       ranges'[j] = IF j < k THEN ranges[j]
                    ELSE IF j = k THEN Single(p) ELSE ranges[j - 1]
  /\ k > 1 => p > ranges[k - 1].max /\ ~ Adjacent(ranges[k - 1], p)
  /\ \A j \in k .. Len(ranges) : ~ Concerns(ranges[j], p)

(* The i-th node is the one the walk stretches.                            *)
StretchesAt(i, p) ==
  /\ ~ Within(ranges[i], p)
  /\ Adjacent(ranges[i], p)
  /\ \A j \in i + 1 .. Len(ranges) : ~ Concerns(ranges[j], p)

Stretched(i, p) ==
  /\ StretchesAt(i, p)
  /\ Len(ranges') = Len(ranges)
  /\ \A j \in 1 .. Len(ranges) :
       ranges'[j] = IF j = i THEN Stretch(ranges[i], p) ELSE ranges[j]

Merged(i, p) ==
  LET r == Stretch(ranges[i], p)
  IN /\ StretchesAt(i, p)
     /\ i > 1
     /\ Joins(ranges[i - 1], r)
     /\ Len(ranges') = Len(ranges) - 1
     /\ \A j \in 1 .. i - 2 : ranges'[j] = ranges[j]
     /\ ranges'[i - 1] = [ranges[i - 1] EXCEPT !.max = r.max]
     /\ \A j \in i .. Len(ranges) - 1 : ranges'[j] = ranges[j + 1]

LEMMA NumberNeighbours ==
  ASSUME NEW p \in Number
  PROVE  Pred(p) \in Number /\ Succ(p) \in Number /\ Single(p) \in Interval
BY ModulusAssumption DEF Number, Pred, Succ, Single, Interval

LEMMA InsertSingle ==
  ASSUME ranges \in Seq(Interval), NEW p \in Number, NEW k \in 1 .. Len(ranges) + 1
  PROVE  /\ InsertAt(ranges, k, Single(p)) \in Seq(Interval)
         /\ Len(InsertAt(ranges, k, Single(p))) = Len(ranges) + 1
         /\ \A j \in 1 .. Len(ranges) + 1 :
              InsertAt(ranges, k, Single(p))[j] =
                IF j < k THEN ranges[j]
                ELSE IF j = k THEN Single(p) ELSE ranges[j - 1]
<1>1. Single(p) \in Interval
  BY NumberNeighbours
<1> DEFINE e == Single(p)
<1>2. e \in Interval
  BY <1>1
<1> HIDE DEF e
<1>3. /\ InsertAt(ranges, k, e) \in Seq(Interval)
      /\ Len(InsertAt(ranges, k, e)) = Len(ranges) + 1
      /\ \A j \in 1 .. Len(ranges) + 1 :
           InsertAt(ranges, k, e)[j] =
             IF j < k THEN ranges[j] ELSE IF j = k THEN e ELSE ranges[j - 1]
  BY <1>2, InsertAtElements
<1> QED BY <1>3 DEF e

LEMMA StretchType ==
  ASSUME NEW p \in Number, NEW r \in Interval
  PROVE  Stretch(r, p) \in Interval
BY DEF Stretch, Interval

LEMMA EndsInNumber ==
  ASSUME ranges \in Seq(Interval), NEW i \in 1 .. Len(ranges)
  PROVE  ranges[i] \in Interval /\ ranges[i].min \in Number /\ ranges[i].max \in Number
<1>1. ranges[i] \in Interval
  OBVIOUS
<1> QED BY <1>1 DEF Interval

LEMMA ReceiveCases ==
  ASSUME TypeOK, AckFits, NEW p \in Number, RecvPacketReceived(p)
  PROVE  /\ ranges' \in Seq(Interval)
         /\ size' = Len(ranges')
         /\ \/ /\ ranges' = ranges
               /\ \E i \in 1 .. Len(ranges) : Within(ranges[i], p)
            \/ \E i \in 1 .. Len(ranges) : Stretched(i, p)
            \/ \E i \in 1 .. Len(ranges) : Merged(i, p)
            \/ \E k \in 1 .. Len(ranges) + 1 : Inserted(k, p)
<1> USE DEF TypeOK, AckFits
<1>0. Single(p) \in Interval
  BY NumberNeighbours
<1> DEFINE ins(k) == InsertAt(ranges, k, Single(p))
<1>a. ASSUME NEW k \in 1 .. Len(ranges) + 1
      PROVE  /\ ins(k) \in Seq(Interval)
             /\ Len(ins(k)) = Len(ranges) + 1
             /\ \A j \in 1 .. Len(ranges) + 1 :
                  ins(k)[j] = IF j < k THEN ranges[j]
                              ELSE IF j = k THEN Single(p) ELSE ranges[j - 1]
  BY InsertSingle
<1> HIDE DEF ins
<1>1. CASE ReceiveFirst(p)
  <2>1. ranges = <<>> /\ ranges' = Append(ranges, Single(p)) /\ size' = size + 1
    BY <1>1, EmptySeq DEF ReceiveFirst
  <2>2. Inserted(1, p)
    BY <2>1, <1>0 DEF Inserted
  <2> QED BY <2>1, <2>2, <1>0
<1>2. ASSUME NEW i \in DOMAIN ranges, ReturnsAt(i, p), ReceiveCovered(i, p)
      PROVE  /\ ranges' = ranges /\ size' = size
             /\ i \in 1 .. Len(ranges) /\ Within(ranges[i], p)
  BY <1>2 DEF ReceiveCovered
<1>3. ASSUME NEW i \in DOMAIN ranges, ReturnsAt(i, p), ReceiveExtend(i, p)
      PROVE  /\ ranges' \in Seq(Interval)
             /\ size' = Len(ranges')
             /\ i \in 1 .. Len(ranges)
             /\ Stretched(i, p) \/ Merged(i, p)
  <2> DEFINE r == Stretch(ranges[i], p)
  <2>0. i \in 1 .. Len(ranges) /\ r \in Interval
    BY StretchType
  <2>1. StretchesAt(i, p)
    BY <1>3 DEF ReturnsAt, ReceiveExtend, StretchesAt
  <2>2. CASE i > 1 /\ Joins(ranges[i - 1], r)
    <3> DEFINE t == [ranges EXCEPT ![i - 1].max = r.max]
    <3>1. ranges' = RemoveAt(t, i) /\ size' = size - 1
      BY <1>3, <2>2 DEF ReceiveExtend
    <3>2. r.max \in Number
      BY <2>0 DEF Interval
    <3>3. /\ t \in Seq(Interval) /\ Len(t) = Len(ranges)
          /\ \A j \in 1 .. Len(ranges) :
               t[j] = IF j = i - 1 THEN [ranges[j] EXCEPT !.max = r.max] ELSE ranges[j]
      <4>1. i - 1 \in 1 .. Len(ranges) /\ ranges[i - 1] \in Interval
        BY <2>0, <2>2
      <4>2. [ranges[i - 1] EXCEPT !.max = r.max] \in Interval
        BY <4>1, <3>2 DEF Interval
      <4> QED BY <4>1, <4>2
    <3> HIDE DEF t
    <3>4. /\ RemoveAt(t, i) \in Seq(Interval)
          /\ Len(RemoveAt(t, i)) = Len(t) - 1
          /\ \A j \in 1 .. Len(t) - 1 :
               RemoveAt(t, i)[j] = IF j < i THEN t[j] ELSE t[j + 1]
      BY <3>3, <2>0, RemoveAtElements
    <3>5. \A j \in 1 .. Len(ranges) - 1 :
            ranges'[j] = IF j < i THEN t[j] ELSE t[j + 1]
      BY <3>1, <3>3, <3>4
    <3>7. ASSUME NEW j \in 1 .. i - 2
          PROVE  ranges'[j] = ranges[j]
      <4>1. /\ j \in 1 .. Len(ranges) - 1 /\ j \in 1 .. Len(ranges)
            /\ j < i /\ j # i - 1
        BY <2>0
      <4>2. ranges'[j] = t[j]
        BY <4>1, <3>5
      <4>3. t[j] = ranges[j]
        BY <4>1, <3>3
      <4> QED BY <4>2, <4>3
    <3>8. ranges'[i - 1] = [ranges[i - 1] EXCEPT !.max = r.max]
      <4>1. /\ i - 1 \in 1 .. Len(ranges) - 1 /\ i - 1 \in 1 .. Len(ranges)
            /\ i - 1 < i
        BY <2>0, <2>2
      <4>2. ranges'[i - 1] = t[i - 1]
        BY <4>1, <3>5
      <4>3. t[i - 1] = [ranges[i - 1] EXCEPT !.max = r.max]
        BY <4>1, <3>3
      <4> QED BY <4>2, <4>3
    <3>9. ASSUME NEW j \in i .. Len(ranges) - 1
          PROVE  ranges'[j] = ranges[j + 1]
      <4>1. /\ j \in 1 .. Len(ranges) - 1 /\ j + 1 \in 1 .. Len(ranges)
            /\ ~ (j < i) /\ j + 1 # i - 1
        BY <2>0
      <4>2. ranges'[j] = t[j + 1]
        BY <4>1, <3>5
      <4>3. t[j + 1] = ranges[j + 1]
        BY <4>1, <3>3
      <4> QED BY <4>2, <4>3
    <3>6. Merged(i, p)
      BY <2>1, <2>2, <3>1, <3>3, <3>4, <3>7, <3>8, <3>9 DEF Merged
    <3> QED BY <3>1, <3>3, <3>4, <3>6, <2>0
  <2>3. CASE ~ (i > 1 /\ Joins(ranges[i - 1], r))
    <3>1. ranges' = [ranges EXCEPT ![i] = r] /\ size' = size
      BY <1>3, <2>3 DEF ReceiveExtend
    <3> HIDE DEF r
    <3>2. /\ ranges' \in Seq(Interval) /\ Len(ranges') = Len(ranges)
          /\ \A j \in 1 .. Len(ranges) : ranges'[j] = IF j = i THEN r ELSE ranges[j]
      BY <3>1, <2>0
    <3>3. Stretched(i, p)
      BY <3>2, <2>1 DEF Stretched, r
    <3> QED BY <3>1, <3>2, <3>3, <2>0
  <2> QED BY <2>2, <2>3
<1>4. ASSUME NEW i \in DOMAIN ranges, ReturnsAt(i, p), ReceiveAbove(i, p)
      PROVE  /\ ranges' \in Seq(Interval)
             /\ size' = Len(ranges')
             /\ i + 1 \in 1 .. Len(ranges) + 1
             /\ Inserted(i + 1, p)
  <2>1. /\ ranges' = ins(i + 1) /\ size' = size + 1
        /\ p > ranges[i].max /\ ~ Adjacent(ranges[i], p)
    BY <1>4 DEF ReceiveAbove, ins
  <2>2. i + 1 \in 1 .. Len(ranges) + 1 /\ (i + 1) - 1 = i
    OBVIOUS
  <2>3. \A j \in i + 1 .. Len(ranges) : ~ Concerns(ranges[j], p)
    BY <1>4 DEF ReturnsAt
  <2>4. /\ ranges' \in Seq(Interval)
        /\ Len(ranges') = Len(ranges) + 1
        /\ \A j \in 1 .. Len(ranges) + 1 :
             ranges'[j] = IF j < i + 1 THEN ranges[j]
                          ELSE IF j = i + 1 THEN Single(p) ELSE ranges[j - 1]
    BY <2>1, <2>2, <1>a
  <2>5. Inserted(i + 1, p)
    BY <2>1, <2>2, <2>3, <2>4 DEF Inserted
  <2> QED BY <2>1, <2>2, <2>4, <2>5
<1>5. CASE ReceiveLowest(p)
  <2>1. /\ ranges' = ins(1) /\ size' = size + 1
        /\ \A i \in 1 .. Len(ranges) : ~ Concerns(ranges[i], p)
    BY <1>5 DEF ReceiveLowest, ins
  <2>2. 1 \in 1 .. Len(ranges) + 1
    OBVIOUS
  <2>3. /\ ranges' \in Seq(Interval)
        /\ Len(ranges') = Len(ranges) + 1
        /\ \A j \in 1 .. Len(ranges) + 1 :
             ranges'[j] = IF j < 1 THEN ranges[j]
                          ELSE IF j = 1 THEN Single(p) ELSE ranges[j - 1]
    BY <2>1, <2>2, <1>a
  <2>4. Inserted(1, p)
    BY <2>1, <2>3 DEF Inserted
  <2> QED BY <2>1, <2>2, <2>3, <2>4
<1>6. \/ ReceiveFirst(p)
      \/ \E i \in DOMAIN ranges :
           /\ ReturnsAt(i, p)
           /\ ReceiveCovered(i, p) \/ ReceiveExtend(i, p) \/ ReceiveAbove(i, p)
      \/ ReceiveLowest(p)
  BY DEF RecvPacketReceived
<1>7. CASE \E i \in DOMAIN ranges :
             /\ ReturnsAt(i, p)
             /\ ReceiveCovered(i, p) \/ ReceiveExtend(i, p) \/ ReceiveAbove(i, p)
  BY <1>7, <1>2, <1>3, <1>4
<1> QED BY <1>1, <1>5, <1>6, <1>7

-----------------------------------------------------------------------------
(* What a deletion does to the list.                                       *)

(* A strictly increasing numbering of a finite set reaches all of it.      *)
LEMMA IncreasingOnto ==
  ASSUME NEW K \in SUBSET Int, IsFiniteSet(K),
         NEW f \in [1 .. Cardinality(K) -> K],
         \A i, j \in DOMAIN f : i < j => f[i] < f[j]
  PROVE  \A k \in K : \E i \in 1 .. Cardinality(K) : f[i] = k
<1> DEFINE n == Cardinality(K)
<1>1. n \in Nat
  BY FS_CardinalityType
<1>2. \A i, j \in 1 .. n : i # j => f[i] # f[j]
  <2> SUFFICES ASSUME NEW i \in 1 .. n, NEW j \in 1 .. n, i # j
               PROVE  f[i] # f[j]
    OBVIOUS
  <2>1. f[i] \in Int /\ f[j] \in Int
    OBVIOUS
  <2>2. i < j \/ j < i
    BY <1>1
  <2> QED BY <2>1, <2>2
<1>3. f \in Injection(1 .. n, K)
  BY <1>2 DEF Injection, IsInjective
<1>4. Cardinality(1 .. n) = n
  BY <1>1, FS_Interval
<1>5. f \in Surjection(1 .. n, K)
  BY <1>3, <1>4, FS_Injection
<1> QED BY <1>5 DEF Surjection

(* f lists the surviving nodes in list order, all of them and trimmed.     *)
Survivors(f, p) ==
  /\ f \in [1 .. Len(ranges') -> Kept(p)]
  /\ \A i, j \in 1 .. Len(ranges') : i < j => f[i] < f[j]
  /\ \A k \in Kept(p) : \E i \in 1 .. Len(ranges') : f[i] = k
  /\ \A i \in 1 .. Len(ranges') : ranges'[i] = Trimmed(f[i], p)

LEMMA TrimmedType ==
  ASSUME ranges \in Seq(Interval), NEW p \in Number, NEW i \in 1 .. Len(ranges)
  PROVE  Trimmed(i, p) \in Interval
<1>1. ranges[i] \in Interval
  OBVIOUS
<1> QED BY <1>1 DEF Trimmed, Interval

LEMMA DeleteCases ==
  ASSUME TypeOK, AckFits, NEW p \in Number, DeleteWalk(p)
  PROVE  /\ ranges' \in Seq(Interval)
         /\ size' = Len(ranges')
         /\ \E f : Survivors(f, p)
<1>0. /\ \E f \in [1 .. Cardinality(Kept(p)) -> Kept(p)] :
           /\ \A i, j \in DOMAIN f : i < j => f[i] < f[j]
           /\ ranges' = [i \in DOMAIN f |-> Trimmed(f[i], p)]
      /\ size' = size - (Len(ranges) - Cardinality(Kept(p)))
  BY Zenon DEF DeleteWalk
<1> USE DEF TypeOK, AckFits
<1> DEFINE n == Cardinality(Kept(p))
<1>1. Kept(p) \subseteq 1 .. Len(ranges)
  BY DEF Kept
<1>2. IsFiniteSet(Kept(p)) /\ n \in Nat
  <2>1. IsFiniteSet(1 .. Len(ranges))
    BY FS_Interval
  <2> QED BY <1>1, <2>1, FS_Subset, FS_CardinalityType
<1>3. PICK f \in [1 .. n -> Kept(p)] :
         /\ \A i, j \in DOMAIN f : i < j => f[i] < f[j]
         /\ ranges' = [i \in DOMAIN f |-> Trimmed(f[i], p)]
  BY <1>0, Zenon
<1>4. \A i \in 1 .. n : Trimmed(f[i], p) \in Interval
  BY <1>1, TrimmedType
<1>5. /\ ranges' \in Seq(Interval) /\ Len(ranges') = n
      /\ \A i \in 1 .. n : ranges'[i] = Trimmed(f[i], p)
  <2>1. DOMAIN f = 1 .. n
    OBVIOUS
  <2>2. ranges' = [i \in 1 .. n |-> Trimmed(f[i], p)]
    BY <1>3, <2>1, Zenon
  <2>3. ranges' \in [1 .. n -> Interval]
    BY <1>4, <2>2, Zenon
  <2> HIDE DEF n
  <2>4. ranges' \in Seq(Interval) /\ Len(ranges') = n
    BY <1>2, <2>3
  <2> QED
    BY <2>2, <2>4
<1>6. size' = Len(ranges')
  BY <1>0, <1>2, <1>5
<1>7. \A k \in Kept(p) : \E i \in 1 .. n : f[i] = k
  BY <1>1, <1>2, <1>3, IncreasingOnto
<1>8. Survivors(f, p)
  BY <1>3, <1>5, <1>7 DEF Survivors
<1> QED BY <1>5, <1>6, <1>8

-----------------------------------------------------------------------------
(* Type correctness, and the array generate_ack allocates is as long as    *)
(* the list it then walks.                                                 *)

TypeInv == TypeOK /\ AckFits

LEMMA TypeStep ==
  ASSUME TypeInv, [Next]_vars
  PROVE  TypeInv'
<1> USE DEF TypeInv
<1>1. ASSUME NEW p \in PNums, RecvPacketReceived(p)
      PROVE  TypeInv'
  <2>0. p \in Number
    BY PNumsAssumption
  <2>1. ranges' \in Seq(Interval) /\ size' = Len(ranges')
    BY <1>1, <2>0, ReceiveCases
  <2>2. lowest' = lowest /\ arrived' = arrived \cup {p}
    BY <1>1 DEF RecvPacketReceived
  <2> QED BY <2>0, <2>1, <2>2 DEF TypeOK, AckFits
<1>2. ASSUME NEW p \in PNums, RecvPacketDeleteBelow(p)
      PROVE  TypeInv'
  <2>0. p \in Number
    BY PNumsAssumption
  <2>1. CASE p <= lowest
    BY <1>2, <2>1 DEF RecvPacketDeleteBelow, TypeOK, AckFits
  <2>2. CASE ~ (p <= lowest)
    <3>1. DeleteWalk(p) /\ lowest' = p /\ arrived' = arrived
      BY <1>2, <2>2 DEF RecvPacketDeleteBelow
    <3>2. ranges' \in Seq(Interval) /\ size' = Len(ranges')
      BY <3>1, <2>0, DeleteCases
    <3> QED BY <2>0, <3>1, <3>2 DEF TypeOK, AckFits
  <2> QED BY <2>1, <2>2
<1>3. CASE UNCHANGED vars
  BY <1>3 DEF vars, TypeOK, AckFits
<1> QED BY <1>1, <1>2, <1>3 DEF Next

LEMMA TypeInvariant == Spec => []TypeInv
<1>1. Init => TypeInv
  BY ModulusAssumption DEF Init, TypeInv, TypeOK, AckFits, Number
<1>2. TypeInv /\ [Next]_vars => TypeInv'
  BY TypeStep
<1> QED BY <1>1, <1>2, PTL DEF Spec

(* The history's fields keep their types, whatever is received, deleted or *)
(* repeated, for every modulus.                                            *)
THEOREM TypeCorrect == Spec => []TypeOK
<1>1. TypeInv => TypeOK
  BY DEF TypeInv
<1> QED BY <1>1, TypeInvariant, PTL

(* recv_packet_generate_ack's loop writes exactly the cells it allocated.  *)
THEOREM AckArrayFits == Spec => []AckFits
<1>1. TypeInv => AckFits
  BY DEF TypeInv
<1> QED BY <1>1, TypeInvariant, PTL

-----------------------------------------------------------------------------
(* No false acknowledgement.  NoFalseAck is not inductive: with wrapping   *)
(* numbers an interval may be empty (min > max) and a later merge uses its *)
(* end all the same, so the ends themselves must have arrived.             *)

Honest(r, A) ==
  /\ r.min \in A
  /\ r.max \in A
  /\ \A q \in Number : Within(r, q) => q \in A

AllHonest == \A i \in 1 .. Len(ranges) : Honest(ranges[i], arrived)

LEMMA StretchHonest ==
  ASSUME NEW p \in Number, NEW r \in Interval, NEW A, Honest(r, A), Adjacent(r, p)
  PROVE  Honest(Stretch(r, p), A \cup {p})
<1> DEFINE s == Stretch(r, p)
<1>0. r.min \in Number /\ r.max \in Number
  BY DEF Interval
<1>1. CASE r.max = Pred(p)
  <2>1. s.min = r.min /\ s.max = p
    BY <1>1 DEF Stretch, Interval
  <2>2. ASSUME NEW q \in Number, r.min <= q, q <= p, q # p
        PROVE  q \in A
    <3>1. p # 0 /\ q <= p - 1
      BY <2>2 DEF Number
    <3>2. q <= r.max
      BY <1>1, <3>1 DEF Pred
    <3> QED BY <2>2, <3>2 DEF Honest, Within
  <2> QED BY <2>1, <2>2 DEF Honest, Within
<1>2. CASE r.max # Pred(p) /\ r.min = Succ(p)
  <2>1. s.min = p /\ s.max = r.max
    BY <1>2 DEF Stretch, Interval
  <2>2. ASSUME NEW q \in Number, p <= q, q <= r.max, q # p
        PROVE  q \in A
    <3>1. p # Modulus - 1 /\ p + 1 <= q
      BY <2>2, ModulusAssumption DEF Number
    <3>2. r.min <= q
      BY <1>2, <3>1 DEF Succ
    <3> QED BY <2>2, <3>2 DEF Honest, Within
  <2> QED BY <2>1, <2>2 DEF Honest, Within
<1> QED BY <1>1, <1>2 DEF Adjacent

LEMMA MergeHonest ==
  ASSUME NEW b \in Interval, NEW r \in Interval, NEW A, Honest(b, A), Honest(r, A),
         Joins(b, r)
  PROVE  Honest([b EXCEPT !.max = r.max], A)
<1> DEFINE m == [b EXCEPT !.max = r.max]
<1>0. /\ b.min \in Number /\ b.max \in Number /\ r.max \in Number
      /\ m.min = b.min /\ m.max = r.max
  BY DEF Interval
<1>1. ASSUME NEW q \in Number, b.min <= q, q <= r.max, q # r.max
      PROVE  q \in A
  <2>1. b.max # Modulus - 1
    BY <1>1, ModulusAssumption DEF Joins, Succ, Number
  <2>2. q <= b.max
    BY <1>1, <1>0, <2>1 DEF Joins, Succ, Number
  <2> QED BY <1>1, <2>2 DEF Honest, Within
<1> QED BY <1>0, <1>1 DEF Honest, Within

LEMMA SingleHonest ==
  ASSUME NEW p \in Number, NEW A, p \in A
  PROVE  Honest(Single(p), A)
BY DEF Honest, Single, Within, Number

LEMMA TrimmedHonest ==
  ASSUME ranges \in Seq(Interval), NEW p \in Number, NEW A,
         NEW i \in Kept(p), Honest(ranges[i], A)
  PROVE  Honest(Trimmed(i, p), A)
<1>1. i \in 1 .. Len(ranges) /\ ranges[i] \in Interval
  BY DEF Kept
<1>2. CASE Visited(i, p)
  <2> DEFINE r == ranges[i]
  <2>1. ~ Drops(r, p) /\ i \in 1 .. i
    BY <1>1, <1>2 DEF Kept
  <2>2. Trims(r, p)
    BY <2>1, <1>2 DEF Visited
  <2> DEFINE t == [r EXCEPT !.min = p]
  <2>3. t.min = p /\ t.max = r.max /\ r.min \in Number /\ r.max \in Number
    BY <1>1 DEF Interval
  <2> HIDE DEF r
  <2>4. Honest(r, A)
    BY DEF r
  <2>5. Honest(t, A)
    BY <2>2, <2>3, <2>4 DEF Trims, Honest, Within, Number
  <2> QED BY <1>2, <2>5 DEF Trimmed, r
<1>3. CASE ~ Visited(i, p)
  BY <1>3 DEF Trimmed
<1> QED BY <1>2, <1>3

LEMMA HonestStep ==
  ASSUME TypeInv, AllHonest, [Next]_vars
  PROVE  AllHonest'
<1> USE DEF TypeInv
<1>0. ranges \in Seq(Interval)
  BY DEF TypeOK
<1>1. ASSUME NEW i \in 1 .. Len(ranges)
      PROVE  ranges[i] \in Interval /\ Honest(ranges[i], arrived)
  BY <1>0 DEF AllHonest
<1>2. ASSUME NEW p \in PNums, RecvPacketReceived(p)
      PROVE  AllHonest'
  <2>0. p \in Number
    BY PNumsAssumption
  <2> DEFINE A == arrived \cup {p}
  <2>1. arrived' = A
    BY <1>2 DEF RecvPacketReceived
  <2>2. ASSUME NEW i \in 1 .. Len(ranges)
        PROVE  Honest(ranges[i], A)
    BY <1>1 DEF Honest
  <2> SUFFICES ASSUME NEW j \in 1 .. Len(ranges')
               PROVE  Honest(ranges'[j], A)
    BY <2>1 DEF AllHonest
  <2> HIDE DEF A
  <2>3. ASSUME NEW i \in 1 .. Len(ranges), StretchesAt(i, p)
        PROVE  Honest(Stretch(ranges[i], p), A)
    BY <2>0, <2>3, <1>1, StretchHonest DEF StretchesAt, A
  <2>4. CASE ranges' = ranges
    BY <2>2, <2>4
  <2>5. ASSUME NEW i \in 1 .. Len(ranges), Stretched(i, p)
        PROVE  Honest(ranges'[j], A)
    BY <2>5, <2>2, <2>3 DEF Stretched
  <2>6. ASSUME NEW i \in 1 .. Len(ranges), Merged(i, p)
        PROVE  Honest(ranges'[j], A)
    <3> DEFINE r == Stretch(ranges[i], p)
    <3>1. r \in Interval /\ Honest(r, A)
      BY <2>0, <2>3, <2>6, <1>1, StretchType DEF Merged
    <3>2. i - 1 \in 1 .. Len(ranges) /\ Joins(ranges[i - 1], r)
      BY <2>6 DEF Merged
    <3>3. Honest([ranges[i - 1] EXCEPT !.max = r.max], A)
      <4> HIDE DEF r
      <4>1. ranges[i - 1] \in Interval /\ Honest(ranges[i - 1], A)
        BY <3>2, <1>1, <2>2
      <4> QED BY <4>1, <3>1, <3>2, MergeHonest
    <3>4. j \in 1 .. i - 2 \/ j = i - 1 \/ j \in i .. Len(ranges) - 1
      BY <2>6, <1>0 DEF Merged
    <3>5. CASE j \in 1 .. i - 2
      <4>1. ranges'[j] = ranges[j] /\ j \in 1 .. Len(ranges)
        BY <2>6, <3>5 DEF Merged
      <4> QED BY <4>1, <2>2
    <3>6. CASE j = i - 1
      BY <2>6, <3>3, <3>6 DEF Merged
    <3>7. CASE j \in i .. Len(ranges) - 1
      <4>1. ranges'[j] = ranges[j + 1] /\ j + 1 \in 1 .. Len(ranges)
        BY <2>6, <3>7 DEF Merged
      <4> QED BY <4>1, <2>2
    <3> QED BY <3>4, <3>5, <3>6, <3>7
  <2>7. ASSUME NEW k \in 1 .. Len(ranges) + 1, Inserted(k, p)
        PROVE  Honest(ranges'[j], A)
    <3>1. Honest(Single(p), A)
      BY <2>0, SingleHonest DEF A
    <3>2. j \in 1 .. Len(ranges) + 1
      BY <2>7 DEF Inserted
    <3>3. CASE j < k
      <4>1. ranges'[j] = ranges[j] /\ j \in 1 .. Len(ranges)
        BY <2>7, <3>2, <3>3 DEF Inserted
      <4> QED BY <4>1, <2>2
    <3>4. CASE j = k
      BY <2>7, <3>1, <3>2, <3>4 DEF Inserted
    <3>5. CASE j > k
      <4>1. ranges'[j] = ranges[j - 1] /\ j - 1 \in 1 .. Len(ranges)
        BY <2>7, <3>2, <3>5 DEF Inserted
      <4> QED BY <4>1, <2>2
    <3> QED BY <3>2, <3>3, <3>4, <3>5
  <2> QED BY <1>2, <2>0, <2>4, <2>5, <2>6, <2>7, ReceiveCases
<1>3. ASSUME NEW p \in PNums, RecvPacketDeleteBelow(p)
      PROVE  AllHonest'
  <2>0. p \in Number
    BY PNumsAssumption
  <2>1. CASE p <= lowest
    BY <1>3, <2>1 DEF RecvPacketDeleteBelow, AllHonest
  <2>2. CASE ~ (p <= lowest)
    <3>1. DeleteWalk(p) /\ arrived' = arrived
      BY <1>3, <2>2 DEF RecvPacketDeleteBelow
    <3>2. PICK f : Survivors(f, p)
      BY <3>1, <2>0, DeleteCases
    <3> SUFFICES ASSUME NEW j \in 1 .. Len(ranges')
                 PROVE  Honest(ranges'[j], arrived)
      BY <3>1 DEF AllHonest
    <3>3. f[j] \in Kept(p) /\ ranges'[j] = Trimmed(f[j], p)
      BY <3>2 DEF Survivors
    <3>4. Honest(ranges[f[j]], arrived)
      BY <3>3, <1>1 DEF Kept
    <3> QED BY <1>0, <2>0, <3>3, <3>4, TrimmedHonest
  <2> QED BY <2>1, <2>2
<1>4. CASE UNCHANGED vars
  BY <1>4 DEF vars, AllHonest
<1> QED BY <1>2, <1>3, <1>4 DEF Next

(* An ACK never claims a packet that did not arrive, for every modulus and *)
(* every order and repetition of arrivals and deletions.                   *)
THEOREM NeverFalseAck == Spec => []NoFalseAck
<1>1. Init => AllHonest
  BY DEF Init, AllHonest
<1>2. TypeInv /\ AllHonest /\ [Next]_vars => AllHonest'
  BY HonestStep
<1>3. TypeInv /\ AllHonest => NoFalseAck
  BY DEF TypeInv, TypeOK, AllHonest, Honest, NoFalseAck, Covered
<1> QED BY <1>1, <1>2, <1>3, TypeInvariant, PTL DEF Spec

-----------------------------------------------------------------------------
(* Numbers that do not reach the top of their range.  The upper ends then  *)
(* stay two apart, so no stretched interval joins its predecessor.         *)

NoWrap == Modulus - 1 \notin PNums

Room(r) == r.min <= r.max /\ r.max < Modulus - 1

Apart ==
  /\ \A i \in 1 .. Len(ranges) : Room(ranges[i])
  /\ \A i, j \in 1 .. Len(ranges) : i < j => ranges[i].max + 2 <= ranges[j].max

LEMMA StretchExact ==
  ASSUME NEW p \in Number, p # Modulus - 1, NEW r \in Interval, Room(r),
         Adjacent(r, p)
  PROVE  /\ Room(Stretch(r, p))
         /\ r.max <= Stretch(r, p).max
         /\ Stretch(r, p).max = r.max \/ Stretch(r, p).max = p
         /\ \A q \in Number : Within(Stretch(r, p), q) <=> Within(r, q) \/ q = p
<1> DEFINE s == Stretch(r, p)
<1>0. r.min \in Number /\ r.max \in Number
  BY DEF Interval
<1>1. CASE r.max = Pred(p)
  <2>1. s.min = r.min /\ s.max = p
    BY <1>1 DEF Stretch, Interval
  <2>2. p = r.max + 1
    BY <1>0, <1>1, ModulusAssumption DEF Pred, Room, Number
  <2> HIDE DEF s
  <2>3. /\ Room(s) /\ r.max <= s.max /\ (s.max = r.max \/ s.max = p)
        /\ \A q \in Number : Within(s, q) <=> Within(r, q) \/ q = p
    BY <1>0, <2>1, <2>2, ModulusAssumption DEF Room, Within, Number
  <2> QED BY <2>3 DEF s
<1>2. CASE r.max # Pred(p) /\ r.min = Succ(p)
  <2>1. s.min = p /\ s.max = r.max
    BY <1>2 DEF Stretch, Interval
  <2>2. r.min = p + 1
    BY <1>0, <1>2, ModulusAssumption DEF Succ, Room, Number
  <2> HIDE DEF s
  <2>3. /\ Room(s) /\ r.max <= s.max /\ (s.max = r.max \/ s.max = p)
        /\ \A q \in Number : Within(s, q) <=> Within(r, q) \/ q = p
    BY <1>0, <2>1, <2>2, ModulusAssumption DEF Room, Within, Number
  <2> QED BY <2>3 DEF s
<1> QED BY <1>1, <1>2 DEF Adjacent

(* An interval the walk passes lies at least two above the packet.         *)
LEMMA PassedAbove ==
  ASSUME NEW p \in Number, p # Modulus - 1, NEW r \in Interval, Room(r),
         ~ Concerns(r, p)
  PROVE  p + 2 <= r.min /\ p + 2 <= r.max
<1>1. r.min \in Number /\ r.max \in Number
  BY DEF Interval
<1> QED BY <1>1, ModulusAssumption
        DEF Concerns, Within, Adjacent, Pred, Succ, Room, Number

(* One that the walk stops at without touching ends at least two below.    *)
LEMMA StoppedBelow ==
  ASSUME NEW p \in Number, NEW r \in Interval, p > r.max, ~ Adjacent(r, p)
  PROVE  r.max + 2 <= p
<1>1. r.max \in Number
  BY DEF Interval
<1> QED BY <1>1, ModulusAssumption DEF Adjacent, Pred, Number

(* A stretched interval never ends one above the one before it.            *)
LEMMA MergeDead ==
  ASSUME ranges \in Seq(Interval), Apart, NEW p \in Number, p # Modulus - 1,
         NEW i \in 1 .. Len(ranges), Merged(i, p)
  PROVE  FALSE
<1>1. ASSUME NEW j \in 1 .. Len(ranges)
      PROVE  /\ ranges[j] \in Interval /\ Room(ranges[j])
             /\ ranges[j].max \in Number
  BY EndsInNumber DEF Apart
<1> DEFINE s == Stretch(ranges[i], p)
<1>2. ranges[i].max <= s.max /\ s.max \in Number
  <2>1. s \in Interval
    BY <1>1, StretchType
  <2>2. ranges[i].max <= s.max
    BY <1>1, StretchExact DEF Merged, StretchesAt
  <2> QED BY <2>1, <2>2 DEF Interval
<1>3. i - 1 \in 1 .. Len(ranges) /\ Succ(ranges[i - 1].max) = s.max
  BY DEF Merged, Joins
<1> HIDE DEF s
<1>4. ranges[i - 1].max + 2 <= ranges[i].max
  BY <1>3 DEF Apart
<1>5. ranges[i - 1].max \in Number /\ ranges[i].max \in Number /\ Room(ranges[i - 1])
  BY <1>1, <1>3
<1> QED BY <1>2, <1>3, <1>4, <1>5 DEF Succ, Room, Number

LEMMA ApartReceive ==
  ASSUME TypeInv, Apart, NEW p \in Number, p # Modulus - 1, RecvPacketReceived(p)
  PROVE  /\ Apart'
         /\ Covered(ranges') = Covered(ranges) \cup {p}
<1>0. ranges \in Seq(Interval) /\ TypeOK /\ AckFits
  BY DEF TypeInv, TypeOK
<1>1. ASSUME NEW i \in 1 .. Len(ranges)
      PROVE  /\ ranges[i] \in Interval /\ Room(ranges[i])
             /\ ranges[i].min \in Number /\ ranges[i].max \in Number
  BY <1>0, EndsInNumber DEF Apart
<1>2. DOMAIN ranges = 1 .. Len(ranges)
  BY <1>0
<1>3. ranges' \in Seq(Interval) /\ DOMAIN ranges' = 1 .. Len(ranges')
  BY <1>0, ReceiveCases
<1>4. CASE /\ ranges' = ranges
           /\ \E i \in 1 .. Len(ranges) : Within(ranges[i], p)
  BY <1>2, <1>4 DEF Apart, Covered
<1>5. ASSUME NEW i \in 1 .. Len(ranges), Stretched(i, p)
      PROVE  Apart' /\ Covered(ranges') = Covered(ranges) \cup {p}
  <2> DEFINE s == Stretch(ranges[i], p)
  <2>1. /\ Room(s) /\ ranges[i].max <= s.max
        /\ s.max = ranges[i].max \/ s.max = p
        /\ \A q \in Number : Within(s, q) <=> Within(ranges[i], q) \/ q = p
    BY <1>1, <1>5, StretchExact DEF Stretched, StretchesAt
  <2>2. s \in Interval /\ s.max \in Number
    <3>1. s \in Interval
      BY <1>1, StretchType
    <3> QED BY <3>1 DEF Interval
  <2> HIDE DEF s
  <2>3. /\ Len(ranges') = Len(ranges) /\ ranges'[i] = s
        /\ \A j \in 1 .. Len(ranges) : j # i => ranges'[j] = ranges[j]
    BY <1>5 DEF Stretched, s
  <2>4. \A j \in i + 1 .. Len(ranges) : p + 2 <= ranges[j].max
    BY <1>1, <1>5, PassedAbove DEF Stretched, StretchesAt
  <2>5. \A j \in 1 .. Len(ranges') : Room(ranges'[j])
    BY <1>1, <2>1, <2>3
  <2>6. ASSUME NEW j \in 1 .. Len(ranges'), NEW k \in 1 .. Len(ranges'), j < k
        PROVE  ranges'[j].max + 2 <= ranges'[k].max
    <3>1. ranges[j].max + 2 <= ranges[k].max
      BY <2>3, <2>6 DEF Apart
    <3>2. ranges[j].max \in Int /\ ranges[k].max \in Int /\ s.max \in Int
      BY <1>1, <2>2, <2>3 DEF Number
    <3>3. CASE j = i
      <4>1. p + 2 <= ranges[k].max
        BY <2>3, <2>4, <2>6, <3>3
      <4> QED BY <2>1, <2>3, <2>6, <3>1, <3>2, <3>3, <4>1
    <3>4. CASE k = i
      BY <2>1, <2>3, <2>6, <3>1, <3>2, <3>4
    <3>5. CASE j # i /\ k # i
      BY <2>3, <3>1, <3>5
    <3> QED BY <3>3, <3>4, <3>5
  <2>7. Apart'
    BY <2>5, <2>6 DEF Apart
  <2>8. ASSUME NEW q \in Number
        PROVE  (\E j \in 1 .. Len(ranges) : Within(ranges'[j], q)) <=>
               (\E j \in 1 .. Len(ranges) : Within(ranges[j], q)) \/ q = p
    BY <2>1, <2>3
  <2> QED BY <1>2, <1>3, <2>3, <2>7, <2>8 DEF Covered
<1>6. ASSUME NEW i \in 1 .. Len(ranges), Merged(i, p)
      PROVE  FALSE
  BY <1>0, <1>6, MergeDead
<1>7. ASSUME NEW k \in 1 .. Len(ranges) + 1, Inserted(k, p)
      PROVE  Apart' /\ Covered(ranges') = Covered(ranges) \cup {p}
  <2> DEFINE n == Len(ranges)
  <2>1. /\ Len(ranges') = n + 1
        /\ ranges'[k] = Single(p)
        /\ \A j \in 1 .. k - 1 : j \in 1 .. n /\ ranges'[j] = ranges[j]
        /\ \A j \in k + 1 .. n + 1 : j - 1 \in 1 .. n /\ ranges'[j] = ranges[j - 1]
    BY <1>7 DEF Inserted
  <2>2. \A j \in k .. n : p + 2 <= ranges[j].max
    BY <1>1, <1>7, PassedAbove DEF Inserted
  <2>3. ASSUME NEW j \in 1 .. k - 1
        PROVE  ranges[j].max + 2 <= p
    <3>1. k - 1 \in 1 .. n /\ j \in 1 .. n
      OBVIOUS
    <3>2. ranges[k - 1].max + 2 <= p
      BY <1>1, <1>7, <3>1, StoppedBelow DEF Inserted
    <3>3. ranges[j].max <= ranges[k - 1].max
      <4>1. j = k - 1 \/ ranges[j].max + 2 <= ranges[k - 1].max
        BY <3>1 DEF Apart
      <4>2. ranges[j].max \in Int /\ ranges[k - 1].max \in Int
        BY <1>1, <3>1 DEF Number
      <4> QED BY <4>1, <4>2
    <3>4. ranges[j].max \in Int /\ ranges[k - 1].max \in Int /\ p \in Int
      BY <1>1, <3>1 DEF Number
    <3> QED BY <3>2, <3>3, <3>4
  <2>4. Single(p).min = p /\ Single(p).max = p /\ Room(Single(p))
    BY ModulusAssumption DEF Single, Room, Number
  <2>5. ASSUME NEW j \in 1 .. n + 1 PROVE Room(ranges'[j])
    <3>1. CASE j = k
      BY <2>1, <2>4, <3>1, Zenon
    <3>2. CASE j \in 1 .. k - 1
      BY <1>1, <2>1, <3>2, Zenon
    <3>3. CASE j \in k + 1 .. n + 1
      BY <1>1, <2>1, <3>3, Zenon
    <3> QED
      BY <3>1, <3>2, <3>3
  <2>6. ASSUME NEW j \in 1 .. n + 1, NEW l \in 1 .. n + 1, j < l
        PROVE  ranges'[j].max + 2 <= ranges'[l].max
    <3>1. CASE l < k
      BY <2>1, <2>6, <3>1 DEF Apart
    <3>2. CASE l = k
      <4>1. j \in 1 .. k - 1
        BY <2>6, <3>2
      <4> QED BY <2>1, <2>3, <2>4, <3>2, <4>1
    <3>3. CASE l > k /\ j < k
      <4>1. j \in 1 .. k - 1 /\ l \in k + 1 .. n + 1 /\ j < l - 1
        BY <3>3
      <4>2. ranges[j].max + 2 <= ranges[l - 1].max
        BY <2>1, <4>1 DEF Apart
      <4> QED BY <2>1, <4>1, <4>2
    <3>4. CASE j = k
      <4>1. l \in k + 1 .. n + 1 /\ l - 1 \in k .. n
        BY <2>6, <3>4
      <4> QED BY <2>1, <2>2, <2>4, <3>4, <4>1
    <3>5. CASE j > k
      <4>1. j \in k + 1 .. n + 1 /\ l \in k + 1 .. n + 1 /\ j - 1 < l - 1
        BY <2>6, <3>5
      <4>2. ranges[j - 1].max + 2 <= ranges[l - 1].max
        BY <2>1, <4>1 DEF Apart
      <4> QED BY <2>1, <4>1, <4>2
    <3> QED BY <2>6, <3>1, <3>2, <3>3, <3>4, <3>5
  <2>7. Apart'
    BY <2>1, <2>5, <2>6 DEF Apart
  <2>8. ASSUME NEW q \in Number
        PROVE  (\E j \in 1 .. n + 1 : Within(ranges'[j], q)) <=>
               (\E j \in 1 .. n : Within(ranges[j], q)) \/ q = p
    <3>1. Within(Single(p), q) <=> q = p
      BY <2>4 DEF Within, Number
    <3>2. ASSUME NEW j \in 1 .. n + 1, Within(ranges'[j], q)
          PROVE  (\E l \in 1 .. n : Within(ranges[l], q)) \/ q = p
      <4>1. j \in 1 .. k - 1 \/ j = k \/ j \in k + 1 .. n + 1
        OBVIOUS
      <4> QED BY <2>1, <3>1, <3>2, <4>1
    <3>3. ASSUME NEW l \in 1 .. n, Within(ranges[l], q)
          PROVE  \E j \in 1 .. n + 1 : Within(ranges'[j], q)
      <4>1. CASE l \in 1 .. k - 1
        BY <2>1, <3>3, <4>1
      <4>2. CASE l \in k .. n
        <5>1. l + 1 \in k + 1 .. n + 1 /\ (l + 1) - 1 = l /\ l + 1 \in 1 .. n + 1
          BY <4>2
        <5>2. ranges'[l + 1] = ranges[l]
          BY <2>1, <5>1
        <5> QED BY <3>3, <5>1, <5>2
      <4> QED BY <4>1, <4>2
    <3>4. q = p => \E j \in 1 .. n + 1 : Within(ranges'[j], q)
      BY <2>1, <3>1
    <3> QED BY <3>2, <3>3, <3>4
  <2> QED BY <1>2, <1>3, <2>1, <2>7, <2>8 DEF Covered
<1> QED BY <1>0, <1>4, <1>5, <1>6, <1>7, ReceiveCases

LEMMA TrimmedExact ==
  ASSUME ranges \in Seq(Interval), NEW p \in Number, NEW k \in Kept(p),
         Room(ranges[k])
  PROVE  /\ k \in 1 .. Len(ranges)
         /\ Room(Trimmed(k, p))
         /\ Trimmed(k, p).max = ranges[k].max
         /\ Trimmed(k, p).min = IF Visited(k, p) THEN p ELSE ranges[k].min
         /\ Visited(k, p) => ranges[k].min <= p
<1>1. k \in 1 .. Len(ranges) /\ ranges[k] \in Interval
  BY DEF Kept
<1> DEFINE r == ranges[k]
<1>2. r.min \in Number /\ r.max \in Number
  BY <1>1 DEF Interval
<1>3. CASE Visited(k, p)
  <2>1. ~ Drops(r, p) /\ k \in 1 .. k
    BY <1>1, <1>3 DEF Kept
  <2>2. Trims(r, p)
    BY <2>1, <1>3 DEF Visited
  <2>3. Trimmed(k, p) = [r EXCEPT !.min = p]
    BY <1>3 DEF Trimmed
  <2>4. Trimmed(k, p).min = p /\ Trimmed(k, p).max = r.max
    BY <1>1, <2>3 DEF Interval
  <2> HIDE DEF r
  <2>5. Room(r)
    BY DEF r
  <2>6. Room(Trimmed(k, p)) /\ r.min <= p
    BY <1>2, <2>2, <2>4, <2>5 DEF Room, Trims, Number
  <2> QED BY <1>1, <1>3, <2>4, <2>6 DEF r
<1>4. CASE ~ Visited(k, p)
  BY <1>1, <1>4 DEF Trimmed
<1> QED BY <1>3, <1>4

LEMMA ApartDelete ==
  ASSUME TypeInv, Apart, NEW p \in Number, DeleteWalk(p)
  PROVE  /\ Apart'
         /\ Covered(ranges') \subseteq Covered(ranges)
         /\ \A q \in Covered(ranges) : q >= p => q \in Covered(ranges')
<1>0. ranges \in Seq(Interval) /\ TypeOK /\ AckFits
  BY DEF TypeInv, TypeOK
<1>1. ranges' \in Seq(Interval)
  BY <1>0, DeleteCases
<1>2. PICK f : Survivors(f, p)
  BY <1>0, DeleteCases
<1>3. /\ DOMAIN ranges = 1 .. Len(ranges)
      /\ DOMAIN ranges' = 1 .. Len(ranges')
  BY <1>0, <1>1
<1>4. ASSUME NEW i \in 1 .. Len(ranges')
      PROVE  /\ f[i] \in Kept(p) /\ f[i] \in 1 .. Len(ranges)
             /\ Room(ranges'[i])
             /\ ranges'[i].max = ranges[f[i]].max
             /\ ranges'[i].min = IF Visited(f[i], p) THEN p ELSE ranges[f[i]].min
             /\ Visited(f[i], p) => ranges[f[i]].min <= p
  <2>1. f[i] \in Kept(p) /\ ranges'[i] = Trimmed(f[i], p)
    BY <1>2 DEF Survivors
  <2>2. Room(ranges[f[i]])
    BY <2>1 DEF Kept, Apart
  <2> QED BY <1>0, <2>1, <2>2, TrimmedExact
<1>5. Apart'
  <2>1. ASSUME NEW i \in 1 .. Len(ranges'), NEW j \in 1 .. Len(ranges'), i < j
        PROVE  ranges'[i].max + 2 <= ranges'[j].max
    <3>1. f[i] < f[j]
      BY <1>2, <2>1 DEF Survivors
    <3> QED BY <1>4, <3>1 DEF Apart
  <2> QED BY <1>4, <2>1 DEF Apart
<1>6. ASSUME NEW q \in Number, NEW i \in 1 .. Len(ranges'), Within(ranges'[i], q)
      PROVE  Within(ranges[f[i]], q)
  <2>1. ranges[f[i]].min \in Number
    BY <1>0, <1>4, EndsInNumber
  <2> QED BY <1>4, <1>6, <2>1 DEF Within, Number
<1>7. ASSUME NEW q \in Number, NEW k \in 1 .. Len(ranges), Within(ranges[k], q), q >= p
      PROVE  \E i \in 1 .. Len(ranges') : Within(ranges'[i], q)
  <2>1. ranges[k].max \in Number
    BY <1>0, EndsInNumber
  <2>2. ~ Drops(ranges[k], p)
    BY <1>7, <2>1 DEF Drops, Within, Number
  <2>3. k \in Kept(p)
    BY <1>3, <2>2 DEF Kept
  <2>4. PICK i \in 1 .. Len(ranges') : f[i] = k
    BY <1>2, <2>3 DEF Survivors
  <2>5. Within(ranges'[i], q)
    BY <1>4, <1>7, <2>4 DEF Within
  <2> QED BY <2>5
<1>8. Covered(ranges') \subseteq Covered(ranges)
  BY <1>3, <1>4, <1>6 DEF Covered
<1>9. \A q \in Covered(ranges) : q >= p => q \in Covered(ranges')
  BY <1>3, <1>7 DEF Covered
<1> QED BY <1>5, <1>8, <1>9

LEMMA ApartStep ==
  ASSUME NoWrap, TypeInv, Apart, [Next]_vars
  PROVE  Apart'
<1>1. ASSUME NEW p \in PNums, RecvPacketReceived(p)
      PROVE  Apart'
  BY <1>1, PNumsAssumption, ApartReceive DEF NoWrap
<1>2. ASSUME NEW p \in PNums, RecvPacketDeleteBelow(p)
      PROVE  Apart'
  <2>1. CASE p <= lowest
    BY <1>2, <2>1 DEF RecvPacketDeleteBelow, Apart
  <2>2. CASE ~ (p <= lowest)
    BY <1>2, <2>2, PNumsAssumption, ApartDelete DEF RecvPacketDeleteBelow
  <2> QED BY <2>1, <2>2
<1>3. CASE UNCHANGED vars
  BY <1>3 DEF vars, Apart
<1> QED BY <1>1, <1>2, <1>3 DEF Next

LEMMA ApartInvariant == NoWrap => (Spec => [](TypeInv /\ Apart))
<1> SUFFICES ASSUME NoWrap
             PROVE  Spec => [](TypeInv /\ Apart)
  OBVIOUS
<1>1. Init => Apart
  BY DEF Init, Apart
<1>2. TypeInv /\ Apart /\ [Next]_vars => Apart'
  BY ApartStep
<1> QED BY <1>1, <1>2, TypeInvariant, PTL DEF Spec

(* Intervals are inhabited and their upper ends two apart: the branch that *)
(* frees a merged node is dead as long as numbers do not wrap.             *)
THEOREM MergeNeverTaken == NoWrap => (Spec => []EndsApart)
<1>1. TypeInv /\ Apart => EndsApart
  BY DEF TypeInv, TypeOK, Apart, Room, EndsApart
<1> QED BY <1>1, ApartInvariant, PTL

(* Every reception adds its packet to the report and nothing else, every   *)
(* deletion removes only numbers below its bound: the history implements   *)
(* the abstract PacketSet.                                                 *)
THEOREM ImplementsSet == NoWrap => (Spec => ImplementsPacketSet)
<1> SUFFICES ASSUME NoWrap
             PROVE  Spec => ImplementsPacketSet
  OBVIOUS
<1>1. Init => Reported!Init
  BY DEF Init, Reported!Init, Covered
<1>2. TypeInv /\ Apart /\ [Next]_vars => [Reported!Next]_(Covered(ranges))
  <2> SUFFICES ASSUME TypeInv, Apart, [Next]_vars
               PROVE  Reported!Next \/ Covered(ranges') = Covered(ranges)
    BY DEF Covered
  <2>1. ASSUME NEW p \in PNums, RecvPacketReceived(p)
        PROVE  Reported!Next
    <3>1. Covered(ranges') = Covered(ranges) \cup {p}
      BY <2>1, PNumsAssumption, ApartReceive DEF NoWrap
    <3> QED BY <3>1 DEF Reported!Next, Reported!Receive, Covered
  <2>2. ASSUME NEW p \in PNums, RecvPacketDeleteBelow(p)
        PROVE  Reported!Next \/ Covered(ranges') = Covered(ranges)
    <3>1. CASE p <= lowest
      BY <2>2, <3>1 DEF RecvPacketDeleteBelow
    <3>2. CASE ~ (p <= lowest)
      <4>1. /\ Covered(ranges') \subseteq Covered(ranges)
            /\ \A q \in Covered(ranges) : q >= p => q \in Covered(ranges')
        BY <2>2, <3>2, PNumsAssumption, ApartDelete DEF RecvPacketDeleteBelow
      <4> QED BY <4>1 DEF Reported!Next, Reported!Forget, Covered
    <3> QED BY <3>1, <3>2
  <2>3. CASE UNCHANGED vars
    BY <2>3 DEF vars
  <2> QED BY <2>1, <2>2, <2>3 DEF Next
<1> QED BY <1>1, <1>2, ApartInvariant, PTL DEF Spec, ImplementsPacketSet, Reported!Spec

LEMMA NothingLostStep ==
  ASSUME NoWrap, TypeInv, Apart, NothingLost, [Next]_vars
  PROVE  NothingLost'
<1>1. ASSUME NEW p \in PNums, RecvPacketReceived(p)
      PROVE  NothingLost'
  <2>1. Covered(ranges') = Covered(ranges) \cup {p}
    BY <1>1, PNumsAssumption, ApartReceive DEF NoWrap
  <2>2. arrived' = arrived \cup {p} /\ lowest' = lowest
    BY <1>1 DEF RecvPacketReceived
  <2> QED BY <2>1, <2>2 DEF NothingLost, Covered
<1>2. ASSUME NEW p \in PNums, RecvPacketDeleteBelow(p)
      PROVE  NothingLost'
  <2>1. CASE p <= lowest
    BY <1>2, <2>1 DEF RecvPacketDeleteBelow, NothingLost, Covered
  <2>2. CASE ~ (p <= lowest)
    <3>1. \A q \in Covered(ranges) : q >= p => q \in Covered(ranges')
      BY <1>2, <2>2, PNumsAssumption, ApartDelete DEF RecvPacketDeleteBelow
    <3>2. arrived' = arrived /\ lowest' = p
      BY <1>2, <2>2 DEF RecvPacketDeleteBelow
    <3>3. ASSUME NEW q \in arrived, q >= p
          PROVE  q >= lowest
      BY <3>3, <2>2, PNumsAssumption DEF TypeInv, TypeOK, Number
    <3> QED BY <3>1, <3>2, <3>3 DEF NothingLost, Covered
  <2> QED BY <2>1, <2>2
<1>3. CASE UNCHANGED vars
  BY <1>3 DEF vars, NothingLost, Covered
<1> QED BY <1>1, <1>2, <1>3 DEF Next

(* A packet that arrived and is not below the delete_below bound stays in  *)
(* every later ACK.                                                        *)
THEOREM NothingEverLost == NoWrap => (Spec => []NothingLost)
<1> SUFFICES ASSUME NoWrap
             PROVE  Spec => []NothingLost
  OBVIOUS
<1>1. Init => NothingLost
  BY DEF Init, NothingLost
<1>2. TypeInv /\ Apart /\ NothingLost /\ [Next]_vars => NothingLost'
  BY NothingLostStep
<1> QED BY <1>1, <1>2, ApartInvariant, PTL DEF Spec

-----------------------------------------------------------------------------
(* When every packet arrives at most once the intervals are disjoint and   *)
(* ascending.  EndsApart does not give this, for it speaks of upper ends   *)
(* only; the lower ends need that an interval contains nothing but         *)
(* arrived numbers, so that a new number is in none of them.               *)

Once == NoWrap /\ ~ Duplicates

Ascending ==
  \A i, j \in 1 .. Len(ranges) : i < j => ranges[i].max < ranges[j].min

LEMMA StretchLower ==
  ASSUME NEW p \in Number, p # Modulus - 1, NEW r \in Interval, Room(r),
         Adjacent(r, p)
  PROVE  \/ Stretch(r, p).min = r.min
         \/ Stretch(r, p).min = p /\ r.min = p + 1
<1>1. r.min \in Number /\ r.max \in Number
  BY DEF Interval
<1>2. CASE r.max = Pred(p)
  BY <1>2 DEF Stretch, Interval
<1>3. CASE r.max # Pred(p) /\ r.min = Succ(p)
  <2>1. Stretch(r, p).min = p
    BY <1>3 DEF Stretch, Interval
  <2>2. r.min = p + 1
    BY <1>1, <1>3, ModulusAssumption DEF Succ, Number
  <2> QED BY <2>1, <2>2
<1> QED BY <1>2, <1>3 DEF Adjacent

LEMMA AscendingReceive ==
  ASSUME TypeInv, Apart, AllHonest, Ascending,
         NEW p \in Number, p # Modulus - 1, p \notin arrived, RecvPacketReceived(p)
  PROVE  Ascending'
<1>0. ranges \in Seq(Interval) /\ TypeOK /\ AckFits
  BY DEF TypeInv, TypeOK
<1>1. ASSUME NEW i \in 1 .. Len(ranges)
      PROVE  /\ ranges[i] \in Interval /\ Room(ranges[i])
             /\ ranges[i].min \in Number /\ ranges[i].max \in Number
             /\ ranges[i].max # p
  BY <1>0, EndsInNumber DEF Apart, AllHonest, Honest
<1>2. CASE ranges' = ranges
  BY <1>2 DEF Ascending
<1>3. ASSUME NEW i \in 1 .. Len(ranges), Stretched(i, p)
      PROVE  Ascending'
  <2> DEFINE s == Stretch(ranges[i], p)
  <2>1. /\ s.max = ranges[i].max \/ s.max = p
        /\ s.min = ranges[i].min \/ (s.min = p /\ ranges[i].min = p + 1)
    BY <1>1, <1>3, StretchExact, StretchLower DEF Stretched, StretchesAt
  <2> HIDE DEF s
  <2>2. /\ Len(ranges') = Len(ranges) /\ ranges'[i] = s
        /\ \A j \in 1 .. Len(ranges) : j # i => ranges'[j] = ranges[j]
    BY <1>3 DEF Stretched, s
  <2>3. \A j \in i + 1 .. Len(ranges) : p + 2 <= ranges[j].min
    BY <1>1, <1>3, PassedAbove DEF Stretched, StretchesAt
  <2>4. ASSUME NEW j \in 1 .. Len(ranges), NEW k \in 1 .. Len(ranges), j < k
        PROVE  ranges'[j].max < ranges'[k].min
    <3>1. ranges[j].max < ranges[k].min
      BY <2>4 DEF Ascending
    <3>2. /\ ranges[j].max \in Int /\ ranges[k].min \in Int
          /\ ranges[j].max # p /\ p \in Int
      BY <1>1 DEF Number
    <3>3. CASE j = i
      <4>1. p + 2 <= ranges[k].min
        BY <2>3, <2>4, <3>3
      <4>2. ranges'[j].max = s.max /\ ranges'[k].min = ranges[k].min
        BY <2>2, <2>4, <3>3
      <4> QED BY <2>1, <3>1, <3>2, <3>3, <4>1, <4>2
    <3>4. CASE k = i
      <4>1. ranges'[j].max = ranges[j].max /\ ranges'[k].min = s.min
        BY <2>2, <2>4, <3>4
      <4> QED BY <2>1, <3>1, <3>2, <3>4, <4>1
    <3>5. CASE j # i /\ k # i
      BY <2>2, <3>1, <3>5
    <3> QED BY <3>3, <3>4, <3>5
  <2> QED BY <2>2, <2>4 DEF Ascending
<1>4. ASSUME NEW i \in 1 .. Len(ranges), Merged(i, p)
      PROVE  FALSE
  BY <1>0, <1>4, MergeDead
<1>5. ASSUME NEW k \in 1 .. Len(ranges) + 1, Inserted(k, p)
      PROVE  Ascending'
  <2> DEFINE n == Len(ranges)
  <2>1. /\ Len(ranges') = n + 1
        /\ ranges'[k].min = p /\ ranges'[k].max = p
        /\ \A j \in 1 .. k - 1 : j \in 1 .. n /\ ranges'[j] = ranges[j]
        /\ \A j \in k + 1 .. n + 1 : j - 1 \in k .. n /\ ranges'[j] = ranges[j - 1]
    BY <1>5 DEF Inserted, Single
  <2>2. \A j \in k .. n : p + 2 <= ranges[j].min
    BY <1>1, <1>5, PassedAbove DEF Inserted
  <2>3. ASSUME NEW j \in 1 .. k - 1
        PROVE  ranges[j].max < p
    <3>1. k - 1 \in 1 .. n /\ j \in 1 .. n
      OBVIOUS
    <3>2. ranges[k - 1].max + 2 <= p
      BY <1>1, <1>5, <3>1, StoppedBelow DEF Inserted
    <3>3. CASE j = k - 1
      BY <1>1, <3>1, <3>2, <3>3 DEF Number
    <3>4. CASE j # k - 1
      <4>1. ranges[j].max + 2 <= ranges[k - 1].max
        BY <3>1, <3>4 DEF Apart
      <4>2. ranges[j].max \in Int /\ ranges[k - 1].max \in Int /\ p \in Int
        BY <1>1, <3>1 DEF Number
      <4> QED BY <3>2, <4>1, <4>2
    <3> QED BY <3>3, <3>4
  <2>4. ASSUME NEW j \in 1 .. n + 1, NEW l \in 1 .. n + 1, j < l
        PROVE  ranges'[j].max < ranges'[l].min
    <3>1. CASE l < k
      BY <2>1, <2>4, <3>1 DEF Ascending
    <3>2. CASE l = k
      <4>1. j \in 1 .. k - 1
        BY <2>4, <3>2
      <4> QED BY <2>1, <2>3, <3>2, <4>1
    <3>3. CASE l > k /\ j < k
      <4>1. j \in 1 .. k - 1 /\ l \in k + 1 .. n + 1 /\ j < l - 1 /\ l - 1 \in 1 .. n
        BY <3>3
      <4>2. ranges[j].max < ranges[l - 1].min
        BY <2>1, <4>1 DEF Ascending
      <4> QED BY <2>1, <4>1, <4>2
    <3>4. CASE j = k
      <4>1. l \in k + 1 .. n + 1 /\ l - 1 \in k .. n
        BY <2>4, <3>4
      <4>2. p + 2 <= ranges[l - 1].min /\ ranges[l - 1].min \in Int /\ p \in Int
        BY <1>1, <2>2, <4>1 DEF Number
      <4> QED BY <2>1, <3>4, <4>1, <4>2
    <3>5. CASE j > k
      <4>1. /\ j \in k + 1 .. n + 1 /\ l \in k + 1 .. n + 1
            /\ j - 1 \in 1 .. n /\ l - 1 \in 1 .. n /\ j - 1 < l - 1
        BY <2>4, <3>5
      <4>2. ranges[j - 1].max < ranges[l - 1].min
        BY <4>1 DEF Ascending
      <4> QED BY <2>1, <4>1, <4>2
    <3> QED BY <2>4, <3>1, <3>2, <3>3, <3>4, <3>5
  <2> QED BY <2>1, <2>4 DEF Ascending
<1> QED BY <1>0, <1>2, <1>3, <1>4, <1>5, ReceiveCases

(* The walk of a deletion stops at the first interval that begins at the   *)
(* bound or above, and so do all behind it.                                *)
LEMMA AscendingDelete ==
  ASSUME TypeInv, Apart, Ascending, NEW p \in Number, DeleteWalk(p)
  PROVE  /\ Ascending'
         /\ \A q \in Covered(ranges') : q >= p
<1>0. ranges \in Seq(Interval) /\ TypeOK /\ AckFits
  BY DEF TypeInv, TypeOK
<1>1. ranges' \in Seq(Interval)
  BY <1>0, DeleteCases
<1>2. PICK f : Survivors(f, p)
  BY <1>0, DeleteCases
<1>3. DOMAIN ranges = 1 .. Len(ranges) /\ DOMAIN ranges' = 1 .. Len(ranges')
  BY <1>0, <1>1
<1>4. ASSUME NEW i \in 1 .. Len(ranges')
      PROVE  /\ f[i] \in Kept(p) /\ f[i] \in 1 .. Len(ranges)
             /\ ranges'[i].max = ranges[f[i]].max
             /\ ranges'[i].min = IF Visited(f[i], p) THEN p ELSE ranges[f[i]].min
             /\ Visited(f[i], p) => ranges[f[i]].min <= p
  <2>1. f[i] \in Kept(p) /\ ranges'[i] = Trimmed(f[i], p)
    BY <1>2 DEF Survivors
  <2>2. Room(ranges[f[i]])
    BY <2>1 DEF Kept, Apart
  <2> QED BY <1>0, <2>1, <2>2, TrimmedExact
<1>5. ASSUME NEW k \in 1 .. Len(ranges)
      PROVE  /\ ranges[k].min \in Int /\ ranges[k].max \in Int
             /\ ranges[k].min <= ranges[k].max
  <2>1. ranges[k].min \in Number /\ ranges[k].max \in Number
    BY <1>0, EndsInNumber
  <2> QED BY <2>1 DEF Number, Apart, Room
<1>6. ASSUME NEW i \in 1 .. Len(ranges')
      PROVE  p <= ranges'[i].min
  <2>1. CASE Visited(f[i], p)
    BY <1>4, <2>1 DEF Number
  <2>2. CASE ~ Visited(f[i], p)
    <3>1. PICK j \in 1 .. f[i] : ~ Trims(ranges[j], p) /\ ~ Drops(ranges[j], p)
      BY <2>2 DEF Visited
    <3>2. j \in 1 .. Len(ranges) /\ j <= f[i]
      BY <1>4, <3>1
    <3>3. /\ ranges[j].min \in Int /\ ranges[j].max \in Int
          /\ ranges[f[i]].min \in Int /\ p \in Int
          /\ ranges[j].min <= ranges[j].max
      <4>1. f[i] \in 1 .. Len(ranges)
        BY <1>4
      <4> QED
        BY <1>5, <3>2, <4>1 DEF Number
    <3>4. p <= ranges[j].min
      BY <3>1, <3>3 DEF Trims, Drops
    <3>5. j = f[i] \/ ranges[j].max < ranges[f[i]].min
      BY <1>4, <3>2 DEF Ascending
    <3> QED BY <1>4, <2>2, <3>3, <3>4, <3>5
  <2> QED BY <2>1, <2>2
<1>7. Ascending'
  <2>1. ASSUME NEW i \in 1 .. Len(ranges'), NEW j \in 1 .. Len(ranges'), i < j
        PROVE  ranges'[i].max < ranges'[j].min
    <3>1. f[i] < f[j]
      BY <1>2, <2>1 DEF Survivors
    <3>2. ranges[f[i]].max < ranges[f[j]].min
      BY <1>4, <3>1 DEF Ascending
    <3>3. ranges[f[i]].max \in Int /\ ranges[f[j]].min \in Int /\ p \in Int
      BY <1>4, <1>5 DEF Number
    <3> QED BY <1>4, <3>2, <3>3
  <2> QED BY <2>1 DEF Ascending
<1>8. ASSUME NEW q \in Covered(ranges')
      PROVE  q >= p
  <2>1. PICK i \in 1 .. Len(ranges') : Within(ranges'[i], q)
    BY <1>3 DEF Covered
  <2>2. ranges'[i].min \in Int /\ q \in Int /\ p \in Int
    <3>1. ranges'[i] \in Interval
      BY <1>1
    <3> QED BY <3>1 DEF Interval, Number, Covered
  <2> QED BY <1>6, <2>1, <2>2 DEF Within
<1> QED BY <1>7, <1>8

OnceInv == TypeInv /\ Apart /\ AllHonest /\ Ascending

LEMMA AscendingStep ==
  ASSUME Once, OnceInv, [Next]_vars
  PROVE  Ascending'
<1>1. ASSUME NEW p \in PNums, RecvPacketReceived(p)
      PROVE  Ascending'
  <2>1. p \notin arrived
    BY <1>1 DEF RecvPacketReceived, Once
  <2> QED BY <1>1, <2>1, PNumsAssumption, AscendingReceive DEF Once, NoWrap, OnceInv
<1>2. ASSUME NEW p \in PNums, RecvPacketDeleteBelow(p)
      PROVE  Ascending'
  <2>1. CASE p <= lowest
    BY <1>2, <2>1 DEF RecvPacketDeleteBelow, Ascending, OnceInv
  <2>2. CASE ~ (p <= lowest)
    BY <1>2, <2>2, PNumsAssumption, AscendingDelete DEF RecvPacketDeleteBelow, OnceInv
  <2> QED BY <2>1, <2>2
<1>3. CASE UNCHANGED vars
  BY <1>3 DEF vars, Ascending, OnceInv
<1> QED BY <1>1, <1>2, <1>3 DEF Next

LEMMA OnceInvariant == Once => (Spec => []OnceInv)
<1> SUFFICES ASSUME Once
             PROVE  Spec => []OnceInv
  OBVIOUS
<1> DEFINE Inv == AllHonest /\ Ascending
<1>1. Init => Inv
  BY DEF Init, AllHonest, Ascending
<1>2. TypeInv /\ Apart /\ Inv /\ [Next]_vars => Inv'
  BY HonestStep, AscendingStep DEF OnceInv
<1>3. TypeInv /\ Apart /\ Inv => OnceInv
  BY DEF OnceInv
<1>4. Spec => [](TypeInv /\ Apart)
  BY ApartInvariant DEF Once
<1> HIDE DEF Inv
<1> QED BY <1>1, <1>2, <1>3, <1>4, PTL DEF Spec

(* The blocks recv_packet_generate_ack fills in are disjoint and strictly  *)
(* descending as long as the network duplicates nothing.                   *)
THEOREM BlocksDescend == Once => (Spec => []AckDescending)
<1>1. OnceInv => AckDescending
  <2> SUFFICES ASSUME OnceInv
               PROVE  AckDescending
    OBVIOUS
  <2>1. ranges \in Seq(Interval)
    BY DEF OnceInv, TypeInv, TypeOK
  <2> DEFINE n == Len(ranges)
  <2>2. DOMAIN GenerateAck = 1 .. n /\ n \in Nat
    BY <2>1 DEF GenerateAck
  <2>3. ASSUME NEW i \in 1 .. n
        PROVE  /\ n - i + 1 \in 1 .. n
               /\ GenerateAck[i].start = ranges[n - i + 1].min
               /\ GenerateAck[i].end = ranges[n - i + 1].max
    BY <2>1, <2>2 DEF GenerateAck, Block, Reverse
  <2>4. ASSUME NEW i \in 1 .. n, NEW j \in 1 .. n, i < j
        PROVE  GenerateAck[i].start > GenerateAck[j].end
    <3>1. n - j + 1 < n - i + 1 /\ n - j + 1 \in 1 .. n /\ n - i + 1 \in 1 .. n
      BY <2>4
    <3>2. ranges[n - j + 1].max < ranges[n - i + 1].min
      BY <3>1 DEF OnceInv, Ascending
    <3> QED BY <2>3, <3>2
  <2> QED BY <2>2, <2>4 DEF AckDescending
<1> QED BY <1>1, OnceInvariant, PTL

(* recv_packet_delete_below removes from the report exactly the numbers    *)
(* below its bound as long as the network duplicates nothing.              *)
THEOREM DeletionExact == Once => (Spec => DeleteIsExact)
<1> SUFFICES ASSUME Once
             PROVE  Spec => DeleteIsExact
  OBVIOUS
<1> DEFINE Exact ==
      lowest' # lowest =>
        Covered(ranges') = {q \in Covered(ranges) : q >= lowest'}
<1>1. OnceInv /\ [Next]_vars => [Exact]_vars
  <2> SUFFICES ASSUME OnceInv, Next, lowest' # lowest
               PROVE  Covered(ranges') = {q \in Covered(ranges) : q >= lowest'}
    BY DEF vars
  <2>1. PICK p \in PNums : RecvPacketDeleteBelow(p)
    BY DEF Next, RecvPacketReceived
  <2>2. lowest' = p /\ DeleteWalk(p)
    BY <2>1 DEF RecvPacketDeleteBelow
  <2>3. /\ Covered(ranges') \subseteq Covered(ranges)
        /\ \A q \in Covered(ranges) : q >= p => q \in Covered(ranges')
    BY <2>2, PNumsAssumption, ApartDelete DEF OnceInv
  <2>4. \A q \in Covered(ranges') : q >= p
    BY <2>2, PNumsAssumption, AscendingDelete DEF OnceInv
  <2> QED BY <2>2, <2>3, <2>4
<1>2. Spec => []OnceInv
  BY OnceInvariant
<1> QED BY <1>1, <1>2, PTL DEF Spec, DeleteIsExact

-----------------------------------------------------------------------------
(* The recursions of AckFrame have solutions, which they therefore follow. *)

(* f adds up the numbers of s one by one.                                  *)
AddsUp(f, s) ==
  /\ f[0] = 0
  /\ \A i \in 1 .. Len(s) : f[i] = f[i - 1] + s[i]
  /\ Total(s) = f[Len(s)]

LEMMA TotalSteps ==
  ASSUME NEW s, NEW n \in Nat, Len(s) = n
  PROVE  \E f : AddsUp(f, s)
  <1> DEFINE Steps(f, m) == [k \in 0 .. m |-> IF k = 0 THEN 0 ELSE f[k - 1] + s[k]]
             P == {m \in Nat : \E f : f = Steps(f, m)}
  <1>1. Total(s) = (CHOOSE f : f = Steps(f, n))[n]
    BY DEF Total
  <1>2. 0 \in P
    <2> DEFINE f == [k \in 0 .. 0 |-> 0]
    <2>1. f = Steps(f, 0)
      OBVIOUS
    <2> QED
      BY <2>1
  <1>3. ASSUME NEW m \in Nat, m \in P PROVE m + 1 \in P
    <2>1. PICK f : f = Steps(f, m)
      BY <1>3
    <2> DEFINE g == [k \in 0 .. m + 1 |-> IF k <= m THEN f[k] ELSE f[m] + s[m + 1]]
    <2>2. \A k \in 0 .. m : g[k] = f[k]
      OBVIOUS
    <2>3. ASSUME NEW k \in 0 .. m + 1
          PROVE  g[k] = IF k = 0 THEN 0 ELSE g[k - 1] + s[k]
      <3>1. CASE k <= m
        <4>1. k \in 0 .. m /\ g[k] = f[k] /\ (k # 0 => g[k - 1] = f[k - 1])
          BY <2>2, <3>1
        <4>2. f[k] = IF k = 0 THEN 0 ELSE f[k - 1] + s[k]
          BY <2>1, <4>1
        <4> QED
          BY <4>1, <4>2
      <3>2. CASE k = m + 1
        <4>1. k # 0 /\ k - 1 = m /\ g[m] = f[m] /\ ~ (k <= m)
          BY <2>2, <3>2
        <4> QED
          BY <3>2, <4>1
      <3> QED
        BY <3>1, <3>2
    <2>4. g = Steps(g, m + 1)
      <3>1. g = [k \in 0 .. m + 1 |-> g[k]]
        OBVIOUS
      <3> HIDE DEF g
      <3> QED
        BY <2>3, <3>1
    <2> HIDE DEF g
    <2> QED
      BY <2>4
  <1>4. n \in P
    <2> HIDE DEF P
    <2> QED
      BY <1>2, <1>3, SetInduction
  <1> DEFINE f == CHOOSE f : f = Steps(f, n)
  <1>5. f = Steps(f, n)
    BY <1>4
  <1>6. Total(s) = f[n]
    BY <1>1
  <1> HIDE DEF f
  <1>7. \A k \in 0 .. n : f[k] = IF k = 0 THEN 0 ELSE f[k - 1] + s[k]
    BY <1>5
  <1>8. f[0] = 0 /\ \A k \in 1 .. n : f[k] = f[k - 1] + s[k]
    BY <1>7
  <1> QED
    BY <1>6, <1>8 DEF AddsUp

(* w is what AckEncode has written after each field.                       *)
Blank(room) == [used |-> 0, buf |-> [i \in 1 .. room |-> 0], failed |-> FALSE]

Written(w) == IF w.failed THEN <<>> ELSE SubSeq(w.buf, 1, w.used)

WritesInSteps(w, f, room, fields, n) ==
  /\ w[0] = Blank(room)
  /\ \A k \in 1 .. n : w[k] = Put(w[k - 1], fields[k], room)
  /\ AckEncode(f, room) = Written(w[n])

LEMMA EncodeSteps ==
  ASSUME NEW frame, NEW room, NEW n \in Nat, NEW fields,
         fields = Fields(frame), Len(fields) = n
  PROVE  \E w : WritesInSteps(w, frame, room, fields, n)
  <1> DEFINE blank == Blank(room)
             Write(r, k) == Put(r, fields[k], room)
  <1> DEFINE Steps(f, m) == [k \in 0 .. m |-> IF k = 0 THEN blank ELSE Write(f[k - 1], k)]
             P == {m \in Nat : \E f : f = Steps(f, m)}
  <1>1. AckEncode(frame, room) = Written((CHOOSE f : f = Steps(f, n))[n])
    BY DEF AckEncode, Written, Blank
  <1> HIDE DEF blank, Write
  <1>2. 0 \in P
    <2> DEFINE f == [k \in 0 .. 0 |-> blank]
    <2>1. f = Steps(f, 0)
      OBVIOUS
    <2> QED
      BY <2>1
  <1>3. ASSUME NEW m \in Nat, m \in P PROVE m + 1 \in P
    <2>1. PICK f : f = Steps(f, m)
      BY <1>3
    <2> DEFINE g == [k \in 0 .. m + 1 |-> IF k <= m THEN f[k] ELSE Write(f[m], m + 1)]
    <2>2. \A k \in 0 .. m : g[k] = f[k]
      OBVIOUS
    <2>3. ASSUME NEW k \in 0 .. m + 1
          PROVE  g[k] = IF k = 0 THEN blank ELSE Write(g[k - 1], k)
      <3>1. CASE k <= m
        <4>1. k \in 0 .. m /\ g[k] = f[k] /\ (k # 0 => g[k - 1] = f[k - 1])
          BY <2>2, <3>1
        <4>2. f[k] = IF k = 0 THEN blank ELSE Write(f[k - 1], k)
          BY <2>1, <4>1
        <4> QED
          BY <4>1, <4>2
      <3>2. CASE k = m + 1
        <4>1. k # 0 /\ k - 1 = m /\ g[m] = f[m] /\ ~ (k <= m)
          BY <2>2, <3>2
        <4> QED
          BY <3>2, <4>1
      <3> QED
        BY <3>1, <3>2
    <2>4. g = Steps(g, m + 1)
      <3>1. g = [k \in 0 .. m + 1 |-> g[k]]
        OBVIOUS
      <3> HIDE DEF g
      <3> QED
        BY <2>3, <3>1
    <2> HIDE DEF g
    <2> QED
      BY <2>4
  <1>4. n \in P
    <2> HIDE DEF P
    <2> QED
      BY <1>2, <1>3, SetInduction
  <1> DEFINE f == CHOOSE f : f = Steps(f, n)
  <1>5. f = Steps(f, n)
    BY <1>4
  <1>6. AckEncode(frame, room) = Written(f[n])
    BY <1>1
  <1> HIDE DEF f
  <1>7. \A k \in 0 .. n : f[k] = IF k = 0 THEN blank ELSE Write(f[k - 1], k)
    BY <1>5
  <1>8. f[0] = blank /\ \A k \in 1 .. n : f[k] = Write(f[k - 1], k)
    BY <1>7
  <1> QED
    BY <1>6, <1>8 DEF blank, Write, WritesInSteps

(* g is what GetAll has read after each integer.                           *)
GetsInSteps(g, buf, beyond, r, mores, n) ==
  /\ g[0] = r
  /\ \A k \in 1 .. n : g[k] = Get(buf, beyond, g[k - 1], mores[k])
  /\ GetAll(buf, beyond, r, mores) = g[n]

LEMMA GetSteps ==
  ASSUME NEW buf, NEW beyond, NEW r, NEW n \in Nat, NEW mores, Len(mores) = n
  PROVE  \E g : GetsInSteps(g, buf, beyond, r, mores, n)
  <1> DEFINE Read(s, k) == Get(buf, beyond, s, mores[k])
  <1> DEFINE Steps(f, m) == [k \in 0 .. m |-> IF k = 0 THEN r ELSE Read(f[k - 1], k)]
             P == {m \in Nat : \E f : f = Steps(f, m)}
  <1>1. GetAll(buf, beyond, r, mores) = (CHOOSE f : f = Steps(f, n))[n]
    BY DEF GetAll
  <1> HIDE DEF Read
  <1>2. 0 \in P
    <2> DEFINE f == [k \in 0 .. 0 |-> r]
    <2>1. f = Steps(f, 0)
      OBVIOUS
    <2> QED
      BY <2>1
  <1>3. ASSUME NEW m \in Nat, m \in P PROVE m + 1 \in P
    <2>1. PICK f : f = Steps(f, m)
      BY <1>3
    <2> DEFINE g == [k \in 0 .. m + 1 |-> IF k <= m THEN f[k] ELSE Read(f[m], m + 1)]
    <2>2. \A k \in 0 .. m : g[k] = f[k]
      OBVIOUS
    <2>3. ASSUME NEW k \in 0 .. m + 1
          PROVE  g[k] = IF k = 0 THEN r ELSE Read(g[k - 1], k)
      <3>1. CASE k <= m
        <4>1. k \in 0 .. m /\ g[k] = f[k] /\ (k # 0 => g[k - 1] = f[k - 1])
          BY <2>2, <3>1
        <4>2. f[k] = IF k = 0 THEN r ELSE Read(f[k - 1], k)
          BY <2>1, <4>1
        <4> QED
          BY <4>1, <4>2
      <3>2. CASE k = m + 1
        <4>1. k # 0 /\ k - 1 = m /\ g[m] = f[m] /\ ~ (k <= m)
          BY <2>2, <3>2
        <4> QED
          BY <3>2, <4>1
      <3> QED
        BY <3>1, <3>2
    <2>4. g = Steps(g, m + 1)
      <3>1. g = [k \in 0 .. m + 1 |-> g[k]]
        OBVIOUS
      <3> HIDE DEF g
      <3> QED
        BY <2>3, <3>1
    <2> HIDE DEF g
    <2> QED
      BY <2>4
  <1>4. n \in P
    <2> HIDE DEF P
    <2> QED
      BY <1>2, <1>3, SetInduction
  <1> DEFINE f == CHOOSE f : f = Steps(f, n)
  <1>5. f = Steps(f, n)
    BY <1>4
  <1>6. GetAll(buf, beyond, r, mores) = f[n]
    BY <1>1
  <1> HIDE DEF f
  <1>7. \A k \in 0 .. n : f[k] = IF k = 0 THEN r ELSE Read(f[k - 1], k)
    BY <1>5
  <1>8. f[0] = r /\ \A k \in 1 .. n : f[k] = Read(f[k - 1], k)
    BY <1>7
  <1> QED
    BY <1>6, <1>8 DEF Read, GetsInSteps

(* The blocks that Rebuild makes, one by one.                              *)
RebuiltInSteps(b, largest, distance, gap, later, n) ==
  /\ b = [i \in 1 .. n |-> b[i]]
  /\ n >= 1 => b[1] = [start |-> Unsigned(largest - distance), end |-> largest]
  /\ \A i \in 2 .. n :
       LET end == Unsigned(b[i - 1].start - gap[i] - 2)
       IN b[i] = [start |-> Unsigned(end - later[i]), end |-> end]

LEMMA RebuildSteps ==
  ASSUME NEW largest, NEW distance, NEW gap, NEW later, NEW n \in Nat
  PROVE  RebuiltInSteps(Rebuild(largest, distance, gap, later, n),
                        largest, distance, gap, later, n)
  <1> DEFINE EndAt(b, i) == IF i = 1 THEN largest ELSE Unsigned(b.start - gap[i] - 2)
             Built(b, i) ==
               [start |-> Unsigned(EndAt(b, i) - IF i = 1 THEN distance ELSE later[i]),
                end |-> EndAt(b, i)]
             Steps(f, m) == [i \in 1 .. m |-> Built(f[i - 1], i)]
             P == {m \in Nat : \E f : f = Steps(f, m)}
  <1>1. Rebuild(largest, distance, gap, later, n) = CHOOSE f : f = Steps(f, n)
    BY DEF Rebuild
  <1>2. \A x, y : Built(x, 1) = Built(y, 1)
    OBVIOUS
  <1>3. \A x : Built(x, 1) = [start |-> Unsigned(largest - distance), end |-> largest]
    OBVIOUS
  <1>4. ASSUME NEW x, NEW i \in 2 .. n
        PROVE  LET end == Unsigned(x.start - gap[i] - 2)
               IN Built(x, i) = [start |-> Unsigned(end - later[i]), end |-> end]
    OBVIOUS
  <1> HIDE DEF Built
  <1>5. 0 \in P
    <2> DEFINE f == [i \in 1 .. 0 |-> Built(0, i)]
    <2>1. f = Steps(f, 0)
      OBVIOUS
    <2> QED
      BY <2>1
  <1>6. ASSUME NEW m \in Nat, m \in P PROVE m + 1 \in P
    <2>1. PICK f : f = Steps(f, m)
      BY <1>6
    <2> DEFINE g == [i \in 1 .. m + 1 |-> IF i <= m THEN f[i] ELSE Built(f[m], m + 1)]
    <2>2. \A i \in 1 .. m : g[i] = f[i]
      OBVIOUS
    <2>3. ASSUME NEW i \in 1 .. m + 1
          PROVE  g[i] = Built(g[i - 1], i)
      <3>1. CASE i = 1 /\ m = 0
        BY <1>2, <3>1
      <3>2. CASE i = 1 /\ m # 0
        <4>1. 1 \in 1 .. m /\ g[1] = f[1]
          BY <2>2, <3>2
        <4>2. f[1] = Built(f[1 - 1], 1)
          BY <2>1, <4>1
        <4> QED
          BY <1>2, <3>2, <4>1, <4>2
      <3>3. CASE i # 1 /\ i <= m
        <4>1. i \in 1 .. m /\ i - 1 \in 1 .. m /\ g[i] = f[i] /\ g[i - 1] = f[i - 1]
          BY <2>2, <3>3
        <4>2. f[i] = Built(f[i - 1], i)
          BY <2>1, <4>1
        <4> QED
          BY <4>1, <4>2
      <3>4. CASE i # 1 /\ i = m + 1
        <4>1. m \in 1 .. m /\ i - 1 = m /\ g[m] = f[m] /\ ~ (i <= m)
          BY <2>2, <3>4
        <4> QED
          BY <3>4, <4>1
      <3> QED
        BY <3>1, <3>2, <3>3, <3>4
    <2>4. g = Steps(g, m + 1)
      <3>1. g = [i \in 1 .. m + 1 |-> g[i]]
        OBVIOUS
      <3> HIDE DEF g
      <3> QED
        BY <2>3, <3>1
    <2> HIDE DEF g
    <2> QED
      BY <2>4
  <1>7. n \in P
    <2> HIDE DEF P
    <2> QED
      BY <1>5, <1>6, SetInduction
  <1> DEFINE b == CHOOSE f : f = Steps(f, n)
  <1>8. b = Steps(b, n)
    BY <1>7
  <1> HIDE DEF b
  <1>9. \A i \in 1 .. n : b[i] = Built(b[i - 1], i)
    BY <1>8
  <1>10. b = [i \in 1 .. n |-> b[i]]
    BY <1>8, <1>9
  <1>11. n >= 1 => b[1] = [start |-> Unsigned(largest - distance), end |-> largest]
    <2> SUFFICES ASSUME n >= 1
                 PROVE  b[1] = [start |-> Unsigned(largest - distance), end |-> largest]
      OBVIOUS
    <2>1. b[1] = Built(b[1 - 1], 1)
      BY <1>9
    <2> QED
      BY <1>3, <2>1
  <1>12. ASSUME NEW i \in 2 .. n
         PROVE  LET end == Unsigned(b[i - 1].start - gap[i] - 2)
                IN b[i] = [start |-> Unsigned(end - later[i]), end |-> end]
    <2>1. b[i] = Built(b[i - 1], i)
      BY <1>9
    <2> QED
      BY <1>4, <2>1
  <1>13. Rebuild(largest, distance, gap, later, n) = b
    BY <1>1 DEF b
  <1>14. RebuiltInSteps(b, largest, distance, gap, later, n)
    BY <1>10, <1>11, <1>12, Zenon DEF RebuiltInSteps
  <1> QED
    BY <1>13, <1>14

-----------------------------------------------------------------------------
(* Sizes of integers.                                                      *)

(* A larger integer takes at least as many bytes.                          *)
LEMMA SizeMonotone ==
  ASSUME NEW u \in Nat, NEW v \in Nat, u <= v, ~ TooLarge(v)
  PROVE  /\ ~ TooLarge(u)
         /\ VarintSize(u) = Shortest(u) /\ VarintSize(v) = Shortest(v)
         /\ Shortest(u) \in 1 .. 8 /\ Shortest(v) \in 1 .. 8
         /\ Shortest(u) <= Shortest(v)
  <1>1. ~ TooLarge(u)
    BY LengthsType DEF TooLarge, Lengths
  <1>2. /\ Shortest(u) \in Lengths /\ VarintSize(u) = Shortest(u)
        /\ Shortest(v) \in Lengths /\ VarintSize(v) = Shortest(v)
        /\ v < Limit(Shortest(v))
    BY <1>1, ShortestType
  <1>3. Limit(Shortest(v)) \in Nat
    BY <1>2, LengthsType
  <1>4. u < Limit(Shortest(v))
    BY <1>2, <1>3
  <1> DEFINE Fits == {n \in Lengths : u < Limit(n)}
  <1>5. Fits \subseteq Nat /\ Fits # {}
    BY <1>2, <1>4, LengthsType
  <1>6. PICK n \in Fits : \A m \in Fits : n <= m
    BY <1>5, LeastNatural
  <1>7. \E m \in Lengths : u < Limit(m) /\ \A k \in Lengths : u < Limit(k) => m <= k
    BY <1>6
  <1>8. \A k \in Lengths : u < Limit(k) => Shortest(u) <= k
    BY <1>7 DEF Shortest
  <1>9. Shortest(u) <= Shortest(v)
    BY <1>2, <1>4, <1>8
  <1> QED
    BY <1>1, <1>2, <1>9, LengthsType

-----------------------------------------------------------------------------
(* The frames that the format can express.                                 *)

Blocks == [start : Number, end : Number]

Sendable(f) ==
  /\ f.type \in Types
  /\ f.delay \in Nat /\ ~ TooLarge(f.delay)
  /\ f.blocks \in Seq(Blocks) /\ f.blocks # <<>>
  /\ \A i \in 1 .. Len(f.blocks) : f.blocks[i].start <= f.blocks[i].end
  /\ f.ecn \in Seq(Nat) /\ Len(f.ecn) = 3
  /\ \A i \in 1 .. 3 : ~ TooLarge(f.ecn[i])
  /\ Gapped(f)

(* Packet numbers are far from the limits of integers and of size_t.       *)
LEMMA NumbersFit ==
  /\ Modulus \in Nat \ {0} /\ Word \in Nat \ {0} /\ 16 * (Modulus + 4) < Word
  /\ \A v \in Nat : v <= Modulus => ~ TooLarge(v) /\ Unsigned(v) = v
  <1>1. Modulus \in Nat \ {0} /\ Word \in Nat \ {0} /\ 16 * (Modulus + 4) < Word
    BY ModulusAssumption, WordType, WireAssumption
  <1>2. Power[7] \in Nat /\ Low \in Nat /\ Byte = 4 * Low /\ Power[8] = Byte * Power[7]
    BY PowerType, PowerSteps, ByteType
  <1>3. Word = 4 * Limit(8)
    <2>1. 8 - 1 = 7 /\ (4 * Low) * Power[7] = 4 * (Low * Power[7])
      BY <1>2
    <2> QED
      BY <1>2, <2>1 DEF Word, Limit
  <1>4. Limit(8) \in Nat
    BY LengthsType DEF Lengths
  <1>5. ASSUME NEW v \in Nat, v <= Modulus PROVE ~ TooLarge(v) /\ Unsigned(v) = v
    <2>1. v < Limit(8) /\ v < Word
      BY <1>1, <1>3, <1>4, <1>5
    <2>2. v % Word = v
      BY <1>1, <2>1
    <2> QED
      BY <1>4, <2>1, <2>2 DEF TooLarge, Unsigned
  <1> QED
    BY <1>1, <1>5

(* Later blocks lie below earlier ones, so that no difference wraps and    *)
(* the gap that ack_size measures is at least the one that is sent.        *)
LEMMA BlockFacts ==
  ASSUME NEW f, Sendable(f)
  PROVE  LET n == Len(f.blocks)
             b == f.blocks
         IN /\ n \in Nat \ {0} /\ 2 * (n - 1) < Modulus
            /\ \A i \in 1 .. n :
                 /\ b[i].start \in Number /\ b[i].end \in Number /\ b[i].start <= b[i].end
                 /\ b[i] = [start |-> b[i].start, end |-> b[i].end]
                 /\ Distance(b[i]) = b[i].end - b[i].start /\ Distance(b[i]) \in Number
            /\ \A i \in 2 .. n :
                 /\ Gap(b[i - 1], b[i]) = b[i - 1].start - b[i].end - 2
                 /\ Gap(b[i - 1], b[i]) \in Number /\ Gap(b[1], b[i]) \in Number
                 /\ Gap(b[i - 1], b[i]) <= Gap(b[1], b[i])
  <1> DEFINE n == Len(f.blocks)
             b == f.blocks
  <1>1. b \in Seq(Blocks) /\ b # <<>> /\ \A i \in 1 .. n : b[i].start <= b[i].end
    BY DEF Sendable
  <1>2. \A i \in 1 .. n - 1 : b[i].start >= b[i + 1].end + 2
    BY DEF Sendable, Gapped
  <1>3. n \in Nat \ {0} /\ \A i \in 1 .. n : b[i] \in Blocks
    BY <1>1
  <1> HIDE DEF n, b
  <1>4. ASSUME NEW i \in 1 .. n
        PROVE  /\ b[i].start \in Number /\ b[i].end \in Number /\ b[i].start <= b[i].end
               /\ b[i] = [start |-> b[i].start, end |-> b[i].end]
    <2>1. b[i] \in Blocks
      BY <1>3
    <2> QED
      BY <1>1, <2>1 DEF Blocks
  <1>5. ASSUME NEW i \in 2 .. n PROVE b[i - 1].start >= b[i].end + 2
    <2>1. i - 1 \in 1 .. n - 1 /\ (i - 1) + 1 = i
      BY <1>3
    <2> QED
      BY <1>2, <2>1
  <1>6. \A i \in 1 .. n : b[1].start >= b[i].start + 2 * (i - 1)
    <2> DEFINE P == {i \in Nat : i + 1 <= n => b[1].start >= b[i + 1].start + 2 * i}
    <2>1. 0 \in P
      <3>1. 1 \in 1 .. n /\ 0 + 1 = 1
        BY <1>3
      <3>2. b[1].start \in Number
        BY <1>4, <3>1
      <3>3. b[1].start \in Int
        BY <3>2 DEF Number
      <3> QED
        BY <3>1, <3>3
    <2>2. ASSUME NEW i \in Nat, i \in P PROVE i + 1 \in P
      <3> SUFFICES ASSUME (i + 1) + 1 <= n
                   PROVE  b[1].start >= b[(i + 1) + 1].start + 2 * (i + 1)
        OBVIOUS
      <3>1. b[1].start >= b[i + 1].start + 2 * i
        BY <2>2, <1>3
      <3>2. (i + 1) + 1 \in 2 .. n /\ ((i + 1) + 1) - 1 = i + 1
            /\ i + 1 \in 1 .. n /\ (i + 1) + 1 \in 1 .. n /\ 1 \in 1 .. n
        BY <1>3
      <3>3. b[i + 1].start >= b[(i + 1) + 1].end + 2
        BY <1>5, <3>2
      <3>4. /\ b[(i + 1) + 1].start <= b[(i + 1) + 1].end
            /\ b[(i + 1) + 1].start \in Int /\ b[(i + 1) + 1].end \in Int
            /\ b[i + 1].start \in Int /\ b[1].start \in Int
        <4>1. /\ b[(i + 1) + 1].start <= b[(i + 1) + 1].end
              /\ b[(i + 1) + 1].start \in Number /\ b[(i + 1) + 1].end \in Number
              /\ b[i + 1].start \in Number /\ b[1].start \in Number
          BY <1>4, <3>2
        <4> QED
          BY <4>1 DEF Number
      <3> QED
        BY <3>1, <3>3, <3>4
    <2> HIDE DEF P
    <2>3. Nat \subseteq P
      BY <2>1, <2>2, SetInduction
    <2>4. ASSUME NEW i \in 1 .. n PROVE b[1].start >= b[i].start + 2 * (i - 1)
      <3>1. i - 1 \in P /\ (i - 1) + 1 = i /\ i <= n
        BY <1>3, <2>3
      <3> QED
        BY <3>1 DEF P
    <2> QED
      BY <2>4
  <1>7. 2 * (n - 1) < Modulus
    <2>1. n \in 1 .. n /\ 1 \in 1 .. n
      BY <1>3
    <2>2. b[1].start >= b[n].start + 2 * (n - 1)
      BY <1>6, <2>1
    <2>3. b[1].start \in 0 .. Modulus - 1 /\ b[n].start \in 0 .. Modulus - 1
      BY <1>4, <2>1 DEF Number
    <2> QED
      BY <1>3, <2>2, <2>3, NumbersFit
  <1>8. ASSUME NEW i \in 1 .. n
        PROVE  Distance(b[i]) = b[i].end - b[i].start /\ Distance(b[i]) \in Number
    <2>0. /\ b[i].start \in 0 .. Modulus - 1 /\ b[i].end \in 0 .. Modulus - 1
          /\ b[i].start <= b[i].end
      BY <1>4 DEF Number
    <2>1. /\ b[i].end - b[i].start \in Number /\ b[i].end - b[i].start \in Nat
          /\ b[i].end - b[i].start <= Modulus
      BY <2>0, NumbersFit DEF Number
    <2>2. Unsigned(b[i].end - b[i].start) = b[i].end - b[i].start
      BY <2>1, NumbersFit
    <2> QED
      BY <2>1, <2>2 DEF Distance
  <1>9. ASSUME NEW i \in 2 .. n
        PROVE  /\ Gap(b[i - 1], b[i]) = b[i - 1].start - b[i].end - 2
               /\ Gap(b[i - 1], b[i]) \in Number /\ Gap(b[1], b[i]) \in Number
               /\ Gap(b[i - 1], b[i]) <= Gap(b[1], b[i])
    <2>1. i - 1 \in 1 .. n /\ i \in 1 .. n /\ 1 \in 1 .. n
      BY <1>3
    <2>2. b[1].start >= b[i - 1].start + 2 * ((i - 1) - 1) /\ b[i - 1].start >= b[i].end + 2
      BY <1>5, <1>6, <2>1
    <2>3. /\ b[1].start \in 0 .. Modulus - 1 /\ b[i - 1].start \in 0 .. Modulus - 1
          /\ b[i].end \in 0 .. Modulus - 1
      BY <1>4, <2>1 DEF Number
    <2> DEFINE near == b[i - 1].start - b[i].end - 2
               far == b[1].start - b[i].end - 2
    <2>4. /\ near \in Nat /\ near <= Modulus /\ near \in Number
          /\ far \in Nat /\ far <= Modulus /\ far \in Number /\ near <= far
      BY <2>1, <2>2, <2>3, NumbersFit DEF Number
    <2> HIDE DEF near, far
    <2>5. Unsigned(near) = near /\ Unsigned(far) = far
      BY <2>4, NumbersFit
    <2>6. Gap(b[i - 1], b[i]) = near /\ Gap(b[1], b[i]) = far
      BY <2>5 DEF Gap, near, far
    <2> QED
      BY <2>4, <2>6 DEF near
  <1> QED
    BY <1>3, <1>4, <1>7, <1>8, <1>9 DEF n, b

-----------------------------------------------------------------------------
(* The integers of a frame.                                                *)

Item == {x \in [value : Nat, more : BOOLEAN] : ~ TooLarge(x.value)}

FieldCount(f) == 2 * Len(f.blocks) + 2 + Len(Counters(f))

LEMMA ItemType ==
  ASSUME NEW v \in Nat, ~ TooLarge(v)
  PROVE  /\ More(v) \in Item /\ More(v).value = v
         /\ Enough(v) \in Item /\ Enough(v).value = v /\ Enough(v).more = FALSE
  BY DEF Item, More, Enough

(* What stands where.  The last integer needs no successor.                *)
LEMMA FieldsOf ==
  ASSUME NEW f, Sendable(f)
  PROVE  LET n == Len(f.blocks)
             b == f.blocks
             c == Len(Counters(f))
             s == Fields(f)
         IN /\ c \in Nat /\ c = IF f.type = "ACK_ECN" THEN 3 ELSE 0
            /\ s \in Seq(Item) /\ Len(s) = FieldCount(f)
            /\ s[1].value = b[1].end /\ s[2].value = f.delay
            /\ s[3].value = n - 1 /\ s[4].value = Distance(b[1])
            /\ \A i \in 2 .. n : /\ s[2 * i + 1].value = Gap(b[i - 1], b[i])
                                 /\ s[2 * i + 2].value = Distance(b[i])
            /\ \A j \in 1 .. c : s[2 * n + 2 + j].value = f.ecn[j]
            /\ s[FieldCount(f)].more = FALSE
  <1> DEFINE n == Len(f.blocks)
             b == f.blocks
             ecn == Counters(f)
             c == Len(ecn)
             head == HeadOf(f)
             pairs == [j \in 1 .. 2 * (n - 1) |-> PairOf(f, j)]
             rest == [i \in 1 .. c |-> IF i < 3 THEN More(ecn[i]) ELSE Enough(ecn[i])]
  <1>1. /\ n \in Nat \ {0} /\ 2 * (n - 1) < Modulus
        /\ \A i \in 1 .. n : b[i].end \in Number /\ Distance(b[i]) \in Number
        /\ \A i \in 2 .. n : Gap(b[i - 1], b[i]) \in Number
    BY BlockFacts
  <1>2. /\ c = IF f.type = "ACK_ECN" THEN 3 ELSE 0
        /\ \A j \in 1 .. c : ecn[j] = f.ecn[j] /\ ecn[j] \in Nat /\ ~ TooLarge(ecn[j])
    <2>1. /\ f.ecn \in Seq(Nat) /\ Len(f.ecn) = 3 /\ \A j \in 1 .. 3 : ~ TooLarge(f.ecn[j])
          /\ ecn = IF f.type = "ACK_ECN" THEN f.ecn ELSE <<>>
      BY DEF Sendable, Counters
    <2>2. \A j \in 1 .. 3 : f.ecn[j] \in Nat
      BY <2>1
    <2> HIDE DEF ecn
    <2>3. CASE f.type = "ACK_ECN"
      BY <2>1, <2>2, <2>3
    <2>4. CASE f.type # "ACK_ECN"
      <3>1. ecn = <<>> /\ c = 0
        BY <2>1, <2>4
      <3> QED
        BY <2>4, <3>1
    <2> QED
      BY <2>3, <2>4
  <1>3. \A v \in Number : v \in Nat /\ ~ TooLarge(v)
    BY NumbersFit DEF Number
  <1>4. Fields(f) = (head \o pairs) \o rest
    BY DEF Fields
  <1>5. /\ head = <<More(b[1].end), More(f.delay), More(n - 1), Enough(Distance(b[1]))>>
        /\ \A j \in 1 .. 2 * (n - 1) :
             PairOf(f, j) = IF j % 2 = 1
                            THEN More(Gap(b[(j + 1) \div 2], b[(j + 1) \div 2 + 1]))
                            ELSE Enough(Distance(b[(j + 1) \div 2 + 1]))
    BY DEF HeadOf, PairOf
  <1>6. f.delay \in Nat /\ ~ TooLarge(f.delay)
    BY DEF Sendable
  <1> HIDE DEF n, b, ecn, c, head
  <1>7. /\ head \in Seq(Item) /\ Len(head) = 4
        /\ head[1].value = b[1].end /\ head[2].value = f.delay
        /\ head[3].value = n - 1 /\ head[4].value = Distance(b[1]) /\ head[4].more = FALSE
    <2>1. 1 \in 1 .. n /\ n - 1 \in Nat /\ n - 1 <= Modulus
      BY <1>1, NumbersFit
    <2>2. /\ b[1].end \in Nat /\ ~ TooLarge(b[1].end)
          /\ Distance(b[1]) \in Nat /\ ~ TooLarge(Distance(b[1]))
          /\ ~ TooLarge(n - 1)
      BY <1>1, <1>3, <2>1, NumbersFit
    <2>3. /\ More(b[1].end) \in Item /\ More(b[1].end).value = b[1].end
          /\ More(f.delay) \in Item /\ More(f.delay).value = f.delay
          /\ More(n - 1) \in Item /\ More(n - 1).value = n - 1
          /\ Enough(Distance(b[1])) \in Item
          /\ Enough(Distance(b[1])).value = Distance(b[1])
          /\ Enough(Distance(b[1])).more = FALSE
      BY <1>6, <2>1, <2>2, ItemType
    <2> QED
      BY <1>5, <2>3
  <1>8. ASSUME NEW i \in 2 .. n
        PROVE  /\ PairOf(f, 2 * i - 3) \in Item
               /\ PairOf(f, 2 * i - 3).value = Gap(b[i - 1], b[i])
               /\ PairOf(f, 2 * i - 2) \in Item
               /\ PairOf(f, 2 * i - 2).value = Distance(b[i])
               /\ PairOf(f, 2 * i - 2).more = FALSE
    <2>1. /\ 2 * i - 3 \in 1 .. 2 * (n - 1) /\ 2 * i - 2 \in 1 .. 2 * (n - 1)
          /\ (2 * i - 3) % 2 = 1 /\ (2 * i - 2) % 2 # 1
          /\ ((2 * i - 3) + 1) \div 2 = i - 1 /\ ((2 * i - 2) + 1) \div 2 = i - 1
          /\ (i - 1) + 1 = i /\ i \in 1 .. n
      BY <1>1
    <2>2. /\ PairOf(f, 2 * i - 3) = More(Gap(b[i - 1], b[i]))
          /\ PairOf(f, 2 * i - 2) = Enough(Distance(b[i]))
      BY <1>5, <2>1
    <2>3. /\ Gap(b[i - 1], b[i]) \in Nat /\ ~ TooLarge(Gap(b[i - 1], b[i]))
          /\ Distance(b[i]) \in Nat /\ ~ TooLarge(Distance(b[i]))
      BY <1>1, <1>3, <2>1
    <2> QED
      BY <2>2, <2>3, ItemType
  <1>9. ASSUME NEW j \in 1 .. 2 * (n - 1)
        PROVE  \E i \in 2 .. n : j = 2 * i - 3 \/ j = 2 * i - 2
    <2>1. CASE j % 2 = 1
      <3>1. (j + 3) \div 2 \in 2 .. n /\ j = 2 * ((j + 3) \div 2) - 3
        BY <1>1, <2>1
      <3> QED
        BY <3>1
    <2>2. CASE j % 2 # 1
      <3>1. (j + 2) \div 2 \in 2 .. n /\ j = 2 * ((j + 2) \div 2) - 2
        BY <1>1, <2>2
      <3> QED
        BY <3>1
    <2> QED
      BY <2>1, <2>2
  <1>10. /\ pairs \in Seq(Item) /\ Len(pairs) = 2 * (n - 1)
         /\ \A j \in 1 .. 2 * (n - 1) : pairs[j] = PairOf(f, j)
    <2>1. 2 * (n - 1) \in Nat
      BY <1>1
    <2>2. \A j \in 1 .. 2 * (n - 1) : PairOf(f, j) \in Item
      BY <1>8, <1>9
    <2>3. pairs \in [1 .. 2 * (n - 1) -> Item]
      BY <2>2
    <2> QED
      BY <2>1, <2>3
  <1>11. /\ rest \in Seq(Item) /\ Len(rest) = c /\ c \in Nat
         /\ \A j \in 1 .. c : rest[j].value = f.ecn[j]
         /\ c = 3 => rest[3].more = FALSE
    <2>1. c \in Nat /\ \A j \in 1 .. c : j >= 3 => j = 3
      BY <1>2
    <2>2. \A j \in 1 .. c : /\ More(ecn[j]) \in Item /\ More(ecn[j]).value = f.ecn[j]
                            /\ Enough(ecn[j]) \in Item /\ Enough(ecn[j]).value = f.ecn[j]
                            /\ Enough(ecn[j]).more = FALSE
      BY <1>2, ItemType
    <2>3. \A j \in 1 .. c : rest[j] = IF j < 3 THEN More(ecn[j]) ELSE Enough(ecn[j])
      OBVIOUS
    <2>4. rest \in [1 .. c -> Item]
      BY <2>2
    <2>5. rest \in Seq(Item) /\ Len(rest) = c
      BY <2>1, <2>4
    <2> HIDE DEF rest
    <2>6. c = 3 => rest[3].more = FALSE
      BY <2>2, <2>3
    <2> QED
      BY <2>1, <2>2, <2>3, <2>5, <2>6
  <1> HIDE DEF pairs, rest
  <1> DEFINE front == head \o pairs
  <1>12. /\ front \in Seq(Item) /\ Len(front) = 2 * n + 2
         /\ \A k \in 1 .. 2 * n + 2 : front[k] = IF k <= 4 THEN head[k] ELSE pairs[k - 4]
    <2> DEFINE m == 2 * (n - 1)
               l == 4
    <2>1. m \in Nat /\ l \in Nat
      BY <1>1
    <2>2. /\ head \in Seq(Item) /\ Len(head) = l
          /\ pairs \in Seq(Item) /\ Len(pairs) = m
      BY <1>7, <1>10
    <2>3. l = 4 /\ l + m = 2 * n + 2
      BY <1>1
    <2> HIDE DEF l, m
    <2>4. /\ head \o pairs \in Seq(Item) /\ Len(head \o pairs) = l + m
          /\ \A k \in 1 .. l + m :
               (head \o pairs)[k] = IF k <= l THEN head[k] ELSE pairs[k - l]
      BY <2>1, <2>2, ConcatProperties
    <2> QED
      BY <2>3, <2>4
  <1> HIDE DEF front
  <1> DEFINE s == front \o rest
  <1>13. /\ s \in Seq(Item) /\ Len(s) = 2 * n + 2 + c
         /\ \A k \in 1 .. 2 * n + 2 + c :
              s[k] = IF k <= 2 * n + 2 THEN front[k] ELSE rest[k - (2 * n + 2)]
    <2> DEFINE l == 2 * n + 2
    <2>1. l \in Nat
      BY <1>1
    <2>2. front \in Seq(Item) /\ Len(front) = l
      BY <1>12
    <2> HIDE DEF l
    <2>3. rest \in Seq(Item) /\ Len(rest) = c /\ c \in Nat
      BY <1>11
    <2>4. /\ front \o rest \in Seq(Item) /\ Len(front \o rest) = l + c
          /\ \A k \in 1 .. l + c :
               (front \o rest)[k] = IF k <= l THEN front[k] ELSE rest[k - l]
      BY <2>1, <2>2, <2>3, ConcatProperties
    <2> QED
      BY <2>4 DEF l
  <1>14. Fields(f) = s
    BY <1>4 DEF front
  <1> HIDE DEF s
  <1>15. s[1] = head[1] /\ s[2] = head[2] /\ s[3] = head[3] /\ s[4] = head[4]
    <2>1. \A k \in 1 .. 4 : k \in 1 .. 2 * n + 2 /\ k \in 1 .. 2 * n + 2 + c
                            /\ k <= 2 * n + 2
      BY <1>1, <1>11
    <2>2. \A k \in 1 .. 4 : s[k] = head[k]
      BY <1>12, <1>13, <2>1
    <2> QED
      BY <2>2
  <1>16. ASSUME NEW i \in 2 .. n
         PROVE  s[2 * i + 1] = PairOf(f, 2 * i - 3) /\ s[2 * i + 2] = PairOf(f, 2 * i - 2)
    <2>1. /\ 2 * i + 1 \in 1 .. 2 * n + 2 /\ 2 * i + 2 \in 1 .. 2 * n + 2
          /\ 2 * i + 1 \in 1 .. 2 * n + 2 + c /\ 2 * i + 2 \in 1 .. 2 * n + 2 + c
          /\ 2 * i + 1 <= 2 * n + 2 /\ 2 * i + 2 <= 2 * n + 2
          /\ ~ (2 * i + 1 <= 4) /\ ~ (2 * i + 2 <= 4)
          /\ (2 * i + 1) - 4 = 2 * i - 3 /\ (2 * i + 2) - 4 = 2 * i - 2
          /\ 2 * i - 3 \in 1 .. 2 * (n - 1) /\ 2 * i - 2 \in 1 .. 2 * (n - 1)
      BY <1>1, <1>11
    <2>2. /\ s[2 * i + 1] = front[2 * i + 1] /\ s[2 * i + 2] = front[2 * i + 2]
      BY <1>13, <2>1
    <2>3. /\ front[2 * i + 1] = pairs[2 * i - 3] /\ front[2 * i + 2] = pairs[2 * i - 2]
      BY <1>12, <2>1
    <2> QED
      BY <1>10, <2>1, <2>2, <2>3
  <1>17. ASSUME NEW j \in 1 .. c PROVE s[2 * n + 2 + j] = rest[j]
    <2>1. /\ 2 * n + 2 + j \in 1 .. 2 * n + 2 + c /\ ~ (2 * n + 2 + j <= 2 * n + 2)
          /\ (2 * n + 2 + j) - (2 * n + 2) = j
      BY <1>1, <1>11
    <2> QED
      BY <1>13, <2>1
  <1>18. s[2 * n + 2 + c].more = FALSE
    <2>1. CASE c = 3
      BY <1>11, <1>17, <2>1
    <2>2. CASE c = 0 /\ n = 1
      <3>1. 2 * n + 2 + c = 4
        BY <2>2
      <3> QED
        BY <1>7, <1>15, <3>1
    <2>3. CASE c = 0 /\ n # 1
      <3>1. n \in 2 .. n /\ 2 * n + 2 + c = 2 * n + 2
        BY <1>1, <2>3
      <3> QED
        BY <1>8, <1>16, <3>1
    <2> QED
      BY <1>2, <2>1, <2>2, <2>3
  <1>19. FieldCount(f) = 2 * n + 2 + c
    BY DEF FieldCount, n, c, ecn
  <1>20. /\ s[1].value = b[1].end /\ s[2].value = f.delay
         /\ s[3].value = n - 1 /\ s[4].value = Distance(b[1])
    BY <1>7, <1>15
  <1>21. \A i \in 2 .. n : /\ s[2 * i + 1].value = Gap(b[i - 1], b[i])
                           /\ s[2 * i + 2].value = Distance(b[i])
    BY <1>8, <1>16
  <1>22. \A j \in 1 .. c : s[2 * n + 2 + j].value = f.ecn[j]
    BY <1>11, <1>17
  <1> QED
    BY <1>2, <1>11, <1>13, <1>14, <1>18, <1>19, <1>20, <1>21, <1>22 DEF n, b, c, ecn

-----------------------------------------------------------------------------
(* Where the integers of a list stand, one behind the other.               *)

Positions(pos, s) ==
  /\ pos[0] = 0
  /\ \A k \in 1 .. Len(s) : pos[k] = pos[k - 1] + Shortest(s[k].value)

LEMMA PositionsExist ==
  ASSUME NEW s \in Seq(Item)
  PROVE  \E pos : Positions(pos, s)
  <1> DEFINE sizes == [k \in 1 .. Len(s) |-> Shortest(s[k].value)]
  <1>1. Len(s) \in Nat /\ Len(sizes) = Len(s)
    OBVIOUS
  <1>2. \A k \in 1 .. Len(s) : sizes[k] = Shortest(s[k].value)
    OBVIOUS
  <1> HIDE DEF sizes
  <1>3. PICK pos : AddsUp(pos, sizes)
    BY <1>1, TotalSteps
  <1> QED
    BY <1>1, <1>2, <1>3 DEF AddsUp, Positions

LEMMA ItemSize ==
  ASSUME NEW s \in Seq(Item), NEW k \in 1 .. Len(s)
  PROVE  /\ s[k].value \in Nat /\ ~ TooLarge(s[k].value) /\ s[k].more \in BOOLEAN
         /\ Shortest(s[k].value) \in 1 .. 8
  <1>1. s[k] \in Item
    OBVIOUS
  <1>2. s[k].value \in Nat /\ ~ TooLarge(s[k].value) /\ s[k].more \in BOOLEAN
    BY <1>1 DEF Item
  <1> QED
    BY <1>2, ShortestType, LengthsType

LEMMA PositionsGrow ==
  ASSUME NEW s \in Seq(Item), NEW pos, Positions(pos, s)
  PROVE  /\ \A k \in 0 .. Len(s) : pos[k] \in Nat
         /\ \A j \in 0 .. Len(s), k \in 0 .. Len(s) :
              /\ j <= k => pos[j] <= pos[k]
              /\ j < k => pos[j] < pos[k]
  <1> DEFINE n == Len(s)
             P == {k \in Nat : k <= n =>
                     pos[k] \in Nat /\ \A j \in 0 .. k : pos[j] \in Nat /\ pos[j] + (k - j) <= pos[k]}
  <1>1. n \in Nat
    OBVIOUS
  <1>2. 0 \in P
    BY DEF Positions
  <1>3. ASSUME NEW k \in Nat, k \in P PROVE k + 1 \in P
    <2> SUFFICES ASSUME k + 1 <= n
                 PROVE  /\ pos[k + 1] \in Nat
                        /\ \A j \in 0 .. k + 1 :
                             pos[j] \in Nat /\ pos[j] + ((k + 1) - j) <= pos[k + 1]
      OBVIOUS
    <2>1. pos[k] \in Nat /\ \A j \in 0 .. k : pos[j] \in Nat /\ pos[j] + (k - j) <= pos[k]
      BY <1>1, <1>3
    <2>2. k + 1 \in 1 .. n /\ (k + 1) - 1 = k
      BY <1>1
    <2>3. pos[k + 1] = pos[k] + Shortest(s[k + 1].value)
      BY <2>2 DEF Positions
    <2>4. Shortest(s[k + 1].value) \in 1 .. 8
      BY <2>2, ItemSize
    <2>5. pos[k + 1] \in Nat /\ pos[k] + 1 <= pos[k + 1]
      BY <2>1, <2>3, <2>4
    <2>6. ASSUME NEW j \in 0 .. k + 1
          PROVE  pos[j] \in Nat /\ pos[j] + ((k + 1) - j) <= pos[k + 1]
      <3>1. CASE j = k + 1
        BY <2>5, <3>1
      <3>2. CASE j # k + 1
        <4>1. j \in 0 .. k
          BY <3>2
        <4>2. pos[j] \in Nat /\ pos[j] + (k - j) <= pos[k]
          BY <2>1, <4>1
        <4> QED
          BY <2>1, <2>5, <4>1, <4>2
      <3> QED
        BY <3>1, <3>2
    <2> QED
      BY <2>5, <2>6
  <1> HIDE DEF P
  <1>4. Nat \subseteq P
    BY <1>2, <1>3, SetInduction
  <1>5. ASSUME NEW k \in 0 .. n
        PROVE  pos[k] \in Nat /\ \A j \in 0 .. k : pos[j] \in Nat /\ pos[j] + (k - j) <= pos[k]
    BY <1>1, <1>4 DEF P
  <1>6. ASSUME NEW j \in 0 .. n, NEW k \in 0 .. n
        PROVE  (j <= k => pos[j] <= pos[k]) /\ (j < k => pos[j] < pos[k])
    <2>1. pos[k] \in Nat /\ pos[j] \in Nat /\ (j <= k => pos[j] + (k - j) <= pos[k])
      BY <1>1, <1>5
    <2> QED
      BY <1>1, <2>1
  <1> QED
    BY <1>5, <1>6

(* The first k integers stand in buf.                                      *)
StandsAt(buf, v, at) == \A i \in 1 .. Shortest(v) : buf[at + i] = EncodeBytes(v)[i]

LaysOut(buf, s, pos, k) == \A j \in 1 .. k : StandsAt(buf, s[j].value, pos[j - 1])

-----------------------------------------------------------------------------
(* Writing.                                                                *)

WellWritten(w, s, pos, k, room) ==
  /\ w.failed = FALSE
  /\ w.used = pos[k]
  /\ w.buf \in [1 .. room -> 0 .. Byte - 1]
  /\ LaysOut(w.buf, s, pos, k)

(* A place behind p counts as an index of what was put there.              *)
LEMMA PlaceInRange ==
  ASSUME NEW p \in Nat, NEW l \in Nat, NEW j \in p + 1 .. p + l
  PROVE  j - p \in 1 .. l
  OBVIOUS

(* What ack_encode writes stays behind what it wrote before, and within    *)
(* the buffer.                                                             *)
LEMMA PutStep ==
  ASSUME NEW s \in Seq(Item), NEW pos, Positions(pos, s),
         NEW room \in Nat, room < Word, pos[Len(s)] <= room, s[Len(s)].more = FALSE,
         NEW k \in Nat, k < Len(s), NEW w, WellWritten(w, s, pos, k, room)
  PROVE  WellWritten(Put(w, s[k + 1], room), s, pos, k + 1, room)
  <1> DEFINE n == Len(s)
             field == s[k + 1]
             v == field.value
             l == Shortest(v)
             p == pos[k]
             bytes == EncodeBytes(v)
             x == Put(w, field, room)
  <1>1. /\ n \in Nat /\ k + 1 \in 1 .. n /\ (k + 1) - 1 = k /\ k \in 0 .. n
        /\ k + 1 \in 0 .. n /\ n \in 0 .. n
    OBVIOUS
  <1>2. v \in Nat /\ ~ TooLarge(v) /\ field.more \in BOOLEAN /\ l \in 1 .. 8
    BY <1>1, ItemSize
  <1>3. /\ p \in Nat /\ pos[k + 1] = p + l /\ p + l <= room
        /\ k + 1 # n => p + l < room
    <2>1. pos[k + 1] = p + l
      BY <1>1 DEF Positions
    <2>2. /\ p \in Nat /\ pos[k + 1] \in Nat /\ pos[n] \in Nat
          /\ pos[k + 1] <= pos[n] /\ (k + 1 # n => pos[k + 1] < pos[n])
      BY <1>1, PositionsGrow
    <2> QED
      BY <2>1, <2>2
  <1>4. /\ w.failed = FALSE /\ w.used = p
        /\ w.buf \in [1 .. room -> 0 .. Byte - 1] /\ LaysOut(w.buf, s, pos, k)
    BY DEF WellWritten
  <1>5. k + 1 = n => field.more = FALSE
    OBVIOUS
  <1>6. /\ bytes \in Seq(0 .. Byte - 1) /\ Len(bytes) = l
        /\ \A i \in 1 .. l : bytes[i] \in 0 .. Byte - 1
    <2>1. bytes \in Seq(0 .. Byte - 1) /\ Len(bytes) = l
      BY <1>2, EncodedType
    <2> HIDE DEF bytes, l
    <2>2. \A i \in 1 .. l : bytes[i] \in 0 .. Byte - 1
      BY <2>1, ElementOfSeq
    <2> QED
      BY <2>1, <2>2
  <1>7. Word \in Nat \ {0}
    BY WordType
  <1> HIDE DEF n, v, l, p, bytes, x
  <1>8. Unsigned(room - p) = room - p /\ Unsigned(p + l) = p + l
    <2>1. room - p \in 0 .. Word - 1 /\ p + l \in 0 .. Word - 1
      BY <1>2, <1>3, <1>7
    <2>2. \A z \in 0 .. Word - 1 : z % Word = z
      BY <1>7
    <2> QED
      BY <2>1, <2>2 DEF Unsigned
  <1>9. EncodeResult(v, Unsigned(room - p)) = l
    <2>1. ~ (room - p < l)
      BY <1>2, <1>3
    <2> QED
      BY <1>2, <1>8, <2>1 DEF EncodeResult, l
  <1>10. x = [used |-> p + l,
              buf |-> [j \in 1 .. room |-> IF l > 0 /\ j \in p + 1 .. p + l
                                           THEN bytes[j - p] ELSE w.buf[j]],
              failed |-> GivesUp(p + l, room, field.more)]
    BY <1>4, <1>8, <1>9 DEF Put, x, v, bytes
  <1>11. x.failed = FALSE /\ x.used = pos[k + 1]
    <2>1. ~ (p + l > room) /\ ~ (field.more /\ p + l = room)
      BY <1>1, <1>2, <1>3, <1>5
    <2>2. GivesUp(p + l, room, field.more) = FALSE
      BY <2>1 DEF GivesUp
    <2> QED
      BY <1>3, <1>10, <2>2
  <1>12. \A j \in 1 .. room : x.buf[j] = IF j \in p + 1 .. p + l THEN bytes[j - p] ELSE w.buf[j]
    BY <1>2, <1>10
  <1>13. x.buf \in [1 .. room -> 0 .. Byte - 1]
    <2>1. ASSUME NEW j \in 1 .. room
          PROVE  (IF l > 0 /\ j \in p + 1 .. p + l THEN bytes[j - p] ELSE w.buf[j]) \in 0 .. Byte - 1
      <3>1. CASE j \in p + 1 .. p + l
        <4>1. j - p \in 1 .. l
          <5>1. p \in Nat /\ l \in Nat
            BY <1>2, <1>3
          <5> QED
            BY <5>1, <3>1, PlaceInRange
        <4> QED
          BY <1>2, <1>6, <3>1, <4>1
      <3>2. CASE j \notin p + 1 .. p + l
        <4>1. w.buf[j] \in 0 .. Byte - 1
          BY <1>4
        <4> QED
          BY <3>2, <4>1
      <3> QED
        BY <3>1, <3>2
    <2> QED
      BY <1>10, <2>1
  <1>14. LaysOut(x.buf, s, pos, k + 1)
    <2>1. ASSUME NEW j \in 1 .. k + 1, NEW i \in 1 .. Shortest(s[j].value)
          PROVE  x.buf[pos[j - 1] + i] = EncodeBytes(s[j].value)[i]
      <3>1. CASE j = k + 1
        <4>1. /\ j - 1 = k /\ i \in 1 .. l /\ p + i \in 1 .. room
              /\ p + i \in p + 1 .. p + l /\ (p + i) - p = i
          BY <1>2, <1>3, <3>1 DEF l, v
        <4> QED
          BY <1>12, <3>1, <4>1 DEF p, bytes, v
      <3>2. CASE j # k + 1
        <4>1. j \in 1 .. k /\ j \in 1 .. n /\ j - 1 \in 0 .. n /\ j \in 0 .. n /\ j <= k
          BY <1>1, <3>2
        <4>2. /\ pos[j] = pos[j - 1] + Shortest(s[j].value) /\ pos[j - 1] \in Nat
              /\ pos[j] <= p /\ pos[j] \in Nat
          <5>1. pos[j] = pos[j - 1] + Shortest(s[j].value)
            BY <4>1 DEF Positions, n
          <5>2. pos[j - 1] \in Nat /\ pos[j] \in Nat /\ pos[j] <= pos[k]
            BY <1>1, <4>1, PositionsGrow DEF n
          <5> QED
            BY <5>1, <5>2 DEF p
        <4>3. Shortest(s[j].value) \in 1 .. 8
          BY <4>1, ItemSize DEF n
        <4>4. pos[j - 1] + i \in 1 .. room /\ pos[j - 1] + i \notin p + 1 .. p + l
          <5> DEFINE a == pos[j - 1]
                     z == Shortest(s[j].value)
          <5>1. a \in Nat /\ a + z <= p /\ z \in 1 .. 8 /\ i \in 1 .. z
            BY <4>2, <4>3
          <5> HIDE DEF a, z
          <5>2. a + i \in 1 .. room /\ a + i \notin p + 1 .. p + l
            BY <1>2, <1>3, <5>1
          <5> QED
            BY <5>2 DEF a
        <4>5. w.buf[pos[j - 1] + i] = EncodeBytes(s[j].value)[i]
          BY <1>4, <4>1 DEF LaysOut, StandsAt
        <4> QED
          BY <1>12, <4>4, <4>5
      <3> QED
        BY <3>1, <3>2
    <2> QED
      BY <2>1 DEF LaysOut, StandsAt
  <1> QED
    BY <1>11, <1>13, <1>14 DEF WellWritten, x

(* ack_encode writes every integer when the buffer holds them all.         *)
LEMMA FrameWritten ==
  ASSUME NEW f, Sendable(f), NEW pos, Positions(pos, Fields(f)),
         NEW room \in Nat, room < Word, pos[FieldCount(f)] <= room
  PROVE  LET bytes == AckEncode(f, room)
         IN /\ bytes \in Seq(0 .. Byte - 1) /\ Len(bytes) = pos[FieldCount(f)]
            /\ LaysOut(bytes, Fields(f), pos, FieldCount(f))
  <1> DEFINE s == Fields(f)
             n == FieldCount(f)
  <1>1. s \in Seq(Item) /\ Len(s) = n /\ s[n].more = FALSE
    BY FieldsOf
  <1>2. n \in Nat
    BY <1>1
  <1>3. PICK w : WritesInSteps(w, f, room, s, n)
    BY <1>1, <1>2, EncodeSteps
  <1> HIDE DEF s, n
  <1> DEFINE P == {k \in Nat : k <= n => WellWritten(w[k], s, pos, k, room)}
  <1>4. 0 \in P
    <2>1. Blank(room).buf \in [1 .. room -> 0 .. Byte - 1]
      BY ByteType DEF Blank
    <2>2. w[0] = Blank(room) /\ pos[0] = 0
      BY <1>3 DEF WritesInSteps, Positions
    <2>3. Blank(room).used = 0 /\ Blank(room).failed = FALSE
      BY DEF Blank
    <2> QED
      BY <2>1, <2>2, <2>3 DEF WellWritten, LaysOut
  <1>5. ASSUME NEW k \in Nat, k \in P PROVE k + 1 \in P
    <2> SUFFICES ASSUME k + 1 <= n PROVE WellWritten(w[k + 1], s, pos, k + 1, room)
      OBVIOUS
    <2>1. k + 1 \in 1 .. n /\ (k + 1) - 1 = k /\ k < n /\ k <= n
      BY <1>2
    <2>2. w[k + 1] = Put(w[k], s[k + 1], room)
      BY <1>3, <2>1 DEF WritesInSteps
    <2>3. WellWritten(w[k], s, pos, k, room)
      BY <1>5, <2>1
    <2>4. Positions(pos, s) /\ pos[Len(s)] <= room /\ s[Len(s)].more = FALSE /\ k < Len(s)
      BY <1>1, <2>1 DEF s, n
    <2>5. WellWritten(Put(w[k], s[k + 1], room), s, pos, k + 1, room)
      BY <1>1, <2>3, <2>4, PutStep
    <2> QED
      BY <2>2, <2>5
  <1> HIDE DEF P
  <1>6. n \in P
    BY <1>2, <1>4, <1>5, SetInduction
  <1>7. WellWritten(w[n], s, pos, n, room)
    BY <1>2, <1>6 DEF P
  <1> DEFINE buf == w[n].buf
             m == pos[n]
  <1>8. /\ buf \in [1 .. room -> 0 .. Byte - 1] /\ LaysOut(buf, s, pos, n)
        /\ w[n].failed = FALSE /\ w[n].used = m
    BY <1>7 DEF WellWritten
  <1>9. m \in Nat /\ m <= room
    <2>1. Positions(pos, s) /\ Len(s) \in 0 .. Len(s)
      BY <1>1, <1>2 DEF s
    <2>2. pos[Len(s)] \in Nat
      BY <1>1, <2>1, PositionsGrow
    <2> QED
      BY <1>1, <2>2 DEF n
  <1> DEFINE bytes == SubSeq(buf, 1, m)
  <1>10. AckEncode(f, room) = bytes
    BY <1>3, <1>8 DEF WritesInSteps, Written
  <1> HIDE DEF buf, m
  <1>11. buf \in Seq(0 .. Byte - 1) /\ Len(buf) = room
    <2> DEFINE B == 0 .. Byte - 1
    <2>1. buf \in [1 .. room -> B]
      BY <1>8
    <2> HIDE DEF B
    <2>2. buf \in Seq(B) /\ Len(buf) = room
      BY <2>1
    <2> QED
      BY <2>2 DEF B
  <1>12. /\ bytes \in Seq(0 .. Byte - 1) /\ Len(bytes) = m
         /\ \A i \in 1 .. m : bytes[i] = buf[i]
    <2> DEFINE B == 0 .. Byte - 1
    <2>1. buf \in Seq(B) /\ Len(buf) = room
      BY <1>11
    <2> HIDE DEF B
    <2>2. /\ bytes \in Seq(B) /\ Len(bytes) = m
          /\ \A i \in 1 .. m : bytes[i] = buf[i]
      BY <1>9, <2>1
    <2> QED
      BY <2>2 DEF B
  <1> HIDE DEF bytes
  <1>13. LaysOut(bytes, s, pos, n)
    <2>1. ASSUME NEW j \in 1 .. n, NEW i \in 1 .. Shortest(s[j].value)
          PROVE  bytes[pos[j - 1] + i] = EncodeBytes(s[j].value)[i]
      <3>1. j \in 1 .. Len(s) /\ j \in 0 .. Len(s) /\ j - 1 \in 0 .. Len(s)
            /\ n \in 0 .. Len(s) /\ j <= n
        BY <1>1, <1>2
      <3>2. Positions(pos, s)
        BY DEF s
      <3>3. pos[j] = pos[j - 1] + Shortest(s[j].value)
        BY <3>1, <3>2 DEF Positions
      <3>4. pos[j - 1] \in Nat /\ pos[j] \in Nat /\ pos[j] <= m
        BY <1>1, <3>1, <3>2, PositionsGrow DEF m
      <3>5. Shortest(s[j].value) \in 1 .. 8
        BY <1>1, <3>1, ItemSize
      <3>6. pos[j - 1] + i \in 1 .. m
        BY <1>9, <3>3, <3>4, <3>5
      <3>7. buf[pos[j - 1] + i] = EncodeBytes(s[j].value)[i]
        BY <1>8 DEF LaysOut, StandsAt
      <3> QED
        BY <1>12, <3>6, <3>7
    <2> QED
      BY <2>1 DEF LaysOut, StandsAt
  <1> QED
    BY <1>10, <1>12, <1>13 DEF s, n, m

-----------------------------------------------------------------------------
(* The buffer of ack_size.                                                 *)

(* Measured from the first block, a gap takes at least as many bytes as    *)
(* the gap that is sent.                                                   *)
LEMMA BlockSizes ==
  ASSUME NEW f, Sendable(f)
  PROVE  LET b == f.blocks
         IN /\ BlockSize(f, 1) = Shortest(Distance(b[1])) /\ BlockSize(f, 1) \in 0 .. 16
            /\ \A i \in 2 .. Len(b) :
                 /\ BlockSize(f, i) \in 0 .. 16
                 /\ Shortest(Gap(b[i - 1], b[i])) + Shortest(Distance(b[i])) <= BlockSize(f, i)
  <1> DEFINE b == f.blocks
             n == Len(b)
  <1>1. /\ n \in Nat \ {0}
        /\ \A i \in 1 .. n : Distance(b[i]) \in Number
        /\ \A i \in 2 .. n : /\ Gap(b[i - 1], b[i]) \in Number /\ Gap(b[1], b[i]) \in Number
                             /\ Gap(b[i - 1], b[i]) <= Gap(b[1], b[i])
    BY BlockFacts
  <1>2. \A i : BlockSize(f, i) =
                 VarintSize(Distance(b[i]))
                 + IF i = 1 THEN 0 ELSE VarintSize(Gap(b[1], b[i]))
    BY DEF BlockSize
  <1> HIDE DEF b, n
  <1>3. \A v \in Number : v \in Nat /\ ~ TooLarge(v)
    BY NumbersFit DEF Number
  <1>4. \A v \in Number : VarintSize(v) = Shortest(v) /\ Shortest(v) \in 1 .. 8
    BY <1>3, ShortestType, LengthsType
  <1>5. BlockSize(f, 1) = Shortest(Distance(b[1])) /\ BlockSize(f, 1) \in 0 .. 16
    <2>1. 1 \in 1 .. n
      BY <1>1
    <2>2. BlockSize(f, 1) = VarintSize(Distance(b[1])) + 0
      BY <1>2
    <2>3. VarintSize(Distance(b[1])) = Shortest(Distance(b[1])) /\ Shortest(Distance(b[1])) \in 1 .. 8
      BY <1>1, <1>4, <2>1
    <2> QED
      BY <2>2, <2>3
  <1>6. ASSUME NEW i \in 2 .. n
        PROVE  /\ BlockSize(f, i) \in 0 .. 16
               /\ Shortest(Gap(b[i - 1], b[i])) + Shortest(Distance(b[i])) <= BlockSize(f, i)
    <2> DEFINE near == Gap(b[i - 1], b[i])
               far == Gap(b[1], b[i])
               d == Distance(b[i])
    <2>1. i \in 1 .. n /\ i # 1
      BY <1>1
    <2>2. BlockSize(f, i) = VarintSize(d) + VarintSize(far)
      BY <1>2, <2>1
    <2>3. near \in Number /\ far \in Number /\ near <= far /\ d \in Number
      BY <1>1, <2>1
    <2> HIDE DEF near, far, d
    <2>4. Shortest(near) <= Shortest(far)
      BY <1>3, <2>3, SizeMonotone
    <2>5. /\ VarintSize(d) = Shortest(d) /\ Shortest(d) \in 1 .. 8
          /\ VarintSize(far) = Shortest(far) /\ Shortest(far) \in 1 .. 8
          /\ Shortest(near) \in 1 .. 8
      BY <1>4, <2>3
    <2>6. BlockSize(f, i) \in 0 .. 16 /\ Shortest(near) + Shortest(d) <= BlockSize(f, i)
      BY <2>2, <2>4, <2>5
    <2> QED
      BY <2>6 DEF near, d
  <1> QED
    BY <1>5, <1>6 DEF b, n

LEMMA SizeHolds ==
  ASSUME NEW f, Sendable(f), NEW pos, Positions(pos, Fields(f))
  PROVE  /\ AckSize(f) \in Nat /\ AckSize(f) <= 16 * (Modulus + 4) /\ AckSize(f) < Word
         /\ pos[FieldCount(f)] <= AckSize(f)
  <1> DEFINE b == f.blocks
             n == Len(b)
             ecn == Counters(f)
             c == Len(ecn)
             s == Fields(f)
             blk == [i \in 1 .. n |-> BlockSize(f, i)]
             cnt == [i \in 1 .. c |-> VarintSize(ecn[i])]
             h == Shortest(b[1].end) + Shortest(f.delay) + Shortest(n - 1)
             size1 == Shortest(b[1].end)
             size2 == Shortest(f.delay)
             size3 == Shortest(n - 1)
  <1>1. /\ n \in Nat \ {0} /\ 2 * (n - 1) < Modulus
        /\ \A i \in 1 .. n : b[i].end \in Number
    BY BlockFacts
  <1>2. /\ c \in Nat /\ (c = 0 \/ c = 3)
        /\ s \in Seq(Item) /\ Len(s) = FieldCount(f)
        /\ s[1].value = b[1].end /\ s[2].value = f.delay
        /\ s[3].value = n - 1 /\ s[4].value = Distance(b[1])
        /\ \A i \in 2 .. n : /\ s[2 * i + 1].value = Gap(b[i - 1], b[i])
                             /\ s[2 * i + 2].value = Distance(b[i])
        /\ \A j \in 1 .. c : s[2 * n + 2 + j].value = f.ecn[j]
    BY FieldsOf
  <1>3. FieldCount(f) = 2 * n + 2 + c
    BY DEF FieldCount
  <1>4. AckSize(f) = Unsigned(VarintSize(b[1].end) + VarintSize(f.delay) + VarintSize(n - 1)
                              + Total(blk) + Total(cnt))
    BY DEF AckSize
  <1>5. \A j \in 1 .. c : ecn[j] = f.ecn[j] /\ ecn[j] \in Nat /\ ~ TooLarge(ecn[j])
    <2>1. /\ f.ecn \in Seq(Nat) /\ Len(f.ecn) = 3 /\ \A j \in 1 .. 3 : ~ TooLarge(f.ecn[j])
          /\ ecn = IF f.type = "ACK_ECN" THEN f.ecn ELSE <<>>
      BY DEF Sendable, Counters
    <2>2. \A j \in 1 .. 3 : f.ecn[j] \in Nat
      BY <2>1
    <2> HIDE DEF ecn
    <2>3. CASE f.type = "ACK_ECN"
      BY <2>1, <2>2, <2>3
    <2>4. CASE f.type # "ACK_ECN"
      <3>1. ecn = <<>> /\ c = 0
        BY <2>1, <2>4
      <3> QED
        BY <3>1
    <2> QED
      BY <2>3, <2>4
  <1>6. f.delay \in Nat /\ ~ TooLarge(f.delay)
    BY DEF Sendable
  <1>7. Positions(pos, s)
    OBVIOUS
  <1>8. /\ BlockSize(f, 1) = Shortest(Distance(b[1])) /\ BlockSize(f, 1) \in 0 .. 16
        /\ \A i \in 2 .. n :
             /\ BlockSize(f, i) \in 0 .. 16
             /\ Shortest(Gap(b[i - 1], b[i])) + Shortest(Distance(b[i])) <= BlockSize(f, i)
    BY BlockSizes
  <1> HIDE DEF b, n, ecn, c, s
  <1>9. /\ VarintSize(b[1].end) = size1 /\ size1 \in 1 .. 8
        /\ VarintSize(f.delay) = size2 /\ size2 \in 1 .. 8
        /\ VarintSize(n - 1) = size3 /\ size3 \in 1 .. 8
    <2>1. 1 \in 1 .. n /\ n - 1 \in Nat /\ n - 1 <= Modulus
      BY <1>1, NumbersFit
    <2>2. ~ TooLarge(n - 1)
      BY <2>1, NumbersFit
    <2>3. b[1].end \in Number
      BY <1>1, <2>1
    <2>4. b[1].end \in Nat /\ ~ TooLarge(b[1].end)
      BY <2>3, NumbersFit DEF Number
    <2> QED
      BY <1>6, <2>1, <2>2, <2>4, ShortestType, LengthsType
  <1>10. PICK B : AddsUp(B, blk)
    <2>1. Len(blk) = n /\ n \in Nat
      BY <1>1
    <2> HIDE DEF blk
    <2> QED
      BY <2>1, TotalSteps
  <1>11. PICK E : AddsUp(E, cnt)
    <2>1. Len(cnt) = c /\ c \in Nat
      BY <1>2
    <2> HIDE DEF cnt
    <2> QED
      BY <2>1, TotalSteps
  <1>12. /\ B[0] = 0 /\ Total(blk) = B[n]
         /\ \A i \in 1 .. n : B[i] = B[i - 1] + BlockSize(f, i)
    <2>1. Len(blk) = n /\ \A i \in 1 .. n : blk[i] = BlockSize(f, i)
      BY <1>1
    <2> HIDE DEF blk
    <2> QED
      BY <1>10, <2>1 DEF AddsUp
  <1>13. /\ E[0] = 0 /\ Total(cnt) = E[c]
         /\ \A j \in 1 .. c : E[j] = E[j - 1] + VarintSize(ecn[j])
    <2>1. Len(cnt) = c /\ \A j \in 1 .. c : cnt[j] = VarintSize(ecn[j])
      BY <1>2
    <2> HIDE DEF cnt
    <2> QED
      BY <1>11, <2>1 DEF AddsUp
  <1> HIDE DEF blk, cnt
  <1>14. /\ \A k \in 0 .. Len(s) : pos[k] \in Nat
         /\ \A k \in 1 .. Len(s) : pos[k] = pos[k - 1] + Shortest(s[k].value)
         /\ pos[0] = 0
    BY <1>2, <1>7, PositionsGrow DEF Positions
  <1>15. Len(s) = 2 * n + 2 + c
    BY <1>2, <1>3
  <1>16. /\ pos[3] = h /\ pos[4] = h + BlockSize(f, 1) /\ h \in 0 .. 24
    <2>1. 1 \in 1 .. Len(s) /\ 2 \in 1 .. Len(s) /\ 3 \in 1 .. Len(s) /\ 4 \in 1 .. Len(s)
      BY <1>1, <1>2, <1>15
    <2>2. /\ pos[1] = pos[1 - 1] + Shortest(s[1].value)
          /\ pos[2] = pos[2 - 1] + Shortest(s[2].value)
          /\ pos[3] = pos[3 - 1] + Shortest(s[3].value)
          /\ pos[4] = pos[4 - 1] + Shortest(s[4].value)
      BY <1>14, <2>1
    <2>3. pos[1] = size1 /\ pos[2] = size1 + size2 /\ pos[3] = (size1 + size2) + size3
      BY <1>2, <1>9, <1>14, <2>2
    <2>4. pos[4] = pos[3] + BlockSize(f, 1)
      BY <1>2, <1>8, <2>2
    <2> HIDE DEF size1, size2, size3
    <2>5. h = size1 + size2 + size3
      BY DEF size1, size2, size3
    <2> HIDE DEF h
    <2> QED
      BY <1>9, <2>3, <2>4, <2>5
  <1> DEFINE P == {i \in Nat : i + 1 <= n =>
                     B[i + 1] \in 0 .. 16 * (i + 1) /\ pos[2 * (i + 1) + 2] <= h + B[i + 1]}
  <1> HIDE DEF h, size1, size2, size3
  <1>17. 0 \in P
    <2>1. 1 \in 1 .. n /\ 1 - 1 = 0 /\ 0 + 1 = 1 /\ 2 * 1 + 2 = 4
      BY <1>1
    <2>2. B[1] = B[0] + BlockSize(f, 1)
      BY <1>12, <2>1
    <2>3. B[1] = BlockSize(f, 1) /\ B[1] \in 0 .. 16 /\ pos[4] <= h + B[1]
      BY <1>8, <1>12, <1>16, <2>2
    <2> QED
      BY <2>1, <2>3
  <1>18. ASSUME NEW i \in Nat, i \in P PROVE i + 1 \in P
    <2> DEFINE k == i + 2
    <2> SUFFICES ASSUME k <= n
                 PROVE  B[k] \in 0 .. 16 * k /\ pos[2 * k + 2] <= h + B[k]
      <3>1. (i + 1) + 1 = k
        OBVIOUS
      <3> QED
        BY <3>1
    <2>1. /\ k \in 2 .. n /\ k \in 1 .. n /\ k - 1 = i + 1 /\ i + 1 <= n
          /\ 2 * (i + 1) + 2 = 2 * k /\ (2 * k + 1) - 1 = 2 * k /\ (2 * k + 2) - 1 = 2 * k + 1
          /\ 2 * k \in 0 .. Len(s) /\ 2 * k + 1 \in 1 .. Len(s) /\ 2 * k + 2 \in 1 .. Len(s)
      BY <1>1, <1>2, <1>15
    <2>2. B[i + 1] \in 0 .. 16 * (i + 1) /\ pos[2 * k] <= h + B[i + 1]
      BY <1>18, <2>1
    <2>3. B[k] = B[i + 1] + BlockSize(f, k)
      BY <1>12, <2>1
    <2>4. /\ BlockSize(f, k) \in 0 .. 16
          /\ Shortest(Gap(b[k - 1], b[k])) + Shortest(Distance(b[k])) <= BlockSize(f, k)
      BY <1>8, <2>1
    <2>5. /\ pos[2 * k + 1] = pos[2 * k] + Shortest(Gap(b[k - 1], b[k]))
          /\ pos[2 * k + 2] = pos[2 * k + 1] + Shortest(Distance(b[k]))
          /\ pos[2 * k] \in Nat
      BY <1>2, <1>14, <2>1
    <2>6. Shortest(Gap(b[k - 1], b[k])) \in 1 .. 8 /\ Shortest(Distance(b[k])) \in 1 .. 8
      <3>1. Shortest(s[2 * k + 1].value) \in 1 .. 8 /\ Shortest(s[2 * k + 2].value) \in 1 .. 8
        BY <1>2, <2>1, ItemSize
      <3> QED
        BY <1>2, <2>1, <3>1
    <2> DEFINE g == Shortest(Gap(b[k - 1], b[k]))
               d == Shortest(Distance(b[k]))
    <2>7. /\ g \in 1 .. 8 /\ d \in 1 .. 8 /\ g + d <= BlockSize(f, k)
          /\ pos[2 * k + 2] = pos[2 * k] + g + d
      BY <2>4, <2>5, <2>6
    <2> HIDE DEF g, d, k
    <2>8. k = i + 2
      BY DEF k
    <2>9. B[k] \in 0 .. 16 * k
      BY <2>2, <2>3, <2>4, <2>8
    <2>10. pos[2 * k + 2] <= h + B[k]
      BY <1>16, <2>2, <2>3, <2>4, <2>5, <2>7
    <2> QED
      BY <2>9, <2>10
  <1> HIDE DEF P
  <1>19. B[n] \in 0 .. 16 * n /\ pos[2 * n + 2] <= h + B[n]
    <2>1. n - 1 \in P /\ (n - 1) + 1 = n
      BY <1>1, <1>17, <1>18, SetInduction
    <2> QED
      BY <2>1 DEF P
  <1> DEFINE Q == {j \in Nat : j <= c =>
                     E[j] \in 0 .. 8 * j /\ pos[2 * n + 2 + j] <= h + B[n] + E[j]}
  <1>20. 0 \in Q
    <2>1. 2 * n + 2 + 0 = 2 * n + 2
      BY <1>1
    <2> QED
      BY <1>13, <1>16, <1>19, <2>1
  <1>21. ASSUME NEW j \in Nat, j \in Q PROVE j + 1 \in Q
    <2> SUFFICES ASSUME j + 1 <= c
                 PROVE  /\ E[j + 1] \in 0 .. 8 * (j + 1)
                        /\ pos[2 * n + 2 + (j + 1)] <= h + B[n] + E[j + 1]
      OBVIOUS
    <2> DEFINE k == 2 * n + 2 + j
               v == ecn[j + 1]
    <2>1. /\ j + 1 \in 1 .. c /\ (j + 1) - 1 = j /\ j <= c
          /\ 2 * n + 2 + (j + 1) = k + 1 /\ (k + 1) - 1 = k
          /\ k \in 0 .. Len(s) /\ k + 1 \in 1 .. Len(s)
      BY <1>1, <1>2, <1>15
    <2>2. E[j] \in 0 .. 8 * j /\ pos[k] <= h + B[n] + E[j]
      BY <1>21, <2>1
    <2>3. s[k + 1].value = v /\ v \in Nat /\ ~ TooLarge(v)
      BY <1>2, <1>5, <2>1
    <2>4. VarintSize(v) = Shortest(v) /\ Shortest(v) \in 1 .. 8
      BY <2>3, ShortestType, LengthsType
    <2>5. E[j + 1] = E[j] + Shortest(v)
      BY <1>13, <2>1, <2>4
    <2>6. pos[k + 1] = pos[k] + Shortest(v) /\ pos[k] \in Nat
      BY <1>14, <2>1, <2>3
    <2> HIDE DEF k, v
    <2>7. pos[k + 1] <= h + B[n] + E[j + 1] /\ E[j + 1] \in 0 .. 8 * (j + 1)
      BY <1>16, <1>19, <2>2, <2>4, <2>5, <2>6
    <2> QED
      BY <2>1, <2>7
  <1> HIDE DEF Q
  <1>22. E[c] \in 0 .. 24 /\ pos[2 * n + 2 + c] <= h + B[n] + E[c]
    <2>1. c \in Q
      BY <1>2, <1>20, <1>21, SetInduction
    <2>2. E[c] \in 0 .. 8 * c /\ pos[2 * n + 2 + c] <= h + B[n] + E[c]
      BY <1>2, <2>1 DEF Q
    <2>3. 0 .. 8 * c \subseteq 0 .. 24
      BY <1>2
    <2> QED
      BY <2>2, <2>3
  <1> DEFINE S == h + B[n] + E[c]
  <1>23. AckSize(f) = Unsigned(S)
    <2>1. h = size1 + size2 + size3
      BY DEF h, size1, size2, size3
    <2> QED
      BY <1>4, <1>9, <1>12, <1>13, <2>1
  <1>24. S \in Nat /\ S <= 16 * (Modulus + 4)
    BY <1>1, <1>16, <1>19, <1>22, NumbersFit
  <1> HIDE DEF S
  <1>25. S < Word /\ Unsigned(S) = S
    <2>1. S < Word /\ Word \in Nat \ {0}
      BY <1>24, NumbersFit
    <2>2. S % Word = S
      BY <1>24, <2>1
    <2> QED
      BY <2>1, <2>2 DEF Unsigned
  <1> QED
    BY <1>3, <1>22, <1>23, <1>24, <1>25 DEF S

-----------------------------------------------------------------------------
(* Reading.                                                                *)

(* What follows a frame in its packet does not move its integers.          *)
LEMMA FollowedLayout ==
  ASSUME NEW s \in Seq(Item), NEW pos, Positions(pos, s),
         NEW bytes \in Seq(0 .. Byte - 1), NEW rest \in Seq(0 .. Byte - 1),
         Len(bytes) = pos[Len(s)], LaysOut(bytes, s, pos, Len(s))
  PROVE  LET buf == bytes \o rest
         IN /\ Len(buf) = Len(bytes) + Len(rest) /\ Len(buf) \in Nat
            /\ DOMAIN buf = 1 .. Len(buf)
            /\ LaysOut(buf, s, pos, Len(s))
  <1> DEFINE B == 0 .. Byte - 1
             buf == bytes \o rest
             n == Len(s)
  <1>1. bytes \in Seq(B) /\ rest \in Seq(B) /\ n \in Nat
    OBVIOUS
  <1> HIDE DEF B
  <1>2. /\ buf \in Seq(B) /\ Len(buf) = Len(bytes) + Len(rest)
        /\ \A i \in 1 .. Len(bytes) + Len(rest) :
             buf[i] = IF i <= Len(bytes) THEN bytes[i] ELSE rest[i - Len(bytes)]
    BY <1>1, ConcatProperties
  <1> HIDE DEF buf
  <1>3. Len(buf) \in Nat /\ DOMAIN buf = 1 .. Len(buf) /\ Len(bytes) \in Nat /\ Len(rest) \in Nat
    BY <1>1, <1>2
  <1>4. ASSUME NEW j \in 1 .. n, NEW i \in 1 .. Shortest(s[j].value)
        PROVE  buf[pos[j - 1] + i] = EncodeBytes(s[j].value)[i]
    <2> DEFINE a == pos[j - 1]
               z == Shortest(s[j].value)
    <2>1. j \in 0 .. n /\ j - 1 \in 0 .. n /\ n \in 0 .. n /\ j <= n
      BY <1>1
    <2>2. pos[j] = a + z
      BY DEF Positions
    <2>3. a \in Nat /\ pos[j] <= Len(bytes)
      BY <2>1, PositionsGrow
    <2>4. z \in 1 .. 8
      BY ItemSize
    <2>5. bytes[a + i] = EncodeBytes(s[j].value)[i] /\ i \in 1 .. z
      BY DEF LaysOut, StandsAt
    <2> HIDE DEF a, z
    <2>6. a + i \in 1 .. Len(bytes) + Len(rest) /\ a + i <= Len(bytes)
      BY <1>3, <2>2, <2>3, <2>4, <2>5
    <2>7. buf[a + i] = bytes[a + i]
      BY <1>2, <2>6
    <2> QED
      BY <2>5, <2>7 DEF a
  <1> QED
    BY <1>2, <1>3, <1>4 DEF LaysOut, StandsAt, buf

(* The first k integers, and what ack_decode knows when it has read them.  *)
Taken(s, k) == [i \in 1 .. k |-> s[i].value]

Reading(s, pos, k) == [used |-> pos[k], values |-> Taken(s, k), failed |-> FALSE]
ReadSoFar(s, pos, k, failed) == [used |-> pos[k], values |-> Taken(s, k), failed |-> failed]

LEMMA TakenType ==
  ASSUME NEW s \in Seq(Item), NEW k \in 0 .. Len(s)
  PROVE  /\ Taken(s, k) \in Seq(Nat) /\ Len(Taken(s, k)) = k
         /\ \A i \in 1 .. k : Taken(s, k)[i] = s[i].value
         /\ k < Len(s) => Append(Taken(s, k), s[k + 1].value) = Taken(s, k + 1)
  <1>1. \A i \in 1 .. Len(s) : s[i].value \in Nat
    BY ItemSize
  <1>2. /\ Taken(s, k) \in [1 .. k -> Nat]
        /\ \A i \in 1 .. k : Taken(s, k)[i] = s[i].value
    BY <1>1 DEF Taken
  <1>3. Taken(s, k) \in Seq(Nat) /\ Len(Taken(s, k)) = k
    BY <1>2
  <1>4. ASSUME k < Len(s) PROVE Append(Taken(s, k), s[k + 1].value) = Taken(s, k + 1)
    <2> DEFINE t == Taken(s, k)
               v == s[k + 1].value
               u == Append(t, v)
    <2>1. v \in Nat /\ k \in Nat
      BY <1>1, <1>4
    <2>2. t \in Seq(Nat) /\ Len(t) = k /\ \A i \in 1 .. k : t[i] = s[i].value
      BY <1>2, <1>3
    <2> HIDE DEF t, v
    <2>3. /\ u \in Seq(Nat) /\ Len(u) = k + 1
          /\ u[k + 1] = v /\ \A i \in 1 .. k : u[i] = t[i]
      BY <2>1, <2>2
    <2>4. u = [i \in 1 .. k + 1 |-> u[i]]
      <3> HIDE DEF u
      <3>1. DOMAIN u = 1 .. k + 1
        BY <2>1, <2>3
      <3>2. u = [i \in DOMAIN u |-> u[i]]
        BY <2>3
      <3> QED
        BY <3>1, <3>2
    <2> HIDE DEF u
    <2>5. \A i \in 1 .. k + 1 : u[i] = s[i].value
      BY <2>1, <2>2, <2>3 DEF v
    <2>6. u = [i \in 1 .. k + 1 |-> s[i].value]
      BY <2>4, <2>5
    <2> QED
      BY <2>6 DEF Taken, u, t, v
  <1> QED
    BY <1>2, <1>3, <1>4

Readable(buf, s, pos) ==
  /\ Len(buf) \in Nat /\ DOMAIN buf = 1 .. Len(buf) /\ Len(buf) < Word
  /\ pos[Len(s)] <= Len(buf)
  /\ LaysOut(buf, s, pos, Len(s))

(* ack_decode gives up when an integer that another must follow ends the   *)
(* packet.                                                                 *)
Stops(failed, more, used, room) ==
  /\ more \in BOOLEAN /\ failed \in BOOLEAN
  /\ failed = TRUE <=> more = TRUE /\ used = room

LEMMA GetStep ==
  ASSUME NEW s \in Seq(Item), NEW pos, Positions(pos, s), NEW buf, Readable(buf, s, pos),
         NEW beyond, NEW k \in Nat, k < Len(s),
         NEW more, NEW failed, Stops(failed, more, pos[k + 1], Len(buf))
  PROVE  Get(buf, beyond, Reading(s, pos, k), more)
           = ReadSoFar(s, pos, k + 1, failed)
  <1> DEFINE n == Len(s)
             v == s[k + 1].value
             l == Shortest(v)
             p == pos[k]
             r == Reading(s, pos, k)
  <1>1. /\ n \in Nat /\ k + 1 \in 1 .. n /\ (k + 1) - 1 = k /\ k \in 0 .. n
        /\ k + 1 \in 0 .. n /\ n \in 0 .. n /\ k + 1 <= n
    OBVIOUS
  <1>2. v \in Nat /\ ~ TooLarge(v) /\ l \in 1 .. 8
    BY <1>1, ItemSize
  <1>3. /\ p \in Nat /\ pos[k + 1] = p + l /\ p + l <= Len(buf)
        /\ Len(buf) \in Nat /\ DOMAIN buf = 1 .. Len(buf) /\ Len(buf) < Word
    <2>1. pos[k + 1] = p + l
      BY <1>1 DEF Positions
    <2>2. /\ p \in Nat /\ pos[k + 1] \in Nat /\ pos[n] \in Nat /\ pos[k + 1] <= pos[n]
      BY <1>1, PositionsGrow
    <2> QED
      BY <2>1, <2>2 DEF Readable
  <1>4. \A i \in 1 .. l : buf[p + i] = EncodeBytes(v)[i]
    BY <1>1 DEF Readable, LaysOut, StandsAt
  <1>5. Append(Taken(s, k), v) = Taken(s, k + 1)
    BY <1>1, TakenType
  <1>6. r.used = p /\ r.values = Taken(s, k) /\ r.failed = FALSE
    BY DEF Reading
  <1> HIDE DEF n, v, p, r
  <1>7. Decode(buf, p, beyond) = [result |-> l, value |-> v]
    BY <1>2, <1>3, <1>4, VarintInverts
  <1> HIDE DEF l
  <1>8. Unsigned(p + l) = p + l
    <2>1. p + l \in 0 .. Word - 1 /\ Word \in Nat \ {0}
      BY <1>2, <1>3, WordType
    <2>2. \A z \in 0 .. Word - 1 : z % Word = z
      BY <2>1
    <2> QED
      BY <2>1, <2>2 DEF Unsigned
  <1>9. GivesUp(p + l, Len(buf), more) = failed
    <2>1. ~ (p + l > Len(buf))
      BY <1>2, <1>3
    <2>2. CASE more = TRUE /\ p + l = Len(buf)
      <3>1. failed = TRUE
        BY <1>3, <2>2 DEF Stops
      <3> QED
        BY <2>1, <2>2, <3>1 DEF GivesUp
    <2>3. CASE ~ (more = TRUE /\ p + l = Len(buf))
      <3>1. failed = FALSE /\ more \in BOOLEAN
        BY <1>3, <2>3 DEF Stops
      <3> QED
        BY <2>1, <2>3, <3>1 DEF GivesUp
    <2> QED
      BY <2>2, <2>3
  <1>10. Get(buf, beyond, r, more) =
           [used |-> p + l, values |-> Append(Taken(s, k), v),
            failed |-> GivesUp(p + l, Len(buf), more)]
    <2> DEFINE d == Decode(buf, r.used, beyond)
               used == Unsigned(r.used + d.result)
    <2>1. d.result = l /\ d.value = v
      BY <1>6, <1>7
    <2>2. Get(buf, beyond, r, more) =
            IF r.failed THEN r
            ELSE [used |-> used, values |-> Append(r.values, d.value),
                  failed |-> GivesUp(used, Len(buf), more)]
      BY DEF Get
    <2> HIDE DEF d
    <2>3. used = p + l
      BY <1>6, <1>8, <2>1
    <2> HIDE DEF used
    <2> QED
      BY <1>6, <2>1, <2>2, <2>3
  <1> QED
    BY <1>3, <1>5, <1>9, <1>10 DEF ReadSoFar, r

(* What is demanded of m integers, and what became of reading them up to   *)
(* the e-th of the frame.                                                  *)
Demands(mores, m) == Len(mores) = m /\ \A i \in 1 .. m : mores[i] \in BOOLEAN

Came(r, s, pos, e, mores, m, room) ==
  \E failed \in BOOLEAN :
    /\ r = ReadSoFar(s, pos, e, failed)
    /\ failed = TRUE <=> m > 0 /\ mores[m] = TRUE /\ pos[e] = room

(* From the integer after the first a on, with mores telling what must be  *)
(* followed.                                                               *)
LEMMA AllRead ==
  ASSUME NEW s \in Seq(Item), NEW pos, Positions(pos, s), NEW buf, Readable(buf, s, pos),
         NEW beyond, NEW a \in Nat, NEW m \in Nat, NEW e \in Nat, e = a + m, e <= Len(s),
         NEW mores, Demands(mores, m)
  PROVE  Came(GetAll(buf, beyond, Reading(s, pos, a), mores), s, pos, e, mores, m, Len(buf))
  <1> DEFINE start == Reading(s, pos, a)
             Ends(k) == k > 0 /\ mores[k] = TRUE /\ pos[a + k] = Len(buf)
             Known(r, k) == \E failed \in BOOLEAN : /\ r = ReadSoFar(s, pos, a + k, failed)
                                                    /\ failed = TRUE <=> Ends(k)
  <1>0. Len(mores) = m /\ \A i \in 1 .. m : mores[i] \in BOOLEAN
    BY DEF Demands
  <1>1. PICK g : GetsInSteps(g, buf, beyond, start, mores, m)
    BY <1>0, GetSteps
  <1>2. /\ g[0] = start /\ GetAll(buf, beyond, start, mores) = g[m]
        /\ \A k \in 1 .. m : g[k] = Get(buf, beyond, g[k - 1], mores[k])
    BY <1>1 DEF GetsInSteps
  <1>3. Len(s) \in Nat /\ Len(buf) \in Nat /\ pos[Len(s)] <= Len(buf)
    BY DEF Readable
  <1>4. ASSUME NEW q \in Nat, q < Len(s), NEW more, NEW failed,
               Stops(failed, more, pos[q + 1], Len(buf))
        PROVE  Get(buf, beyond, Reading(s, pos, q), more) = ReadSoFar(s, pos, q + 1, failed)
    BY <1>4, GetStep
  <1> HIDE DEF Known
  <1> DEFINE P == {k \in Nat : k <= m => Known(g[k], k)}
  <1>5. 0 \in P
    <2>1. ~ Ends(0) /\ a + 0 = a
      OBVIOUS
    <2>2. g[0] = ReadSoFar(s, pos, a + 0, FALSE)
      BY <1>2, <2>1 DEF Reading, ReadSoFar
    <2> HIDE DEF Ends
    <2>3. Known(g[0], 0)
      BY <2>1, <2>2 DEF Known
    <2> QED
      BY <2>3
  <1>6. ASSUME NEW k \in Nat, k \in P PROVE k + 1 \in P
    <2> SUFFICES ASSUME k + 1 <= m PROVE Known(g[k + 1], k + 1)
      OBVIOUS
    <2>1. /\ k + 1 \in 1 .. m /\ (k + 1) - 1 = k /\ k <= m
          /\ a + k \in Nat /\ a + k < Len(s) /\ a + (k + 1) = (a + k) + 1
          /\ a + k \in 0 .. Len(s) /\ Len(s) \in 0 .. Len(s)
      BY <1>3
    <2>2. pos[a + k] # Len(buf)
      <3>1. pos[a + k] < pos[Len(s)] /\ pos[a + k] \in Nat /\ pos[Len(s)] \in Nat
        BY <2>1, PositionsGrow
      <3> QED
        BY <1>3, <3>1
    <2>3. PICK before \in BOOLEAN : /\ g[k] = ReadSoFar(s, pos, a + k, before)
                                    /\ before = TRUE <=> Ends(k)
      BY <1>6, <2>1 DEF Known
    <2>4. before = FALSE
      BY <2>2, <2>3
    <2>5. g[k] = Reading(s, pos, a + k)
      BY <2>3, <2>4 DEF Reading, ReadSoFar
    <2>6. g[k + 1] = Get(buf, beyond, g[k], mores[k + 1])
      BY <1>2, <2>1
    <2>7. mores[k + 1] \in BOOLEAN
      BY <1>0, <2>1
    <2>8. \E failed \in BOOLEAN : failed = TRUE <=> Ends(k + 1)
      <3> HIDE DEF Ends
      <3>1. CASE Ends(k + 1)
        BY <3>1
      <3>2. CASE ~ Ends(k + 1)
        BY <3>2
      <3> QED
        BY <3>1, <3>2
    <2>9. PICK failed \in BOOLEAN : failed = TRUE <=> Ends(k + 1)
      BY <2>8
    <2>10. Stops(failed, mores[k + 1], pos[(a + k) + 1], Len(buf))
      BY <2>1, <2>7, <2>9 DEF Stops
    <2>11. g[k + 1] = ReadSoFar(s, pos, a + (k + 1), failed)
      BY <1>4, <2>1, <2>5, <2>6, <2>10
    <2> QED
      BY <2>9, <2>11 DEF Known
  <1> HIDE DEF P
  <1>7. m \in P
    BY <1>5, <1>6, SetInduction
  <1>8. Known(g[m], m)
    BY <1>7 DEF P
  <1> QED
    BY <1>2, <1>8 DEF Known, Came

-----------------------------------------------------------------------------
(* A frame in its packet.                                                  *)

Followable(rest) ==
  rest \in Seq(0 .. Byte - 1) /\ 16 * (Modulus + 4) + Len(rest) < Word

(* The packet is the frame's bytes and the rest.                           *)
Packed(f, buf, bytes, rest, pos) ==
  /\ Positions(pos, Fields(f)) /\ Readable(buf, Fields(f), pos)
  /\ pos[FieldCount(f)] = Len(bytes) /\ Len(bytes) \in Nat /\ Len(rest) \in Nat
  /\ Len(buf) = Len(bytes) + Len(rest)

LEMMA FrameOnWire ==
  ASSUME NEW f, Sendable(f), NEW rest, Followable(rest)
  PROVE  LET bytes == AckEncode(f, AckSize(f))
             packed == bytes \o rest
         IN /\ bytes \in Seq(0 .. Byte - 1) /\ Len(bytes) \in Nat \ {0}
            /\ \E pos : Packed(f, packed, bytes, rest, pos)
  <1> DEFINE s == Fields(f)
             n == FieldCount(f)
             room == AckSize(f)
             bytes == AckEncode(f, room)
             packed == bytes \o rest
  <1>1. s \in Seq(Item) /\ Len(s) = n /\ n \in Nat \ {0}
    <2>1. s \in Seq(Item) /\ Len(s) = n
      BY FieldsOf
    <2>2. Len(Counters(f)) \in Nat /\ Len(f.blocks) \in Nat \ {0}
      BY FieldsOf, BlockFacts
    <2> QED
      BY <2>1, <2>2 DEF FieldCount
  <1>2. PICK pos : Positions(pos, s)
    BY <1>1, PositionsExist
  <1>3. room \in Nat /\ room <= 16 * (Modulus + 4) /\ room < Word /\ pos[n] <= room
    BY <1>2, SizeHolds
  <1>4. bytes \in Seq(0 .. Byte - 1) /\ Len(bytes) = pos[n] /\ LaysOut(bytes, s, pos, n)
    BY <1>2, <1>3, FrameWritten
  <1>5. rest \in Seq(0 .. Byte - 1) /\ 16 * (Modulus + 4) + Len(rest) < Word
    BY DEF Followable
  <1> HIDE DEF s, n, room, bytes, packed
  <1>6. pos[n] \in Nat /\ pos[n] > 0
    <2>1. 0 \in 0 .. Len(s) /\ n \in 0 .. Len(s) /\ 0 < n
      BY <1>1
    <2>2. pos[0] \in Nat /\ pos[n] \in Nat /\ pos[0] < pos[n]
      BY <1>1, <1>2, <2>1, PositionsGrow
    <2> QED
      BY <2>2
  <1>7. /\ Len(packed) = Len(bytes) + Len(rest) /\ Len(packed) \in Nat
        /\ DOMAIN packed = 1 .. Len(packed) /\ LaysOut(packed, s, pos, n)
    <2>1. Len(bytes) = pos[Len(s)] /\ LaysOut(bytes, s, pos, Len(s)) /\ s \in Seq(Item)
      BY <1>1, <1>4
    <2>2. bytes \in Seq(0 .. Byte - 1) /\ rest \in Seq(0 .. Byte - 1)
      BY <1>4, <1>5
    <2>3. /\ Len(packed) = Len(bytes) + Len(rest) /\ Len(packed) \in Nat
          /\ DOMAIN packed = 1 .. Len(packed) /\ LaysOut(packed, s, pos, Len(s))
      BY <1>2, <2>1, <2>2, FollowedLayout DEF packed
    <2> QED
      BY <1>1, <2>3
  <1>8. Len(rest) \in Nat
    BY <1>5
  <1>9. Len(packed) < Word /\ pos[n] <= Len(packed)
    BY <1>3, <1>4, <1>5, <1>6, <1>7, <1>8, NumbersFit
  <1>10. Readable(packed, s, pos)
    BY <1>1, <1>7, <1>9 DEF Readable
  <1>11. Len(bytes) \in Nat \ {0}
    BY <1>4, <1>6
  <1> QED
    BY <1>2, <1>4, <1>7, <1>8, <1>10, <1>11 DEF s, n, room, bytes, packed, Packed

(* The reader's start.                                                     *)
LEMMA NothingRead ==
  ASSUME NEW s \in Seq(Item), NEW pos, Positions(pos, s)
  PROVE  Nothing = Reading(s, pos, 0)
  <1>1. Taken(s, 0) = <<>>
    <2>1. 0 \in 0 .. Len(s)
      OBVIOUS
    <2>2. Taken(s, 0) \in Seq(Nat) /\ Len(Taken(s, 0)) = 0
      BY <2>1, TakenType
    <2> QED
      BY <2>2
  <1>2. pos[0] = 0
    BY DEF Positions
  <1> QED
    BY <1>1, <1>2 DEF Nothing, Reading

OpenEnded(mores) == Demands(mores, 4) /\ mores[4] = FALSE

HeadKnown(head, f, pos) ==
  /\ head = Reading(Fields(f), pos, 4)
  /\ head.failed = FALSE
  /\ head.values[3] + 1 = Len(f.blocks)

(* The four integers of the head are read whatever mores demands of the    *)
(* first three, unless the fourth needs a successor.                       *)
LEMMA HeadRead ==
  ASSUME NEW f, Sendable(f), NEW pos, Positions(pos, Fields(f)),
         NEW buf, Readable(buf, Fields(f), pos), NEW beyond,
         NEW mores, OpenEnded(mores)
  PROVE  HeadKnown(GetAll(buf, beyond, Nothing, mores), f, pos)
  <1> DEFINE s == Fields(f)
             n == Len(f.blocks)
  <1>1. /\ s \in Seq(Item) /\ Len(s) = 2 * n + 2 + Len(Counters(f))
        /\ s[3].value = n - 1 /\ n \in Nat \ {0} /\ Len(Counters(f)) \in Nat
    BY FieldsOf, BlockFacts DEF FieldCount
  <1> HIDE DEF s, n
  <1>2. Positions(pos, s) /\ Readable(buf, s, pos)
    BY DEF s
  <1>3. Nothing = Reading(s, pos, 0)
    BY <1>1, <1>2, NothingRead
  <1>4. 4 \in Nat /\ 4 = 0 + 4 /\ 4 <= Len(s) /\ 4 \in 0 .. Len(s) /\ 3 \in 1 .. 4
    BY <1>1
  <1>5. PICK failed \in BOOLEAN :
          /\ GetAll(buf, beyond, Reading(s, pos, 0), mores) = ReadSoFar(s, pos, 4, failed)
          /\ failed = TRUE <=> 4 > 0 /\ mores[4] = TRUE /\ pos[4] = Len(buf)
    <2>1. PICK a : a = 0
      OBVIOUS
    <2>2. PICK m : m = 4
      OBVIOUS
    <2>3. a \in Nat /\ m \in Nat /\ m = a + m /\ m <= Len(s) /\ Demands(mores, m)
      BY <1>4, <2>1, <2>2 DEF OpenEnded
    <2>4. Came(GetAll(buf, beyond, Reading(s, pos, a), mores), s, pos, m, mores, m, Len(buf))
      BY <1>1, <1>2, <2>3, AllRead
    <2> QED
      BY <2>1, <2>2, <2>4 DEF Came
  <1>6. failed = FALSE
    BY <1>5 DEF OpenEnded
  <1>7. GetAll(buf, beyond, Nothing, mores) = Reading(s, pos, 4)
    BY <1>3, <1>5, <1>6 DEF Reading, ReadSoFar
  <1>8. Reading(s, pos, 4).values = Taken(s, 4) /\ Reading(s, pos, 4).failed = FALSE
    BY DEF Reading
  <1>9. Taken(s, 4)[3] = s[3].value
    BY <1>1, <1>4, TakenType
  <1>10. (n - 1) + 1 = n
    BY <1>1
  <1> QED
    BY <1>1, <1>7, <1>8, <1>9, <1>10 DEF s, n, HeadKnown


-----------------------------------------------------------------------------
(* What ack_decode makes of the packet.                                    *)

(* What it demands of the integers after the head.                         *)
Demanded(n, type) == PairFields(n) \o EcnFields(type)
Others(n, type) == 2 * (n - 1) + (IF type = "ACK_ECN" THEN 3 ELSE 0)

LEMMA LaterDemands ==
  ASSUME NEW n \in Nat \ {0}, NEW type \in Types
  PROVE  LET m == Others(n, type)
             mores == Demanded(n, type)
         IN /\ m \in Nat /\ Demands(mores, m)
            /\ m > 0 /\ mores[m] = TRUE <=> type # "ACK_ECN" /\ n # 1
  <1> DEFINE p == PairFields(n)
             e == EcnFields(type)
             m == Others(n, type)
             mores == Demanded(n, type)
             c == Len(e)
             k == 2 * (n - 1)
  <1>1. k \in Nat /\ p \in Seq(BOOLEAN) /\ Len(p) = k /\ \A i \in 1 .. k : p[i] = TRUE
    BY DEF PairFields
  <1>2. /\ e \in Seq(BOOLEAN) /\ c \in Nat
        /\ type = "ACK_ECN" => c = 3 /\ e[3] = FALSE
        /\ type # "ACK_ECN" => c = 0
    <2>1. CASE type = "ACK_ECN"
      <3>1. e = <<TRUE, TRUE, FALSE>>
        BY <2>1 DEF EcnFields
      <3>2. <<TRUE, TRUE, FALSE>> \in Seq(BOOLEAN) /\ Len(<<TRUE, TRUE, FALSE>>) = 3
            /\ <<TRUE, TRUE, FALSE>>[3] = FALSE
        OBVIOUS
      <3> HIDE DEF e
      <3> QED
        BY <2>1, <3>1, <3>2
    <2>2. CASE type # "ACK_ECN"
      <3>1. e = <<>>
        BY <2>2 DEF EcnFields
      <3>2. <<>> \in Seq(BOOLEAN) /\ Len(<<>>) = 0
        OBVIOUS
      <3> HIDE DEF e
      <3> QED
        BY <2>2, <3>1, <3>2
    <2> QED
      BY <2>1, <2>2
  <1>3. m = k + c
    BY <1>2 DEF Others
  <1>4. mores = p \o e
    BY DEF Demanded
  <1>5. k = 0 <=> n = 1
    OBVIOUS
  <1> HIDE DEF p, e, m, mores, c, k
  <1> DEFINE B == BOOLEAN
  <1>6. p \in Seq(B) /\ e \in Seq(B)
    BY <1>1, <1>2
  <1> HIDE DEF B
  <1>7. /\ mores \in Seq(B) /\ Len(mores) = k + c
        /\ \A i \in 1 .. k + c : mores[i] = IF i <= k THEN p[i] ELSE e[i - k]
    <2>1. /\ p \o e \in Seq(B) /\ Len(p \o e) = Len(p) + Len(e)
          /\ \A i \in 1 .. Len(p) + Len(e) :
               (p \o e)[i] = IF i <= Len(p) THEN p[i] ELSE e[i - Len(p)]
      BY <1>6, ConcatProperties
    <2>2. Len(p) = k /\ Len(e) = c
      BY <1>1 DEF c
    <2> QED
      BY <1>4, <2>1, <2>2
  <1>8. Demands(mores, m)
    <2>1. \A i \in 1 .. m : mores[i] \in B
      BY <1>1, <1>2, <1>3, <1>7
    <2> QED
      BY <1>3, <1>7, <2>1 DEF Demands, B
  <1>9. m > 0 /\ mores[m] = TRUE <=> type # "ACK_ECN" /\ n # 1
    <2>1. CASE type = "ACK_ECN"
      <3>1. c = 3 /\ e[3] = FALSE /\ m = k + 3
        BY <1>2, <1>3, <2>1
      <3>2. m \in 1 .. k + c /\ ~ (m <= k) /\ m - k = 3
        BY <1>1, <3>1
      <3>3. mores[m] = e[3]
        BY <1>7, <3>2
      <3> QED
        BY <2>1, <3>1, <3>3
    <2>2. CASE type # "ACK_ECN"
      <3>1. c = 0 /\ m = k
        BY <1>1, <1>2, <1>3, <2>2
      <3>2. ASSUME n # 1 PROVE m > 0 /\ mores[m] = TRUE
        <4>1. k > 0 /\ k \in 1 .. k + c /\ k <= k
          BY <1>1, <1>5, <3>1, <3>2
        <4> QED
          BY <1>1, <1>7, <3>1, <4>1
      <3>3. ASSUME n = 1 PROVE ~ (m > 0)
        BY <1>5, <3>1, <3>3
      <3> QED
        BY <2>2, <3>2, <3>3
    <2> QED
      BY <2>1, <2>2
  <1> QED
    BY <1>1, <1>2, <1>3, <1>8, <1>9 DEF m, mores

(* The frame is heard unless it ends the packet with a block after the     *)
(* first.                                                                  *)
Bare(f, rest) == f.type # "ACK_ECN" /\ Len(f.blocks) # 1 /\ Len(rest) = 0

Result(f, length) ==
  LET n == Len(f.blocks)
      v == Taken(Fields(f), FieldCount(f))
  IN [used |-> length, type |-> f.type, delay |-> v[2],
      blocks |-> Decoded(v, n), ecn |-> SubSeq(v, 2 * n + 3, Len(v))]

LEMMA AllDecoded ==
  ASSUME NEW f, Sendable(f), NEW buf, NEW bytes, NEW rest, NEW beyond,
         NEW pos, Packed(f, buf, bytes, rest, pos)
  PROVE  AckDecode(buf, f.type, beyond) =
           IF Bare(f, rest) THEN Failure ELSE Result(f, Len(bytes))
  <1> DEFINE s == Fields(f)
             n == Len(f.blocks)
             m == Others(n, f.type)
             mores == Demanded(n, f.type)
             e == FieldCount(f)
             v == Taken(s, e)
             head == GetAll(buf, beyond, Nothing, HeadFields)
             all == GetAll(buf, beyond, head, mores)
  <1>1. /\ s \in Seq(Item) /\ Len(s) = e /\ n \in Nat \ {0} /\ f.type \in Types
        /\ e = 2 * n + 2 + (IF f.type = "ACK_ECN" THEN 3 ELSE 0)
    BY FieldsOf, BlockFacts DEF FieldCount, Sendable
  <1>5. Positions(pos, s) /\ Readable(buf, s, pos) /\ pos[e] = Len(bytes)
    BY DEF Packed
  <1>2. head = Reading(s, pos, 4) /\ head.failed = FALSE /\ head.values[3] + 1 = n
    <2>1. OpenEnded(HeadFields)
      BY DEF HeadFields, OpenEnded, Demands
    <2>2. HeadKnown(head, f, pos)
      BY <1>5, <2>1, HeadRead
    <2> QED
      BY <2>2 DEF HeadKnown
  <1>3. /\ m \in Nat /\ Demands(mores, m) /\ e = 4 + m
        /\ m > 0 /\ mores[m] = TRUE <=> f.type # "ACK_ECN" /\ n # 1
    <2>1. /\ m \in Nat /\ Demands(mores, m)
          /\ m > 0 /\ mores[m] = TRUE <=> f.type # "ACK_ECN" /\ n # 1
      BY <1>1, LaterDemands
    <2>2. e = 4 + m
      <3> DEFINE c == IF f.type = "ACK_ECN" THEN 3 ELSE 0
      <3>1. c \in Nat
        OBVIOUS
      <3>2. e = 2 * n + 2 + c /\ m = 2 * (n - 1) + c
        BY <1>1 DEF Others
      <3> HIDE DEF c, e, m, n
      <3> QED
        BY <1>1, <3>1, <3>2
    <2> QED
      BY <2>1, <2>2
  <1>4. AckDecode(buf, f.type, beyond) =
          IF head.failed \/ all.failed THEN Failure
          ELSE [used |-> all.used, type |-> f.type, delay |-> all.values[2],
                blocks |-> Decoded(all.values, n),
                ecn |-> SubSeq(all.values, 2 * n + 3, Len(all.values))]
    BY <1>2 DEF AckDecode, Demanded
  <1>6. pos[e] = Len(buf) <=> Len(rest) = 0
    BY <1>5 DEF Packed
  <1> HIDE DEF s, m, mores, e, head, n
  <1>7. PICK failed \in BOOLEAN : /\ all = ReadSoFar(s, pos, e, failed)
                                  /\ failed = TRUE <=> Bare(f, rest)
    <2>1. PICK a : a = 4
      OBVIOUS
    <2>2. a \in Nat /\ e \in Nat /\ e = a + m /\ e <= Len(s)
      BY <1>1, <1>3, <2>1
    <2>3. Came(GetAll(buf, beyond, Reading(s, pos, a), mores), s, pos, e, mores, m, Len(buf))
      BY <1>1, <1>3, <1>5, <2>2, AllRead
    <2>4. Came(all, s, pos, e, mores, m, Len(buf))
      BY <1>2, <2>1, <2>3
    <2> QED
      BY <1>3, <1>6, <2>4 DEF Came, Bare, n
  <1>8. all.failed = failed /\ all.used = Len(bytes) /\ all.values = v
    BY <1>5, <1>7 DEF ReadSoFar
  <1> HIDE DEF all, v
  <1>9. CASE Bare(f, rest)
    BY <1>4, <1>7, <1>8, <1>9 DEF v, s, e, n
  <1>10. CASE ~ Bare(f, rest)
    <2>1. failed = FALSE
      BY <1>7, <1>10
    <2> QED
      BY <1>2, <1>4, <1>8, <1>10, <2>1 DEF v, s, e, n, Result
  <1> QED
    BY <1>9, <1>10


(* A frame that is heard has its length, its first block and its counters. *)
Faithful(d, f, length) ==
  /\ d.used = length /\ d.type = f.type /\ d.delay = f.delay
  /\ Len(d.blocks) = Len(f.blocks)
  /\ d.blocks[1] = f.blocks[1]
  /\ f.type = "ACK_ECN" => d.ecn = f.ecn

LEMMA DecodedFirst ==
  ASSUME NEW f, Sendable(f)
  PROVE  LET v == Taken(Fields(f), FieldCount(f))
             n == Len(f.blocks)
         IN /\ Len(Decoded(v, n)) = n /\ Decoded(v, n)[1] = f.blocks[1]
            /\ v[2] = f.delay
            /\ f.type = "ACK_ECN" => SubSeq(v, 2 * n + 3, Len(v)) = f.ecn
  <1> DEFINE s == Fields(f)
             e == FieldCount(f)
             v == Taken(s, e)
             n == Len(f.blocks)
             b == f.blocks
             c == Len(Counters(f))
  <1>1. /\ s \in Seq(Item) /\ Len(s) = e /\ n \in Nat \ {0} /\ c \in Nat
        /\ e = 2 * n + 2 + c /\ c = IF f.type = "ACK_ECN" THEN 3 ELSE 0
        /\ s[1].value = b[1].end /\ s[2].value = f.delay /\ s[4].value = Distance(b[1])
        /\ \A j \in 1 .. c : s[2 * n + 2 + j].value = f.ecn[j]
    BY FieldsOf, BlockFacts DEF FieldCount
  <1> HIDE DEF s, e, c, n
  <1>a. /\ n \in Nat \ {0} /\ c \in Nat /\ e = 2 * n + 2 + c /\ Len(s) = e
        /\ f.type = "ACK_ECN" => c = 3
    BY <1>1
  <1>2. v \in Seq(Nat) /\ Len(v) = e /\ \A i \in 1 .. e : v[i] = s[i].value
    <2>1. e \in 0 .. Len(s)
      BY <1>a
    <2> QED
      BY <1>1, <2>1, TakenType
  <1> HIDE DEF v
  <1>3. 1 \in 1 .. e /\ 2 \in 1 .. e /\ 4 \in 1 .. e
    BY <1>a
  <1>4. v[1] = b[1].end /\ v[2] = f.delay /\ v[4] = Distance(b[1])
    BY <1>1, <1>2, <1>3
  <1>5. Decoded(v, n)[1] = f.blocks[1] /\ Len(Decoded(v, n)) = n
    <2> DEFINE gap == [i \in 2 .. n |-> v[2 * i + 2]]
               later == [i \in 2 .. n |-> 0]
               r == Rebuild(v[1], v[4], gap, later, n)
    <2>1. Decoded(v, n) = r
      BY DEF Decoded
    <2>2. /\ r = [i \in 1 .. n |-> r[i]]
          /\ r[1] = [start |-> Unsigned(v[1] - v[4]), end |-> v[1]]
      <3> HIDE DEF gap, later
      <3>1. RebuiltInSteps(r, v[1], v[4], gap, later, n)
        BY <1>a, RebuildSteps
      <3> QED
        BY <1>a, <3>1 DEF RebuiltInSteps
    <2> HIDE DEF r
    <2>3. Len(r) = n
      <3>1. \E x : r = [i \in 1 .. n |-> x[i]]
        BY <2>2
      <3>2. \A x : Len([i \in 1 .. n |-> x[i]]) = n
        BY <1>1
      <3> QED
        BY <3>1, <3>2
    <2>4. /\ b[1].start \in Number /\ b[1].end \in Number
          /\ b[1] = [start |-> b[1].start, end |-> b[1].end]
          /\ Distance(b[1]) = b[1].end - b[1].start
      <3>1. 1 \in 1 .. n
        BY <1>1
      <3> QED
        BY <3>1, BlockFacts DEF n
    <2>5. Unsigned(v[1] - v[4]) = b[1].start
      <3>1. b[1].start \in Nat /\ b[1].end \in Nat /\ b[1].start <= Modulus
        BY <2>4, NumbersFit DEF Number
      <3>2. v[1] - v[4] = b[1].start
        BY <1>4, <2>4, <3>1
      <3> QED
        BY <3>1, <3>2, NumbersFit
    <2> QED
      BY <1>4, <2>1, <2>2, <2>3, <2>4, <2>5
  <1>6. ASSUME f.type = "ACK_ECN" PROVE SubSeq(v, 2 * n + 3, Len(v)) = f.ecn
    <2> DEFINE k == 2 * n + 3
               q == SubSeq(v, k, e)
    <2>1. c = 3 /\ e = k + 2 /\ k \in Nat /\ k >= 1
      BY <1>a, <1>6
    <2>2. f.ecn \in Seq(Nat) /\ Len(f.ecn) = 3
      BY DEF Sendable
    <2>3. \A j \in 1 .. 3 : v[k + j - 1] = f.ecn[j]
      <3> TAKE j \in 1 .. 3
      <3>1. k + j - 1 = 2 * n + 2 + j /\ 2 * n + 2 + j \in 1 .. e /\ j \in 1 .. c
        BY <1>a, <2>1
      <3> QED
        BY <1>1, <1>2, <3>1
    <2> HIDE DEF k
    <2>4. q \in Seq(Nat) /\ Len(q) = 3 /\ \A j \in 1 .. 3 : q[j] = v[k + j - 1]
      <3>1. \A i \in k .. e : v[i] \in Nat
        <4> TAKE i \in k .. e
        <4>1. i \in 1 .. Len(v)
          BY <1>2, <2>1
        <4> QED
          BY <1>2, <4>1
      <3>2. k \in Int /\ e \in Int /\ k <= e /\ e - k + 1 = 3
        BY <2>1
      <3>3. /\ q \in Seq(Nat) /\ Len(q) = IF k <= e THEN e - k + 1 ELSE 0
            /\ \A j \in 1 .. e - k + 1 : q[j] = v[k + j - 1]
        BY <3>1, <3>2, SubSeqProperties
      <3> QED
        BY <3>2, <3>3
    <2> HIDE DEF q
    <2>5. q = f.ecn
      <3>1. q = [j \in 1 .. 3 |-> q[j]]
        BY <2>4
      <3>2. f.ecn = [j \in 1 .. 3 |-> f.ecn[j]]
        <4> DEFINE ecn == f.ecn
        <4>1. ecn \in Seq(Nat) /\ Len(ecn) = 3
          BY <2>2
        <4> HIDE DEF ecn
        <4>2. ecn = [j \in 1 .. 3 |-> ecn[j]]
          BY <4>1
        <4> QED
          BY <4>2 DEF ecn
      <3>3. \A j \in 1 .. 3 : q[j] = f.ecn[j]
        BY <2>3, <2>4
      <3> QED
        BY <3>1, <3>2, <3>3
    <2> QED
      BY <1>2, <2>5 DEF q, k
  <1> QED
    BY <1>4, <1>5, <1>6 DEF v, e, s, n

LEMMA FrameDecoded ==
  ASSUME NEW f, Sendable(f), NEW rest, Followable(rest), NEW beyond
  PROVE  LET bytes == AckEncode(f, AckSize(f))
             d == AckDecode(bytes \o rest, f.type, beyond)
         IN /\ Bare(f, rest) => d = Failure
            /\ ~ Bare(f, rest) => d # Failure /\ Faithful(d, f, Len(bytes))
  <1> DEFINE bytes == AckEncode(f, AckSize(f))
             packed == bytes \o rest
             d == AckDecode(packed, f.type, beyond)
             n == Len(f.blocks)
             v == Taken(Fields(f), FieldCount(f))
  <1>1. Len(bytes) \in Nat \ {0} /\ \E pos : Packed(f, packed, bytes, rest, pos)
    BY FrameOnWire
  <1>2. PICK pos : Packed(f, packed, bytes, rest, pos)
    BY <1>1
  <1> HIDE DEF bytes, packed
  <1>4. d = IF Bare(f, rest) THEN Failure ELSE Result(f, Len(bytes))
    BY <1>2, AllDecoded
  <1>5. /\ Len(Decoded(v, n)) = n /\ Decoded(v, n)[1] = f.blocks[1]
        /\ v[2] = f.delay
        /\ f.type = "ACK_ECN" => SubSeq(v, 2 * n + 3, Len(v)) = f.ecn
    BY DecodedFirst
  <1> HIDE DEF d, v, n
  <1>6. ASSUME ~ Bare(f, rest) PROVE d # Failure /\ Faithful(d, f, Len(bytes))
    <2>1. d = [used |-> Len(bytes), type |-> f.type, delay |-> v[2],
               blocks |-> Decoded(v, n), ecn |-> SubSeq(v, 2 * n + 3, Len(v))]
      BY <1>4, <1>6 DEF Result, v, n
    <2>2. d.used # Failure.used
      BY <1>1, <2>1 DEF Failure
    <2> QED
      BY <1>5, <2>1, <2>2 DEF Faithful, n
  <1>7. Bare(f, rest) => d = Failure
    BY <1>4
  <1> QED
    BY <1>6, <1>7 DEF d, packed, bytes


(* Read as the format is meant, the integers of a frame are its blocks.    *)
Measured(f, largest, distance, gap, later) ==
  /\ largest = f.blocks[1].end /\ distance = Distance(f.blocks[1])
  /\ \A i \in 2 .. Len(f.blocks) : /\ gap[i] = Gap(f.blocks[i - 1], f.blocks[i])
                                   /\ later[i] = Distance(f.blocks[i])

LEMMA BlocksRebuilt ==
  ASSUME NEW f, Sendable(f), NEW gap, NEW later, NEW largest, NEW distance,
         Measured(f, largest, distance, gap, later)
  PROVE  Rebuild(largest, distance, gap, later, Len(f.blocks)) = f.blocks
  <1> DEFINE n == Len(f.blocks)
             b == f.blocks
             r == Rebuild(largest, distance, gap, later, n)
  <1>0. /\ largest = b[1].end /\ distance = Distance(b[1])
        /\ \A i \in 2 .. n : gap[i] = Gap(b[i - 1], b[i]) /\ later[i] = Distance(b[i])
    BY DEF Measured
  <1>1. /\ n \in Nat \ {0}
        /\ \A i \in 1 .. n :
             /\ b[i].start \in Number /\ b[i].end \in Number
             /\ b[i] = [start |-> b[i].start, end |-> b[i].end]
             /\ Distance(b[i]) = b[i].end - b[i].start
        /\ \A i \in 2 .. n : Gap(b[i - 1], b[i]) = b[i - 1].start - b[i].end - 2
    BY BlockFacts
  <1>2. b = [i \in 1 .. n |-> b[i]]
    <2>1. b \in Seq(Blocks)
      BY DEF Sendable
    <2> HIDE DEF b
    <2>2. b = [i \in 1 .. Len(b) |-> b[i]]
      BY <2>1
    <2> QED
      BY <2>2 DEF b
  <1>3. RebuiltInSteps(r, largest, distance, gap, later, n)
    BY <1>1, RebuildSteps
  <1> HIDE DEF r, n, b
  <1>4. /\ r = [i \in 1 .. n |-> r[i]]
        /\ r[1] = [start |-> Unsigned(largest - distance), end |-> largest]
        /\ \A i \in 2 .. n :
             r[i] = [start |-> Unsigned(Unsigned(r[i - 1].start - gap[i] - 2) - later[i]),
                     end |-> Unsigned(r[i - 1].start - gap[i] - 2)]
    <2>1. n >= 1
      BY <1>1
    <2> QED
      BY <1>3, <2>1, Zenon DEF RebuiltInSteps
  <1>5. ASSUME NEW v \in Number
        PROVE  Unsigned(v) = v /\ v \in Int
    <2>1. v \in Nat /\ v <= Modulus
      BY NumbersFit DEF Number
    <2> QED
      BY <2>1, NumbersFit
  <1> DEFINE P == {k \in Nat : k >= 1 /\ k <= n => r[k] = b[k]}
  <1>6. 0 \in P
    OBVIOUS
  <1>7. ASSUME NEW k \in Nat, k \in P PROVE k + 1 \in P
    <2> SUFFICES ASSUME k + 1 <= n PROVE r[k + 1] = b[k + 1]
      OBVIOUS
    <2>1. CASE k = 0
      <3>1. 1 \in 1 .. n
        BY <1>1
      <3>2. largest = b[1].end /\ distance = b[1].end - b[1].start
        BY <1>0, <1>1, <3>1
      <3>3. b[1].start \in Number /\ b[1].end \in Number
            /\ b[1] = [start |-> b[1].start, end |-> b[1].end]
        BY <1>1, <3>1
      <3>4. largest - distance = b[1].start
        BY <1>5, <3>2, <3>3
      <3> QED
        BY <1>4, <1>5, <2>1, <3>2, <3>3, <3>4
    <2>2. CASE k # 0
      <3>1. k + 1 \in 2 .. n /\ (k + 1) - 1 = k /\ k \in 1 .. n /\ k + 1 \in 1 .. n
        BY <1>1, <2>2
      <3>2. r[k] = b[k]
        BY <1>7, <3>1
      <3> DEFINE c == b[k]
                 d == b[k + 1]
      <3>3. /\ c.start \in Number /\ d.start \in Number /\ d.end \in Number
            /\ d = [start |-> d.start, end |-> d.end]
        BY <1>1, <3>1
      <3>4. gap[k + 1] = c.start - d.end - 2 /\ later[k + 1] = d.end - d.start
        <4>1. Gap(c, d) = c.start - d.end - 2 /\ Distance(d) = d.end - d.start
          BY <1>1, <3>1
        <4>2. gap[k + 1] = Gap(c, d) /\ later[k + 1] = Distance(d)
          BY <1>0, <3>1
        <4> QED
          BY <4>1, <4>2
      <3>5. r[k + 1] = [start |-> Unsigned(Unsigned(c.start - gap[k + 1] - 2) - later[k + 1]),
                        end |-> Unsigned(c.start - gap[k + 1] - 2)]
        BY <1>4, <3>1, <3>2
      <3> HIDE DEF c, d
      <3>6. c.start - gap[k + 1] - 2 = d.end
        BY <1>5, <3>3, <3>4
      <3>7. Unsigned(d.end) - later[k + 1] = d.start
        BY <1>5, <3>3, <3>4
      <3> QED
        BY <1>5, <3>3, <3>5, <3>6, <3>7 DEF d
    <2> QED
      BY <2>1, <2>2
  <1> HIDE DEF P
  <1>8. \A k \in Nat : k \in P
    BY <1>6, <1>7, SetInduction
  <1>9. \A k \in 1 .. n : r[k] = b[k]
    BY <1>1, <1>8 DEF P
  <1>10. r = b
    BY <1>2, <1>4, <1>9
  <1> QED
    BY <1>10 DEF r, b, n

(* What a reader who demands no successor takes from the integers.         *)
LEMMA FrameUnderstood ==
  ASSUME NEW f, Sendable(f), NEW rest, Followable(rest)
  PROVE  LET bytes == AckEncode(f, AckSize(f))
         IN Understood(bytes \o rest, f.type) = Numbers(f.blocks)
  <1> DEFINE bytes == AckEncode(f, AckSize(f))
             packed == bytes \o rest
             s == Fields(f)
             n == Len(f.blocks)
             m == 2 * (n - 1)
             e == 2 * n + 2
             first == <<FALSE, FALSE, FALSE, FALSE>>
             mores == [i \in 1 .. m |-> FALSE]
             head == GetAll(packed, 0, Nothing, first)
             all == GetAll(packed, 0, head, mores)
             v == all.values
             gap == [i \in 2 .. n |-> v[2 * i + 1]]
             later == [i \in 2 .. n |-> v[2 * i + 2]]
  <1>1. PICK pos : Packed(f, packed, bytes, rest, pos)
    BY FrameOnWire
  <1>2. Positions(pos, s) /\ Readable(packed, s, pos)
    BY <1>1 DEF Packed
  <1>3. /\ s \in Seq(Item) /\ n \in Nat \ {0} /\ Len(s) \in Nat /\ e \in 0 .. Len(s)
        /\ s[1].value = f.blocks[1].end /\ s[4].value = Distance(f.blocks[1])
        /\ \A i \in 2 .. n :
             /\ s[2 * i + 1].value = Gap(f.blocks[i - 1], f.blocks[i])
             /\ s[2 * i + 2].value = Distance(f.blocks[i])
    <2>1. /\ Len(s) = e + Len(Counters(f)) /\ Len(Counters(f)) \in Nat /\ n \in Nat \ {0}
      BY FieldsOf, BlockFacts DEF FieldCount
    <2>2. Len(s) \in Nat /\ e \in 0 .. Len(s)
      <3> HIDE DEF n, s
      <3> QED
        BY <2>1
    <2> QED
      BY <2>1, <2>2, FieldsOf
  <1>4. HeadKnown(head, f, pos)
    <2>1. OpenEnded(first)
      BY DEF OpenEnded, Demands
    <2> HIDE DEF first, packed
    <2> QED
      BY <1>2, <2>1, HeadRead
  <1>5. head = Reading(s, pos, 4) /\ head.values[3] + 1 = n
    BY <1>4 DEF HeadKnown
  <1>6. Understood(packed, f.type) =
          Numbers(Rebuild(v[1], v[4], gap, later, n))
    BY <1>5 DEF Understood
  <1>7. m \in Nat /\ Demands(mores, m) /\ 4 + m = e
    <2>1. m \in Nat /\ 4 + m = e
      <3> HIDE DEF n
      <3> QED
        BY <1>3
    <2> HIDE DEF m
    <2>2. Len(mores) = m /\ \A i \in 1 .. m : mores[i] = FALSE
      BY <2>1
    <2> HIDE DEF mores
    <2> QED
      BY <2>1, <2>2 DEF Demands
  <1> HIDE DEF packed, s, n, m, e, mores, head, gap, later
  <1>8. PICK failed \in BOOLEAN : all = ReadSoFar(s, pos, e, failed)
    <2>1. PICK a : a = 4
      OBVIOUS
    <2>2. a \in Nat /\ e \in Nat /\ e = a + m /\ e <= Len(s)
      BY <1>3, <1>7, <2>1
    <2>3. Came(GetAll(packed, 0, Reading(s, pos, a), mores), s, pos, e, mores, m, Len(packed))
      BY <1>2, <1>3, <1>7, <2>2, AllRead
    <2>4. Came(all, s, pos, e, mores, m, Len(packed))
      BY <1>5, <2>1, <2>3
    <2> QED
      BY <2>4 DEF Came
  <1>9. v = Taken(s, e)
    BY <1>8 DEF ReadSoFar
  <1> HIDE DEF all, v
  <1>10. \A i \in 1 .. e : v[i] = s[i].value
    BY <1>3, <1>9, TakenType
  <1>11. v[1] = f.blocks[1].end /\ v[4] = Distance(f.blocks[1])
    <2>1. 1 \in 1 .. e /\ 4 \in 1 .. e
      BY <1>3, <1>7
    <2> QED
      BY <1>3, <1>10, <2>1
  <1>12. ASSUME NEW i \in 2 .. n
         PROVE  /\ gap[i] = Gap(f.blocks[i - 1], f.blocks[i])
                /\ later[i] = Distance(f.blocks[i])
    <2>1. 2 * i + 1 \in 1 .. e /\ 2 * i + 2 \in 1 .. e
      BY <1>3 DEF e
    <2>2. v[2 * i + 1] = s[2 * i + 1].value /\ v[2 * i + 2] = s[2 * i + 2].value
      BY <1>10, <2>1
    <2> QED
      BY <1>3, <2>2 DEF gap, later
  <1>13. Rebuild(v[1], v[4], gap, later, n) = f.blocks
    <2>1. Measured(f, v[1], v[4], gap, later)
      BY <1>11, <1>12 DEF Measured, n
    <2> QED
      BY <2>1, BlocksRebuilt DEF n
  <1> QED
    BY <1>6, <1>13 DEF packed


-----------------------------------------------------------------------------
(* The exchange.                                                           *)

FrameOf(ack) == [type |-> ack.type, delay |-> ack.delay, blocks |-> ack.blocks, ecn |-> ack.ecn]

FrameBytes(f) == AckEncode(f, AckSize(f))

(* A frame with blocks of the history, its gaps left open.                 *)
Offered(f) ==
  /\ f.type \in Types
  /\ f.delay \in Delays
  /\ f.blocks \in Seq(Blocks) /\ f.blocks # <<>>
  /\ \A i \in 1 .. Len(f.blocks) : f.blocks[i].start <= f.blocks[i].end
  /\ f.ecn = Ecn

(* The packet and what was heard come from the frame sent, whose blocks    *)
(* hold only packets that arrived.                                         *)
Underway ==
  LET f == FrameOf(sent)
  IN /\ Offered(f) /\ sent.rest \in Rests
     /\ Numbers(f.blocks) \subseteq arrived
     /\ sent.length = Len(FrameBytes(f))
     /\ packet # <<>> => packet = FrameBytes(f) \o sent.rest
     /\ heard # NoAck =>
          \E beyond \in Beyonds : heard = AckDecode(FrameBytes(f) \o sent.rest, f.type, beyond)

AckInv == \/ sent = NoAck /\ packet = <<>> /\ heard = NoAck
          \/ Underway

(* What the caller puts into the other fields is below the limit of        *)
(* integers.                                                               *)
Expressible ==
  /\ \A d \in Delays : ~ TooLarge(d)
  /\ \A i \in 1 .. 3 : ~ TooLarge(Ecn[i])

LEMMA GappedOffer ==
  ASSUME Expressible, Offered(FrameOf(sent)), Gapped(sent)
  PROVE  Sendable(FrameOf(sent))
  <1> DEFINE f == FrameOf(sent)
  <1>1. Gapped(f)
    BY DEF Gapped, FrameOf
  <1>2. \A d \in Delays : d \in Nat
    BY WireAssumption, WordType
  <1>3. Ecn \in Seq(Nat) /\ Len(Ecn) = 3
    <2>1. Ecn \in Seq(0 .. Word - 1) /\ Len(Ecn) = 3
      BY WireAssumption
    <2>2. 0 .. Word - 1 \subseteq Nat
      BY WordType
    <2> QED
      BY <2>1, <2>2, WiderSequence
  <1> HIDE DEF f
  <1> QED
    BY <1>1, <1>2, <1>3 DEF Offered, Sendable, Expressible, f

LEMMA RestFollowable ==
  ASSUME NEW rest \in Rests
  PROVE  Followable(rest) /\ (Len(rest) = 0 <=> rest = <<>>)
  <1>1. rest \in Seq(0 .. Byte - 1) /\ 16 * (Modulus + 4) + Len(rest) < Word
    BY WireAssumption
  <1> QED
    BY <1>1 DEF Followable

(* The blocks of recv_packet_generate_ack.                                 *)
LEMMA BlocksGenerated ==
  ASSUME TypeInv, Apart, AllHonest, size # 0
  PROVE  /\ GenerateAck \in Seq(Blocks) /\ GenerateAck # <<>>
         /\ \A i \in 1 .. Len(GenerateAck) : GenerateAck[i].start <= GenerateAck[i].end
         /\ Numbers(GenerateAck) \subseteq arrived
  <1> DEFINE n == Len(ranges)
             b == GenerateAck
  <1>1. ranges \in Seq(Interval) /\ n \in Nat /\ n # 0
    BY DEF TypeInv, TypeOK, AckFits
  <1>2. ASSUME NEW i \in 1 .. n
        PROVE  /\ n - i + 1 \in 1 .. n
               /\ b[i] = Block(ranges[n - i + 1])
    BY <1>1, <1>2 DEF GenerateAck, Reverse
  <1>3. DOMAIN b = 1 .. n
    BY <1>1 DEF GenerateAck
  <1>4. ASSUME NEW i \in 1 .. n
        PROVE  /\ b[i] \in Blocks /\ b[i].start <= b[i].end
               /\ \A q \in b[i].start .. b[i].end : q \in arrived
    <2> DEFINE r == ranges[n - i + 1]
    <2>1. r \in Interval /\ Room(r) /\ Honest(r, arrived)
      BY <1>1, <1>2 DEF Apart, AllHonest
    <2>2. b[i].start = r.min /\ b[i].end = r.max /\ b[i] = [start |-> r.min, end |-> r.max]
      BY <1>2 DEF Block
    <2>3. r.min \in Number /\ r.max \in Number
      BY <2>1 DEF Interval
    <2> HIDE DEF r, b
    <2>4. b[i] \in Blocks /\ b[i].start <= b[i].end
      BY <2>1, <2>2, <2>3 DEF Blocks, Room
    <2>5. ASSUME NEW q \in r.min .. r.max PROVE q \in arrived
      <3>1. q \in Number /\ Within(r, q)
        BY <2>3, ModulusAssumption DEF Number, Within
      <3> QED
        BY <2>1, <3>1 DEF Honest
    <2> QED
      BY <2>2, <2>4, <2>5
  <1>5. b = [i \in 1 .. n |-> b[i]]
    BY <1>1, <1>3 DEF GenerateAck
  <1> HIDE DEF b
  <1>6. b \in Seq(Blocks) /\ Len(b) = n /\ b # <<>>
    <2>1. b \in [1 .. n -> Blocks]
      BY <1>4, <1>5
    <2> HIDE DEF n
    <2>2. b \in Seq(Blocks) /\ Len(b) = n
      BY <1>1, <2>1
    <2> QED
      BY <1>1, <2>2
  <1>7. Numbers(b) \subseteq arrived
    BY <1>3, <1>4 DEF Numbers
  <1> QED
    BY <1>4, <1>6, <1>7 DEF b

(* The frames of a step.                                                   *)
History == TypeInv /\ Apart /\ AllHonest

LEMMA SendKeeps ==
  ASSUME History, AckInv, UNCHANGED vars,
         NEW type \in Types, NEW delay \in Delays, NEW rest \in Rests,
         SendAck(type, delay, rest)
  PROVE  Underway'
  <1> DEFINE frame == [type |-> type, delay |-> delay, blocks |-> GenerateAck, ecn |-> Ecn]
             bytes == FrameBytes(frame)
  <1>1. /\ size # 0 /\ sent = NoAck /\ UNCHANGED heard
        /\ sent' = [type |-> type, delay |-> delay, blocks |-> GenerateAck, ecn |-> Ecn,
                    length |-> Len(bytes), rest |-> rest]
        /\ packet' = IF bytes = <<>> THEN <<>> ELSE bytes \o rest
    BY Zenon DEF SendAck, FrameBytes
  <1>2. heard = NoAck
    <2>1. CASE Underway
      <3>1. Offered(FrameOf(sent))
        BY <2>1 DEF Underway
      <3>2. FrameOf(sent).type \in Types
        BY <3>1 DEF Offered
      <3> QED
        BY <1>1, <3>2 DEF FrameOf, NoAck, Types
    <2> QED
      BY <2>1 DEF AckInv
  <1>3. FrameOf(sent') = frame /\ sent'.length = Len(bytes) /\ sent'.rest = rest
    <2> HIDE DEF bytes
    <2> QED
      BY <1>1 DEF FrameOf
  <1>4. /\ GenerateAck \in Seq(Blocks) /\ GenerateAck # <<>>
        /\ \A i \in 1 .. Len(GenerateAck) : GenerateAck[i].start <= GenerateAck[i].end
        /\ Numbers(GenerateAck) \subseteq arrived
    BY <1>1, BlocksGenerated DEF History
  <1>5. Offered(frame) /\ Numbers(frame.blocks) \subseteq arrived'
    BY <1>4 DEF Offered, vars
  <1> HIDE DEF frame
  <1>6. packet' # <<>> => packet' = bytes \o rest
    BY <1>1
  <1>7. heard' = NoAck
    BY <1>1, <1>2
  <1> HIDE DEF bytes
  <1> QED
    BY <1>3, <1>5, <1>6, <1>7 DEF Underway, bytes

LEMMA ExchangeStep ==
  ASSUME History, AckInv, [ExchangeNext]_<<vars, ackVars>>
  PROVE  AckInv'
  <1>1. CASE [Next]_vars /\ UNCHANGED ackVars
    <2>1. arrived \subseteq arrived'
      BY <1>1 DEF Next, RecvPacketReceived, RecvPacketDeleteBelow, vars
    <2>2. CASE Underway
      <3>1. Underway'
        BY <1>1, <2>1, <2>2 DEF Underway, ackVars
      <3> QED
        BY <3>1 DEF AckInv
    <2> QED
      BY <1>1, <2>2 DEF AckInv, ackVars
  <1>2. ASSUME UNCHANGED vars, NEW type \in Types, NEW delay \in Delays, NEW rest \in Rests,
               SendAck(type, delay, rest)
        PROVE  AckInv'
    BY <1>2, SendKeeps DEF AckInv
  <1>3. ASSUME UNCHANGED vars, HearAck PROVE AckInv'
    <2>1. /\ packet # <<>> /\ packet' = <<>> /\ sent' = sent
          /\ \E beyond \in Beyonds : heard' = AckDecode(packet, sent.type, beyond)
      BY <1>3 DEF HearAck
    <2>2. Underway
      BY <2>1 DEF AckInv
    <2>3. sent.type = FrameOf(sent).type /\ arrived' = arrived
      BY <1>3 DEF FrameOf, vars
    <2>4. Underway'
      BY <2>1, <2>2, <2>3 DEF Underway
    <2> QED
      BY <2>4 DEF AckInv
  <1>4. ASSUME ForgetAck PROVE AckInv'
    BY <1>4 DEF ForgetAck, AckInv
  <1> QED
    BY <1>1, <1>2, <1>3, <1>4 DEF ExchangeNext, ackVars


(* The history does not notice that acknowledgements are taken from it.    *)
THEOREM HistoryUndisturbed == ExchangeSpec => Spec
  <1>1. ExchangeInit => Init
    BY DEF ExchangeInit
  <1>2. [ExchangeNext]_<<vars, ackVars>> => [Next]_vars
    BY DEF ExchangeNext, ackVars, vars
  <1> QED
    BY <1>1, <1>2, PTL DEF ExchangeSpec, Spec

LEMMA ExchangeInvariant == NoWrap => (ExchangeSpec => [](History /\ AckInv))
  <1> SUFFICES ASSUME NoWrap
               PROVE  ExchangeSpec => [](History /\ AckInv)
    OBVIOUS
  <1>1. Init => AllHonest
    BY DEF Init, AllHonest
  <1>2. TypeInv /\ AllHonest /\ [Next]_vars => AllHonest'
    BY HonestStep
  <1>3. Spec => [](TypeInv /\ Apart)
    BY ApartInvariant
  <1>4. Spec => []History
    BY <1>1, <1>2, <1>3, PTL DEF Spec, History
  <1>5. ExchangeInit => AckInv
    BY DEF ExchangeInit, AckInv
  <1>6. History /\ AckInv /\ [ExchangeNext]_<<vars, ackVars>> => AckInv'
    BY ExchangeStep
  <1> QED
    BY <1>4, <1>5, <1>6, HistoryUndisturbed, PTL DEF ExchangeSpec

(* In every state a frame that can be expressed is on its way.             *)
LEMMA UnderwaySendable ==
  ASSUME Expressible, Underway, Gapped(sent)
  PROVE  /\ Sendable(FrameOf(sent)) /\ sent.rest \in Rests /\ Followable(sent.rest)
         /\ Len(sent.rest) = 0 <=> sent.rest = <<>>
  <1>1. sent.rest \in Rests /\ Offered(FrameOf(sent))
    BY DEF Underway
  <1> QED
    BY <1>1, GappedOffer, RestFollowable

(* A buffer of ack_size bytes suffices for ack_encode as long as the gaps  *)
(* can be expressed: each later gap is at most the distance to the first   *)
(* block that ack_size measures in its place.                              *)
THEOREM SizeAlwaysSuffices ==
  NoWrap /\ Expressible => (ExchangeSpec => []SizeSuffices)
  <1> SUFFICES ASSUME NoWrap, Expressible
               PROVE  ExchangeSpec => []SizeSuffices
    OBVIOUS
  <1>1. AckInv => SizeSuffices
    <2> SUFFICES ASSUME Underway, Gapped(sent)
                 PROVE  sent.length > 0
      BY DEF AckInv, SizeSuffices
    <2>1. Sendable(FrameOf(sent)) /\ Followable(sent.rest)
      BY UnderwaySendable
    <2>2. Len(FrameBytes(FrameOf(sent))) \in Nat \ {0}
      BY <2>1, FrameOnWire DEF FrameBytes
    <2>3. sent.length = Len(FrameBytes(FrameOf(sent)))
      BY DEF Underway
    <2> QED
      BY <2>2, <2>3
  <1> QED
    BY <1>1, ExchangeInvariant, PTL

(* The bytes on the wire acknowledge exactly the blocks of the history     *)
(* when it was asked, and only packets that arrived, whatever arrives or   *)
(* is dropped while they are on their way.                                 *)
THEOREM WireIsTruthful ==
  NoWrap /\ Expressible => (ExchangeSpec => []WireTruthful)
  <1> SUFFICES ASSUME NoWrap, Expressible
               PROVE  ExchangeSpec => []WireTruthful
    OBVIOUS
  <1>1. AckInv => WireTruthful
    <2> SUFFICES ASSUME Underway, packet # <<>>, Gapped(sent)
                 PROVE  /\ Understood(packet, sent.type) = Numbers(sent.blocks)
                        /\ Numbers(sent.blocks) \subseteq arrived
      BY DEF AckInv, WireTruthful
    <2> DEFINE f == FrameOf(sent)
    <2>1. Sendable(f) /\ Followable(sent.rest)
      BY UnderwaySendable
    <2>2. Understood(FrameBytes(f) \o sent.rest, f.type) = Numbers(f.blocks)
      BY <2>1, FrameUnderstood DEF FrameBytes
    <2>3. packet = FrameBytes(f) \o sent.rest /\ Numbers(f.blocks) \subseteq arrived
      BY DEF Underway
    <2>4. f.type = sent.type /\ f.blocks = sent.blocks
      BY DEF FrameOf
    <2> HIDE DEF f
    <2> QED
      BY <2>2, <2>3, <2>4
  <1> QED
    BY <1>1, ExchangeInvariant, PTL

LEMMA HeardFrame ==
  ASSUME Expressible, Underway, Gapped(sent), heard # NoAck
  PROVE  /\ Bare(FrameOf(sent), sent.rest) => heard = Failure
         /\ ~ Bare(FrameOf(sent), sent.rest) =>
              heard # Failure /\ Faithful(heard, FrameOf(sent), sent.length)
         /\ Len(sent.rest) = 0 <=> sent.rest = <<>>
  <1> DEFINE f == FrameOf(sent)
             rest == sent.rest
             Told(d) == /\ Bare(f, rest) => d = Failure
                        /\ ~ Bare(f, rest) =>
                             d # Failure /\ Faithful(d, f, Len(FrameBytes(f)))
  <1>1. Sendable(f) /\ Followable(rest) /\ (Len(rest) = 0 <=> rest = <<>>)
    BY UnderwaySendable
  <1>2. PICK beyond \in Beyonds : heard = AckDecode(FrameBytes(f) \o rest, f.type, beyond)
    BY DEF Underway
  <1>3. sent.length = Len(FrameBytes(f))
    BY DEF Underway
  <1>4. Told(AckDecode(FrameBytes(f) \o rest, f.type, beyond))
    BY <1>1, FrameDecoded DEF FrameBytes
  <1> HIDE DEF f, rest
  <1>5. Told(heard)
    BY <1>2, <1>4
  <1> QED
    BY <1>1, <1>3, <1>5 DEF f, rest

(* ack_decode accepts a frame exactly when it has one block, carries       *)
(* counters or is followed by another frame.                               *)
THEOREM HeardExactlyWhenFollowed ==
  NoWrap /\ Expressible => (ExchangeSpec => []HeardWhenFollowed)
  <1> SUFFICES ASSUME NoWrap, Expressible
               PROVE  ExchangeSpec => []HeardWhenFollowed
    OBVIOUS
  <1>1. AckInv => HeardWhenFollowed
    <2> SUFFICES ASSUME Underway, heard # NoAck, Gapped(sent)
                 PROVE  Accepted <=> (Len(sent.blocks) = 1 \/ sent.type = "ACK_ECN"
                                        \/ sent.rest # <<>>)
      BY DEF AckInv, HeardWhenFollowed
    <2>1. heard = Failure <=> Bare(FrameOf(sent), sent.rest)
      BY HeardFrame
    <2>2. Len(sent.rest) = 0 <=> sent.rest = <<>>
      BY HeardFrame
    <2>3. FrameOf(sent).type = sent.type /\ FrameOf(sent).blocks = sent.blocks
      BY DEF FrameOf
    <2> QED
      BY <2>1, <2>2, <2>3 DEF Accepted, Bare
  <1> QED
    BY <1>1, ExchangeInvariant, PTL

(* A frame that is accepted yields its length, the number of its blocks,   *)
(* the first block, the delay and the counters, and the first block        *)
(* acknowledges only packets that arrived.                                 *)
THEOREM FirstBlockAlwaysHeard ==
  NoWrap /\ Expressible => (ExchangeSpec => []FirstBlockHeard)
  <1> SUFFICES ASSUME NoWrap, Expressible
               PROVE  ExchangeSpec => []FirstBlockHeard
    OBVIOUS
  <1>1. AckInv => FirstBlockHeard
    <2> SUFFICES ASSUME Underway, Accepted, Gapped(sent)
                 PROVE  /\ heard.used = sent.length
                        /\ Len(heard.blocks) = Len(sent.blocks)
                        /\ heard.blocks[1] = sent.blocks[1]
                        /\ Numbers(<<heard.blocks[1]>>) \subseteq arrived
                        /\ heard.delay = sent.delay
                        /\ heard.type = "ACK_ECN" => heard.ecn = sent.ecn
      BY DEF AckInv, FirstBlockHeard, Accepted
    <2>1. Faithful(heard, FrameOf(sent), sent.length)
      BY HeardFrame DEF Accepted
    <2>2. /\ FrameOf(sent).type = sent.type /\ FrameOf(sent).blocks = sent.blocks
          /\ FrameOf(sent).delay = sent.delay /\ FrameOf(sent).ecn = sent.ecn
      BY DEF FrameOf
    <2>3. /\ heard.used = sent.length
          /\ Len(heard.blocks) = Len(sent.blocks)
          /\ heard.blocks[1] = sent.blocks[1]
          /\ heard.delay = sent.delay
          /\ heard.type = "ACK_ECN" => heard.ecn = sent.ecn
      BY <2>1, <2>2 DEF Faithful
    <2>4. Numbers(<<sent.blocks[1]>>) \subseteq Numbers(sent.blocks)
      <3>1. sent.blocks \in Seq(Blocks) /\ sent.blocks # <<>>
        BY <2>2 DEF Underway, Offered
      <3>2. 1 \in DOMAIN sent.blocks
        <4> DEFINE b == sent.blocks
        <4>1. b \in Seq(Blocks) /\ b # <<>>
          BY <3>1
        <4> HIDE DEF b
        <4>2. 1 \in DOMAIN b
          BY <4>1
        <4> QED
          BY <4>2 DEF b
      <3>3. \A x : {<<x>>[i] : i \in DOMAIN <<x>>} = {x}
        OBVIOUS
      <3> QED
        BY <3>2, <3>3 DEF Numbers
    <2>5. Numbers(sent.blocks) \subseteq arrived
      BY <2>2 DEF Underway
    <2> QED
      BY <2>3, <2>4, <2>5
  <1> QED
    BY <1>1, ExchangeInvariant, PTL
=============================================================================
