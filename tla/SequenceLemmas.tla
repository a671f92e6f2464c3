--------------------------- MODULE SequenceLemmas ---------------------------
(***************************************************************************)
(* Facts about the naturals and about sequences that the library states    *)
(* for no prover installed or not at all.                                  *)
(***************************************************************************)
EXTENDS Integers, SequencesExt, SequenceTheorems, WellFoundedInduction, TLAPS

-----------------------------------------------------------------------------
(* Induction over the naturals, with a set for the predicate.              *)

LEMMA LeastNatural ==
  ASSUME NEW S, S \subseteq Nat, S # {}
  PROVE  \E m \in S : \A n \in S : m <= n
  <1> DEFINE R == OpToRel(<, Nat)
  <1>1. R = {ss \in Nat \X Nat : ss[1] < ss[2]}
    BY DEF OpToRel
  <1>2. IsWellFoundedOn(R, Nat)
    BY NatLessThanWellFounded, Zenon
  <1> HIDE DEF R
  <1>3. PICK x \in S : \A y \in S : ~ (<<y, x>> \in R)
    BY <1>2, WFMin
  <1>4. ASSUME NEW y \in S PROVE x <= y
    <2>1. x \in Nat /\ y \in Nat
      OBVIOUS
    <2>2. <<y, x>> \notin R
      BY <1>3
    <2>3. y < x => <<y, x>> \in {ss \in Nat \X Nat : ss[1] < ss[2]}
      BY <2>1
    <2> QED
      BY <1>1, <2>1, <2>2, <2>3
  <1> QED
    BY <1>4

LEMMA SetInduction ==
  ASSUME NEW P, 0 \in P, \A n \in Nat : n \in P => n + 1 \in P
  PROVE  Nat \subseteq P
  <1> SUFFICES ASSUME Nat \ P # {} PROVE FALSE
    OBVIOUS
  <1>1. PICK m \in Nat \ P : \A n \in Nat \ P : m <= n
    BY LeastNatural
  <1>2. m # 0 /\ m - 1 \in Nat
    BY <1>1
  <1>3. m - 1 \in P
    BY <1>1, <1>2
  <1> QED
    BY <1>1, <1>2, <1>3

-----------------------------------------------------------------------------
(* Inserting into a sequence and removing from it, element by element.     *)

LEMMA InsertAtElements ==
  ASSUME NEW S, NEW s \in Seq(S), NEW i \in 1 .. Len(s) + 1, NEW e \in S
  PROVE  /\ InsertAt(s, i, e) \in Seq(S)
         /\ Len(InsertAt(s, i, e)) = Len(s) + 1
         /\ \A j \in 1 .. Len(s) + 1 :
              InsertAt(s, i, e)[j] =
                IF j < i THEN s[j] ELSE IF j = i THEN e ELSE s[j - 1]
<1> DEFINE low == SubSeq(s, 1, i - 1)
           high == SubSeq(s, i, Len(s))
<1>1. low \in Seq(S) /\ Len(low) = i - 1 /\ \A j \in 1 .. i - 1 : low[j] = s[j]
  OBVIOUS
<1>2. /\ high \in Seq(S)
      /\ Len(high) = Len(s) - i + 1
      /\ \A j \in 1 .. Len(s) - i + 1 : high[j] = s[i + j - 1]
  OBVIOUS
<1>3. <<e>> \in Seq(S) /\ Len(<<e>>) = 1 /\ <<e>>[1] = e
  OBVIOUS
<1> HIDE DEF low, high
<1>4. /\ low \o <<e>> \in Seq(S)
      /\ Len(low \o <<e>>) = i
      /\ \A j \in 1 .. i : (low \o <<e>>)[j] = IF j < i THEN s[j] ELSE e
  BY <1>1, <1>3, ConcatProperties
<1> DEFINE front == low \o <<e>>
<1> HIDE DEF front
<1>5. /\ front \in Seq(S)
      /\ Len(front) = i
      /\ \A j \in 1 .. i : front[j] = IF j < i THEN s[j] ELSE e
  BY <1>4 DEF front
<1>6. /\ front \o high \in Seq(S)
      /\ Len(front \o high) = Len(s) + 1
      /\ \A j \in 1 .. Len(s) + 1 :
           (front \o high)[j] = IF j <= i THEN front[j] ELSE high[j - i]
  BY <1>2, <1>5, ConcatProperties
<1>7. InsertAt(s, i, e) = front \o high
  BY DEF InsertAt, front, low, high
<1>8. ASSUME NEW j \in 1 .. Len(s) + 1
      PROVE  InsertAt(s, i, e)[j] =
               IF j < i THEN s[j] ELSE IF j = i THEN e ELSE s[j - 1]
  <2>1. CASE j <= i
    BY <2>1, <1>5, <1>6, <1>7
  <2>2. CASE j > i
    <3>1. j - i \in 1 .. Len(s) - i + 1 /\ i + (j - i) - 1 = j - 1
      BY <2>2
    <3> QED BY <2>2, <3>1, <1>2, <1>6, <1>7
  <2> QED BY <2>1, <2>2
<1> QED BY <1>6, <1>7, <1>8

LEMMA RemoveAtElements ==
  ASSUME NEW S, NEW s \in Seq(S), NEW i \in 1 .. Len(s)
  PROVE  /\ RemoveAt(s, i) \in Seq(S)
         /\ Len(RemoveAt(s, i)) = Len(s) - 1
         /\ \A j \in 1 .. Len(s) - 1 :
              RemoveAt(s, i)[j] = IF j < i THEN s[j] ELSE s[j + 1]
<1> DEFINE low == SubSeq(s, 1, i - 1)
           high == SubSeq(s, i + 1, Len(s))
<1>1. low \in Seq(S) /\ Len(low) = i - 1 /\ \A j \in 1 .. i - 1 : low[j] = s[j]
  OBVIOUS
<1>2. /\ high \in Seq(S)
      /\ Len(high) = Len(s) - i
      /\ \A j \in 1 .. Len(s) - i : high[j] = s[i + j]
  OBVIOUS
<1> HIDE DEF low, high
<1>3. /\ low \o high \in Seq(S)
      /\ Len(low \o high) = Len(s) - 1
      /\ \A j \in 1 .. Len(s) - 1 :
           (low \o high)[j] = IF j <= i - 1 THEN low[j] ELSE high[j - (i - 1)]
  <2>1. Len(low) + Len(high) = Len(s) - 1
    BY <1>1, <1>2
  <2>2. /\ low \o high \in Seq(S)
        /\ Len(low \o high) = Len(low) + Len(high)
        /\ \A j \in 1 .. Len(low) + Len(high) :
             (low \o high)[j] = IF j <= Len(low) THEN low[j] ELSE high[j - Len(low)]
    BY <1>1, <1>2, ConcatProperties
  <2> QED BY <1>1, <2>1, <2>2
<1>4. RemoveAt(s, i) = low \o high
  BY DEF RemoveAt, low, high
<1>5. ASSUME NEW j \in 1 .. Len(s) - 1
      PROVE  RemoveAt(s, i)[j] = IF j < i THEN s[j] ELSE s[j + 1]
  <2>1. CASE j < i
    BY <2>1, <1>1, <1>3, <1>4
  <2>2. CASE j >= i
    <3>1. j - (i - 1) \in 1 .. Len(s) - i /\ i + (j - (i - 1)) = j + 1
      BY <2>2
    <3> QED BY <2>2, <3>1, <1>2, <1>3, <1>4
  <2> QED BY <2>1, <2>2
<1> QED BY <1>3, <1>4, <1>5

(* The first place of an element is where RemoveFirst takes it out.        *)
LEMMA RemoveFirstElements ==
  ASSUME NEW S, NEW s \in Seq(S), NEW k \in 1 .. Len(s),
         \A j \in 1 .. Len(s) : s[j] = s[k] => j >= k
  PROVE  RemoveFirst(s, s[k]) = RemoveAt(s, k)
<1> DEFINE I == {i \in 1 .. Len(s) : s[i] = s[k]}
<1>1. SelectInSeq(s, LAMBDA v : v = s[k]) = Min(I)
  BY DEF SelectInSeq
<1>2. k \in I /\ \A i \in I : k <= i
  OBVIOUS
<1>3. \A x \in I : (\A i \in I : x <= i) => x = k
  BY <1>2
<1>4. Min(I) = k
  <2> HIDE DEF I
  <2> QED BY <1>2, <1>3 DEF Min
<1> QED BY <1>1, <1>4 DEF RemoveFirst

(* A sequence over a set is one over a larger set.                         *)
LEMMA WiderSequence ==
  ASSUME NEW S, NEW T, S \subseteq T, NEW s \in Seq(S)
  PROVE  s \in Seq(T)
  <1> DEFINE n == Len(s)
  <1>1. n \in Nat /\ s \in [1 .. n -> S]
    OBVIOUS
  <1> HIDE DEF n
  <1>2. s \in [1 .. n -> T]
    BY <1>1
  <1> QED
    BY <1>1, <1>2

(* What Append does, element by element.                                   *)
LEMMA AppendElements ==
  ASSUME NEW S, NEW s \in Seq(S), NEW e \in S
  PROVE  /\ Append(s, e) \in Seq(S) /\ Len(Append(s, e)) = Len(s) + 1
         /\ Append(s, e)[Len(s) + 1] = e
         /\ \A i \in 1 .. Len(s) : Append(s, e)[i] = s[i]
  OBVIOUS

(* What is left of a sequence behind its first elements.                   *)
LEMMA SuffixElements ==
  ASSUME NEW S, NEW s \in Seq(S), NEW a \in Nat, a <= Len(s)
  PROVE  LET rest == SubSeq(s, a + 1, Len(s))
         IN /\ Len(rest) = Len(s) - a /\ rest \in Seq(S)
            /\ \A x \in 1 .. Len(s) - a : rest[x] = s[a + x]
  <1>1. PICK n \in Nat : n = Len(s)
    OBVIOUS
  <1>2. PICK m \in Nat : m = a + 1
    OBVIOUS
  <1> DEFINE rest == SubSeq(s, m, n)
  <1>3. \A x \in m .. n : s[x] \in S
    BY <1>1, <1>2
  <1>4. /\ rest \in Seq(S) /\ Len(rest) = IF m <= n THEN n - m + 1 ELSE 0
        /\ \A x \in 1 .. n - m + 1 : rest[x] = s[m + x - 1]
    BY <1>3, SubSeqProperties
  <1> HIDE DEF rest
  <1>5. Len(rest) = n - a
    BY <1>1, <1>2, <1>4
  <1>6. ASSUME NEW x \in 1 .. n - a PROVE rest[x] = s[a + x]
    <2>1. x \in 1 .. n - m + 1 /\ m + x - 1 = a + x
      BY <1>2
    <2> QED
      BY <1>4, <2>1
  <1>7. rest = SubSeq(s, a + 1, Len(s))
    BY <1>1, <1>2 DEF rest
  <1> QED
    BY <1>1, <1>4, <1>5, <1>6, <1>7

(* Appending to the second part of a concatenation.                        *)
LEMMA AppendConcat ==
  ASSUME NEW S, NEW s \in Seq(S), NEW t \in Seq(S), NEW e \in S
  PROVE  s \o Append(t, e) = Append(s \o t, e)
<1>1. /\ Append(t, e) \in Seq(S) /\ Len(Append(t, e)) = Len(t) + 1
      /\ \A i \in 1 .. Len(t) + 1 :
           Append(t, e)[i] = IF i <= Len(t) THEN t[i] ELSE e
  OBVIOUS
<1> DEFINE te == Append(t, e)
           st == s \o t
<1>2. /\ st \in Seq(S) /\ Len(st) = Len(s) + Len(t)
      /\ \A i \in 1 .. Len(s) + Len(t) :
           st[i] = IF i <= Len(s) THEN s[i] ELSE t[i - Len(s)]
  BY ConcatProperties
<1> HIDE DEF te, st
<1>3. /\ te \in Seq(S) /\ Len(te) = Len(t) + 1
      /\ \A i \in 1 .. Len(t) + 1 : te[i] = IF i <= Len(t) THEN t[i] ELSE e
  BY <1>1 DEF te
<1>4. /\ s \o te \in Seq(S) /\ Len(s \o te) = Len(s) + Len(te)
      /\ \A i \in 1 .. Len(s) + Len(te) :
           (s \o te)[i] = IF i <= Len(s) THEN s[i] ELSE te[i - Len(s)]
  BY <1>3, ConcatProperties
<1>5. /\ Append(st, e) \in Seq(S) /\ Len(Append(st, e)) = Len(st) + 1
      /\ \A i \in 1 .. Len(st) + 1 :
           Append(st, e)[i] = IF i <= Len(st) THEN st[i] ELSE e
  BY <1>2
<1> DEFINE left == s \o te
           right == Append(st, e)
<1> HIDE DEF left, right
<1>6. /\ left \in Seq(S) /\ right \in Seq(S)
      /\ Len(left) = Len(s) + Len(t) + 1 /\ Len(right) = Len(s) + Len(t) + 1
  BY <1>2, <1>3, <1>4, <1>5 DEF left, right
<1>7. ASSUME NEW i \in 1 .. Len(s) + Len(t) + 1 PROVE left[i] = right[i]
  <2>1. left[i] = IF i <= Len(s) THEN s[i] ELSE te[i - Len(s)]
    BY <1>3, <1>4 DEF left
  <2>2. right[i] = IF i <= Len(st) THEN st[i] ELSE e
    BY <1>2, <1>5 DEF right
  <2>3. CASE i <= Len(s)
    BY <1>2, <2>1, <2>2, <2>3
  <2>4. CASE i > Len(s)
    <3>1. i - Len(s) \in 1 .. Len(t) + 1
      BY <2>4
    <3>2. left[i] = IF i - Len(s) <= Len(t) THEN t[i - Len(s)] ELSE e
      <4>1. left[i] = te[i - Len(s)]
        BY <1>3, <2>1, <2>4
      <4> QED
        BY <1>3, <3>1, <4>1
    <3>3. i - Len(s) <= Len(t) <=> i <= Len(st)
      BY <1>2
    <3>4. i <= Len(st) => st[i] = t[i - Len(s)]
      BY <1>2, <2>4
    <3> QED
      BY <2>2, <3>2, <3>3, <3>4
  <2> QED
    BY <2>3, <2>4
<1>8. left = right
  BY <1>6, <1>7
<1> QED
  BY <1>8 DEF left, right, te, st
=============================================================================
