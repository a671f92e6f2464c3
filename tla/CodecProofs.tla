------------------------------ MODULE CodecProofs ------------------------------
(***************************************************************************)
(* What the integers of the wire formats are worth, for bytes of every     *)
(* width: decoding inverts encoding.                                       *)
(***************************************************************************)
EXTENDS BigEndian, SequenceLemmas

-----------------------------------------------------------------------------
(* Quotients and remainders.                                               *)

LEMMA Division ==
  ASSUME NEW a \in Nat, NEW b \in Nat \ {0}
  PROVE  /\ a \div b \in Nat /\ a % b \in Nat /\ a % b < b
         /\ a = b * (a \div b) + (a % b)
  OBVIOUS

LEMMA DivisionUnique ==
  ASSUME NEW b \in Nat \ {0}, NEW q \in Nat, NEW r \in Nat, r < b
  PROVE  (b * q + r) \div b = q /\ (b * q + r) % b = r
  OBVIOUS

LEMMA ProductNatural ==
  ASSUME NEW a \in Nat, NEW b \in Nat
  PROVE  a * b \in Nat /\ (a # 0 /\ b # 0 => a * b # 0)
  OBVIOUS

LEMMA ProductGrows ==
  ASSUME NEW a \in Nat, NEW b \in Nat, NEW c \in Nat, a <= b
  PROVE  a * c <= b * c
  OBVIOUS

(* The digits of a above a product, and below it.                          *)
LEMMA DivisionTwice ==
  ASSUME NEW a \in Nat, NEW b \in Nat \ {0}, NEW c \in Nat \ {0}
  PROVE  /\ (a \div b) \div c = a \div (b * c)
         /\ a % (b * c) = b * ((a \div b) % c) + (a % b)
  <1> DEFINE q == a \div b
             r == a % b
             s == q \div c
             t == q % c
  <1>1. q \in Nat /\ r \in Nat /\ r < b /\ a = b * q + r
    BY Division
  <1>2. s \in Nat /\ t \in Nat /\ t < c /\ q = c * s + t
    BY <1>1, Division
  <1> HIDE DEF q, r, s, t
  <1>3. b * c \in Nat \ {0}
    BY ProductNatural
  <1>4. a = (b * c) * s + (b * t + r)
    <2>1. b * (c * s + t) = (b * c) * s + b * t
      BY <1>2
    <2> QED
      BY <1>1, <1>2, <2>1, ProductNatural
  <1>5. b * t + r \in Nat /\ b * t + r < b * c
    <2>1. t + 1 <= c
      BY <1>2
    <2>2. (t + 1) * b <= c * b
      BY <1>2, <2>1, ProductGrows
    <2>3. b * t \in Nat /\ (t + 1) * b = b * t + b /\ c * b = b * c
      BY <1>2, ProductNatural
    <2> QED
      BY <1>1, <1>3, <2>2, <2>3
  <1>6. a \div (b * c) = s /\ a % (b * c) = b * t + r
    BY <1>2, <1>3, <1>4, <1>5, DivisionUnique
  <1> QED
    BY <1>6 DEF q, r, s, t

-----------------------------------------------------------------------------
(* Powers.                                                                 *)

LEMMA ByteType ==
  /\ Low \in Nat \ {0} /\ Byte \in Nat \ {0} /\ Byte = 4 * Low /\ Byte >= 4
  BY LowAssumption DEF Byte

LEMMA PowerSteps ==
  Power[0] = 1 /\ \A k \in 1 .. 8 : Power[k] = Byte * Power[k - 1]
  <1> DEFINE p2 == Byte * Byte
             p3 == Byte * p2
             p4 == Byte * p3
             p5 == Byte * p4
             p6 == Byte * p5
             p7 == Byte * p6
             p8 == Byte * p7
             g == [k \in 0 .. 8 |->
                     IF k = 0 THEN 1 ELSE IF k = 1 THEN Byte ELSE IF k = 2 THEN p2
                     ELSE IF k = 3 THEN p3 ELSE IF k = 4 THEN p4 ELSE IF k = 5 THEN p5
                     ELSE IF k = 6 THEN p6 ELSE IF k = 7 THEN p7 ELSE p8]
  <1>1. Byte * 1 = Byte
    BY ByteType
  <1>2. \A k \in 0 .. 8 : g[k] = IF k = 0 THEN 1 ELSE Byte * g[k - 1]
    <2> HIDE DEF p2, p3, p4, p5, p6, p7, p8
    <2>1. /\ g[0] = 1 /\ g[1] = Byte /\ g[2] = p2 /\ g[3] = p3 /\ g[4] = p4
          /\ g[5] = p5 /\ g[6] = p6 /\ g[7] = p7 /\ g[8] = p8
      OBVIOUS
    <2> HIDE DEF g
    <2>2. ASSUME NEW k \in 0 .. 8
          PROVE  k \in {0, 1, 2, 3, 4, 5, 6, 7, 8}
      OBVIOUS
    <2>3. /\ p2 = Byte * Byte /\ p3 = Byte * p2 /\ p4 = Byte * p3 /\ p5 = Byte * p4
          /\ p6 = Byte * p5 /\ p7 = Byte * p6 /\ p8 = Byte * p7
      BY DEF p2, p3, p4, p5, p6, p7, p8
    <2> QED
      BY <1>1, <2>1, <2>2, <2>3
  <1>3. g = [k \in 0 .. 8 |-> g[k]]
    OBVIOUS
  <1> HIDE DEF g
  <1>4. g = [k \in 0 .. 8 |-> IF k = 0 THEN 1 ELSE Byte * g[k - 1]]
    BY <1>2, <1>3
  <1>5. Power = [k \in 0 .. 8 |-> IF k = 0 THEN 1 ELSE Byte * Power[k - 1]]
    BY <1>4 DEF Power
  <1> QED
    BY <1>5

LEMMA PowerType ==
  \A k \in 0 .. 8 : Power[k] \in Nat \ {0}
  <1> DEFINE P == {k \in Nat : k \in 0 .. 8 => Power[k] \in Nat \ {0}}
  <1>1. 0 \in P
    BY PowerSteps
  <1>2. ASSUME NEW k \in Nat, k \in P PROVE k + 1 \in P
    <2> SUFFICES ASSUME k + 1 \in 0 .. 8 PROVE Power[k + 1] \in Nat \ {0}
      OBVIOUS
    <2>1. Power[k] \in Nat \ {0} /\ Power[k + 1] = Byte * Power[k]
      BY <1>2, PowerSteps
    <2> QED
      BY <2>1, ByteType, ProductNatural
  <1> HIDE DEF P
  <1>3. Nat \subseteq P
    BY <1>1, <1>2, SetInduction
  <1> QED
    BY <1>3 DEF P

LEMMA WordType == Word \in Nat \ {0}
  BY PowerType DEF Word

LEMMA PowerProduct ==
  ASSUME NEW j \in 0 .. 8, NEW k \in 0 .. 8, j + k <= 8
  PROVE  Power[j + k] = Power[j] * Power[k]
  <1> DEFINE P == {i \in Nat : i + k <= 8 => Power[i + k] = Power[i] * Power[k]}
  <1>1. 0 \in P
    BY PowerSteps, PowerType
  <1>2. ASSUME NEW i \in Nat, i \in P PROVE i + 1 \in P
    <2> SUFFICES ASSUME (i + 1) + k <= 8 PROVE Power[(i + 1) + k] = Power[i + 1] * Power[k]
      OBVIOUS
    <2>1. Power[i + k] = Power[i] * Power[k]
      BY <1>2
    <2>2. i + 1 \in 1 .. 8 /\ (i + 1) + k \in 1 .. 8 /\ i \in 0 .. 8 /\ i + k \in 0 .. 8
      OBVIOUS
    <2>3. ((i + 1) + k) - 1 = i + k /\ (i + 1) - 1 = i
      OBVIOUS
    <2>4. Power[(i + 1) + k] = Byte * Power[i + k] /\ Power[i + 1] = Byte * Power[i]
      BY <2>2, <2>3, PowerSteps
    <2>5. Power[i] \in Nat /\ Power[k] \in Nat
      BY <2>2, PowerType
    <2>6. Byte * (Power[i] * Power[k]) = (Byte * Power[i]) * Power[k]
      BY <2>5, ByteType
    <2> QED
      BY <2>1, <2>4, <2>6
  <1> HIDE DEF P
  <1>3. j \in P
    BY <1>1, <1>2, SetInduction
  <1> QED
    BY <1>3 DEF P

LEMMA PowerGrows ==
  ASSUME NEW j \in 0 .. 8, NEW k \in 0 .. 8, j <= k
  PROVE  Power[j] <= Power[k] /\ (j < k => Byte * Power[j] <= Power[k])
  <1>1. k - j \in 0 .. 8 /\ (k - j) + j = k
    OBVIOUS
  <1>2. Power[k] = Power[k - j] * Power[j]
    BY <1>1, PowerProduct
  <1>3. Power[k] \in Nat /\ Power[j] \in Nat /\ Power[k - j] \in Nat /\ Power[k - j] >= 1
    BY <1>1, PowerType
  <1>4. 1 * Power[j] <= Power[k]
    BY <1>2, <1>3, ProductGrows
  <1>5. ASSUME j < k PROVE Byte <= Power[k - j]
    <2>1. (k - j) - 1 \in 0 .. 8 /\ k - j \in 1 .. 8
      BY <1>5
    <2>2. Power[k - j] = Byte * Power[(k - j) - 1]
      BY <2>1, PowerSteps
    <2>3. Power[(k - j) - 1] \in Nat /\ 1 <= Power[(k - j) - 1]
      BY <2>1, PowerType
    <2>4. 1 * Byte <= Power[(k - j) - 1] * Byte
      BY <2>3, ByteType, ProductGrows
    <2> QED
      BY <2>2, <2>3, <2>4, ByteType
  <1>6. ASSUME j < k PROVE Byte * Power[j] <= Power[k]
    BY <1>2, <1>3, <1>5, <1>6, ByteType, ProductGrows
  <1> QED
    BY <1>3, <1>4, <1>6

-----------------------------------------------------------------------------
(* Bytes in network order.                                                 *)

(* f sums up the bytes one by one.                                         *)
SumsUp(f, bytes) ==
  /\ f[0] = 0
  /\ \A i \in 1 .. Len(bytes) : f[i] = f[i - 1] * Byte + bytes[i]
  /\ Worth(bytes) = f[Len(bytes)]

(* The recursion of Worth has a solution, which it therefore follows.     *)
LEMMA WorthSteps ==
  ASSUME NEW bytes, Len(bytes) \in Nat
  PROVE  \E f : SumsUp(f, bytes)
  <1> DEFINE Steps(f, m) ==
               [i \in 0 .. m |-> IF i = 0 THEN 0 ELSE f[i - 1] * Byte + bytes[i]]
             P == {m \in Nat : \E f : f = Steps(f, m)}
  <1>1. 0 \in P
    <2> DEFINE f == [i \in 0 .. 0 |-> 0]
    <2>1. f = Steps(f, 0)
      OBVIOUS
    <2> QED
      BY <2>1
  <1>2. ASSUME NEW m \in Nat, m \in P PROVE m + 1 \in P
    <2>1. PICK f : f = Steps(f, m)
      BY <1>2
    <2> DEFINE g == [i \in 0 .. m + 1 |->
                       IF i <= m THEN f[i] ELSE f[m] * Byte + bytes[m + 1]]
    <2>2. \A i \in 0 .. m : g[i] = f[i]
      OBVIOUS
    <2>3. ASSUME NEW i \in 0 .. m + 1
          PROVE  g[i] = IF i = 0 THEN 0 ELSE g[i - 1] * Byte + bytes[i]
      <3>1. CASE i <= m
        <4>1. i \in 0 .. m /\ g[i] = f[i] /\ (i # 0 => g[i - 1] = f[i - 1])
          BY <2>2, <3>1
        <4>2. f[i] = IF i = 0 THEN 0 ELSE f[i - 1] * Byte + bytes[i]
          BY <2>1, <4>1
        <4> QED
          BY <4>1, <4>2
      <3>2. CASE i = m + 1
        <4>1. i # 0 /\ i - 1 = m /\ g[m] = f[m] /\ ~ (i <= m)
          BY <2>2, <3>2
        <4> QED
          BY <3>2, <4>1
      <3> QED
        BY <3>1, <3>2
    <2>4. g = Steps(g, m + 1)
      <3>1. g = [i \in 0 .. m + 1 |-> g[i]]
        OBVIOUS
      <3> HIDE DEF g
      <3> QED
        BY <2>3, <3>1
    <2> HIDE DEF g
    <2> QED
      BY <2>4
  <1>3. Len(bytes) \in P
    <2> HIDE DEF P
    <2> QED
      BY <1>1, <1>2, SetInduction
  <1> DEFINE f == CHOOSE f : f = Steps(f, Len(bytes))
  <1>4. f = Steps(f, Len(bytes))
    BY <1>3
  <1>5. Worth(bytes) = f[Len(bytes)]
    BY DEF Worth
  <1> HIDE DEF f
  <1>6. \A i \in 0 .. Len(bytes) :
          f[i] = IF i = 0 THEN 0 ELSE f[i - 1] * Byte + bytes[i]
    BY <1>4
  <1> QED
    BY <1>5, <1>6 DEF SumsUp

LEMMA DigitsType ==
  ASSUME NEW v \in Nat, NEW n \in 0 .. 8
  PROVE  /\ Digits(v, n) \in Seq(0 .. Byte - 1) /\ Len(Digits(v, n)) = n
         /\ \A i \in 1 .. n : Digits(v, n)[i] = (v \div Power[n - i]) % Byte
  <1>1. ASSUME NEW i \in 1 .. n PROVE (v \div Power[n - i]) % Byte \in 0 .. Byte - 1
    <2>1. Power[n - i] \in Nat \ {0}
      BY PowerType
    <2>2. v \div Power[n - i] \in Nat
      BY <2>1, Division
    <2> QED
      BY <2>2, ByteType, Division
  <1>2. Digits(v, n) \in [1 .. n -> 0 .. Byte - 1]
    BY <1>1 DEF Digits
  <1> QED
    BY <1>2 DEF Digits

(* The low n bytes of v are v but for the multiples of what n bytes hold.  *)
LEMMA WorthOfDigits ==
  ASSUME NEW v \in Nat, NEW n \in 0 .. 8
  PROVE  Worth(Digits(v, n)) = v % Power[n]
  <1>1. /\ Len(Digits(v, n)) = n
        /\ \A i \in 1 .. n : Digits(v, n)[i] = (v \div Power[n - i]) % Byte
    BY DigitsType
  <1>2. PICK f : /\ f[0] = 0
                 /\ \A i \in 1 .. n : f[i] = f[i - 1] * Byte + Digits(v, n)[i]
                 /\ Worth(Digits(v, n)) = f[n]
    <2> DEFINE bytes == Digits(v, n)
    <2>1. Len(bytes) = n
      BY <1>1
    <2> HIDE DEF bytes
    <2>2. PICK f : SumsUp(f, bytes)
      BY <2>1, WorthSteps
    <2>3. /\ f[0] = 0
          /\ \A i \in 1 .. n : f[i] = f[i - 1] * Byte + bytes[i]
          /\ Worth(bytes) = f[n]
      BY <2>1, <2>2 DEF SumsUp
    <2> QED
      BY <2>3 DEF bytes
  <1> DEFINE P == {i \in Nat : i <= n => f[i] = (v \div Power[n - i]) % Power[i]}
  <1>3. 0 \in P
    <2>1. v \div Power[n] \in Nat
      BY PowerType, Division
    <2>2. (v \div Power[n]) % 1 = 0
      BY <2>1
    <2> QED
      BY <1>2, <2>2, PowerSteps
  <1>4. ASSUME NEW i \in Nat, i \in P PROVE i + 1 \in P
    <2> SUFFICES ASSUME i + 1 <= n
                 PROVE  f[i + 1] = (v \div Power[n - (i + 1)]) % Power[i + 1]
      OBVIOUS
    <2> DEFINE j == n - (i + 1)
               w == v \div Power[j]
    <2>1. /\ i + 1 \in 1 .. n /\ i + 1 \in 1 .. 8 /\ (i + 1) - 1 = i /\ i \in 0 .. 8
          /\ j \in 0 .. 8 /\ j + 1 \in 1 .. 8 /\ (j + 1) - 1 = j /\ n - i = j + 1
      OBVIOUS
    <2>2. /\ Power[j] \in Nat \ {0} /\ Power[i] \in Nat \ {0}
          /\ Power[j + 1] = Byte * Power[j] /\ Power[i + 1] = Byte * Power[i]
      BY <2>1, PowerType, PowerSteps
    <2>3. w \in Nat
      BY <2>2, Division
    <2>4. f[i] = (v \div Power[j + 1]) % Power[i]
      BY <1>4, <2>1
    <2>5. f[i + 1] = f[i] * Byte + (w % Byte)
      BY <1>1, <1>2, <2>1
    <2> HIDE DEF j
    <2>6. Power[j] * Byte = Power[j + 1]
      BY <2>2, ByteType
    <2>7. v \div Power[j + 1] = w \div Byte
      <3>1. Power[j] \in Nat \ {0} /\ Byte \in Nat \ {0}
        BY <2>2, ByteType
      <3>2. (v \div Power[j]) \div Byte = v \div (Power[j] * Byte)
        BY <3>1, DivisionTwice
      <3> QED
        BY <2>6, <3>2
    <2> HIDE DEF w
    <2>8. w % (Byte * Power[i]) = Byte * ((w \div Byte) % Power[i]) + (w % Byte)
      BY <2>2, <2>3, ByteType, DivisionTwice
    <2>9. (w \div Byte) % Power[i] \in Nat
      BY <2>2, <2>3, ByteType, Division
    <2>10. ((w \div Byte) % Power[i]) * Byte = Byte * ((w \div Byte) % Power[i])
      BY <2>9, ByteType
    <2>11. f[i + 1] = w % Power[i + 1]
      BY <2>2, <2>4, <2>5, <2>7, <2>8, <2>10
    <2> QED
      BY <2>11 DEF w, j
  <1> HIDE DEF P
  <1>5. n \in P
    BY <1>3, <1>4, SetInduction
  <1>6. f[n] = (v \div Power[0]) % Power[n]
    BY <1>5 DEF P
  <1>7. v \div 1 = v
    OBVIOUS
  <1> QED
    BY <1>2, <1>6, <1>7, PowerSteps

(* bigendian_decode of what bigendian_encode wrote replaces the low bytes  *)
(* of the old number.                                                      *)
THEOREM BigEndianInverts ==
  ASSUME NEW old \in Nat, NEW v \in Nat, NEW n \in 0 .. 8, v < Power[n]
  PROVE  BigEndianDecode(old, BigEndianEncode(v, n)) = Power[n] * (old \div Power[n]) + v
  <1>1. Len(Digits(v, n)) = n /\ Worth(Digits(v, n)) = v % Power[n]
    BY DigitsType, WorthOfDigits
  <1>2. Power[n] \in Nat \ {0}
    BY PowerType
  <1>3. v % Power[n] = v
    BY <1>2
  <1>4. old = Power[n] * (old \div Power[n]) + (old % Power[n])
        /\ old % Power[n] \in Nat /\ old \div Power[n] \in Nat
    BY <1>2, Division
  <1>5. Power[n] * (old \div Power[n]) \in Nat
    BY <1>2, <1>4, ProductNatural
  <1>6. old - (old % Power[n]) = Power[n] * (old \div Power[n])
    BY <1>4, <1>5
  <1> QED
    BY <1>1, <1>3, <1>6 DEF BigEndianDecode, BigEndianEncode

-----------------------------------------------------------------------------
(* Variable-length integers.                                               *)

LEMMA LengthsType ==
  /\ Lengths = {1, 2, 4, 8} /\ Lengths \subseteq 1 .. 8
  /\ \A n \in Lengths : /\ Tag(n) \in 0 .. 3 /\ Length[Tag(n) + 1] = n
                        /\ Limit(n) \in Nat /\ Limit(n) <= Limit(8)
  <1>1. ASSUME NEW n \in {1, 2, 4, 8} PROVE \E t \in 0 .. 3 : Length[t + 1] = n
    BY DEF Length
  <1>2. \A n \in {1, 2, 4, 8} : Tag(n) \in 0 .. 3 /\ Length[Tag(n) + 1] = n
    BY <1>1 DEF Tag
  <1>3. ASSUME NEW n \in {1, 2, 4, 8}
        PROVE  Limit(n) \in Nat /\ Limit(n) <= Limit(8)
    <2>1. n - 1 \in 0 .. 8 /\ 8 - 1 \in 0 .. 8 /\ n - 1 <= 8 - 1
      OBVIOUS
    <2>2. /\ Power[n - 1] \in Nat /\ Power[8 - 1] \in Nat
          /\ Power[n - 1] <= Power[8 - 1]
      BY <2>1, PowerType, PowerGrows
    <2>3. Power[n - 1] * Low <= Power[8 - 1] * Low
      BY <2>2, ByteType, ProductGrows
    <2> QED
      BY <2>2, <2>3, ByteType, ProductNatural DEF Limit
  <1> QED
    BY <1>2, <1>3 DEF Lengths

(* The length of an integer is the shortest that holds it.                 *)
LEMMA ShortestType ==
  ASSUME NEW v \in Nat, ~ TooLarge(v)
  PROVE  /\ Shortest(v) \in Lengths /\ v < Limit(Shortest(v))
         /\ VarintSize(v) = Shortest(v)
  <1>1. v < Limit(8)
    BY LengthsType DEF TooLarge, Lengths
  <1> DEFINE Fits == {n \in Lengths : v < Limit(n)}
  <1>2. Fits \subseteq Nat /\ Fits # {}
    BY <1>1, LengthsType
  <1>3. PICK n \in Fits : \A m \in Fits : n <= m
    BY <1>2, LeastNatural
  <1>4. \E m \in Lengths : v < Limit(m) /\ \A k \in Lengths : v < Limit(k) => m <= k
    BY <1>3
  <1>5. Shortest(v) \in Lengths /\ v < Limit(Shortest(v))
    BY <1>4 DEF Shortest
  <1> QED
    BY <1>5 DEF VarintSize

(* What varint_size tells for an integer that has no encoding is more than *)
(* any buffer has.                                                         *)
LEMMA TooLargeSize ==
  ASSUME NEW v \in Nat, TooLarge(v)
  PROVE  VarintSize(v) = Word - 1
  <1>1. Word \in Nat \ {0}
    BY WordType
  <1>2. (-1) % Word = Word - 1
    BY <1>1
  <1> QED
    BY <1>2 DEF VarintSize, Unsigned

(* The bytes of an integer: its own, with the two bits in the first.       *)
LEMMA EncodedType ==
  ASSUME NEW v \in Nat, ~ TooLarge(v)
  PROVE  LET n == Shortest(v)
         IN /\ EncodeBytes(v) \in Seq(0 .. Byte - 1) /\ Len(EncodeBytes(v)) = n
            /\ v < Power[n]
            /\ Digits(v, n)[1] \in 0 .. Low - 1
            /\ \A i \in 1 .. n :
                 EncodeBytes(v)[i] = Digits(v, n)[i] + IF i = 1 THEN Tag(n) * Low ELSE 0
  <1> DEFINE n == Shortest(v)
  <1>1. /\ n \in Lengths /\ n \in 1 .. 8 /\ v < Limit(n)
        /\ Tag(n) \in 0 .. 3 /\ Low \in Nat \ {0} /\ Byte = 4 * Low
    BY ShortestType, LengthsType, ByteType
  <1> HIDE DEF n
  <1>2. /\ Power[n - 1] \in Nat \ {0} /\ Power[n] = Byte * Power[n - 1]
        /\ Limit(n) = Low * Power[n - 1]
    BY <1>1, PowerType, PowerSteps DEF Limit
  <1>3. /\ Digits(v, n) \in Seq(0 .. Byte - 1) /\ Len(Digits(v, n)) = n
        /\ \A i \in 1 .. n : Digits(v, n)[i] = (v \div Power[n - i]) % Byte
    <2>1. n \in 0 .. 8
      BY <1>1
    <2> QED
      BY <2>1, DigitsType
  <1>4. v \div Power[n - 1] \in 0 .. Low - 1
    <2> DEFINE q == v \div Power[n - 1]
    <2>1. q \in Nat /\ Power[n - 1] * q <= v
      <3>1. /\ q \in Nat /\ v % Power[n - 1] \in Nat
            /\ v = Power[n - 1] * q + (v % Power[n - 1])
        BY <1>2, Division
      <3> HIDE DEF q
      <3>2. Power[n - 1] * q \in Nat
        BY <1>2, <3>1, ProductNatural
      <3> QED
        BY <3>1, <3>2
    <2> HIDE DEF q
    <2>2. SUFFICES ASSUME q >= Low PROVE FALSE
      BY <1>1, <2>1 DEF q
    <2>3. Low * Power[n - 1] <= q * Power[n - 1]
      BY <1>1, <1>2, <2>1, <2>2, ProductGrows
    <2>4. q * Power[n - 1] = Power[n - 1] * q
      BY <1>2, <2>1
    <2>5. Low * Power[n - 1] \in Nat /\ q * Power[n - 1] \in Nat
      BY <1>1, <1>2, <2>1, ProductNatural
    <2> QED
      BY <1>1, <1>2, <2>1, <2>3, <2>4, <2>5
  <1>5. Digits(v, n)[1] \in 0 .. Low - 1
    <2>1. Digits(v, n)[1] = (v \div Power[n - 1]) % Byte
      BY <1>1, <1>3
    <2>2. \A q \in 0 .. Low - 1 : q % Byte = q
      BY <1>1
    <2> QED
      BY <1>4, <2>1, <2>2
  <1>6. Tag(n) * Low \in 0 .. 3 * Low
    BY <1>1
  <1>7. ASSUME NEW i \in 1 .. n
        PROVE  Digits(v, n)[i] + (IF i = 1 THEN Tag(n) * Low ELSE 0) \in 0 .. Byte - 1
    <2>1. Digits(v, n)[i] \in 0 .. Byte - 1
      BY <1>1, <1>3
    <2> HIDE DEF Digits
    <2> QED
      BY <1>1, <1>5, <1>6, <2>1
  <1>8. EncodeBytes(v) = [i \in 1 .. n |-> Digits(v, n)[i] + IF i = 1 THEN Tag(n) * Low ELSE 0]
    BY DEF EncodeBytes, n
  <1>9. EncodeBytes(v) \in Seq(0 .. Byte - 1) /\ Len(EncodeBytes(v)) = n
    BY <1>1, <1>7, <1>8
  <1>10. v < Power[n]
    <2>1. Low * Power[n - 1] <= Byte * Power[n - 1]
      BY <1>1, <1>2, ProductGrows
    <2>2. Low * Power[n - 1] \in Nat /\ Byte * Power[n - 1] \in Nat
      BY <1>1, <1>2, ProductNatural
    <2> QED
      BY <1>1, <1>2, <2>1, <2>2
  <1> QED
    BY <1>5, <1>8, <1>9, <1>10 DEF n

(* varint_decode reads what varint_encode wrote, anywhere in a buffer and  *)
(* whatever stands behind it.                                              *)
THEOREM VarintInverts ==
  ASSUME NEW v \in Nat, ~ TooLarge(v), NEW buf, NEW used \in Nat, NEW beyond,
         Len(buf) \in Nat, DOMAIN buf = 1 .. Len(buf), Len(buf) < Word,
         used + Shortest(v) <= Len(buf),
         \A i \in 1 .. Shortest(v) : buf[used + i] = EncodeBytes(v)[i]
  PROVE  Decode(buf, used, beyond) = [result |-> Shortest(v), value |-> v]
  <1> DEFINE n == Shortest(v)
             first == ByteAt(buf, used + 1, beyond)
             bytes == [i \in 1 .. n |-> IF i = 1 THEN first % Low
                                                 ELSE ByteAt(buf, used + i, beyond)]
  <1>1. /\ n \in Lengths /\ n \in 1 .. 8 /\ v < Power[n]
        /\ Tag(n) \in 0 .. 3 /\ Length[Tag(n) + 1] = n
        /\ Digits(v, n)[1] \in 0 .. Low - 1
    BY ShortestType, LengthsType, EncodedType
  <1>0. n \in 0 .. 8
    BY <1>1
  <1>2. \A i \in 1 .. n : EncodeBytes(v)[i] =
                             Digits(v, n)[i] + IF i = 1 THEN Tag(n) * Low ELSE 0
    BY EncodedType
  <1>3. \A i \in 1 .. n : ByteAt(buf, used + i, beyond) = EncodeBytes(v)[i]
    BY <1>1 DEF ByteAt
  <1>4. first = Tag(n) * Low + Digits(v, n)[1]
    <2>1. first = Digits(v, n)[1] + Tag(n) * Low
      BY <1>1, <1>2, <1>3
    <2> HIDE DEF first
    <2> DEFINE d == Digits(v, n)[1]
    <2>2. d \in Nat /\ Tag(n) * Low \in Nat
      BY <1>1, ByteType, ProductNatural
    <2> HIDE DEF d
    <2> QED
      BY <2>1, <2>2 DEF d
  <1>5. first \div Low = Tag(n) /\ first % Low = Digits(v, n)[1]
    <2> DEFINE d == Digits(v, n)[1]
               t == Tag(n)
    <2>1. d \in Nat /\ d < Low /\ t \in Nat /\ Low \in Nat \ {0}
      BY <1>1, ByteType
    <2> HIDE DEF d, t, first
    <2>2. (Low * t + d) \div Low = t /\ (Low * t + d) % Low = d
      BY <2>1, DivisionUnique
    <2>3. t * Low = Low * t
      BY <2>1
    <2> QED
      BY <1>4, <2>2, <2>3 DEF d, t
  <1>6. bytes = Digits(v, n)
    <2>1. ASSUME NEW i \in 1 .. n PROVE bytes[i] = Digits(v, n)[i]
      <3>1. CASE i = 1
        BY <1>5, <3>1
      <3>2. CASE i # 1
        <4>1. Digits(v, n)[i] \in 0 .. Byte - 1
          <5> HIDE DEF n, first, bytes
          <5>1. Digits(v, n) \in Seq(0 .. Byte - 1) /\ Len(Digits(v, n)) = n
            BY <1>0, DigitsType
          <5> QED
            BY <5>1, ElementOfSeq
        <4>2. EncodeBytes(v)[i] = Digits(v, n)[i] + 0
          BY <1>2, <3>2
        <4>3. EncodeBytes(v)[i] = Digits(v, n)[i]
          BY <4>1, <4>2
        <4> QED
          BY <1>3, <3>2, <4>3
      <3> QED
        BY <3>1, <3>2
    <2> HIDE DEF first, n
    <2> QED
      BY <2>1 DEF Digits
  <1>7. Worth(bytes) = v
    <2>1. Worth(Digits(v, n)) = v % Power[n] /\ Power[n] \in Nat \ {0}
      BY <1>0, WorthOfDigits, PowerType
    <2>2. v % Power[n] = v
      BY <1>1, <2>1
    <2> QED
      BY <1>6, <2>1, <2>2
  <1>8. ~ (n > 1 /\ Unsigned(Len(buf) - used) < n)
    <2>1. Word \in Nat \ {0} /\ Len(buf) - used \in Nat /\ Len(buf) - used < Word
      BY <1>1, WordType
    <2>2. (Len(buf) - used) % Word = Len(buf) - used
      BY <2>1
    <2> QED
      BY <1>1, <2>2 DEF Unsigned
  <1>9. Length[(first \div Low) + 1] = n
    BY <1>1, <1>5
  <1> HIDE DEF first, n
  <1> QED
    BY <1>7, <1>8, <1>9 DEF Decode, first, n
=============================================================================
