-------------------------------- MODULE Varint --------------------------------
(***************************************************************************)
(* The variable-length integers of util/variable_integer.c: 1, 2, 4 or 8   *)
(* bytes, the two top bits of the first one telling how many.  The width   *)
(* of a byte is a parameter, with everything that follows from it.         *)
(***************************************************************************)
EXTENDS Integers, Sequences

CONSTANT Low      \* values the first byte holds beside the two bits: 64

ASSUME LowAssumption == Low \in Nat \ {0}

Byte == 4 * Low

(* The numbers that k bytes can hold.                                      *)
Power[k \in 0 .. 8] == IF k = 0 THEN 1 ELSE Byte * Power[k - 1]

Word == Power[8]  \* uint64_t and size_t
Unsigned(x) == x % Word

(* The length that the two bits tell, and the bits that tell it.           *)
Length == <<1, 2, 4, 8>>
Lengths == {1, 2, 4, 8}
Tag(n) == CHOOSE t \in 0 .. 3 : Length[t + 1] = n

(* The low n bytes of v, the highest first, and the number that bytes in   *)
(* this order are.                                                         *)
Digits(v, n) == [i \in 1 .. n |-> (v \div Power[n - i]) % Byte]

Worth(bytes) ==
  LET value[i \in 0 .. Len(bytes)] ==
        IF i = 0 THEN 0 ELSE value[i - 1] * Byte + bytes[i]
  IN value[Len(bytes)]

(* Mutant of Limit: the two bits are not set aside.                        *)
LimitFull(n) == Power[n]

(* What n bytes can hold.                                                  *)
Limit(n) == Low * Power[n - 1]

TooLarge(v) == v >= Limit(8)

Shortest(v) ==
  CHOOSE n \in Lengths : v < Limit(n) /\ \A m \in Lengths : v < Limit(m) => n <= m

(* varint_size.  The error code -1 is returned as a size_t.                *)
VarintSize(v) == IF TooLarge(v) THEN Unsigned(-1) ELSE Shortest(v)

(* varint_encode: its result, and the bytes it writes when that is         *)
(* positive.                                                               *)
EncodeResult(v, room) ==
  IF TooLarge(v) THEN -1 ELSE IF room < Shortest(v) THEN -2 ELSE Shortest(v)

EncodeBytes(v) ==
  LET n == Shortest(v)
  IN [i \in 1 .. n |-> Digits(v, n)[i] + IF i = 1 THEN Tag(n) * Low ELSE 0]

(* varint_decode at position `used` of buf.  On an error it has already    *)
(* stored the low bits of the first byte.  A byte behind the buffer is     *)
(* whatever memory holds.                                                  *)
ByteAt(buf, i, beyond) == IF i \in DOMAIN buf THEN buf[i] ELSE beyond

Decode(buf, used, beyond) ==
  LET first == ByteAt(buf, used + 1, beyond)
      n == Length[(first \div Low) + 1]
      bytes == [i \in 1 .. n |-> IF i = 1 THEN first % Low
                                          ELSE ByteAt(buf, used + i, beyond)]
  IN IF n > 1 /\ Unsigned(Len(buf) - used) < n
     THEN [result |-> Unsigned(-1), value |-> first % Low]
     ELSE [result |-> n, value |-> Worth(bytes)]
=============================================================================
