----------------------------- MODULE PayloadProofs -----------------------------
(***************************************************************************)
(* Theorems about the frames of Payload, for every width of a byte, every  *)
(* buffer and every frame an endpoint may send.                            *)
(***************************************************************************)
EXTENDS Payload, CodecProofs

-----------------------------------------------------------------------------
(* The recursions of Frames have solutions, which they therefore follow.   *)

LEMMA OffsetSteps ==
  ASSUME NEW type, NEW values, NEW n \in Nat, Len(Codecs[type].size) = n
  PROVE  LET pos == Offsets(type, values)
         IN /\ pos[0] = 0
            /\ \A i \in 1 .. n :
                 pos[i] = pos[i - 1] + FieldSize(Codecs[type].size[i], values[i])
  <1> DEFINE Size(k) == FieldSize(Codecs[type].size[k], values[k])
  <1> DEFINE Steps(f, m) == [k \in 0 .. m |-> IF k = 0 THEN 0 ELSE f[k - 1] + Size(k)]
             P == {m \in Nat : \E f : f = Steps(f, m)}
  <1>1. Offsets(type, values) = CHOOSE f : f = Steps(f, n)
    BY DEF Offsets
  <1> HIDE DEF Size
  <1>2. 0 \in P
    <2> DEFINE f == [k \in 0 .. 0 |-> 0]
    <2>1. f = Steps(f, 0)
      OBVIOUS
    <2> QED
      BY <2>1
  <1>3. ASSUME NEW m \in Nat, m \in P PROVE m + 1 \in P
    <2>1. PICK f : f = Steps(f, m)
      BY <1>3
    <2> DEFINE g == [k \in 0 .. m + 1 |-> IF k <= m THEN f[k] ELSE f[m] + Size(m + 1)]
    <2>2. \A k \in 0 .. m : g[k] = f[k]
      OBVIOUS
    <2>3. ASSUME NEW k \in 0 .. m + 1
          PROVE  g[k] = IF k = 0 THEN 0 ELSE g[k - 1] + Size(k)
      <3>1. CASE k <= m
        <4>1. k \in 0 .. m /\ g[k] = f[k] /\ (k # 0 => g[k - 1] = f[k - 1])
          BY <2>2, <3>1
        <4>2. f[k] = IF k = 0 THEN 0 ELSE f[k - 1] + Size(k)
          BY <2>1, <4>1
        <4> QED
          BY <4>1, <4>2
      <3>2. CASE k = m + 1
        <4>1. k # 0 /\ k - 1 = m /\ g[m] = f[m] /\ ~ (k <= m)
          BY <2>2, <3>2
        <4> QED
          BY <3>2, <4>1
      <3> QED
        BY <3>1, <3>2
    <2>4. g = Steps(g, m + 1)
      <3>1. g = [k \in 0 .. m + 1 |-> g[k]]
        OBVIOUS
      <3> HIDE DEF g
      <3> QED
        BY <2>3, <3>1
    <2> HIDE DEF g
    <2> QED
      BY <2>4
  <1>4. n \in P
    <2> HIDE DEF P
    <2> QED
      BY <1>2, <1>3, SetInduction
  <1> DEFINE pos == Offsets(type, values)
  <1>5. pos = Steps(pos, n)
    BY <1>1, <1>4
  <1> HIDE DEF pos
  <1>6. \A k \in 0 .. n : pos[k] = IF k = 0 THEN 0 ELSE pos[k - 1] + Size(k)
    BY <1>5
  <1>7. pos[0] = 0 /\ \A k \in 1 .. n : pos[k] = pos[k - 1] + Size(k)
    BY <1>6
  <1> QED
    BY <1>7 DEF pos, Size

(* w is what an encoder has written after each field.                      *)
WritesInSteps(w, fields, values, room, n) ==
  /\ w[0] = <<>>
  /\ \A k \in 1 .. n : w[k] = w[k - 1] \o FieldBytes(fields[k].kind, values[k])
  /\ EncodeFields(fields, values, room)
       = IF \E i \in DOMAIN fields : GivesUp(Len(w[i]), room, fields[i].check)
         THEN <<>> ELSE w[n]

LEMMA WriteSteps ==
  ASSUME NEW fields, NEW values, NEW room, NEW n \in Nat, Len(fields) = n
  PROVE  \E w : WritesInSteps(w, fields, values, room, n)
  <1> DEFINE Join(s, k) == s \o FieldBytes(fields[k].kind, values[k])
             start == <<>>
             Result(f) == IF \E i \in DOMAIN fields : GivesUp(Len(f[i]), room, fields[i].check)
                          THEN <<>> ELSE f[n]
  <1> DEFINE Steps(f, m) == [k \in 0 .. m |-> IF k = 0 THEN start ELSE Join(f[k - 1], k)]
             P == {m \in Nat : \E f : f = Steps(f, m)}
  <1>1. EncodeFields(fields, values, room) = Result(CHOOSE f : f = Steps(f, n))
    BY DEF EncodeFields
  <1> HIDE DEF Join, start, Result
  <1>2. 0 \in P
    <2> DEFINE f == [k \in 0 .. 0 |-> start]
    <2>1. f = Steps(f, 0)
      OBVIOUS
    <2> QED
      BY <2>1
  <1>3. ASSUME NEW m \in Nat, m \in P PROVE m + 1 \in P
    <2>1. PICK f : f = Steps(f, m)
      BY <1>3
    <2> DEFINE g == [k \in 0 .. m + 1 |-> IF k <= m THEN f[k] ELSE Join(f[m], m + 1)]
    <2>2. \A k \in 0 .. m : g[k] = f[k]
      OBVIOUS
    <2>3. ASSUME NEW k \in 0 .. m + 1
          PROVE  g[k] = IF k = 0 THEN start ELSE Join(g[k - 1], k)
      <3>1. CASE k <= m
        <4>1. k \in 0 .. m /\ g[k] = f[k] /\ (k # 0 => g[k - 1] = f[k - 1])
          BY <2>2, <3>1
        <4>2. f[k] = IF k = 0 THEN start ELSE Join(f[k - 1], k)
          BY <2>1, <4>1
        <4> QED
          BY <4>1, <4>2
      <3>2. CASE k = m + 1
        <4>1. k # 0 /\ k - 1 = m /\ g[m] = f[m] /\ ~ (k <= m)
          BY <2>2, <3>2
        <4> QED
          BY <3>2, <4>1
      <3> QED
        BY <3>1, <3>2
    <2>4. g = Steps(g, m + 1)
      <3>1. g = [k \in 0 .. m + 1 |-> g[k]]
        OBVIOUS
      <3> HIDE DEF g
      <3> QED
        BY <2>3, <3>1
    <2> HIDE DEF g
    <2> QED
      BY <2>4
  <1>4. n \in P
    <2> HIDE DEF P
    <2> QED
      BY <1>2, <1>3, SetInduction
  <1> DEFINE w == CHOOSE f : f = Steps(f, n)
  <1>5. w = Steps(w, n)
    BY <1>4
  <1>6. EncodeFields(fields, values, room) = Result(w)
    BY <1>1
  <1> HIDE DEF w
  <1>7. \A k \in 0 .. n : w[k] = IF k = 0 THEN start ELSE Join(w[k - 1], k)
    BY <1>5
  <1>8. w[0] = start /\ \A k \in 1 .. n : w[k] = Join(w[k - 1], k)
    BY <1>7
  <1> QED
    BY <1>6, <1>8 DEF Join, start, Result, WritesInSteps

(* r is what a decoder has read after each field.                          *)
Start == [used |-> 0, values |-> <<>>, failed |-> FALSE]

Finished(type, r) ==
  IF type = "STREAM" /\ Len(r.values) = 4
  THEN [r EXCEPT !.values[3] = Len(r.values[4])] ELSE r

ReadsInSteps(r, type, flags, buf, beyond, n) ==
  /\ r[0] = Start
  /\ \A k \in 1 .. n : r[k] = Read(buf, beyond, flags, r[k - 1], Codecs[type].decode[k])
  /\ FrameDecode(type, flags, buf, beyond) = Finished(type, r[n])

LEMMA ReadSteps ==
  ASSUME NEW type, NEW flags, NEW buf, NEW beyond, NEW n \in Nat,
         Len(Codecs[type].decode) = n
  PROVE  \E r : ReadsInSteps(r, type, flags, buf, beyond, n)
  <1> DEFINE Step(r, k) == Read(buf, beyond, flags, r, Codecs[type].decode[k])
             start == Start
             Result(f) == Finished(type, f[n])
  <1> DEFINE Steps(f, m) == [k \in 0 .. m |-> IF k = 0 THEN start ELSE Step(f[k - 1], k)]
             P == {m \in Nat : \E f : f = Steps(f, m)}
  <1>1. FrameDecode(type, flags, buf, beyond) = Result(CHOOSE f : f = Steps(f, n))
    BY DEF FrameDecode, Finished, Start
  <1> HIDE DEF Step, start, Result
  <1>2. 0 \in P
    <2> DEFINE f == [k \in 0 .. 0 |-> start]
    <2>1. f = Steps(f, 0)
      OBVIOUS
    <2> QED
      BY <2>1
  <1>3. ASSUME NEW m \in Nat, m \in P PROVE m + 1 \in P
    <2>1. PICK f : f = Steps(f, m)
      BY <1>3
    <2> DEFINE g == [k \in 0 .. m + 1 |-> IF k <= m THEN f[k] ELSE Step(f[m], m + 1)]
    <2>2. \A k \in 0 .. m : g[k] = f[k]
      OBVIOUS
    <2>3. ASSUME NEW k \in 0 .. m + 1
          PROVE  g[k] = IF k = 0 THEN start ELSE Step(g[k - 1], k)
      <3>1. CASE k <= m
        <4>1. k \in 0 .. m /\ g[k] = f[k] /\ (k # 0 => g[k - 1] = f[k - 1])
          BY <2>2, <3>1
        <4>2. f[k] = IF k = 0 THEN start ELSE Step(f[k - 1], k)
          BY <2>1, <4>1
        <4> QED
          BY <4>1, <4>2
      <3>2. CASE k = m + 1
        <4>1. k # 0 /\ k - 1 = m /\ g[m] = f[m] /\ ~ (k <= m)
          BY <2>2, <3>2
        <4> QED
          BY <3>2, <4>1
      <3> QED
        BY <3>1, <3>2
    <2>4. g = Steps(g, m + 1)
      <3>1. g = [k \in 0 .. m + 1 |-> g[k]]
        OBVIOUS
      <3> HIDE DEF g
      <3> QED
        BY <2>3, <3>1
    <2> HIDE DEF g
    <2> QED
      BY <2>4
  <1>4. n \in P
    <2> HIDE DEF P
    <2> QED
      BY <1>2, <1>3, SetInduction
  <1> DEFINE r == CHOOSE f : f = Steps(f, n)
  <1>5. r = Steps(r, n)
    BY <1>4
  <1>6. FrameDecode(type, flags, buf, beyond) = Result(r)
    BY <1>1
  <1> HIDE DEF r
  <1>7. \A k \in 0 .. n : r[k] = IF k = 0 THEN start ELSE Step(r[k - 1], k)
    BY <1>5
  <1>8. r[0] = start /\ \A k \in 1 .. n : r[k] = Step(r[k - 1], k)
    BY <1>7
  <1> QED
    BY <1>6, <1>8 DEF start, Step, Result, ReadsInSteps

-----------------------------------------------------------------------------
(* What the fifteen codecs have in common.                                 *)

Kinds(type) == Codecs[type].size
Count(type) == Len(Kinds(type))

(* A field that gives up when the buffer is full has another behind it     *)
(* that is never empty, or else it is bareness that makes it the last.     *)
Solid(kind) == kind \in {"int", "two", "one"}

MayEnd(type, i) ==
  \/ type = "CONN_CLOSE" /\ i = 3
  \/ type = "STREAM" /\ i = 1
  \/ type = "NEW_CONNID" /\ i \in {2, 3}

Checked(type, check, i) ==
  /\ check \in {"none", "over", "full"}
  /\ check = "full" => i < Count(type) /\ (Solid(Kinds(type)[i + 1]) \/ MayEnd(type, i))

SizeShape(type, s, n) ==
  /\ n \in 1 .. 4 /\ Len(s) = n /\ DOMAIN s = 1 .. n
  /\ \A i \in 1 .. n :
       /\ Solid(s[i]) \/ s[i] \in {"opt", "raw", "data"}
       /\ s[i] = "data" => i > 1
       /\ s[i] = "opt" => type = "STREAM" /\ i \in {2, 3}
  /\ Solid(s[1]) \/ type = "PATH"
  /\ type = "PATH" => s[1] = "raw"

EncodeShape(type, s, n, e) ==
  /\ Len(e) = n /\ DOMAIN e = 1 .. n
  /\ \A i \in 1 .. n : e[i].kind = s[i] /\ Checked(type, e[i].check, i)

(* A decoder reads what the encoder writes; the last field of a STREAM     *)
(* frame may take the rest of the packet.                                  *)
DecodeShape(type, s, n, d, m) ==
  /\ m = (IF type = "NEW_CONNID" THEN 1 ELSE n)
  /\ Len(d) = m /\ DOMAIN d = 1 .. m
  /\ \A i \in 1 .. m :
       /\ IF type = "STREAM" /\ i = 4 THEN d[i].kind = "tail" ELSE d[i].kind = s[i]
       /\ d[i].kind # "one"
       /\ d[i].kind = "raw" => type = "PATH"
       /\ Checked(type, d[i].check, i)
       /\ type \in {"RESET", "NEW_CONNID"} => d[i].check = "none"

Shape(type) ==
  LET c == Codecs[type]
      n == Count(type)
  IN /\ SizeShape(type, c.size, n)
     /\ type # "RESET" => EncodeShape(type, c.size, n, c.encode)
     /\ DecodeShape(type, c.size, n, c.decode, Len(c.decode))

LEMMA CodecShapes ==
  ASSUME NEW type \in DOMAIN Codecs
  PROVE  Shape(type)
  <1> USE DEF Shape, SizeShape, EncodeShape, DecodeShape, Checked, MayEnd, Solid, Count, Kinds,
              Num, Opt, Two, One, Raw, Data, Rest
  <1>1. CASE type \in {"MAX_DATA", "MAX_STREAMS", "DATA_BLOCKED", "STREAM_BLOCKED", "RETIRE_CONNID"}
    <2>1. Codecs[type] = Single
      BY <1>1 DEF Codecs, MaxData, MaxStreams, DataBlocked, StreamBlocked, RetireConnid
    <2> QED
      BY <1>1, <2>1 DEF Single
  <1>2. CASE type \in {"MAX_STREAM_DATA", "STREAM_DATA_BLOCKED"}
    <2>1. Codecs[type] = MaxStreamData
      BY <1>2 DEF Codecs, StreamDataBlocked
    <2> QED
      BY <1>2, <2>1 DEF MaxStreamData
  <1>3. CASE type = "TOKEN"
    <2>1. Codecs[type] = Token
      BY <1>3 DEF Codecs
    <2> QED
      BY <1>3, <2>1 DEF Token
  <1>4. CASE type = "CRYPTO"
    <2>1. Codecs[type] = Crypto
      BY <1>4 DEF Codecs
    <2> QED
      BY <1>4, <2>1 DEF Crypto
  <1>5. CASE type = "STOP_SENDING"
    <2>1. Codecs[type] = StopSending
      BY <1>5 DEF Codecs
    <2> QED
      BY <1>5, <2>1 DEF StopSending
  <1>6. CASE type = "RESET"
    <2>1. Codecs[type] = Reset
      BY <1>6 DEF Codecs
    <2> QED
      BY <1>6, <2>1 DEF Reset
  <1>7. CASE type = "CONN_CLOSE"
    <2>1. Codecs[type] = ConnClose
      BY <1>7 DEF Codecs
    <2> QED
      BY <1>7, <2>1 DEF ConnClose
  <1>8. CASE type = "NEW_CONNID"
    <2>1. Codecs[type] = NewConnid
      BY <1>8 DEF Codecs
    <2> QED
      BY <1>8, <2>1 DEF NewConnid
  <1>9. CASE type = "PATH"
    <2>1. Codecs[type] = Path
      BY <1>9 DEF Codecs
    <2> QED
      BY <1>9, <2>1 DEF Path
  <1>10. CASE type = "STREAM"
    <2>1. Codecs[type] = Stream
      BY <1>10 DEF Codecs
    <2> QED
      BY <1>10, <2>1 DEF Stream
  <1>11. type \in {"MAX_DATA", "MAX_STREAMS", "DATA_BLOCKED", "STREAM_BLOCKED", "RETIRE_CONNID",
                   "MAX_STREAM_DATA", "STREAM_DATA_BLOCKED", "TOKEN", "CRYPTO", "STOP_SENDING",
                   "RESET", "CONN_CLOSE", "NEW_CONNID", "PATH", "STREAM"}
    BY DEF Codecs
  <1> HIDE DEF Shape, SizeShape, EncodeShape, DecodeShape, Checked, MayEnd, Solid, Count, Kinds,
              Num, Opt, Two, One, Raw, Data, Rest
  <1> QED
    BY <1>1, <1>2, <1>3, <1>4, <1>5, <1>6, <1>7, <1>8, <1>9, <1>10, <1>11


-----------------------------------------------------------------------------
(* The fields of a frame and where they end.                               *)

FieldKind(f, i) == Kinds(f.type)[i]
SizeOf(f, i) == FieldSize(FieldKind(f, i), f.values[i])
BytesOf(f, i) == FieldBytes(FieldKind(f, i), f.values[i])
Pos(f) == Offsets(f.type, f.values)
Fields(f) == Count(f.type)
Size(f) == FrameSize(f.type, f.values)

LEMMA FrameShape ==
  ASSUME NEW f \in FrameSet
  PROVE  /\ f.type \in DOMAIN Codecs /\ Shape(f.type) /\ f.fin \in BOOLEAN /\ Proper(f)
         /\ SizeShape(f.type, Kinds(f.type), Fields(f)) /\ Fields(f) \in 1 .. 4
         /\ Fields(f) \in Nat
  <1>1. f.type \in DOMAIN Codecs /\ f.fin \in BOOLEAN /\ Proper(f)
    BY FrameAssumption
  <1>2. Shape(f.type)
    BY <1>1, CodecShapes
  <1>3. SizeShape(f.type, Kinds(f.type), Fields(f))
    BY <1>2 DEF Shape, Kinds, Fields
  <1>4. Fields(f) \in 1 .. 4
    BY <1>3 DEF SizeShape
  <1> QED
    BY <1>1, <1>2, <1>3, <1>4

(* The values are a sequence of what the fields can carry.                 *)
LEMMA ProperValues ==
  ASSUME NEW f \in FrameSet
  PROVE  /\ f.values = [i \in 1 .. Fields(f) |-> f.values[i]]
         /\ \A i \in 1 .. Fields(f) :
              /\ Carries(FieldKind(f, i), f.values[i])
              /\ FieldKind(f, i) = "data" => i > 1 /\ f.values[i - 1] = Len(f.values[i])
         /\ f.type = "PATH" => Len(f.values[1]) = PathLength
         /\ f.type = "NEW_CONNID" => f.values[4] # <<>>
  <1>1. /\ Proper(f) /\ DOMAIN Codecs[f.type].size = 1 .. Fields(f)
        /\ \A i \in 1 .. Fields(f) : FieldKind(f, i) = "data" => i > 1
    BY FrameShape DEF SizeShape, Kinds, FieldKind
  <1> QED
    BY <1>1 DEF Proper, Kinds, FieldKind

LEMMA FieldFacts ==
  ASSUME NEW f \in FrameSet, NEW i \in 1 .. Fields(f)
  PROVE  /\ SizeOf(f, i) \in Nat
         /\ BytesOf(f, i) \in Seq(0 .. Byte - 1) /\ Len(BytesOf(f, i)) = SizeOf(f, i)
         /\ Solid(FieldKind(f, i)) => SizeOf(f, i) > 0
         /\ FieldKind(f, i) = "opt" => f.values[i] \in Nat /\ (f.values[i] # 0 => SizeOf(f, i) > 0)
  <1> DEFINE k == FieldKind(f, i)
             v == f.values[i]
             B == 0 .. Byte - 1
  <1>1. Carries(k, v) /\ (Solid(k) \/ k \in {"opt", "raw", "data"})
    BY ProperValues, FrameShape DEF SizeShape, FieldKind
  <1>2. CASE k \in {"int", "opt"}
    <2>1. v \in Nat /\ ~ TooLarge(v)
      BY <1>1, <1>2 DEF Carries
    <2>2. /\ VarintSize(v) = Shortest(v) /\ Shortest(v) \in 1 .. 8
          /\ EncodeBytes(v) \in Seq(B) /\ Len(EncodeBytes(v)) = Shortest(v)
      BY <2>1, ShortestType, LengthsType, EncodedType
    <2>3. CASE k = "opt" /\ v = 0
      <3>1. SizeOf(f, i) = 0 /\ BytesOf(f, i) = <<>>
        BY <2>3 DEF SizeOf, BytesOf, FieldSize, FieldBytes
      <3> QED
        BY <2>1, <2>3, <3>1 DEF Solid
    <2>4. CASE ~ (k = "opt" /\ v = 0)
      <3>1. SizeOf(f, i) = VarintSize(v) /\ BytesOf(f, i) = EncodeBytes(v)
        BY <1>2, <2>4 DEF SizeOf, BytesOf, FieldSize, FieldBytes
      <3> HIDE DEF B
      <3> QED
        BY <2>1, <2>2, <3>1 DEF B
    <2> QED
      BY <2>3, <2>4
  <1>3. CASE k = "two"
    <2>1. v \in Nat
      BY <1>1, <1>3, PowerType DEF Carries
    <2>2. Digits(v, 2) \in Seq(B) /\ Len(Digits(v, 2)) = 2
      <3>1. PICK m \in 0 .. 8 : m = 2
        OBVIOUS
      <3>2. Digits(v, m) \in Seq(B) /\ Len(Digits(v, m)) = m
        BY <2>1, DigitsType
      <3> QED
        BY <3>1, <3>2
    <2>3. SizeOf(f, i) = 2 /\ BytesOf(f, i) = Digits(v, 2)
      BY <1>3 DEF SizeOf, BytesOf, FieldSize, FieldBytes, BigEndianEncode
    <2> QED
      BY <1>3, <2>2, <2>3
  <1>4. CASE k = "one"
    <2>1. v \in B
      BY <1>1, <1>4 DEF Carries
    <2>2. SizeOf(f, i) = 1 /\ BytesOf(f, i) = <<v>>
      BY <1>4 DEF SizeOf, BytesOf, FieldSize, FieldBytes
    <2> HIDE DEF B
    <2>3. <<v>> \in Seq(B) /\ Len(<<v>>) = 1
      BY <2>1
    <2> QED
      BY <1>4, <2>2, <2>3 DEF B
  <1>5. CASE k \in {"raw", "data"}
    <2>1. v \in Seq(B)
      BY <1>1, <1>5 DEF Carries
    <2>2. SizeOf(f, i) = Len(v) /\ BytesOf(f, i) = v
      BY <1>5 DEF SizeOf, BytesOf, FieldSize, FieldBytes
    <2> HIDE DEF B
    <2>3. Len(v) \in Nat
      BY <2>1
    <2> QED
      BY <1>5, <2>1, <2>2, <2>3 DEF Solid, B
  <1> QED
    BY <1>1, <1>2, <1>3, <1>4, <1>5 DEF Solid

LEMMA OffsetFacts ==
  ASSUME NEW f \in FrameSet
  PROVE  /\ Pos(f)[0] = 0 /\ Size(f) = Pos(f)[Fields(f)]
         /\ \A i \in 1 .. Fields(f) : Pos(f)[i] = Pos(f)[i - 1] + SizeOf(f, i)
  <1>1. Len(Codecs[f.type].size) = Fields(f) /\ Fields(f) \in Nat
    BY FrameShape DEF SizeShape, Fields, Count, Kinds
  <1>2. \A i \in 1 .. Fields(f) : SizeOf(f, i) = FieldSize(Codecs[f.type].size[i], f.values[i])
    BY DEF SizeOf, FieldKind, Kinds
  <1>3. PICK n \in Nat : n = Fields(f)
    BY <1>1
  <1>4. /\ Offsets(f.type, f.values)[0] = 0
        /\ \A i \in 1 .. n :
             Offsets(f.type, f.values)[i]
               = Offsets(f.type, f.values)[i - 1] + FieldSize(Codecs[f.type].size[i], f.values[i])
    BY <1>1, <1>3, OffsetSteps
  <1> QED
    BY <1>1, <1>2, <1>3, <1>4 DEF Pos, Size, FrameSize

LEMMA OffsetsGrow ==
  ASSUME NEW f \in FrameSet, NEW j \in 0 .. Fields(f)
  PROVE  Pos(f)[j] \in Nat /\ \A i \in 0 .. j : Pos(f)[i] \in Nat /\ Pos(f)[i] <= Pos(f)[j]
  <1> DEFINE p == Pos(f)
             n == Fields(f)
             Grown(k) == k <= n => p[k] \in Nat /\ \A i \in 0 .. k : p[i] \in Nat /\ p[i] <= p[k]
             P == {k \in Nat : Grown(k)}
  <1>1. n \in Nat /\ p[0] = 0 /\ \A i \in 1 .. n : p[i] = p[i - 1] + SizeOf(f, i) /\ SizeOf(f, i) \in Nat
    BY FrameShape, OffsetFacts, FieldFacts
  <1> HIDE DEF p, n
  <1>2. 0 \in P
    BY <1>1
  <1>3. ASSUME NEW k \in Nat, k \in P PROVE k + 1 \in P
    <2> SUFFICES ASSUME k + 1 <= n PROVE Grown(k + 1)
      OBVIOUS
    <2>1. k <= n /\ p[k + 1] = p[k] + SizeOf(f, k + 1) /\ SizeOf(f, k + 1) \in Nat
      BY <1>1
    <2>2. p[k] \in Nat /\ \A i \in 0 .. k : p[i] \in Nat /\ p[i] <= p[k]
      BY <1>3, <2>1
    <2>3. p[k + 1] \in Nat /\ p[k] <= p[k + 1]
      BY <2>1, <2>2
    <2>4. \A i \in 0 .. k + 1 : i \in 0 .. k \/ i = k + 1
      OBVIOUS
    <2> QED
      BY <2>2, <2>3, <2>4
  <1> HIDE DEF P
  <1>4. j \in P
    BY <1>2, <1>3, SetInduction
  <1> QED
    BY <1>4 DEF P, p, n

LEMMA SizePositive ==
  ASSUME NEW f \in FrameSet
  PROVE  Size(f) \in Nat \ {0}
  <1>1. Fields(f) \in 1 .. 4 /\ 1 \in 1 .. Fields(f) /\ 1 \in 0 .. Fields(f) /\ Fields(f) \in 0 .. Fields(f)
    BY FrameShape
  <1>2. SizeOf(f, 1) > 0
    <2>1. CASE Solid(FieldKind(f, 1))
      BY <1>1, <2>1, FieldFacts
    <2>2. CASE f.type = "PATH" /\ FieldKind(f, 1) = "raw"
      <3>1. SizeOf(f, 1) = Len(f.values[1])
        BY <2>2 DEF SizeOf, FieldSize
      <3>2. Len(f.values[1]) = PathLength
        BY <2>2, ProperValues
      <3> QED
        BY <3>1, <3>2, PathAssumption
    <2> QED
      BY <2>1, <2>2, FrameShape DEF SizeShape, FieldKind
  <1>3. Pos(f)[1] = Pos(f)[0] + SizeOf(f, 1) /\ Pos(f)[0] = 0 /\ SizeOf(f, 1) \in Nat
    BY <1>1, OffsetFacts, FieldFacts
  <1>4. Pos(f)[1] <= Pos(f)[Fields(f)] /\ Pos(f)[Fields(f)] \in Nat
    BY <1>1, OffsetsGrow
  <1> QED
    BY <1>2, <1>3, <1>4, OffsetFacts

(* Where the code gives up on a full buffer the frame is not yet at its    *)
(* end, unless it is bare.                                                 *)
LEMMA FullIsBare ==
  ASSUME NEW f \in FrameSet, NEW i \in 1 .. Fields(f), NEW check,
         Checked(f.type, check, i), check = "full"
  PROVE  Pos(f)[i] < Size(f) \/ Bare(f)
  <1> DEFINE p == Pos(f)
             n == Fields(f)
             t == f.type
  <1>1. /\ n \in 1 .. 4 /\ i < n /\ Size(f) = p[n]
        /\ Solid(FieldKind(f, i + 1)) \/ MayEnd(t, i)
    BY FrameShape, OffsetFacts DEF Checked, Fields, FieldKind
  <1>2. \A j \in 1 .. n : p[j] = p[j - 1] + SizeOf(f, j) /\ SizeOf(f, j) \in Nat
    BY OffsetFacts, FieldFacts
  <1>3. \A j \in 0 .. n : p[j] \in Nat /\ \A l \in 0 .. j : p[l] <= p[j]
    BY OffsetsGrow
  <1>4. ASSUME NEW j \in 1 .. n, i < j, SizeOf(f, j) > 0 PROVE p[i] < Size(f)
    <2> HIDE DEF p, n
    <2>1. /\ n \in 0 .. n /\ j - 1 \in 0 .. n /\ j \in 0 .. n /\ i \in 0 .. j - 1
          /\ p[j] = p[j - 1] + SizeOf(f, j)
      BY <1>1, <1>2, <1>4 DEF n
    <2>2. /\ p[i] <= p[j - 1] /\ p[j] <= p[n] /\ p[i] \in Nat /\ p[j - 1] \in Nat
          /\ p[j] \in Nat /\ p[n] \in Nat
      BY <1>3, <2>1
    <2> QED
      BY <1>1, <1>2, <1>4, <2>1, <2>2
  <1>5. CASE Solid(FieldKind(f, i + 1))
    BY <1>1, <1>4, <1>5, FieldFacts
  <1>6. CASE t = "CONN_CLOSE" /\ i = 3
    <2>1. n = 4 /\ FieldKind(f, 4) = "data"
      BY <1>6 DEF Fields, Count, Kinds, FieldKind, Codecs, ConnClose
    <2>2. f.values[3] = Len(f.values[4]) /\ SizeOf(f, 4) = Len(f.values[4])
      <3>1. PICK j \in 1 .. n : j = 4
        BY <2>1
      <3>2. f.values[j - 1] = Len(f.values[j])
        BY <2>1, <3>1, ProperValues
      <3> QED
        BY <2>1, <3>1, <3>2 DEF SizeOf, FieldSize
    <2>3. CASE f.values[3] = 0
      BY <1>6, <2>3 DEF Bare
    <2>4. CASE f.values[3] # 0
      <3>1. 4 \in 1 .. n
        BY <2>1
      <3>2. SizeOf(f, 4) > 0
        BY <1>2, <2>2, <2>4, <3>1
      <3> QED
        BY <1>4, <1>6, <3>1, <3>2
    <2> QED
      BY <2>3, <2>4
  <1>7. CASE t = "STREAM" /\ i = 1
    <2>1. n = 4 /\ FieldKind(f, 2) = "opt" /\ FieldKind(f, 3) = "opt"
      BY <1>7 DEF Fields, Count, Kinds, FieldKind, Codecs, Stream
    <2>2. 2 \in 1 .. n /\ 3 \in 1 .. n
      BY <2>1
    <2>3. (f.values[2] # 0 => SizeOf(f, 2) > 0) /\ (f.values[3] # 0 => SizeOf(f, 3) > 0)
      BY <2>1, <2>2, FieldFacts
    <2>4. CASE f.values[2] = 0 /\ f.values[3] = 0
      BY <1>7, <2>4 DEF Bare
    <2>5. CASE f.values[2] # 0
      BY <1>4, <1>7, <2>2, <2>3, <2>5
    <2>6. CASE f.values[3] # 0
      BY <1>4, <1>7, <2>2, <2>3, <2>6
    <2> QED
      BY <2>4, <2>5, <2>6
  <1>8. CASE t = "NEW_CONNID" /\ i \in {2, 3}
    <2>1. n = 4 /\ FieldKind(f, 4) = "raw"
      BY <1>8 DEF Fields, Count, Kinds, FieldKind, Codecs, NewConnid
    <2>2. 4 \in 1 .. n
      BY <2>1
    <2>3. f.values[4] # <<>> /\ SizeOf(f, 4) = Len(f.values[4]) /\ f.values[4] \in Seq(0 .. Byte - 1)
      BY <1>8, <2>1, <2>2, ProperValues DEF SizeOf, FieldSize, Carries
    <2>4. SizeOf(f, 4) > 0
      <3> DEFINE B == 0 .. Byte - 1
      <3>1. f.values[4] \in Seq(B)
        BY <2>3
      <3> HIDE DEF B
      <3>2. Len(f.values[4]) \in Nat /\ Len(f.values[4]) # 0
        BY <2>3, <3>1, EmptySeq
      <3> QED
        BY <2>3, <3>2
    <2> QED
      BY <1>4, <1>8, <2>2, <2>4
  <1> QED
    BY <1>1, <1>5, <1>6, <1>7, <1>8 DEF MayEnd

-----------------------------------------------------------------------------
(* What an encoder writes.                                                 *)

(* The bytes of the first m fields stand in buf, behind the first from.    *)
StandsUpTo(f, buf, from, m) ==
  \A j \in 1 .. m : \A l \in 1 .. SizeOf(f, j) :
    buf[from + Pos(f)[j - 1] + l] = BytesOf(f, j)[l]

Stands(f, buf, from) == StandsUpTo(f, buf, from, Fields(f))

LEMMA FieldsWritten ==
  ASSUME NEW f \in FrameSet, NEW w, NEW m \in 0 .. Fields(f), w[0] = <<>>,
         \A k \in 1 .. Fields(f) : w[k] = w[k - 1] \o BytesOf(f, k)
  PROVE  /\ w[m] \in Seq(0 .. Byte - 1) /\ Len(w[m]) = Pos(f)[m]
         /\ StandsUpTo(f, w[m], 0, m)
  <1> DEFINE B == 0 .. Byte - 1
             p == Pos(f)
             n == Fields(f)
             Good(k) == k <= n => /\ w[k] \in Seq(B) /\ Len(w[k]) = p[k]
                                  /\ \A j \in 1 .. k : \A l \in 1 .. SizeOf(f, j) :
                                       w[k][p[j - 1] + l] = BytesOf(f, j)[l]
             P == {k \in Nat : Good(k)}
  <1>1. /\ n \in Nat /\ p[0] = 0
        /\ \A i \in 1 .. n : /\ p[i] = p[i - 1] + SizeOf(f, i) /\ SizeOf(f, i) \in Nat
                             /\ BytesOf(f, i) \in Seq(B) /\ Len(BytesOf(f, i)) = SizeOf(f, i)
    BY FrameShape, OffsetFacts, FieldFacts
  <1>2. \A k \in 0 .. n : p[k] \in Nat /\ \A i \in 0 .. k : p[i] \in Nat /\ p[i] <= p[k]
    BY OffsetsGrow
  <1> HIDE DEF p, n, B
  <1>3. 0 \in P
    <2>1. <<>> \in Seq(B) /\ Len(<<>>) = 0
      OBVIOUS
    <2>2. w[0] \in Seq(B) /\ Len(w[0]) = p[0]
      BY <1>1, <2>1
    <2>3. \A j \in 1 .. 0 : FALSE
      OBVIOUS
    <2>4. Good(0)
      BY <2>2, <2>3
    <2> HIDE DEF Good
    <2> QED
      BY <2>4
  <1>4. ASSUME NEW k \in Nat, k \in P PROVE k + 1 \in P
    <2> SUFFICES ASSUME k + 1 <= n PROVE Good(k + 1)
      OBVIOUS
    <2> DEFINE s == w[k]
               b == BytesOf(f, k + 1)
               z == SizeOf(f, k + 1)
    <2>0. k + 1 \in 1 .. n /\ k <= n /\ k \in 0 .. n /\ k + 1 \in 0 .. n /\ (k + 1) - 1 = k
      BY <1>1
    <2>1. /\ s \in Seq(B) /\ Len(s) = p[k]
          /\ \A j \in 1 .. k : \A l \in 1 .. SizeOf(f, j) : s[p[j - 1] + l] = BytesOf(f, j)[l]
      BY <1>4, <2>0
    <2>2. b \in Seq(B) /\ Len(b) = z /\ z \in Nat /\ p[k] \in Nat /\ p[k + 1] = p[k] + z
      BY <1>1, <1>2, <2>0
    <2>3. w[k + 1] = s \o b
      BY <2>0 DEF n
    <2> DEFINE u == w[k + 1]
    <2> HIDE DEF s, b, z
    <2>4. /\ u \in Seq(B) /\ Len(u) = p[k] + z
          /\ \A i \in 1 .. p[k] + z : u[i] = IF i <= p[k] THEN s[i] ELSE b[i - p[k]]
      <3>1. /\ s \o b \in Seq(B) /\ Len(s \o b) = Len(s) + Len(b)
            /\ \A i \in 1 .. Len(s) + Len(b) :
                 (s \o b)[i] = IF i <= Len(s) THEN s[i] ELSE b[i - Len(s)]
        BY <2>1, <2>2, ConcatProperties
      <3> QED
        BY <2>1, <2>2, <2>3, <3>1
    <2>5. ASSUME NEW j \in 1 .. k + 1, NEW l \in 1 .. SizeOf(f, j)
          PROVE  u[p[j - 1] + l] = BytesOf(f, j)[l]
      <3>1. CASE j = k + 1
        <4>1. j - 1 = k /\ l \in 1 .. z
          BY <3>1 DEF z
        <4>2. p[k] + l \in 1 .. p[k] + z /\ ~ (p[k] + l <= p[k]) /\ (p[k] + l) - p[k] = l
          BY <2>2, <4>1
        <4>3. u[p[k] + l] = b[l]
          BY <2>4, <4>2
        <4> QED
          BY <3>1, <4>1, <4>3 DEF b
      <3>2. CASE j <= k
        <4>0. j \in 1 .. k /\ j \in 1 .. n /\ j - 1 \in 0 .. n /\ j \in 0 .. k /\ j \in 0 .. n
          BY <1>1, <2>0, <3>2
        <4>1. /\ p[j] = p[j - 1] + SizeOf(f, j) /\ SizeOf(f, j) \in Nat
              /\ p[j - 1] \in Nat /\ p[j] <= p[k]
          BY <1>1, <1>2, <2>0, <4>0
        <4>2. p[j - 1] + l \in 1 .. p[k] + z /\ p[j - 1] + l <= p[k]
          BY <2>2, <4>1
        <4>3. u[p[j - 1] + l] = s[p[j - 1] + l]
          BY <2>4, <4>2
        <4> QED
          BY <2>1, <4>0, <4>3
      <3> QED
        BY <3>1, <3>2
    <2> QED
      BY <2>2, <2>4, <2>5
  <1> HIDE DEF P
  <1>5. m \in P
    BY <1>3, <1>4, SetInduction
  <1>6. /\ w[m] \in Seq(B) /\ Len(w[m]) = p[m]
        /\ \A j \in 1 .. m : \A l \in 1 .. SizeOf(f, j) : w[m][p[j - 1] + l] = BytesOf(f, j)[l]
    BY <1>5 DEF P, n
  <1>7. ASSUME NEW j \in 1 .. m, NEW l \in 1 .. SizeOf(f, j)
        PROVE  w[m][0 + p[j - 1] + l] = BytesOf(f, j)[l]
    <2>1. j - 1 \in 0 .. n /\ p[j - 1] \in Nat /\ j \in 1 .. n /\ SizeOf(f, j) \in Nat
      BY <1>1, <1>2 DEF n
    <2>2. 0 + p[j - 1] + l = p[j - 1] + l
      BY <2>1
    <2> QED
      BY <1>6, <2>2
  <1> QED
    BY <1>6, <1>7 DEF StandsUpTo, B, p

(* With room for the frame the encoder's checks fail only at the end of a  *)
(* bare one.                                                               *)
LEMMA GiveUpBare ==
  ASSUME NEW f \in FrameSet, NEW i \in 1 .. Fields(f), NEW check, Checked(f.type, check, i),
         NEW room \in Int, Size(f) <= room, GivesUp(Pos(f)[i], room, check)
  PROVE  Bare(f) /\ Size(f) = room
  <1>1. Fields(f) \in Nat /\ i \in 0 .. Fields(f) /\ Fields(f) \in 0 .. Fields(f)
    BY FrameShape
  <1>2. Pos(f)[i] \in Nat /\ Size(f) \in Nat /\ Pos(f)[i] <= Size(f)
    BY <1>1, OffsetsGrow, OffsetFacts
  <1>3. check = "full" /\ Pos(f)[i] >= room
    BY <1>2 DEF GivesUp
  <1>4. ~ (Pos(f)[i] < Size(f))
    BY <1>2, <1>3
  <1> QED
    BY <1>2, <1>3, <1>4, FullIsBare

LEMMA ResetWritten ==
  ASSUME NEW f \in FrameSet, f.type = "RESET", NEW junk_ \in 0 .. Byte - 1
  PROVE  /\ ResetBytes(f.values, junk_) \in Seq(0 .. Byte - 1)
         /\ Len(ResetBytes(f.values, junk_)) = Size(f)
  <1> DEFINE v == f.values
             z == Size(f)
             B == 0 .. Byte - 1
             layers == <<EncodeBytes(v[3]), BigEndianEncode(v[2], 2), EncodeBytes(v[1])>>
             reach(i) == {k \in 1 .. 3 : i <= Len(layers[k])}
             b == [i \in 1 .. z |-> IF reach(i) = {} THEN junk_ ELSE layers[Min(reach(i))][i]]
  <1>1. z \in Nat /\ ResetBytes(v, junk_) = b
    <2>1. ResetBytes(v, junk_) = b
      BY DEF ResetBytes, Size
    <2> QED
      BY <2>1, SizePositive
  <1>2. Fields(f) = 3 /\ FieldKind(f, 1) = "int" /\ FieldKind(f, 2) = "two" /\ FieldKind(f, 3) = "int"
    BY DEF Fields, Count, Kinds, FieldKind, Codecs, Reset
  <1>3. /\ v[1] \in Nat /\ ~ TooLarge(v[1]) /\ v[3] \in Nat /\ ~ TooLarge(v[3])
        /\ BytesOf(f, 1) = EncodeBytes(v[1]) /\ BytesOf(f, 2) = BigEndianEncode(v[2], 2)
        /\ BytesOf(f, 3) = EncodeBytes(v[3])
    <2>1. 1 \in 1 .. Fields(f) /\ 3 \in 1 .. Fields(f)
      BY <1>2
    <2>2. Carries("int", v[1]) /\ Carries("int", v[3])
      BY <1>2, <2>1, ProperValues
    <2> QED
      BY <1>2, <2>2 DEF Carries, BytesOf, FieldBytes
  <1>4. \A k \in 1 .. 3 : layers[k] \in Seq(B) /\ Len(layers[k]) \in Nat
    <2>1. \A k \in 1 .. Fields(f) : BytesOf(f, k) \in Seq(B) /\ Len(BytesOf(f, k)) \in Nat
      BY FieldFacts
    <2>2. 1 \in 1 .. Fields(f) /\ 2 \in 1 .. Fields(f) /\ 3 \in 1 .. Fields(f)
      BY <1>2
    <2>3. \A k \in 1 .. 3 : k = 1 \/ k = 2 \/ k = 3
      OBVIOUS
    <2>4. /\ layers[1] = EncodeBytes(v[3]) /\ layers[2] = BigEndianEncode(v[2], 2)
          /\ layers[3] = EncodeBytes(v[1])
      OBVIOUS
    <2> HIDE DEF layers, B
    <2> QED
      BY <1>3, <2>1, <2>2, <2>3, <2>4
  <1> HIDE DEF layers
  <1>5. ASSUME NEW i \in 1 .. z PROVE b[i] \in B
    <2>1. CASE reach(i) = {}
      BY <2>1
    <2>2. CASE reach(i) # {}
      <3>0. reach(i) \subseteq Nat
        OBVIOUS
      <3> HIDE DEF reach
      <3>1. PICK k \in reach(i) : \A j \in reach(i) : k <= j
        BY <2>2, <3>0, LeastNatural
      <3>2. Min(reach(i)) \in reach(i)
        BY <3>1 DEF Min
      <3> DEFINE m == Min(reach(i))
      <3>3. m \in 1 .. 3 /\ i <= Len(layers[m])
        BY <3>2 DEF reach
      <3> HIDE DEF m
      <3>4. layers[m] \in Seq(B) /\ i \in 1 .. Len(layers[m])
        BY <1>4, <3>3
      <3> HIDE DEF B
      <3>5. layers[m][i] \in B
        BY <3>4, ElementOfSeq
      <3> QED
        BY <2>2, <3>5 DEF m
    <2> QED
      BY <2>1, <2>2
  <1>6. b \in [1 .. z -> B]
    BY <1>5
  <1> HIDE DEF b, B
  <1>7. b \in Seq(B) /\ Len(b) = z
    BY <1>1, <1>6
  <1> HIDE DEF z
  <1> QED
    BY <1>1, <1>7 DEF B, z

(* An encoder that is given room for a frame either writes all of it, in   *)
(* as many bytes as its size function tells, or refuses a bare frame that  *)
(* would fill the room.                                                    *)
WrittenOrBare(f, bytes, room) ==
  IF bytes = <<>> THEN Bare(f) /\ Size(f) = room
  ELSE /\ bytes \in Seq(0 .. Byte - 1) /\ Len(bytes) = Size(f)
       /\ f.type # "RESET" => Stands(f, bytes, 0)

LEMMA FrameWritten ==
  ASSUME NEW f \in FrameSet, NEW room \in Int, Size(f) <= room, NEW junk_ \in 0 .. Byte - 1
  PROVE  WrittenOrBare(f, FrameEncode(f.type, f.values, room, junk_), room)
  <1> DEFINE bytes == FrameEncode(f.type, f.values, room, junk_)
             B == 0 .. Byte - 1
             n == Fields(f)
             e == Codecs[f.type].encode
  <1>1. CASE f.type = "RESET"
    <2>1. bytes = ResetBytes(f.values, junk_)
      BY <1>1 DEF FrameEncode
    <2>2. bytes \in Seq(B) /\ Len(bytes) = Size(f) /\ Size(f) \in Nat \ {0}
      BY <1>1, <2>1, ResetWritten, SizePositive
    <2>3. bytes # <<>>
      <3> HIDE DEF bytes
      <3> QED
        BY <2>2
    <2> QED
      BY <1>1, <2>2, <2>3 DEF WrittenOrBare
  <1>2. CASE f.type # "RESET"
    <2>1. /\ n \in Nat /\ Len(e) = n /\ DOMAIN e = 1 .. n
          /\ \A i \in 1 .. n : e[i].kind = FieldKind(f, i) /\ Checked(f.type, e[i].check, i)
      BY <1>2, FrameShape DEF Shape, EncodeShape, Kinds, FieldKind, Fields
    <2>2. bytes = EncodeFields(e, f.values, room)
      BY <1>2 DEF FrameEncode
    <2> HIDE DEF bytes, e
    <2>3. PICK w : WritesInSteps(w, e, f.values, room, n)
      <3>1. PICK m \in Nat : m = n /\ Len(e) = m
        BY <2>1
      <3> QED
        BY <3>1, WriteSteps
    <2> HIDE DEF n
    <2>4. w[0] = <<>> /\ \A k \in 1 .. n : w[k] = w[k - 1] \o BytesOf(f, k)
      BY <2>1, <2>3 DEF WritesInSteps, BytesOf
    <2>5. \A m \in 0 .. n : /\ w[m] \in Seq(B) /\ Len(w[m]) = Pos(f)[m]
                            /\ StandsUpTo(f, w[m], 0, m)
      BY <2>4, FieldsWritten DEF n
    <2>6. bytes = IF \E i \in DOMAIN e : GivesUp(Len(w[i]), room, e[i].check) THEN <<>> ELSE w[n]
      BY <2>2, <2>3 DEF WritesInSteps
    <2>7. CASE \E i \in DOMAIN e : GivesUp(Len(w[i]), room, e[i].check)
      <3>1. PICK i \in 1 .. n : GivesUp(Len(w[i]), room, e[i].check)
        BY <2>1, <2>7
      <3>2. i \in 0 .. n /\ Len(w[i]) = Pos(f)[i]
        BY <2>1, <2>5, <3>1
      <3>3. Bare(f) /\ Size(f) = room
        BY <2>1, <3>1, <3>2, GiveUpBare DEF n
      <3> QED
        BY <2>6, <2>7, <3>3 DEF WrittenOrBare, bytes
    <2>8. CASE ~ \E i \in DOMAIN e : GivesUp(Len(w[i]), room, e[i].check)
      <3>1. n \in 0 .. n /\ bytes = w[n]
        BY <2>1, <2>6, <2>8
      <3>2. bytes \in Seq(B) /\ Len(bytes) = Size(f) /\ Stands(f, bytes, 0)
        BY <2>5, <3>1, OffsetFacts DEF Stands, n
      <3>3. bytes # <<>>
        BY <3>2, SizePositive
      <3> QED
        BY <3>2, <3>3 DEF WrittenOrBare, bytes
    <2> QED
      BY <2>7, <2>8
  <1> QED
    BY <1>1, <1>2

-----------------------------------------------------------------------------
(* What a decoder reads.                                                   *)

(* The first k values, and what a decoder knows when it has read them.     *)
Taken(f, k) == [i \in 1 .. k |-> f.values[i]]
Ready(f, k) == [used |-> Pos(f)[k], values |-> Taken(f, k), failed |-> FALSE]

(* The buffer begins with the frame, and the type byte before it told      *)
(* which optional fields there are.                                        *)
Holds(f, buf, flags) ==
  /\ Len(buf) \in Nat /\ DOMAIN buf = 1 .. Len(buf) /\ Len(buf) < Word
  /\ Size(f) <= Len(buf)
  /\ f.type # "RESET" => Stands(f, buf, 0)
  /\ f.type = "STREAM" => flags = {i \in {2, 3} : f.values[i] # 0}

LEMMA UnsignedSmall ==
  ASSUME NEW x \in Nat, x < Word
  PROVE  Unsigned(x) = x
  <1>1. Word \in Nat \ {0} /\ x \in 0 .. Word - 1
    BY WordType
  <1>2. \A z \in 0 .. Word - 1 : z % Word = z
    BY <1>1
  <1> QED
    BY <1>1, <1>2 DEF Unsigned

LEMMA TakenFacts ==
  ASSUME NEW f \in FrameSet, NEW k \in 0 .. Fields(f)
  PROVE  /\ \E S : Taken(f, k) \in Seq(S) /\ \A i \in 1 .. Fields(f) : f.values[i] \in S
         /\ Len(Taken(f, k)) = k
         /\ k > 0 => Last(Taken(f, k)) = f.values[k]
         /\ k < Fields(f) => Append(Taken(f, k), f.values[k + 1]) = Taken(f, k + 1)
         /\ k = Fields(f) => Taken(f, k) = f.values
  <1> DEFINE n == Fields(f)
             v == f.values
             S == {v[i] : i \in 1 .. n}
             t == Taken(f, k)
  <1>1. n \in Nat /\ v = [i \in 1 .. n |-> v[i]] /\ \A i \in 1 .. n : v[i] \in S
    BY FrameShape, ProperValues
  <1> HIDE DEF S
  <1>2. t \in [1 .. k -> S] /\ \A i \in 1 .. k : t[i] = v[i]
    BY <1>1 DEF Taken
  <1>3. k \in Nat /\ t \in Seq(S) /\ Len(t) = k /\ DOMAIN t = 1 .. k
    <2> HIDE DEF t, n
    <2>1. k \in Nat
      OBVIOUS
    <2> QED
      BY <1>2, <2>1
  <1>4. k > 0 => Last(t) = v[k]
    <2> HIDE DEF t
    <2> QED
      BY <1>2, <1>3 DEF Last
  <1>5. ASSUME k < n PROVE Append(t, v[k + 1]) = Taken(f, k + 1)
    <2> DEFINE x == v[k + 1]
               u == Append(t, x)
    <2>1. x \in S
      <3>1. k + 1 \in 1 .. n
        BY <1>1, <1>3, <1>5
      <3> QED
        BY <1>1, <3>1
    <2> HIDE DEF t, x
    <2>2. /\ u \in Seq(S) /\ Len(u) = k + 1
          /\ u[k + 1] = x /\ \A i \in 1 .. k : u[i] = t[i]
      BY <1>3, <2>1
    <2> HIDE DEF u
    <2>3. u = [i \in 1 .. k + 1 |-> u[i]]
      <3>1. DOMAIN u = 1 .. k + 1
        BY <1>3, <2>2
      <3>2. u = [i \in DOMAIN u |-> u[i]]
        BY <2>2
      <3> QED
        BY <3>1, <3>2
    <2>4. \A i \in 1 .. k + 1 : u[i] = v[i]
      BY <1>2, <1>3, <2>2 DEF x
    <2>5. u = [i \in 1 .. k + 1 |-> v[i]]
      BY <2>3, <2>4
    <2> QED
      BY <2>5 DEF u, x, Taken
  <1>6. k = n => t = v
    BY <1>1 DEF Taken
  <1> HIDE DEF t, n
  <1>7. \E R : t \in Seq(R) /\ \A i \in 1 .. n : v[i] \in R
    BY <1>1, <1>3
  <1> QED
    BY <1>3, <1>4, <1>5, <1>6, <1>7 DEF t, n

(* The next field lies in the buffer.                                      *)
LEMMA NextField ==
  ASSUME NEW f \in FrameSet, NEW buf, NEW flags, Holds(f, buf, flags), NEW k \in Nat, k < Fields(f)
  PROVE  /\ k + 1 \in 1 .. Fields(f) /\ Pos(f)[k] \in Nat
         /\ SizeOf(f, k + 1) \in Nat
         /\ Pos(f)[k + 1] = Pos(f)[k] + SizeOf(f, k + 1)
         /\ Pos(f)[k + 1] \in Nat /\ Pos(f)[k + 1] <= Size(f) /\ Size(f) \in Nat
         /\ Len(buf) \in Nat /\ Len(buf) < Word /\ Size(f) <= Len(buf)
         /\ f.type # "RESET" => \A l \in 1 .. SizeOf(f, k + 1) : buf[Pos(f)[k] + l] = BytesOf(f, k + 1)[l]
  <1> DEFINE n == Fields(f)
             p == Pos(f)
  <1>1. /\ n \in Nat /\ k + 1 \in 1 .. n /\ (k + 1) - 1 = k /\ k \in 0 .. n /\ k + 1 \in 0 .. n
        /\ n \in 0 .. n
    BY FrameShape
  <1>2. /\ p[k + 1] = p[k] + SizeOf(f, k + 1) /\ SizeOf(f, k + 1) \in Nat
        /\ p[k] \in Nat /\ p[k + 1] \in Nat /\ p[n] \in Nat /\ p[k + 1] <= p[n] /\ Size(f) = p[n]
    BY <1>1, OffsetFacts, FieldFacts, OffsetsGrow
  <1>3. Len(buf) \in Nat /\ Len(buf) < Word /\ Size(f) <= Len(buf)
    BY DEF Holds
  <1>4. ASSUME f.type # "RESET", NEW l \in 1 .. SizeOf(f, k + 1)
        PROVE  buf[p[k] + l] = BytesOf(f, k + 1)[l]
    <2>1. buf[0 + p[(k + 1) - 1] + l] = BytesOf(f, k + 1)[l]
      BY <1>1, <1>4 DEF Holds, Stands, StandsUpTo
    <2>2. 0 + p[k] + l = p[k] + l
      BY <1>2
    <2> QED
      BY <1>1, <2>1, <2>2
  <1> QED
    BY <1>1, <1>2, <1>3, <1>4

LEMMA BytesRead ==
  ASSUME NEW f \in FrameSet, f.type # "RESET", NEW buf, NEW flags, Holds(f, buf, flags),
         NEW beyond, NEW k \in Nat, k < Fields(f)
  PROVE  Bytes(buf, Pos(f)[k], SizeOf(f, k + 1), beyond) = BytesOf(f, k + 1)
  <1> DEFINE p == Pos(f)[k]
             z == SizeOf(f, k + 1)
             b == BytesOf(f, k + 1)
             B == 0 .. Byte - 1
  <1>1. /\ p \in Nat /\ z \in Nat /\ p + z <= Len(buf) /\ Len(buf) \in Nat
        /\ DOMAIN buf = 1 .. Len(buf)
        /\ \A l \in 1 .. z : buf[p + l] = b[l]
    <2>1. DOMAIN buf = 1 .. Len(buf)
      BY DEF Holds
    <2>2. \A l \in 1 .. z : buf[p + l] = b[l]
      BY NextField
    <2>3. /\ p \in Nat /\ z \in Nat /\ Pos(f)[k + 1] = p + z /\ Pos(f)[k + 1] <= Size(f)
          /\ Size(f) \in Nat /\ Size(f) <= Len(buf) /\ Len(buf) \in Nat
      BY NextField
    <2> HIDE DEF p, z, b
    <2>4. p + z <= Len(buf)
      BY <2>3
    <2> QED
      BY <2>1, <2>2, <2>3, <2>4
  <1>2. b \in Seq(B) /\ Len(b) = z
    BY NextField, FieldFacts
  <1> HIDE DEF p, z, b, B
  <1>3. \A l \in 1 .. z : ByteAt(buf, p + l, beyond) = b[l]
    BY <1>1 DEF ByteAt
  <1>4. b = [l \in 1 .. z |-> b[l]]
    BY <1>2
  <1>5. Bytes(buf, p, z, beyond) = [l \in 1 .. z |-> ByteAt(buf, p + l, beyond)]
    BY DEF Bytes
  <1> QED
    BY <1>3, <1>4, <1>5 DEF p, z, b

AtInteger(f, buf, flags, k, v) ==
  /\ f \in FrameSet /\ f.type # "RESET" /\ Holds(f, buf, flags)
  /\ k \in Nat /\ k < Fields(f)
  /\ v \in Nat /\ ~ TooLarge(v)
  /\ SizeOf(f, k + 1) = VarintSize(v) /\ BytesOf(f, k + 1) = EncodeBytes(v)

Told(f, k, v) == [result |-> SizeOf(f, k + 1), value |-> v]

LEMMA IntegerRead ==
  ASSUME NEW f, NEW buf, NEW flags, NEW beyond, NEW k, NEW x, AtInteger(f, buf, flags, k, x)
  PROVE  Decode(buf, Pos(f)[k], beyond) = Told(f, k, x)
  <1> DEFINE p == Pos(f)[k]
             z == Shortest(x)
  <1>0. /\ x \in Nat /\ ~ TooLarge(x) /\ f \in FrameSet /\ f.type # "RESET"
        /\ Holds(f, buf, flags) /\ k \in Nat /\ k < Fields(f)
    BY DEF AtInteger
  <1>1. SizeOf(f, k + 1) = z /\ z \in Nat
    BY <1>0, ShortestType, LengthsType DEF AtInteger
  <1>2. /\ p \in Nat /\ p + z <= Len(buf) /\ Len(buf) \in Nat /\ Len(buf) < Word
        /\ \A l \in 1 .. z : buf[p + l] = EncodeBytes(x)[l]
    BY <1>0, <1>1, NextField DEF AtInteger
  <1>3. DOMAIN buf = 1 .. Len(buf)
    BY <1>0 DEF Holds
  <1> HIDE DEF p
  <1>4. Decode(buf, p, beyond) = [result |-> z, value |-> x]
    BY <1>0, <1>2, <1>3, VarintInverts
  <1> QED
    BY <1>1, <1>4 DEF p, Told

(* The decoder takes the next field for what it is.                        *)
LEMMA FieldRead ==
  ASSUME NEW f \in FrameSet, f.type # "RESET", NEW buf, NEW flags, Holds(f, buf, flags),
         NEW beyond, NEW k \in Nat, k < Fields(f),
         NEW kind, kind = FieldKind(f, k + 1), kind # "one", kind = "raw" => f.type = "PATH"
  PROVE  Field(buf, beyond, flags, kind, Ready(f, k))
           = [result |-> SizeOf(f, k + 1), value |-> f.values[k + 1]]
  <1> DEFINE r == Ready(f, k)
             p == Pos(f)[k]
             z == SizeOf(f, k + 1)
             v == f.values[k + 1]
             read == [result |-> z, value |-> v]
             B == 0 .. Byte - 1
  <1>1. /\ k + 1 \in 1 .. Fields(f) /\ p \in Nat /\ z \in Nat /\ p + z <= Len(buf)
        /\ Len(buf) \in Nat /\ Len(buf) < Word
    BY NextField
  <1>2. r.used = p /\ r.values = Taken(f, k) /\ Len(r.values) = k
        /\ (k > 0 => Last(r.values) = f.values[k])
    <2>1. k \in 0 .. Fields(f)
      BY <1>1, FrameShape
    <2> QED
      BY <2>1, TakenFacts DEF Ready
  <1>3. /\ Carries(kind, v)
        /\ kind = "data" => k > 0 /\ f.values[k] = Len(v)
        /\ Solid(kind) \/ kind \in {"opt", "raw", "data"}
        /\ kind = "opt" => f.type = "STREAM" /\ k + 1 \in {2, 3}
        /\ kind = "raw" => k = 0
    <2>1. (k + 1) - 1 = k
      OBVIOUS
    <2>2. /\ Carries(kind, v)
          /\ kind = "data" => k + 1 > 1 /\ f.values[(k + 1) - 1] = Len(v)
      BY <1>1, ProperValues
    <2>3. /\ Solid(kind) \/ kind \in {"opt", "raw", "data"}
          /\ kind = "opt" => f.type = "STREAM" /\ k + 1 \in {2, 3}
      BY <1>1, FrameShape DEF SizeShape, FieldKind
    <2>4. kind = "raw" => k = 0
      <3>1. f.type = "PATH" => Fields(f) = 1
        BY DEF Fields, Count, Kinds, Codecs, Path
      <3> QED
        BY <3>1
    <2> QED
      BY <2>1, <2>2, <2>3, <2>4
  <1>4. Bytes(buf, p, z, beyond) = BytesOf(f, k + 1)
    BY BytesRead
  <1>5. CASE kind = "int"
    <2>1. z = VarintSize(v) /\ BytesOf(f, k + 1) = EncodeBytes(v) /\ v \in Nat /\ ~ TooLarge(v)
      BY <1>3, <1>5 DEF SizeOf, BytesOf, FieldSize, FieldBytes, Carries
    <2>2. Decode(buf, p, beyond) = read
      <3>1. AtInteger(f, buf, flags, k, v)
        BY <2>1 DEF AtInteger
      <3>2. Decode(buf, p, beyond) = Told(f, k, v)
        BY <3>1, IntegerRead
      <3> QED
        BY <3>2 DEF Told
    <2> HIDE DEF p, read, r
    <2> QED
      BY <1>2, <1>5, <2>2 DEF Field, p, read, r
  <1>6. CASE kind = "opt"
    <2>1. v \in Nat /\ ~ TooLarge(v) /\ flags = {i \in {2, 3} : f.values[i] # 0}
      BY <1>3, <1>6 DEF Carries, Holds
    <2>2. Len(r.values) + 1 \in flags <=> v # 0
      BY <1>2, <1>3, <1>6, <2>1
    <2>3. CASE v = 0
      <3>1. z = 0
        BY <1>6, <2>3 DEF SizeOf, FieldSize
      <3>2. Field(buf, beyond, flags, kind, r) = [result |-> 0, value |-> 0]
        <4> HIDE DEF r
        <4> QED
          BY <1>6, <2>2, <2>3 DEF Field
      <3> QED
        BY <2>3, <3>1, <3>2
    <2>4. CASE v # 0
      <3>1. z = VarintSize(v) /\ BytesOf(f, k + 1) = EncodeBytes(v)
        BY <1>6, <2>4 DEF SizeOf, BytesOf, FieldSize, FieldBytes
      <3>2. Decode(buf, p, beyond) = read
        <4>1. AtInteger(f, buf, flags, k, v)
          BY <2>1, <3>1 DEF AtInteger
        <4>2. Decode(buf, p, beyond) = Told(f, k, v)
          BY <4>1, IntegerRead
        <4> QED
          BY <4>2 DEF Told
      <3> HIDE DEF p, read, r
      <3> QED
        BY <1>2, <1>6, <2>2, <2>4, <3>2 DEF Field, p, read, r
    <2> QED
      BY <2>3, <2>4
  <1>7. CASE kind = "two"
    <2>1. z = 2 /\ BytesOf(f, k + 1) = BigEndianEncode(v, 2) /\ v \in 0 .. Power[2] - 1
      BY <1>3, <1>7 DEF SizeOf, BytesOf, FieldSize, FieldBytes, Carries
    <2>2. BigEndianDecode(0, BigEndianEncode(v, 2)) = v
      <3>1. PICK m \in 0 .. 8 : m = 2
        OBVIOUS
      <3>2. Power[m] \in Nat \ {0}
        BY PowerType
      <3>3. v \in Nat /\ v < Power[m]
        BY <2>1, <3>1, <3>2
      <3>4. PICK old \in Nat : old = 0
        OBVIOUS
      <3>5. BigEndianDecode(old, BigEndianEncode(v, m)) = Power[m] * (old \div Power[m]) + v
        BY <3>3, BigEndianInverts
      <3> DEFINE q == Power[m]
      <3>6. q \in Nat \ {0}
        BY <3>2
      <3> HIDE DEF q
      <3>7. 0 \div q = 0 /\ q * 0 = 0
        BY <3>6
      <3> QED
        BY <3>1, <3>3, <3>4, <3>5, <3>7 DEF q
    <2>3. ~ (Unsigned(Len(buf) - p) < 2)
      <3> HIDE DEF p, z
      <3>1. Len(buf) - p \in Nat /\ Len(buf) - p < Word /\ Len(buf) - p >= 2
        BY <1>1, <2>1, WordType
      <3>2. Unsigned(Len(buf) - p) = Len(buf) - p
        BY <3>1, UnsignedSmall
      <3> QED
        BY <3>1, <3>2
    <2>4. BigEndianDecode(0, Bytes(buf, p, 2, beyond)) = v
      BY <1>4, <2>1, <2>2
    <2> HIDE DEF p, v, r
    <2> QED
      BY <1>2, <1>7, <2>1, <2>3, <2>4 DEF Field, p, v, r
  <1>8. CASE kind = "raw"
    <2>1. z = Len(v) /\ BytesOf(f, k + 1) = v
      BY <1>8 DEF SizeOf, BytesOf, FieldSize, FieldBytes
    <2>2. z = PathLength
      <3>1. f.type = "PATH" /\ k + 1 = 1
        BY <1>3, <1>8
      <3> QED
        BY <2>1, <3>1, ProperValues
    <2>3. Bytes(buf, p, PathLength, beyond) = v
      BY <1>4, <2>1, <2>2
    <2> HIDE DEF p, v, r, z
    <2> QED
      BY <1>2, <1>8, <2>2, <2>3 DEF Field, p, v, r, z
  <1>9. CASE kind = "data"
    <2>1. z = Len(v) /\ BytesOf(f, k + 1) = v
      BY <1>9 DEF SizeOf, BytesOf, FieldSize, FieldBytes
    <2>2. Last(r.values) = z
      BY <1>2, <1>3, <1>9, <2>1
    <2>3. Bytes(buf, p, z, beyond) = v
      BY <1>4, <2>1
    <2> HIDE DEF p, v, r, z
    <2> QED
      BY <1>2, <1>9, <2>2, <2>3 DEF Field, p, v, r, z
  <1> QED
    BY <1>3, <1>5, <1>6, <1>7, <1>8, <1>9 DEF Solid

(* A field that is read, after which the decoder checks the end.           *)
ReadSoFar(f, k, failed) == [used |-> Pos(f)[k], values |-> Taken(f, k), failed |-> failed]

LEMMA StepRead ==
  ASSUME NEW f \in FrameSet, f.type # "RESET", NEW buf, NEW flags, Holds(f, buf, flags),
         NEW beyond, NEW k \in Nat, k < Fields(f), NEW field,
         field.kind = FieldKind(f, k + 1), field.kind # "one",
         field.kind = "raw" => f.type = "PATH"
  PROVE  Read(buf, beyond, flags, Ready(f, k), field)
           = ReadSoFar(f, k + 1, GivesUp(Pos(f)[k + 1], Len(buf), field.check))
  <1> DEFINE r == Ready(f, k)
             d == Field(buf, beyond, flags, field.kind, r)
             p == Pos(f)[k]
             q == Pos(f)[k + 1]
             z == SizeOf(f, k + 1)
             v == f.values[k + 1]
  <1>1. d = [result |-> z, value |-> v]
    <2>1. PICK kind : kind = field.kind
      OBVIOUS
    <2>2. Field(buf, beyond, flags, kind, Ready(f, k))
            = [result |-> SizeOf(f, k + 1), value |-> f.values[k + 1]]
      BY <2>1, FieldRead
    <2> QED
      BY <2>1, <2>2
  <1>2. /\ k + 1 \in 1 .. Fields(f) /\ p \in Nat /\ z \in Nat /\ q = p + z /\ q \in Nat
        /\ q <= Len(buf) /\ Len(buf) \in Nat /\ Len(buf) < Word
    BY NextField
  <1>3. Append(Taken(f, k), v) = Taken(f, k + 1)
    <2>1. k \in 0 .. Fields(f)
      BY <1>2, FrameShape
    <2> QED
      BY <2>1, TakenFacts
  <1>4. Unsigned(q) = q
    <2> HIDE DEF q
    <2>1. q < Word
      BY <1>2, WordType
    <2> QED
      BY <1>2, <2>1, UnsignedSmall
  <1>5. r.used = p /\ r.values = Taken(f, k) /\ r.failed = FALSE
    BY DEF Ready
  <1>6. d.result = z /\ d.value = v
    BY <1>1
  <1>7. Read(buf, beyond, flags, r, field)
          = IF r.failed THEN r
            ELSE [used |-> Unsigned(r.used + d.result), values |-> Append(r.values, d.value),
                  failed |-> GivesUp(Unsigned(r.used + d.result), Len(buf), field.check)]
    BY DEF Read
  <1> HIDE DEF r, d, p, q, z, v
  <1>8. Unsigned(r.used + d.result) = q
    BY <1>2, <1>4, <1>5, <1>6
  <1> QED
    BY <1>3, <1>5, <1>6, <1>7, <1>8 DEF ReadSoFar, r, q, v

(* The data of a STREAM frame without a length are all that is left.       *)
TailRead(f, buf, r) ==
  /\ r.failed = FALSE
  /\ r.used = IF Unbounded(f) THEN Len(buf) ELSE Size(f)
  /\ \/ r.values = f.values
     \/ Unbounded(f) /\ Len(buf) > Size(f)

StreamKinds(f) ==
  /\ Fields(f) = 4 /\ FieldKind(f, 4) = "data"
  /\ f.values[3] = Len(f.values[4]) /\ f.values[3] \in Nat
  /\ SizeOf(f, 4) = f.values[3] /\ BytesOf(f, 4) = f.values[4]

LEMMA StreamShape ==
  ASSUME NEW f \in FrameSet, f.type = "STREAM"
  PROVE  StreamKinds(f)
  <1>1. Fields(f) = 4 /\ FieldKind(f, 4) = "data" /\ FieldKind(f, 3) = "opt"
    BY DEF Fields, FieldKind, Count, Kinds, Codecs, Stream
  <1>2. 3 \in 1 .. Fields(f) /\ 4 \in 1 .. Fields(f) /\ 4 - 1 = 3
    BY <1>1
  <1>3. f.values[3] \in Nat
    BY <1>1, <1>2, FieldFacts
  <1>4. f.values[3] = Len(f.values[4])
    <2>1. f.values[4 - 1] = Len(f.values[4])
      BY <1>1, <1>2, ProperValues
    <2> QED
      BY <1>2, <2>1
  <1>5. SizeOf(f, 4) = Len(f.values[4]) /\ BytesOf(f, 4) = f.values[4]
    BY <1>1 DEF SizeOf, BytesOf, FieldSize, FieldBytes
  <1> QED
    BY <1>1, <1>3, <1>4, <1>5 DEF StreamKinds

LEMMA StreamRead ==
  ASSUME NEW f \in FrameSet, f.type = "STREAM", NEW buf, NEW flags, Holds(f, buf, flags),
         NEW beyond, NEW check, check \in {"none", "over"}
  PROVE  TailRead(f, buf, Finished("STREAM", Read(buf, beyond, flags, Ready(f, 3), Rest(check))))
  <1> DEFINE k == 3
             r == Ready(f, k)
             p == Pos(f)[k]
             left == Unsigned(Len(buf) - p)
             length == IF f.values[3] = 0 THEN left ELSE f.values[3]
             data == Bytes(buf, p, length, beyond)
             end == Finished("STREAM", Read(buf, beyond, flags, r, Rest(check)))
             v == f.values
  <1>1. /\ Fields(f) = 4 /\ v[3] \in Nat /\ v[3] = Len(v[4])
        /\ SizeOf(f, 4) = v[3] /\ BytesOf(f, 4) = v[4]
    BY StreamShape DEF StreamKinds
  <1>2. PICK m \in Nat : m = 3 /\ m < Fields(f)
    BY <1>1
  <1>3. /\ p \in Nat /\ Pos(f)[4] = p + v[3] /\ Pos(f)[4] = Size(f) /\ Size(f) \in Nat
        /\ Size(f) <= Len(buf) /\ Len(buf) \in Nat /\ Len(buf) < Word
    <2>1. /\ Pos(f)[m] \in Nat /\ Pos(f)[m + 1] = Pos(f)[m] + SizeOf(f, m + 1)
          /\ Size(f) \in Nat /\ Size(f) <= Len(buf) /\ Len(buf) \in Nat /\ Len(buf) < Word
      BY <1>2, NextField
    <2>2. m + 1 = 4 /\ Size(f) = Pos(f)[4]
      BY <1>1, <1>2, OffsetFacts
    <2> QED
      BY <1>1, <1>2, <2>1, <2>2
  <1>4. Bytes(buf, p, v[3], beyond) = v[4]
    <2>1. Bytes(buf, Pos(f)[m], SizeOf(f, m + 1), beyond) = BytesOf(f, m + 1)
      BY <1>2, BytesRead
    <2>2. m + 1 = 4
      BY <1>2
    <2> QED
      BY <1>1, <1>2, <2>1, <2>2
  <1>5. left = Len(buf) - p /\ left \in Nat
    <2> HIDE DEF p
    <2>1. Len(buf) - p \in Nat /\ Len(buf) - p < Word
      BY <1>1, <1>3, WordType
    <2> QED
      BY <2>1, UnsignedSmall
  <1> HIDE DEF left
  <1>6. length \in Nat /\ p + length <= Len(buf) /\ Unsigned(p + length) = p + length
    <2> HIDE DEF p
    <2>1. length \in Nat /\ p + length <= Len(buf)
      BY <1>1, <1>3, <1>5
    <2> HIDE DEF length
    <2>2. p + length \in Nat /\ p + length < Word
      BY <1>3, <2>1, WordType
    <2> QED
      BY <2>1, <2>2, UnsignedSmall
  <1> DEFINE t == Taken(f, 3)
             read == [used |-> p + length, values |-> Append(t, data), failed |-> FALSE]
  <1>7. PICK S : t \in Seq(S) /\ (\A i \in 1 .. 4 : v[i] \in S)
    <2>1. 3 \in 0 .. Fields(f)
      BY <1>1
    <2> QED
      BY <1>1, <2>1, TakenFacts
  <1>8. Len(t) = 3 /\ Last(t) = v[3] /\ \A i \in 1 .. 3 : t[i] = v[i]
    <2>1. m \in 0 .. Fields(f) /\ m > 0
      BY <1>1, <1>2
    <2>2. Len(Taken(f, m)) = m /\ Last(Taken(f, m)) = v[m]
      BY <2>1, TakenFacts
    <2>3. \A i \in 1 .. 3 : t[i] = v[i]
      BY DEF Taken
    <2> QED
      BY <1>2, <2>2, <2>3
  <1>9. Read(buf, beyond, flags, r, Rest(check)) = read
    <2>1. r.used = p /\ r.values = t /\ r.failed = FALSE
      BY DEF Ready
    <2>2. Rest(check).kind = "tail" /\ Rest(check).check = check
      BY DEF Rest
    <2> DEFINE d == Field(buf, beyond, flags, "tail", r)
    <2>3. d = [result |-> length, value |-> data]
      <3> HIDE DEF r, p, t
      <3> QED
        BY <1>8, <2>1 DEF Field, left
    <2>4. Read(buf, beyond, flags, r, Rest(check))
            = IF r.failed THEN r
              ELSE [used |-> Unsigned(r.used + d.result), values |-> Append(r.values, d.value),
                    failed |-> GivesUp(Unsigned(r.used + d.result), Len(buf), check)]
      BY <2>2 DEF Read
    <2> HIDE DEF d, r, length, data, p, t
    <2>5. d.result = length /\ d.value = data
      BY <2>3
    <2>6. GivesUp(p + length, Len(buf), check) = FALSE
      BY <1>3, <1>6 DEF GivesUp
    <2> QED
      BY <1>6, <2>1, <2>4, <2>5, <2>6
  <1> DEFINE u == Append(t, data)
  <1>10. /\ Len(u) = 4 /\ DOMAIN u = 1 .. 4 /\ u[4] = data /\ u = [i \in 1 .. 4 |-> u[i]]
         /\ \A i \in 1 .. 3 : u[i] = v[i]
    <2> DEFINE R == S \cup {data}
    <2>1. t \in Seq(R) /\ data \in R
      <3> HIDE DEF t, data
      <3>1. S \subseteq R /\ data \in R
        OBVIOUS
      <3> HIDE DEF R
      <3> QED
        BY <1>7, <3>1, WiderSequence
    <2> HIDE DEF R, t, data
    <2>2. u \in Seq(R) /\ Len(u) = 4 /\ u[4] = data /\ \A i \in 1 .. 3 : u[i] = t[i]
      <3>1. /\ u \in Seq(R) /\ Len(u) = Len(t) + 1 /\ u[Len(t) + 1] = data
            /\ \A i \in 1 .. Len(t) : u[i] = t[i]
        BY <2>1, AppendElements
      <3> QED
        BY <1>8, <3>1
    <2> HIDE DEF u
    <2>3. DOMAIN u = 1 .. 4 /\ u = [i \in DOMAIN u |-> u[i]]
      BY <2>2
    <2> QED
      BY <1>8, <2>2, <2>3
  <1>11. Len(data) = length
    <2> HIDE DEF p, length
    <2>1. data = [i \in 1 .. length |-> ByteAt(buf, p + i, beyond)]
      BY DEF Bytes
    <2> QED
      BY <1>6, <2>1
  <1>12. end = [used |-> p + length, values |-> [i \in 1 .. 4 |-> IF i = 3 THEN length ELSE u[i]],
                failed |-> FALSE]
    <2> HIDE DEF u, length, data, p
    <2>1. read = [used |-> p + length, values |-> u, failed |-> FALSE]
      BY DEF u
    <2> HIDE DEF read
    <2>2. Len(read.values) = 4 /\ read.values = u
      BY <1>10, <2>1
    <2>3. end = [read EXCEPT !.values[3] = Len(read.values[4])]
      BY <1>9, <2>2 DEF Finished
    <2>4. Len(read.values[4]) = length
      BY <1>10, <1>11, <2>2
    <2>5. end = [read EXCEPT !.values[3] = length]
      BY <2>3, <2>4
    <2>6. [u EXCEPT ![3] = length] = [i \in 1 .. 4 |-> IF i = 3 THEN length ELSE u[i]]
      BY <1>10
    <2> QED
      BY <2>1, <2>5, <2>6
  <1> HIDE DEF end
  <1>13. ASSUME length = v[3], data = v[4] PROVE end.values = v
    <2>1. v = [i \in 1 .. 4 |-> v[i]]
      BY <1>1, ProperValues
    <2>2. \A i \in 1 .. 4 : i \in 1 .. 3 \/ i = 4
      OBVIOUS
    <2>3. \A i \in 1 .. 4 : u[i] = v[i]
      BY <1>10, <1>13, <2>2
    <2> HIDE DEF u, length, v
    <2>4. end.values = [i \in 1 .. 4 |-> IF i = 3 THEN length ELSE u[i]]
      BY <1>12
    <2>5. \A i \in 1 .. 4 : (IF i = 3 THEN length ELSE u[i]) = v[i]
      BY <1>13, <2>3
    <2> QED
      BY <2>1, <2>4, <2>5
  <1>14. end.failed = FALSE /\ end.used = p + length
    BY <1>12
  <1>15. CASE v[3] # 0
    <2>1. length = v[3]
      BY <1>15
    <2>2. data = v[4]
      BY <1>4, <2>1
    <2>3. end.values = v
      BY <1>13, <2>1, <2>2
    <2>4. ~ Unbounded(f)
      BY <1>15 DEF Unbounded
    <2> QED
      BY <1>3, <1>14, <2>1, <2>3, <2>4 DEF TailRead, end
  <1>16. CASE v[3] = 0 /\ left = 0
    <2>1. length = v[3]
      BY <1>16
    <2>2. data = v[4]
      BY <1>4, <2>1
    <2>3. end.values = v
      BY <1>13, <2>1, <2>2
    <2>4. p + length = Len(buf)
      <3> HIDE DEF p
      <3> QED
        BY <1>3, <1>5, <1>16, <2>1
    <2>5. Unbounded(f)
      BY <1>16 DEF Unbounded
    <2> QED
      BY <1>14, <2>3, <2>4, <2>5 DEF TailRead, end
  <1>17. CASE v[3] = 0 /\ left # 0
    <2>1. Unbounded(f) /\ length = left
      BY <1>17 DEF Unbounded
    <2>2. p + length = Len(buf) /\ Len(buf) > Size(f)
      <3> HIDE DEF p, length
      <3> QED
        BY <1>1, <1>3, <1>5, <1>17, <2>1
    <2> QED
      BY <1>14, <2>1, <2>2 DEF TailRead, end
  <1> QED
    BY <1>15, <1>16, <1>17

(* A decoder stops early only at the end of a buffer with a bare frame.    *)
Stopped(f, buf, r) ==
  /\ \E used, values : r = [used |-> used, values |-> values, failed |-> TRUE]
  /\ f.type # "NEW_CONNID" /\ Bare(f) /\ Size(f) = Len(buf)

ReadyOrStopped(f, buf, r, k) == r = Ready(f, k) \/ Stopped(f, buf, r)

DecodeFields(f) == Codecs[f.type].decode

LEMMA DecodeFacts ==
  ASSUME NEW f \in FrameSet
  PROVE  /\ DecodeShape(f.type, Kinds(f.type), Fields(f), DecodeFields(f), Len(DecodeFields(f)))
         /\ Len(DecodeFields(f)) \in 1 .. Fields(f)
         /\ f.type # "NEW_CONNID" => Len(DecodeFields(f)) = Fields(f)
         /\ f.type = "NEW_CONNID" => Len(DecodeFields(f)) = 1
  <1>1. DecodeShape(f.type, Kinds(f.type), Fields(f), DecodeFields(f), Len(DecodeFields(f)))
    BY FrameShape DEF Shape, Kinds, Fields, DecodeFields
  <1>2. /\ Fields(f) \in 1 .. 4
        /\ Len(DecodeFields(f)) = (IF f.type = "NEW_CONNID" THEN 1 ELSE Fields(f))
    BY <1>1, FrameShape DEF DecodeShape
  <1> QED
    BY <1>1, <1>2

(* The fields before the data of a STREAM frame, or all of another.        *)
LEMMA OneRead ==
  ASSUME NEW f \in FrameSet, f.type # "RESET", NEW buf, NEW flags, Holds(f, buf, flags),
         NEW beyond, NEW k \in Nat, k + 1 <= Len(DecodeFields(f)),
         f.type = "STREAM" => k + 1 <= 3, NEW r, ReadyOrStopped(f, buf, r, k)
  PROVE  ReadyOrStopped(f, buf, Read(buf, beyond, flags, r, DecodeFields(f)[k + 1]), k + 1)
  <1> DEFINE i == k + 1
             field == DecodeFields(f)[i]
             next_ == Read(buf, beyond, flags, r, field)
             used == Pos(f)[i]
  <1>1. /\ i \in 1 .. Len(DecodeFields(f)) /\ i \in 1 .. Fields(f) /\ k < Fields(f)
        /\ Fields(f) \in 0 .. Fields(f) /\ i \in 0 .. Fields(f) /\ k \in 0 .. Fields(f)
    BY DecodeFacts, FrameShape
  <1>2. /\ field.kind = FieldKind(f, i) /\ field.kind # "one"
        /\ field.kind = "raw" => f.type = "PATH"
        /\ Checked(f.type, field.check, i)
        /\ f.type = "NEW_CONNID" => field.check = "none"
    <2>1. ~ (f.type = "STREAM" /\ i = 4)
      OBVIOUS
    <2> HIDE DEF i
    <2> QED
      BY <1>1, <2>1, DecodeFacts DEF DecodeShape, FieldKind
  <1>3. CASE r = Ready(f, k)
    <2>1. next_ = ReadSoFar(f, i, GivesUp(used, Len(buf), field.check))
      <3>1. PICK x : x = field
        OBVIOUS
      <3>2. x.kind = FieldKind(f, k + 1) /\ x.kind # "one" /\ (x.kind = "raw" => f.type = "PATH")
        BY <1>2, <3>1
      <3>3. Read(buf, beyond, flags, Ready(f, k), x)
              = ReadSoFar(f, k + 1, GivesUp(Pos(f)[k + 1], Len(buf), x.check))
        BY <1>1, <3>2, StepRead
      <3> QED
        BY <1>3, <3>1, <3>3
    <2> HIDE DEF next_
    <2>2. CASE GivesUp(used, Len(buf), field.check)
      <3>1. Len(buf) \in Int /\ Size(f) <= Len(buf)
        BY DEF Holds
      <3>2. Bare(f) /\ Size(f) = Len(buf)
        <4>1. PICK check : check = field.check
          OBVIOUS
        <4>2. PICK j \in 1 .. Fields(f) : j = i
          BY <1>1
        <4>3. PICK room \in Int : room = Len(buf)
          BY <3>1
        <4>4. Checked(f.type, check, j) /\ GivesUp(Pos(f)[j], room, check) /\ Size(f) <= room
          BY <1>2, <2>2, <3>1, <4>1, <4>2, <4>3
        <4> QED
          BY <4>3, <4>4, GiveUpBare
      <3>3. f.type # "NEW_CONNID"
        BY <1>2, <2>2 DEF GivesUp
      <3>4. next_ = [used |-> used, values |-> Taken(f, i), failed |-> TRUE]
        <4>1. GivesUp(used, Len(buf), field.check) = TRUE
          BY <2>2 DEF GivesUp
        <4> QED
          BY <2>1, <4>1 DEF ReadSoFar
      <3> QED
        BY <3>2, <3>3, <3>4 DEF Stopped, ReadyOrStopped, next_
    <2>3. CASE ~ GivesUp(used, Len(buf), field.check)
      <3>1. GivesUp(used, Len(buf), field.check) = FALSE
        BY <2>3 DEF GivesUp
      <3>2. next_ = Ready(f, i)
        BY <2>1, <3>1 DEF ReadSoFar, Ready
      <3> QED
        BY <3>2 DEF ReadyOrStopped, next_
    <2> QED
      BY <2>2, <2>3
  <1>4. CASE Stopped(f, buf, r)
    <2>1. r.failed = TRUE
      BY <1>4 DEF Stopped
    <2>2. next_ = r
      BY <2>1 DEF Read
    <2> QED
      BY <1>4, <2>2 DEF ReadyOrStopped
  <1> QED
    BY <1>3, <1>4 DEF ReadyOrStopped

LEMMA SomeRead ==
  ASSUME NEW f \in FrameSet, f.type # "RESET", NEW buf, NEW flags, Holds(f, buf, flags),
         NEW beyond, NEW m \in Nat, NEW n \in Nat, n = Len(DecodeFields(f)), m <= n,
         f.type = "STREAM" => m <= 3,
         NEW r, ReadsInSteps(r, f.type, flags, buf, beyond, n)
  PROVE  ReadyOrStopped(f, buf, r[m], m)
  <1> DEFINE P == {k \in Nat : k <= m => ReadyOrStopped(f, buf, r[k], k)}
  <1>1. r[0] = Start /\ \A k \in 1 .. n : r[k] = Read(buf, beyond, flags, r[k - 1], DecodeFields(f)[k])
    BY DEF ReadsInSteps, DecodeFields
  <1>2. 0 \in P
    <2>1. Pos(f)[0] = 0 /\ Taken(f, 0) = <<>>
      BY OffsetFacts DEF Taken
    <2>2. r[0] = Ready(f, 0)
      BY <1>1, <2>1 DEF Start, Ready
    <2> QED
      BY <2>2 DEF ReadyOrStopped
  <1>3. ASSUME NEW k \in Nat, k \in P PROVE k + 1 \in P
    <2> SUFFICES ASSUME k + 1 <= m PROVE ReadyOrStopped(f, buf, r[k + 1], k + 1)
      OBVIOUS
    <2>1. /\ k <= m /\ k + 1 \in 1 .. n /\ (k + 1) - 1 = k /\ k + 1 <= Len(DecodeFields(f))
          /\ f.type = "STREAM" => k + 1 <= 3
      OBVIOUS
    <2>2. ReadyOrStopped(f, buf, r[k], k)
      BY <1>3, <2>1
    <2>3. r[k + 1] = Read(buf, beyond, flags, r[k], DecodeFields(f)[k + 1])
      BY <1>1, <2>1
    <2>4. PICK s : s = r[k]
      OBVIOUS
    <2>5. ReadyOrStopped(f, buf, Read(buf, beyond, flags, s, DecodeFields(f)[k + 1]), k + 1)
      BY <2>1, <2>2, <2>4, OneRead
    <2> QED
      BY <2>3, <2>4, <2>5
  <1> HIDE DEF P
  <1>4. m \in P
    BY <1>2, <1>3, SetInduction
  <1> QED
    BY <1>4 DEF P

(* A decoder that is given a frame, whatever stands behind it, either      *)
(* reads all of it, and as it was sent, or refuses a bare frame at the end *)
(* of the packet.                                                          *)
ReadOrBare(f, buf, d) ==
  /\ d.failed \in BOOLEAN
  /\ d.failed = TRUE => Bare(f) /\ Size(f) = Len(buf)
  /\ d.failed = FALSE =>
       /\ f.type \notin {"RESET", "NEW_CONNID"} =>
            d.used = IF Unbounded(f) THEN Len(buf) ELSE Size(f)
       /\ f.type # "RESET" =>
            \/ d.values = f.values
            \/ f.type = "NEW_CONNID" /\ d.values = <<f.values[1]>>
            \/ Unbounded(f) /\ Len(buf) > Size(f)

LEMMA FrameRead ==
  ASSUME NEW f \in FrameSet, NEW buf, NEW flags, Holds(f, buf, flags), NEW beyond
  PROVE  ReadOrBare(f, buf, FrameDecode(f.type, flags, buf, beyond))
  <1> DEFINE n == Len(DecodeFields(f))
             d == FrameDecode(f.type, flags, buf, beyond)
  <1>1. n \in 1 .. Fields(f) /\ n \in Nat
    BY DecodeFacts, FrameShape
  <1>2. PICK r : ReadsInSteps(r, f.type, flags, buf, beyond, n)
    <2>1. PICK m \in Nat : m = n
      BY <1>1
    <2>2. Len(Codecs[f.type].decode) = m
      BY <2>1 DEF DecodeFields
    <2>3. \E r : ReadsInSteps(r, f.type, flags, buf, beyond, m)
      BY <2>2, ReadSteps
    <2> QED
      BY <2>1, <2>3
  <1>3. d = Finished(f.type, r[n])
    BY <1>2 DEF ReadsInSteps
  <1> HIDE DEF d
  <1>4. CASE f.type = "RESET"
    <2>1. \A k \in 1 .. n : DecodeFields(f)[k].check = "none"
      BY <1>4, DecodeFacts DEF DecodeShape
    <2>2. /\ r[0] = Start
          /\ \A k \in 1 .. n : r[k] = Read(buf, beyond, flags, r[k - 1], DecodeFields(f)[k])
      BY <1>2 DEF ReadsInSteps, DecodeFields
    <2> DEFINE P == {k \in Nat : k <= n => r[k].failed = FALSE}
    <2>3. 0 \in P
      BY <2>2 DEF Start
    <2>4. ASSUME NEW k \in Nat, k \in P PROVE k + 1 \in P
      <3>1. ASSUME k + 1 <= n PROVE r[k + 1].failed = FALSE
        <4>1. k + 1 \in 1 .. n /\ (k + 1) - 1 = k /\ k <= n
          BY <1>1, <3>1
        <4> DEFINE field == DecodeFields(f)[k + 1]
        <4>2. r[k].failed = FALSE /\ field.check = "none"
              /\ r[k + 1] = Read(buf, beyond, flags, r[k], field)
          BY <2>1, <2>2, <2>4, <4>1
        <4> HIDE DEF field
        <4>3. \A x, room : GivesUp(x, room, field.check) = FALSE
          BY <4>2 DEF GivesUp
        <4> QED
          BY <4>2, <4>3 DEF Read
      <3>2. k + 1 \in Nat
        OBVIOUS
      <3> QED
        BY <3>1, <3>2
    <2> HIDE DEF P
    <2>5. n \in P
      BY <1>1, <2>3, <2>4, SetInduction
    <2>6. r[n].failed = FALSE
      BY <1>1, <2>5 DEF P
    <2>7. d = r[n]
      BY <1>3, <1>4 DEF Finished
    <2> QED
      BY <1>4, <2>6, <2>7 DEF ReadOrBare, d
  <1>5. CASE f.type = "STREAM"
    <2>1. Fields(f) = 4 /\ n = 4
      BY <1>5, DecodeFacts, StreamShape DEF StreamKinds
    <2>2. PICK m \in Nat : m = 3
      OBVIOUS
    <2>3. ReadyOrStopped(f, buf, r[3], 3)
      <3>1. PICK q \in Nat : q = n /\ q = Len(DecodeFields(f)) /\ m <= q
        BY <2>1, <2>2
      <3>2. ReadsInSteps(r, f.type, flags, buf, beyond, q)
        BY <1>2, <3>1
      <3>3. f.type = "STREAM" => m <= 3
        BY <2>2
      <3>4. ReadyOrStopped(f, buf, r[m], m)
        BY <1>5, <3>1, <3>2, <3>3, SomeRead
      <3> QED
        BY <2>2, <3>4
    <2> DEFINE last == DecodeFields(f)[4]
    <2>4. r[4] = Read(buf, beyond, flags, r[3], last)
      <3>1. 4 \in 1 .. n /\ 4 - 1 = 3
        BY <2>1
      <3> QED
        BY <1>2, <3>1 DEF ReadsInSteps, DecodeFields
    <2>5. last = Rest("none")
      BY <1>5 DEF DecodeFields, Codecs, Stream
    <2>6. CASE r[3] = Ready(f, 3)
      <3>1. PICK check : check = "none"
        OBVIOUS
      <3>2. TailRead(f, buf, Finished("STREAM", Read(buf, beyond, flags, Ready(f, 3), Rest(check))))
        BY <1>5, <3>1, StreamRead
      <3>3. TailRead(f, buf, d)
        BY <1>3, <1>5, <2>1, <2>4, <2>5, <2>6, <3>1, <3>2
      <3> QED
        BY <1>5, <3>3 DEF TailRead, ReadOrBare, d
    <2>7. CASE Stopped(f, buf, r[3])
      <3>1. PICK used, values : r[3] = [used |-> used, values |-> values, failed |-> TRUE]
        BY <2>7 DEF Stopped
      <3>2. r[4] = r[3]
        BY <2>4, <3>1 DEF Read
      <3>3. d.failed = TRUE
        BY <1>3, <1>5, <2>1, <3>1, <3>2 DEF Finished
      <3> QED
        BY <2>7, <3>3 DEF Stopped, ReadOrBare, d
    <2> QED
      BY <2>3, <2>6, <2>7 DEF ReadyOrStopped
  <1>6. CASE f.type \notin {"RESET", "STREAM"}
    <2>1. d = r[n]
      BY <1>3, <1>6 DEF Finished
    <2>2. ReadyOrStopped(f, buf, r[n], n)
      <3>1. PICK q \in Nat : q = n /\ q = Len(DecodeFields(f)) /\ q <= q
        BY <1>1
      <3>2. ReadsInSteps(r, f.type, flags, buf, beyond, q)
        BY <1>2, <3>1
      <3>3. f.type # "RESET" /\ (f.type = "STREAM" => q <= 3)
        BY <1>6
      <3>4. ReadyOrStopped(f, buf, r[q], q)
        BY <3>1, <3>2, <3>3, SomeRead
      <3> QED
        BY <3>1, <3>4
    <2>3. CASE d = Ready(f, n)
      <3>1. n \in 0 .. Fields(f)
        BY <1>1, FrameShape
      <3>2. d.failed = FALSE /\ d.used = Pos(f)[n] /\ d.values = Taken(f, n)
        BY <2>3 DEF Ready
      <3>3. ~ Unbounded(f)
        BY <1>6 DEF Unbounded
      <3>4. CASE f.type = "NEW_CONNID"
        <4>1. n = 1
          BY <3>4, DecodeFacts
        <4>2. d.values = <<f.values[1]>>
          BY <3>2, <4>1 DEF Taken
        <4> QED
          BY <3>2, <3>4, <4>2 DEF ReadOrBare, d
      <3>5. CASE f.type # "NEW_CONNID"
        <4>1. n = Fields(f)
          BY <3>5, DecodeFacts
        <4>2. d.values = f.values /\ d.used = Size(f)
          BY <3>1, <3>2, <4>1, TakenFacts, OffsetFacts
        <4> QED
          BY <3>2, <3>3, <4>2 DEF ReadOrBare, d
      <3> QED
        BY <3>4, <3>5
    <2>4. CASE Stopped(f, buf, d)
      BY <2>4 DEF Stopped, ReadOrBare, d
    <2> QED
      BY <2>1, <2>2, <2>3, <2>4 DEF ReadyOrStopped
  <1> QED
    BY <1>4, <1>5, <1>6

-----------------------------------------------------------------------------
(* The inductive invariant.                                                *)

SentFrames ==
  [frame : FrameSet, typeByte : [flags : SUBSET {2, 3}, fin : BOOLEAN],
   from : Nat, to : Nat]

PayloadTypeOK ==
  /\ capacity \in 0 .. Word - 1 /\ junk \in 0 .. Byte - 1
  /\ packet \in Seq(0 .. Byte - 1) /\ Len(packet) <= capacity
  /\ sent \in Seq(SentFrames)
  /\ next \in Nat /\ fin \in BOOLEAN

(* A frame that was put into the buffer is found behind its type byte.     *)
InPlace(e, buf) ==
  /\ e.from # 0 /\ e.to = e.from + Size(e.frame) /\ e.to <= Len(buf)
  /\ e.frame.type # "RESET" => Stands(e.frame, buf, e.from)

(* Its type byte tells which optional fields it has, and no end of stream  *)
(* that the frame does not have.                                           *)
Announced(e) ==
  /\ e.frame.type = "STREAM" => e.typeByte.flags = {i \in {2, 3} : e.frame.values[i] # 0}
  /\ e.typeByte.fin = TRUE => e.frame.fin = TRUE

Put(e, buf) == InPlace(e, buf) /\ Announced(e)

PacketBuilt ==
  /\ \A i \in 1 .. Len(sent) : Put(sent[i], packet)
  /\ \A i \in 1 .. Len(sent) : i < Len(sent) => sent[i].to < Len(packet)

(* The ends of streams that are in the packet.                             *)
EndsKnown ==
  \A i \in 1 .. Len(sent) :
    sent[i].frame.fin = TRUE => StreamOf(sent[i].frame) \subseteq ended

(* Nothing is heard of a packet that has not left, and the end of a stream *)
(* leaves with the packet it is in.                                        *)
HeardLater ==
  /\ next = 0 => heard = None
  /\ next # 0 => EndsKnown
  /\ fin = TRUE => ended \cap streams # {}

PayloadInv == PayloadTypeOK /\ PacketBuilt /\ RefusedOnlyBare /\ HeardLater

(* The bytes of a frame that are copied elsewhere stand there.             *)
LEMMA StandsMoved ==
  ASSUME NEW f \in FrameSet, NEW buf, NEW from \in Nat, Stands(f, buf, from),
         NEW other, NEW to \in Nat,
         \A x \in 1 .. Size(f) : other[to + x] = buf[from + x]
  PROVE  Stands(f, other, to)
  <1>1. Fields(f) \in Nat
    BY FrameShape
  <1>2. SUFFICES ASSUME NEW j \in 1 .. Fields(f), NEW l \in 1 .. SizeOf(f, j)
        PROVE  other[to + Pos(f)[j - 1] + l] = BytesOf(f, j)[l]
    BY DEF Stands, StandsUpTo
  <1>3. SizeOf(f, j) \in Nat /\ Pos(f)[j] = Pos(f)[j - 1] + SizeOf(f, j)
    BY OffsetFacts, FieldFacts
  <1>4. /\ Pos(f)[j - 1] \in Nat /\ Pos(f)[j] \in Nat
        /\ Pos(f)[j] <= Size(f) /\ Size(f) \in Nat
    <2>1. PICK n \in 0 .. Fields(f) : n = Fields(f)
      BY <1>1
    <2>2. PICK i \in 0 .. n : i = j - 1
      BY <1>1, <2>1
    <2>3. PICK k \in 0 .. n : k = j
      BY <1>1, <2>1
    <2>4. Pos(f)[i] \in Nat /\ Pos(f)[k] \in Nat /\ Pos(f)[k] <= Pos(f)[n] /\ Pos(f)[n] \in Nat
      BY <2>1, <2>2, <2>3, OffsetsGrow
    <2>5. Size(f) = Pos(f)[n]
      BY <2>1, OffsetFacts
    <2> QED
      BY <2>2, <2>3, <2>4, <2>5
  <1>5. PICK x \in 1 .. Size(f) : x = Pos(f)[j - 1] + l
    BY <1>3, <1>4
  <1>6. other[to + x] = buf[from + x]
    OBVIOUS
  <1>7. buf[from + Pos(f)[j - 1] + l] = BytesOf(f, j)[l]
    BY DEF Stands, StandsUpTo
  <1>8. /\ to + x = to + Pos(f)[j - 1] + l
        /\ from + x = from + Pos(f)[j - 1] + l
    BY <1>4, <1>5
  <1> QED
    BY <1>6, <1>7, <1>8

LEMMA InitPayload ==
  ASSUME Init
  PROVE  PayloadInv
  <1>1. capacity \in 0 .. Word - 1 /\ junk \in 0 .. Byte - 1
    BY BufferAssumption DEF Init
  <1>2. /\ packet = <<>> /\ sent = <<>> /\ next = 0 /\ refused = None /\ heard = None
        /\ fin = FALSE
    BY DEF Init
  <1>3. capacity \in Nat
    BY <1>1, WordType
  <1>4. packet \in Seq(0 .. Byte - 1) /\ Len(packet) = 0
    BY <1>2
  <1>5. sent \in Seq(SentFrames) /\ Len(sent) = 0
    BY <1>2
  <1>6. PayloadTypeOK
    <2>1. Len(packet) <= capacity
      BY <1>3, <1>4
    <2>2. next \in Nat /\ fin \in BOOLEAN
      BY <1>2
    <2> QED
      BY <1>1, <1>4, <1>5, <2>1, <2>2 DEF PayloadTypeOK
  <1>7. PacketBuilt
    BY <1>5 DEF PacketBuilt
  <1> QED
    BY <1>2, <1>6, <1>7 DEF PayloadInv, RefusedOnlyBare, HeardLater

(* What the caller puts behind the type byte, and what is left of it.      *)
LEMMA PutKeeps ==
  ASSUME PayloadInv, NEW f \in FrameSet, NEW typeByte \in TypeBytes(f), PutFrame(f, typeByte)
  PROVE  PayloadInv'
  <1> DEFINE room == capacity - Len(packet) - 1
             bytes == FrameEncode(f.type, f.values, room, junk)
             B == 0 .. Byte - 1
             from == Len(packet) + 1
             e == [frame |-> f, typeByte |-> typeByte, from |-> from, to |-> from + Len(bytes)]
  <1>1. /\ next = 0 /\ Size(f) <= room
        /\ IF bytes = <<>>
           THEN refused' = [result |-> f, room |-> room] /\ sent' = sent /\ packet' = packet
           ELSE sent' = Append(sent, e) /\ packet' = packet \o <<0>> \o bytes /\ refused' = None
        /\ capacity' = capacity /\ junk' = junk /\ next' = next /\ heard' = heard
        /\ fin' = fin /\ ended' = ended /\ streams' = streams
    BY DEF PutFrame, Size
  <1>2. /\ capacity \in 0 .. Word - 1 /\ junk \in B
        /\ packet \in Seq(B) /\ Len(packet) <= capacity
        /\ sent \in Seq(SentFrames)
        /\ fin \in BOOLEAN
    BY DEF PayloadInv, PayloadTypeOK
  <1>3. Len(packet) \in Nat /\ capacity \in Nat /\ Len(sent) \in Nat /\ room \in Int
    BY <1>2, WordType
  <1>4. WrittenOrBare(f, bytes, room)
    <2> HIDE DEF room
    <2> QED
      BY <1>1, <1>2, <1>3, FrameWritten
  <1>6. heard = None /\ (fin = TRUE => ended \cap streams # {})
    BY <1>1 DEF PayloadInv, HeardLater
  <1>7. HeardLater'
    BY <1>1, <1>6 DEF HeardLater
  <1>8. PacketBuilt
    BY DEF PayloadInv
  <1>9. CASE bytes = <<>>
    <2>1. sent' = sent /\ packet' = packet /\ refused' = [result |-> f, room |-> room]
      BY <1>1, <1>9
    <2>2. PayloadTypeOK'
      BY <1>1, <1>2, <2>1 DEF PayloadInv, PayloadTypeOK
    <2>3. PacketBuilt'
      BY <1>8, <2>1 DEF PacketBuilt
    <2>4. RefusedOnlyBare'
      <3>1. Bare(f) /\ Size(f) = room
        BY <1>4, <1>9 DEF WrittenOrBare
      <3> HIDE DEF room
      <3> QED
        BY <2>1, <3>1 DEF RefusedOnlyBare, Size
    <2> QED
      BY <1>7, <2>2, <2>3, <2>4 DEF PayloadInv
  <1>10. CASE bytes # <<>>
    <2>1. sent' = Append(sent, e) /\ packet' = packet \o <<0>> \o bytes /\ refused' = None
      BY <1>1, <1>10
    <2>2. /\ bytes \in Seq(B) /\ Len(bytes) = Size(f) /\ Size(f) \in Nat \ {0}
          /\ f.type # "RESET" => Stands(f, bytes, 0)
      BY <1>4, <1>10, SizePositive DEF WrittenOrBare
    <2> HIDE DEF bytes
    <2>3. /\ packet' \in Seq(B) /\ Len(packet') = Len(packet) + 1 + Size(f)
          /\ \A x \in 1 .. Len(packet) : packet'[x] = packet[x]
          /\ \A x \in 1 .. Size(f) : packet'[from + x] = bytes[x]
      <3>1. <<0>> \in Seq(B) /\ Len(<<0>>) = 1
        <4>1. 0 \in B
          BY ByteType
        <4> HIDE DEF B
        <4> QED
          BY <4>1
      <3> DEFINE behind == packet \o <<0>>
      <3> HIDE DEF B
      <3>2. /\ behind \in Seq(B) /\ Len(behind) = Len(packet) + 1
            /\ \A x \in 1 .. Len(packet) : behind[x] = packet[x]
        BY <1>2, <1>3, <3>1, ConcatProperties
      <3> HIDE DEF behind
      <3>3. /\ behind \o bytes \in Seq(B) /\ Len(behind \o bytes) = Len(behind) + Len(bytes)
            /\ \A x \in 1 .. Len(behind) + Len(bytes) :
                 (behind \o bytes)[x] = IF x <= Len(behind) THEN behind[x] ELSE bytes[x - Len(behind)]
        BY <2>2, <3>2, ConcatProperties
      <3>4. packet' = behind \o bytes
        BY <2>1 DEF behind
      <3>5. ASSUME NEW x \in 1 .. Len(packet) PROVE packet'[x] = packet[x]
        <4>1. x \in 1 .. Len(behind) + Len(bytes) /\ x <= Len(behind)
          BY <1>3, <2>2, <3>2
        <4> QED
          BY <3>2, <3>3, <3>4, <4>1
      <3>6. ASSUME NEW x \in 1 .. Size(f) PROVE packet'[from + x] = bytes[x]
        <4>1. /\ from + x \in 1 .. Len(behind) + Len(bytes) /\ ~ (from + x <= Len(behind))
              /\ (from + x) - Len(behind) = x
          BY <1>3, <2>2, <3>2
        <4> QED
          BY <3>3, <3>4, <4>1
      <3> QED
        BY <1>3, <2>2, <3>2, <3>3, <3>4, <3>5, <3>6
    <2>4. /\ e \in SentFrames /\ e.frame = f /\ e.typeByte = typeByte
          /\ e.from = from /\ e.to = from + Size(f) /\ Announced(e)
      <3>1. typeByte \in [flags : SUBSET {2, 3}, fin : BOOLEAN] /\ f.fin \in BOOLEAN
            /\ (f.type = "STREAM" => typeByte.flags = {i \in {2, 3} : f.values[i] # 0})
            /\ (typeByte.fin = TRUE => f.fin = TRUE)
        <4>1. f.fin \in BOOLEAN
          BY FrameShape
        <4>2. CASE f.type # "STREAM"
          <5>1. typeByte = [flags |-> {}, fin |-> FALSE]
            BY <4>2 DEF TypeBytes
          <5>2. {} \in SUBSET {2, 3} /\ FALSE \in BOOLEAN /\ FALSE # TRUE
            OBVIOUS
          <5>3. typeByte.fin = FALSE
            BY <5>1
          <5> QED
            BY <4>1, <4>2, <5>1, <5>2, <5>3
        <4>3. CASE f.type = "STREAM"
          <5> DEFINE set == {i \in {2, 3} : f.values[i] # 0}
          <5>1. typeByte = [flags |-> set, fin |-> f.fin]
                \/ typeByte = [flags |-> set, fin |-> f.fin # f.fin]
            BY <4>3 DEF TypeBytes, TypeByte
          <5>2. set \in SUBSET {2, 3}
            OBVIOUS
          <5> HIDE DEF set
          <5>3. (f.fin # f.fin) = FALSE
            OBVIOUS
          <5>4. PICK end \in {f.fin, FALSE} : typeByte = [flags |-> set, fin |-> end]
            BY <5>1, <5>3
          <5>5. end \in BOOLEAN /\ (end = TRUE => f.fin = TRUE)
            BY <4>1
          <5>6. typeByte.flags = set /\ typeByte.fin = end
            BY <5>4
          <5> QED
            BY <4>1, <5>2, <5>4, <5>5, <5>6 DEF set
        <4> QED
          BY <4>2, <4>3
      <3>2. from \in Nat /\ from + Len(bytes) \in Nat
        BY <1>3, <2>2
      <3>3. e \in SentFrames
        BY <3>1, <3>2 DEF SentFrames
      <3>4. e.frame = f /\ e.typeByte = typeByte /\ e.from = from /\ e.to = from + Size(f)
        BY <2>2
      <3> HIDE DEF e
      <3> QED
        BY <3>1, <3>3, <3>4 DEF Announced
    <2> HIDE DEF e
    <2>5. /\ sent' \in Seq(SentFrames) /\ Len(sent') = Len(sent) + 1
          /\ sent'[Len(sent) + 1] = e /\ \A i \in 1 .. Len(sent) : sent'[i] = sent[i]
      BY <1>2, <2>1, <2>4, AppendElements
    <2>6. PayloadTypeOK'
      <3>1. Len(packet') <= capacity
        <4>1. Size(f) <= room /\ Size(f) \in Nat /\ Len(packet') = Len(packet) + 1 + Size(f)
          BY <1>1, <2>2, <2>3
        <4> QED
          BY <1>3, <4>1
      <3> QED
        BY <1>1, <1>2, <2>3, <2>5, <3>1 DEF PayloadInv, PayloadTypeOK
    <2>7. Put(e, packet')
      <3>1. from # 0 /\ from \in Nat /\ from + Size(f) <= Len(packet')
        <4>1. Size(f) \in Nat /\ Len(packet') = Len(packet) + 1 + Size(f)
          BY <2>2, <2>3
        <4> QED
          BY <1>3, <4>1
      <3>2. f.type # "RESET" => Stands(f, packet', from)
        <4> SUFFICES ASSUME f.type # "RESET" PROVE Stands(f, packet', from)
          OBVIOUS
        <4>1. PICK zero \in Nat : zero = 0
          OBVIOUS
        <4>2. Stands(f, bytes, zero) /\ \A x \in 1 .. Size(f) : zero + x = x
          BY <2>2, <4>1
        <4>3. \A x \in 1 .. Size(f) : packet'[from + x] = bytes[zero + x]
          BY <2>3, <4>2
        <4> HIDE DEF from
        <4> QED
          BY <3>1, <4>2, <4>3, StandsMoved
      <3> QED
        BY <2>4, <3>1, <3>2 DEF Put, InPlace
    <2>8. ASSUME NEW i \in 1 .. Len(sent) PROVE Put(sent[i], packet') /\ sent[i].to < Len(packet')
      <3>1. Put(sent[i], packet) /\ sent[i] \in SentFrames
        BY <1>2, <1>8 DEF PacketBuilt
      <3> DEFINE s == sent[i]
      <3> HIDE DEF s
      <3>2. /\ s.frame \in FrameSet /\ s.from \in Nat /\ s.to \in Nat
            /\ InPlace(s, packet) /\ Announced(s)
        BY <3>1 DEF SentFrames, Put, s
      <3>3. Size(s.frame) \in Nat
        BY <3>2, SizePositive
      <3>4. s.to = s.from + Size(s.frame) /\ s.to <= Len(packet)
        BY <3>2 DEF InPlace
      <3>5. s.frame.type # "RESET" => Stands(s.frame, packet', s.from)
        <4>1. ASSUME NEW x \in 1 .. Size(s.frame) PROVE s.from + x \in 1 .. Len(packet)
          <5>1. x \in Nat /\ x >= 1 /\ x <= Size(s.frame)
            BY <3>3
          <5>2. PICK a \in Nat : a = s.from
            BY <3>2
          <5>3. PICK n \in Nat : n = Size(s.frame)
            BY <3>3
          <5>4. PICK m \in Nat : m = Len(packet)
            BY <1>3
          <5>5. a + n <= m
            BY <3>4, <5>2, <5>3, <5>4
          <5>6. a + x \in 1 .. m
            BY <5>1, <5>3, <5>5
          <5> QED
            BY <5>2, <5>4, <5>6
        <4>2. \A x \in 1 .. Size(s.frame) : packet'[s.from + x] = packet[s.from + x]
          BY <2>3, <4>1
        <4>3. s.frame.type # "RESET" => Stands(s.frame, packet, s.from)
          BY <3>2 DEF InPlace
        <4> QED
          BY <3>2, <4>2, <4>3, StandsMoved
      <3>6. s.to < Len(packet')
        BY <1>3, <2>2, <2>3, <3>2, <3>4
      <3>7. InPlace(s, packet')
        <4>1. s.to <= Len(packet')
          BY <1>3, <2>2, <2>3, <3>2, <3>4
        <4> QED
          BY <3>2, <3>5, <4>1 DEF InPlace
      <3> QED
        BY <3>2, <3>6, <3>7 DEF Put, s
    <2>9. PacketBuilt'
      <3>1. ASSUME NEW i \in 1 .. Len(sent') PROVE i \in 1 .. Len(sent) \/ i = Len(sent) + 1
        BY <1>3, <2>5
      <3>2. \A i \in 1 .. Len(sent') : Put(sent'[i], packet')
        BY <2>5, <2>7, <2>8, <3>1
      <3>3. ASSUME NEW i \in 1 .. Len(sent'), i < Len(sent') PROVE sent'[i].to < Len(packet')
        <4>1. i \in 1 .. Len(sent)
          BY <1>3, <2>5, <3>3
        <4> QED
          BY <2>5, <2>8, <4>1
      <3> QED
        BY <3>2, <3>3 DEF PacketBuilt
    <2>10. RefusedOnlyBare'
      BY <2>1 DEF RefusedOnlyBare
    <2> QED
      BY <1>7, <2>6, <2>9, <2>10 DEF PayloadInv
  <1> QED
    BY <1>9, <1>10

LEMMA SendKeeps ==
  ASSUME PayloadInv, SendPacket
  PROVE  PayloadInv'
  <1> DEFINE ending == {j \in DOMAIN sent : sent[j].frame.fin}
             left == {StreamOf(sent[i].frame) : i \in ending}
  <1>1. /\ next' = 1 /\ refused' = None
        /\ ended' = ended \cup UNION left
        /\ capacity' = capacity /\ junk' = junk /\ sent' = sent /\ packet' = packet
        /\ heard' = heard /\ fin' = fin /\ streams' = streams
    BY DEF SendPacket
  <1>2. /\ PayloadTypeOK /\ PacketBuilt
        /\ fin \in BOOLEAN /\ sent \in Seq(SentFrames)
        /\ (fin = TRUE => ended \cap streams # {})
    BY DEF PayloadInv, PayloadTypeOK, HeardLater
  <1>3. ended \subseteq ended' /\ EndsKnown'
    <2>1. ASSUME NEW i \in 1 .. Len(sent), sent[i].frame.fin = TRUE
          PROVE  StreamOf(sent[i].frame) \subseteq ended'
      <3>1. i \in ending
        BY <1>2, <2>1
      <3>2. StreamOf(sent[i].frame) \in left
        BY <3>1
      <3> HIDE DEF left
      <3> QED
        BY <1>1, <3>2
    <2> HIDE DEF left
    <2>2. EndsKnown'
      BY <1>1, <2>1 DEF EndsKnown, StreamOf
    <2> QED
      BY <1>1, <2>2
  <1> HIDE DEF left, ending
  <1>4. PayloadTypeOK'
    <2>1. next' \in Nat
      BY <1>1
    <2> QED
      BY <1>1, <1>2, <1>3, <2>1 DEF PayloadTypeOK
  <1>5. PacketBuilt'
    BY <1>1, <1>2 DEF PacketBuilt
  <1>6. RefusedOnlyBare'
    BY <1>1 DEF RefusedOnlyBare
  <1>7. HeardLater'
    <2>1. next' # 0
      BY <1>1
    <2>2. fin' = TRUE => ended' \cap streams' # {}
      BY <1>1, <1>2, <1>3
    <2> QED
      BY <1>3, <2>1, <2>2 DEF HeardLater
  <1> QED
    BY <1>4, <1>5, <1>6, <1>7 DEF PayloadInv

LEMMA NextPacketKeeps ==
  ASSUME PayloadInv, NextPacket
  PROVE  PayloadInv' /\ heard' = None
  <1>1. /\ sent' = <<>> /\ packet' = <<>> /\ refused' = None /\ next' = 0 /\ heard' = None
        /\ capacity' \in Capacities /\ junk' \in Junk
        /\ fin' = fin /\ ended' = ended /\ streams' = streams
    BY DEF NextPacket, Fresh
  <1>2. fin \in BOOLEAN /\ (fin = TRUE => ended \cap streams # {})
    BY DEF PayloadInv, PayloadTypeOK, HeardLater
  <1>3. capacity' \in 0 .. Word - 1 /\ junk' \in 0 .. Byte - 1
    BY <1>1, BufferAssumption
  <1>4. capacity' \in Nat
    BY <1>3, WordType
  <1>5. packet' \in Seq(0 .. Byte - 1) /\ Len(packet') = 0 /\ Len(packet') <= capacity'
    BY <1>1, <1>4
  <1>6. sent' \in Seq(SentFrames) /\ Len(sent') = 0
    BY <1>1
  <1>7. PayloadTypeOK'
    <2>1. next' \in Nat
      BY <1>1
    <2> QED
      BY <1>1, <1>2, <1>3, <1>5, <1>6, <2>1 DEF PayloadTypeOK
  <1>8. PacketBuilt'
    BY <1>6 DEF PacketBuilt
  <1>9. RefusedOnlyBare' /\ HeardLater'
    BY <1>1, <1>2 DEF RefusedOnlyBare, HeardLater
  <1> QED
    BY <1>1, <1>7, <1>8, <1>9 DEF PayloadInv

(* The frame the peer stands before is one that was sent, and the rest of  *)
(* the packet holds it.                                                    *)
LEMMA ReadingFacts ==
  ASSUME PayloadInv, Reading
  PROVE  /\ next \in 1 .. Len(sent) /\ Len(sent) \in Nat
         /\ sent[next] \in SentFrames /\ Put(sent[next], packet)
         /\ at + 1 = sent[next].from
         /\ Len(SubSeq(packet, at + 2, Len(packet))) = Len(packet) - sent[next].from
         /\ Holds(sent[next].frame, SubSeq(packet, at + 2, Len(packet)), sent[next].typeByte.flags)
  <1> DEFINE e == sent[next]
             f == e.frame
             B == 0 .. Byte - 1
             buf == SubSeq(packet, at + 2, Len(packet))
  <1>1. sent \in Seq(SentFrames) /\ packet \in Seq(B) /\ Len(packet) <= capacity
        /\ capacity \in 0 .. Word - 1
    BY DEF PayloadInv, PayloadTypeOK
  <1>2. next \in 1 .. Len(sent) /\ Len(sent) \in Nat /\ e \in SentFrames /\ at = e.from - 1
    BY <1>1 DEF Reading
  <1>3. Put(e, packet)
    BY <1>2 DEF PayloadInv, PacketBuilt
  <1> HIDE DEF e
  <1>4. /\ f \in FrameSet /\ e.from \in Nat /\ e.to \in Nat
        /\ e.from # 0 /\ e.to = e.from + Size(f) /\ e.to <= Len(packet)
        /\ f.type # "RESET" => Stands(f, packet, e.from)
        /\ f.type = "STREAM" => e.typeByte.flags = {i \in {2, 3} : f.values[i] # 0}
    BY <1>2, <1>3 DEF Put, InPlace, Announced, SentFrames
  <1>5. PICK a \in Nat : a = e.from
    BY <1>4
  <1>6. PICK n \in Nat : n = Len(packet)
    BY <1>1
  <1>7. Size(f) \in Nat \ {0}
    BY <1>4, SizePositive
  <1>8. a # 0 /\ a + Size(f) <= n /\ at + 2 = a + 1 /\ at + 1 = a /\ a + 1 \in Int
    BY <1>2, <1>4, <1>5, <1>6
  <1>9. /\ Len(buf) = n - a /\ DOMAIN buf = 1 .. n - a
        /\ \A x \in 1 .. n - a : buf[x] = packet[a + x]
    <2> HIDE DEF B, f
    <2>1. a <= Len(packet)
      BY <1>5, <1>6, <1>7, <1>8
    <2>2. buf = SubSeq(packet, a + 1, n)
      BY <1>6, <1>8
    <2>3. /\ Len(SubSeq(packet, a + 1, n)) = n - a
          /\ SubSeq(packet, a + 1, n) \in Seq(B)
          /\ \A x \in 1 .. n - a : SubSeq(packet, a + 1, n)[x] = packet[a + x]
      BY <1>1, <1>6, <2>1, SuffixElements
    <2> HIDE DEF buf
    <2>4. Len(buf) = n - a /\ buf \in Seq(B)
      BY <2>2, <2>3
    <2>5. DOMAIN buf = 1 .. Len(buf)
      BY <2>4
    <2> QED
      BY <2>2, <2>3, <2>4, <2>5
  <1> HIDE DEF buf
  <1>10. n - a \in Nat /\ n - a < Word /\ Size(f) <= n - a
    <2>1. n \in Nat /\ a \in Nat /\ Size(f) \in Nat /\ Word \in Nat /\ n < Word
      BY <1>1, <1>6, <1>7, WordType
    <2> QED
      BY <1>8, <2>1
  <1>11. f.type # "RESET" => Stands(f, buf, 0)
    <2> SUFFICES ASSUME f.type # "RESET" PROVE Stands(f, buf, 0)
      OBVIOUS
    <2>1. PICK zero \in Nat : zero = 0
      OBVIOUS
    <2>2. Stands(f, packet, a)
      BY <1>4, <1>5
    <2>3. ASSUME NEW x \in 1 .. Size(f) PROVE buf[zero + x] = packet[a + x]
      <3>1. x \in 1 .. n - a /\ zero + x = x
        BY <1>7, <1>10, <2>1
      <3> QED
        BY <1>9, <3>1
    <2> HIDE DEF f
    <2>4. Stands(f, buf, zero)
      BY <1>4, <2>2, <2>3, StandsMoved
    <2> QED
      BY <2>1, <2>4
  <1>12. Holds(f, buf, e.typeByte.flags)
    BY <1>4, <1>9, <1>10, <1>11 DEF Holds
  <1> QED
    BY <1>2, <1>3, <1>5, <1>6, <1>8, <1>9, <1>12 DEF e, buf

LEMMA HearKeeps ==
  ASSUME PayloadInv, NEW memory, NEW allocated, HearFrame(memory, allocated)
  PROVE  PayloadInv'
  <1> DEFINE e == sent[next]
             d == FrameDecode(e.frame.type, e.typeByte.flags, SubSeq(packet, at + 2, Len(packet)), memory)
  <1>1. /\ Reading /\ fin' = (fin \/ (e.frame.type = "STREAM" /\ e.typeByte.fin))
        /\ next' = Len(sent) + 1 \/ next' = next + 1
        /\ capacity' = capacity /\ junk' = junk /\ sent' = sent /\ packet' = packet
        /\ refused' = refused /\ ended' = ended
        /\ streams' = streams \cup StreamOf(e.frame)
    <2> HIDE DEF d
    <2> QED
      BY DEF HearFrame, d
  <1>2. next \in 1 .. Len(sent) /\ Len(sent) \in Nat /\ e \in SentFrames /\ Put(e, packet)
    BY <1>1, ReadingFacts
  <1>3. /\ PayloadTypeOK /\ PacketBuilt /\ RefusedOnlyBare
        /\ fin \in BOOLEAN /\ (fin = TRUE => ended \cap streams # {})
    BY DEF PayloadInv, PayloadTypeOK, HeardLater
  <1>4. next # 0 /\ next' \in Nat /\ next' # 0
    BY <1>1, <1>2
  <1>5. EndsKnown /\ EndsKnown'
    <2>1. EndsKnown
      BY <1>4 DEF PayloadInv, HeardLater
    <2> QED
      BY <1>1, <2>1 DEF EndsKnown, StreamOf
  <1>6. fin' \in BOOLEAN /\ (fin' = TRUE => ended' \cap streams' # {})
    <2>1. e.frame.fin = TRUE => StreamOf(e.frame) \subseteq ended
      BY <1>2, <1>5 DEF EndsKnown
    <2> HIDE DEF e
    <2>2. e.typeByte.fin \in BOOLEAN /\ (e.typeByte.fin = TRUE => e.frame.fin = TRUE)
      BY <1>2 DEF SentFrames, Put, Announced
    <2>3. (e.frame.type = "STREAM" /\ e.typeByte.fin) \in BOOLEAN
          /\ ((e.frame.type = "STREAM" /\ e.typeByte.fin) = TRUE => e.typeByte.fin = TRUE)
      BY <2>2
    <2>4. CASE e.frame.type = "STREAM" /\ e.typeByte.fin
      <3>1. StreamOf(e.frame) = {e.frame.values[1]}
        BY <2>4 DEF StreamOf
      <3>2. StreamOf(e.frame) \subseteq ended
        BY <2>1, <2>2, <2>4
      <3>3. e.frame.values[1] \in ended' \cap streams'
        BY <1>1, <3>1, <3>2
      <3>4. fin' \in BOOLEAN
        BY <1>1, <1>3, <2>3
      <3> QED
        BY <3>3, <3>4
    <2>5. CASE ~ (e.frame.type = "STREAM" /\ e.typeByte.fin)
      <3>1. fin' = fin
        BY <1>1, <1>3, <2>3, <2>5
      <3>2. ended \cap streams \subseteq ended' \cap streams'
        BY <1>1
      <3> QED
        BY <1>3, <3>1, <3>2
    <2> QED
      BY <2>4, <2>5
  <1>7. PayloadTypeOK'
    BY <1>1, <1>3, <1>4, <1>6 DEF PayloadTypeOK
  <1>8. PacketBuilt' /\ RefusedOnlyBare'
    BY <1>1, <1>3 DEF PacketBuilt, RefusedOnlyBare
  <1>9. HeardLater'
    BY <1>1, <1>4, <1>5, <1>6 DEF HeardLater
  <1> QED
    BY <1>7, <1>8, <1>9 DEF PayloadInv

(* What the peer reads is what was sent.                                   *)
LEMMA HearTells ==
  ASSUME PayloadInv, NEW memory, NEW allocated \in BOOLEAN, HearFrame(memory, allocated)
  PROVE  FramesHeard' /\ HeardUnlessBare'
  <1> DEFINE e == sent[next]
             f == e.frame
             buf == SubSeq(packet, at + 2, Len(packet))
             d == FrameDecode(f.type, e.typeByte.flags, buf, memory)
  <1>1. /\ Reading /\ sent' = sent /\ packet' = packet
        /\ IF d.failed \/ ~ allocated
           THEN heard' = [result |-> "refused", allocated |-> allocated] /\ at' = at
           ELSE /\ heard' = [result |-> "read", index |-> next, values |-> d.values, fin |-> fin']
                /\ at' = at + 1 + d.used
    <2> HIDE DEF d
    <2> QED
      BY DEF HearFrame, d
  <1>2. /\ next \in 1 .. Len(sent) /\ Len(sent) \in Nat
        /\ e \in SentFrames /\ Put(e, packet) /\ at + 1 = e.from
        /\ Len(buf) = Len(packet) - e.from
        /\ Holds(f, buf, e.typeByte.flags)
    BY <1>1, ReadingFacts
  <1>3. f \in FrameSet /\ e.from \in Nat /\ e.to = e.from + Size(f) /\ e.to \in Nat
    <2> HIDE DEF e
    <2> QED
      BY <1>2 DEF SentFrames, Put, InPlace
  <1>4. ReadOrBare(f, buf, d)
    <2> HIDE DEF buf, f
    <2> QED
      BY <1>2, <1>3, FrameRead DEF f
  <1>5. PICK n \in Nat : n = Len(packet)
    BY DEF PayloadInv, PayloadTypeOK
  <1>6. Size(f) \in Nat
    BY <1>3, SizePositive
  <1> HIDE DEF d, buf
  <1>7. CASE d.failed \/ ~ allocated
    <2>1. heard' = [result |-> "refused", allocated |-> allocated] /\ at' = at
      BY <1>1, <1>7
    <2>2. heard'.result = "refused" /\ heard'.allocated = allocated
      BY <2>1
    <2>3. FramesHeard'
      BY <2>2 DEF FramesHeard, DecodersInStep, HeardAsSent, Got
    <2>4. ASSUME allocated = TRUE PROVE Bare(Last(sent).frame) /\ at = Last(sent).from - 1
      <3>1. d.failed = TRUE
        BY <1>4, <1>7, <2>4 DEF ReadOrBare
      <3>2. Bare(f) /\ Size(f) = Len(buf)
        BY <1>4, <3>1 DEF ReadOrBare
      <3>3. e.to = n
        <4>1. PICK a \in Nat : a = e.from
          BY <1>3
        <4>2. e.to = a + Size(f) /\ Size(f) = n - a
          BY <1>2, <1>3, <1>5, <3>2, <4>1
        <4> QED
          BY <1>5, <1>6, <4>2
      <3>4. next = Len(sent)
        <4>1. next < Len(sent) => sent[next].to < Len(packet)
          BY <1>2 DEF PayloadInv, PacketBuilt
        <4>2. ~ (sent[next].to < Len(packet))
          BY <1>5, <3>3
        <4> QED
          BY <1>2, <4>1, <4>2
      <3>5. Last(sent) = e
        BY <3>4 DEF Last
      <3>6. at \in Int
        BY <1>2, <1>1 DEF Reading, SentFrames
      <3> QED
        BY <1>2, <1>1, <3>2, <3>5 DEF Reading
    <2>5. HeardUnlessBare'
      BY <1>1, <2>1, <2>2, <2>4 DEF HeardUnlessBare
    <2> QED
      BY <2>3, <2>5
  <1>8. CASE ~ (d.failed \/ ~ allocated)
    <2>1. heard' = [result |-> "read", index |-> next, values |-> d.values, fin |-> fin']
          /\ at' = at + 1 + d.used
      BY <1>1, <1>8
    <2>2. heard'.result = "read" /\ heard'.index = next /\ heard'.values = d.values
      BY <2>1
    <2>3. d.failed = FALSE
      BY <1>4, <1>8 DEF ReadOrBare
    <2>4. HeardUnlessBare'
      BY <2>2 DEF HeardUnlessBare
    <2>5. Heard' = e
      BY <1>1, <2>2 DEF Heard
    <2>6. DecodersInStep'
      <3> SUFFICES ASSUME f.type \notin {"RESET", "NEW_CONNID"}
          PROVE  at' = IF Unbounded(f) THEN Len(packet) ELSE e.to
        BY <1>1, <2>5 DEF DecodersInStep
      <3>1. d.used = IF Unbounded(f) THEN Len(buf) ELSE Size(f)
        BY <1>4, <2>3 DEF ReadOrBare
      <3>2. PICK a \in Nat : a = e.from
        BY <1>3
      <3>3. at' = a + d.used
        BY <1>2, <2>1, <3>2
      <3>4. Len(buf) = n - a /\ a + (n - a) = n /\ e.to = a + Size(f)
        BY <1>2, <1>3, <1>5, <3>2
      <3>5. CASE Unbounded(f)
        BY <1>5, <3>1, <3>3, <3>4, <3>5
      <3>6. CASE ~ Unbounded(f)
        BY <3>1, <3>3, <3>4, <3>6
      <3> QED
        BY <3>5, <3>6
    <2>7. HeardAsSent'
      <3> SUFFICES ASSUME f.type # "RESET"
          PROVE  \/ d.values = f.values
                 \/ f.type = "NEW_CONNID" /\ d.values = <<f.values[1]>>
                 \/ Unbounded(f) /\ Len(packet) > e.to
        BY <1>1, <2>2, <2>5 DEF HeardAsSent
      <3>1. \/ d.values = f.values
            \/ f.type = "NEW_CONNID" /\ d.values = <<f.values[1]>>
            \/ Unbounded(f) /\ Len(buf) > Size(f)
        BY <1>4, <2>3 DEF ReadOrBare
      <3>2. Len(buf) > Size(f) => Len(packet) > e.to
        <4>1. PICK a \in Nat : a = e.from
          BY <1>3
        <4>2. Len(buf) = n - a /\ e.to = a + Size(f)
          BY <1>2, <1>3, <1>5, <4>1
        <4> QED
          BY <1>5, <1>6, <4>2
      <3> QED
        BY <3>1, <3>2
    <2> QED
      BY <2>4, <2>6, <2>7 DEF FramesHeard
  <1> QED
    BY <1>7, <1>8

LEMMA NextKeeps ==
  ASSUME PayloadInv, [Next]_vars
  PROVE  PayloadInv'
  <1>1. CASE \E f \in FrameSet : \E typeByte \in TypeBytes(f) : PutFrame(f, typeByte)
    BY <1>1, PutKeeps
  <1>2. CASE SendPacket
    BY <1>2, SendKeeps
  <1>3. CASE \E memory \in Junk, allocated \in {TRUE, ~ MallocFails} : HearFrame(memory, allocated)
    BY <1>3, HearKeeps
  <1>4. CASE NextPacket
    BY <1>4, NextPacketKeeps
  <1>5. CASE UNCHANGED vars
    <2>1. /\ capacity' = capacity /\ junk' = junk /\ sent' = sent /\ packet' = packet
          /\ refused' = refused /\ next' = next /\ heard' = heard /\ fin' = fin
          /\ ended' = ended /\ streams' = streams
      BY <1>5 DEF vars
    <2>2. PayloadTypeOK /\ PacketBuilt /\ RefusedOnlyBare /\ HeardLater
      BY DEF PayloadInv
    <2>3. PayloadTypeOK'
      BY <2>1, <2>2 DEF PayloadTypeOK
    <2>4. PacketBuilt' /\ RefusedOnlyBare' /\ HeardLater'
      BY <2>1, <2>2 DEF PacketBuilt, RefusedOnlyBare, HeardLater, EndsKnown, StreamOf
    <2> QED
      BY <2>3, <2>4 DEF PayloadInv
  <1> QED
    BY <1>1, <1>2, <1>3, <1>4, <1>5 DEF Next

LEMMA NextTells ==
  ASSUME PayloadInv, FramesHeard, HeardUnlessBare, [Next]_vars
  PROVE  FramesHeard' /\ HeardUnlessBare'
  <1>1. ASSUME NEW f \in FrameSet, NEW typeByte \in TypeBytes(f), PutFrame(f, typeByte)
        PROVE  heard' = None
    BY <1>1 DEF PutFrame, PayloadInv, HeardLater
  <1>2. SendPacket => heard' = None
    BY DEF SendPacket, PayloadInv, HeardLater
  <1>3. NextPacket => heard' = None
    BY NextPacketKeeps
  <1>4. CASE heard' = None
    <2>1. heard'.result = "none"
      BY <1>4 DEF None
    <2> QED
      BY <2>1 DEF FramesHeard, DecodersInStep, HeardAsSent, Got, HeardUnlessBare
  <1>5. CASE \E memory \in Junk, allocated \in {TRUE, ~ MallocFails} : HearFrame(memory, allocated)
    <2>1. {TRUE, ~ MallocFails} \subseteq BOOLEAN
      BY FailureAssumption
    <2> QED
      BY <1>5, <2>1, HearTells
  <1>6. CASE UNCHANGED vars
    <2>1. sent' = sent /\ packet' = packet /\ heard' = heard /\ at' = at
      BY <1>6 DEF vars
    <2>2. FramesHeard'
      BY <2>1 DEF FramesHeard, DecodersInStep, HeardAsSent, Got, Heard
    <2>3. HeardUnlessBare'
      BY <2>1 DEF HeardUnlessBare
    <2> QED
      BY <2>2, <2>3
  <1> QED
    BY <1>1, <1>2, <1>3, <1>4, <1>5, <1>6 DEF Next

LEMMA InitTells ==
  ASSUME Init
  PROVE  FramesHeard /\ HeardUnlessBare
  <1>1. heard.result = "none"
    BY DEF Init, None
  <1> QED
    BY <1>1 DEF FramesHeard, DecodersInStep, HeardAsSent, Got, HeardUnlessBare

-----------------------------------------------------------------------------
(* What PayloadInv says holds in every state: buffer and packet have their *)
(* types, every frame put into the packet stands behind its type byte and  *)
(* only the last one ends where the packet ends.                           *)
THEOREM PayloadSound == Spec => []PayloadInv
  <1>1. Init => PayloadInv
    BY InitPayload
  <1>2. PayloadInv /\ [Next]_vars => PayloadInv'
    BY NextKeeps
  <1> QED
    BY <1>1, <1>2, PTL DEF Spec

(* The size function of every frame tells what its encoder uses, and an    *)
(* encoder refuses a frame that fits only if it is bare and fills the      *)
(* buffer to the end.                                                      *)
THEOREM EveryFrameFits == Spec => []FramesFit
  <1>1. PayloadInv => FramesFit
    <2> SUFFICES ASSUME PayloadInv PROVE FramesFit
      OBVIOUS
    <2>1. sent \in Seq(SentFrames)
      BY DEF PayloadInv, PayloadTypeOK
    <2>2. ASSUME NEW i \in DOMAIN sent
          PROVE  sent[i].to - sent[i].from = Size(sent[i].frame)
      <3>1. i \in 1 .. Len(sent) /\ sent[i] \in SentFrames
        BY <2>1
      <3>2. /\ sent[i].frame \in FrameSet /\ sent[i].from \in Nat
            /\ sent[i].to = sent[i].from + Size(sent[i].frame)
        BY <3>1 DEF PayloadInv, PacketBuilt, Put, InPlace, SentFrames
      <3>3. PICK n \in Nat : n = Size(sent[i].frame)
        BY <3>2, SizePositive
      <3>4. PICK a \in Nat : a = sent[i].from
        BY <3>2
      <3>5. sent[i].to = a + n
        BY <3>2, <3>3, <3>4
      <3> QED
        BY <3>3, <3>4, <3>5
    <2>3. SizeExact
      BY <2>2 DEF SizeExact, Size
    <2> QED
      BY <2>3 DEF PayloadInv, FramesFit
  <1> QED
    BY <1>1, PayloadSound, PTL

(* Frames are read one after another where they begin and as they were     *)
(* sent, whatever stands before and behind them and whatever lies behind   *)
(* the packet; RESET, what NEW_CONNECTION_ID leaves unread and a STREAM    *)
(* frame without a length in front of others are the exceptions.           *)
THEOREM EveryFrameHeard == Spec => []FramesHeard
  <1>1. Init => PayloadInv /\ FramesHeard /\ HeardUnlessBare
    BY InitPayload, InitTells
  <1>2. PayloadInv /\ FramesHeard /\ HeardUnlessBare /\ [Next]_vars
        => PayloadInv' /\ FramesHeard' /\ HeardUnlessBare'
    BY NextKeeps, NextTells
  <1> QED
    BY <1>1, <1>2, PTL DEF Spec

(* With memory for its data, a decoder refuses a frame only if that is     *)
(* bare and the last one of its packet.                                    *)
THEOREM OnlyBareUnheard == Spec => []HeardUnlessBare
  <1>1. Init => PayloadInv /\ FramesHeard /\ HeardUnlessBare
    BY InitPayload, InitTells
  <1>2. PayloadInv /\ FramesHeard /\ HeardUnlessBare /\ [Next]_vars
        => PayloadInv' /\ FramesHeard' /\ HeardUnlessBare'
    BY NextKeeps, NextTells
  <1> QED
    BY <1>1, <1>2, PTL DEF Spec

(* A struct stream that is read into again and again tells of an end only  *)
(* if the end of one of the streams whose frames were read into it was     *)
(* sent, for every sequence of packets, lost ones included, and although   *)
(* stream_encode toggles the bit.  Which of them ended it does not tell.   *)
THEOREM EndSentBeforeHeard == Spec => []EndNotInvented
  <1>1. PayloadInv => EndNotInvented
    BY DEF PayloadInv, PayloadTypeOK, HeardLater, EndNotInvented
  <1> QED
    BY <1>1, PayloadSound, PTL

=============================================================================
