-------------------------------- MODULE Frames --------------------------------
(***************************************************************************)
(* The codecs of the frames other than ACK, wire/*.c.  A frame's values,   *)
(* in wire order, are integers and sequences of bytes.  A codec names the  *)
(* kind of each field its three functions (size, encode, decode) go        *)
(* through, and what encoder and decoder check after the field.            *)
(***************************************************************************)
EXTENDS BigEndian, SequencesExt

CONSTANT PathLength   \* 8: bytes of a path challenge

ASSUME PathAssumption == PathLength \in Nat \ {0}

(* The kinds: a variable-length integer; one that is left out when it is   *)
(* 0; two bytes in network order; one byte; bytes of a known length; bytes *)
(* of the length read before, or of what is left if that is 0.  The        *)
(* checks: none; give up when the buffer is overrun; or already when it is *)
(* full.                                                                   *)
Num(check) == [kind |-> "int", check |-> check]
Opt(check) == [kind |-> "opt", check |-> check]
Two(check) == [kind |-> "two", check |-> check]
One(check) == [kind |-> "one", check |-> check]
Raw(check) == [kind |-> "raw", check |-> check]
Data(check) == [kind |-> "data", check |-> check]
Rest(check) == [kind |-> "tail", check |-> check]

GivesUp(used, room, check) ==
  \/ check = "full" /\ used >= room
  \/ check = "over" /\ used > room

-----------------------------------------------------------------------------
Single ==
  [size |-> <<"int">>, encode |-> <<Num("over")>>, decode |-> <<Num("over")>>]

MaxData == Single
MaxStreams == Single
DataBlocked == Single
StreamBlocked == Single
RetireConnid == Single

MaxStreamData ==
  [size |-> <<"int", "int">>,
   encode |-> <<Num("full"), Num("over")>>,
   decode |-> <<Num("over"), Num("over")>>]

StreamDataBlocked == MaxStreamData

Token ==
  [size |-> <<"int", "data">>,
   encode |-> <<Num("none"), Data("none")>>,
   decode |-> <<Num("none"), Data("none")>>]

Crypto ==
  [size |-> <<"int", "int", "data">>,
   encode |-> <<Num("none"), Num("none"), Data("none")>>,
   decode |-> <<Num("none"), Num("none"), Data("none")>>]

StopSending ==
  [size |-> <<"int", "two">>,
   encode |-> <<Num("none"), Two("none")>>,
   decode |-> <<Num("none"), Two("none")>>]

(* Its encoder writes every field at the start of the buffer: ResetBytes.  *)
Reset ==
  [size |-> <<"int", "two", "int">>,
   encode |-> <<>>,
   decode |-> <<Num("none"), Two("none"), Num("none")>>]

ConnClose ==
  [size |-> <<"two", "int", "int", "data">>,
   encode |-> <<Two("full"), Num("full"), Num("full"), Data("none")>>,
   decode |-> <<Two("full"), Num("full"), Num("full"), Data("none")>>]

(* Its decoder reads the sequence number and leaves the rest unread.       *)
NewConnid ==
  [size |-> <<"int", "one", "raw", "raw">>,
   encode |-> <<Num("full"), One("full"), Raw("full"), Raw("over")>>,
   decode |-> <<Num("none")>>]

(* Mutant of Path: the decoder wants another frame behind it.              *)
PathStrict ==
  [size |-> <<"raw">>, encode |-> <<Raw("over")>>, decode |-> <<Raw("full")>>]

Path ==
  [size |-> <<"raw">>, encode |-> <<Raw("over")>>, decode |-> <<Raw("over")>>]

(* Mutant of Stream: the decoder does not skip the data.                   *)
StreamNoData ==
  [size |-> <<"int", "opt", "opt", "data">>,
   encode |-> <<Num("full"), Opt("over"), Opt("over"), Data("over")>>,
   decode |-> <<Num("full"), Opt("over"), Opt("over")>>]

Stream ==
  [size |-> <<"int", "opt", "opt", "data">>,
   encode |-> <<Num("full"), Opt("over"), Opt("over"), Data("over")>>,
   decode |-> <<Num("full"), Opt("over"), Opt("over"), Rest("none")>>]

Codecs ==
  [MAX_DATA |-> MaxData, MAX_STREAMS |-> MaxStreams, DATA_BLOCKED |-> DataBlocked,
   STREAM_BLOCKED |-> StreamBlocked, RETIRE_CONNID |-> RetireConnid,
   MAX_STREAM_DATA |-> MaxStreamData, STREAM_DATA_BLOCKED |-> StreamDataBlocked,
   TOKEN |-> Token, CRYPTO |-> Crypto, STOP_SENDING |-> StopSending, RESET |-> Reset,
   CONN_CLOSE |-> ConnClose, NEW_CONNID |-> NewConnid, PATH |-> Path,
   STREAM |-> Stream]

-----------------------------------------------------------------------------
(* Mutant of FieldSize: fields that may be left out are not counted.       *)
FieldSizeBare(kind, value) ==
  CASE kind = "int" -> VarintSize(value)
    [] kind = "opt" -> 0
    [] kind = "two" -> 2
    [] kind = "one" -> 1
    [] OTHER -> Len(value)

FieldSize(kind, value) ==
  CASE kind = "int" -> VarintSize(value)
    [] kind = "opt" -> IF value = 0 THEN 0 ELSE VarintSize(value)
    [] kind = "two" -> 2
    [] kind = "one" -> 1
    [] OTHER -> Len(value)

(* The size functions: how far the fields of a frame reach, and the last.  *)
Offsets(type, values) ==
  LET kinds == Codecs[type].size
      upto[i \in 0 .. Len(kinds)] ==
        IF i = 0 THEN 0 ELSE upto[i - 1] + FieldSize(kinds[i], values[i])
  IN upto

FrameSize(type, values) == Offsets(type, values)[Len(Codecs[type].size)]

FieldBytes(kind, value) ==
  CASE kind = "int" -> EncodeBytes(value)
    [] kind = "opt" -> IF value = 0 THEN <<>> ELSE EncodeBytes(value)
    [] kind = "two" -> BigEndianEncode(value, 2)
    [] kind = "one" -> <<value>>
    [] OTHER -> value

(* An encoder whose caller has compared the frame's size with the room:    *)
(* the bytes of the fields, or none if it returns 0.                       *)
EncodeFields(fields, values, room) ==
  LET upto[i \in 0 .. Len(fields)] ==
        IF i = 0 THEN <<>> ELSE upto[i - 1] \o FieldBytes(fields[i].kind, values[i])
  IN IF \E i \in DOMAIN fields : GivesUp(Len(upto[i]), room, fields[i].check)
     THEN <<>> ELSE upto[Len(fields)]

(* reset_encode: the fields lie on top of each other, and what they do not *)
(* reach of the frame is what the buffer held.                             *)
ResetBytes(values, junk) ==
  LET layers == <<EncodeBytes(values[3]), BigEndianEncode(values[2], 2), EncodeBytes(values[1])>>
      reach(i) == {k \in 1 .. 3 : i <= Len(layers[k])}
  IN [i \in 1 .. FrameSize("RESET", values) |->
        IF reach(i) = {} THEN junk ELSE layers[Min(reach(i))][i]]

FrameEncode(type, values, room, junk) ==
  IF type = "RESET" THEN ResetBytes(values, junk)
  ELSE EncodeFields(Codecs[type].encode, values, room)

-----------------------------------------------------------------------------
Bytes(buf, used, n, beyond) == [i \in 1 .. n |-> ByteAt(buf, used + i, beyond)]

(* The value of the next field and the length it takes.  flags are the     *)
(* optional fields, by position, that the type byte announces.             *)
Field(buf, beyond, flags, kind, r) ==
  LET int == Decode(buf, r.used, beyond)
      left == Unsigned(Len(buf) - r.used)
      raw(n) == [result |-> n, value |-> Bytes(buf, r.used, n, beyond)]
      pair == Bytes(buf, r.used, 2, beyond)
  IN CASE kind = "int" -> int
       [] kind = "opt" -> IF Len(r.values) + 1 \in flags THEN int
                          ELSE [result |-> 0, value |-> 0]
       [] kind = "two" -> [result |-> 2,
                           value |-> IF left < 2 THEN 0
                                     ELSE BigEndianDecode(0, pair)]
       [] kind = "raw" -> raw(PathLength)
       [] kind = "data" -> raw(Last(r.values))
       [] kind = "tail" -> raw(IF Last(r.values) = 0 THEN left ELSE Last(r.values))

Read(buf, beyond, flags, r, field) ==
  LET d == Field(buf, beyond, flags, field.kind, r)
      used == Unsigned(r.used + d.result)
  IN IF r.failed THEN r
     ELSE [used |-> used, values |-> Append(r.values, d.value),
           failed |-> GivesUp(used, Len(buf), field.check)]

(* A decoder: how far it gets, the values it reads, and whether it         *)
(* returns 0.  stream_decode stores the length of the data it took.        *)
FrameDecode(type, flags, buf, beyond) ==
  LET fields == Codecs[type].decode
      after[k \in 0 .. Len(fields)] ==
        IF k = 0 THEN [used |-> 0, values |-> <<>>, failed |-> FALSE]
        ELSE Read(buf, beyond, flags, after[k - 1], fields[k])
      r == after[Len(fields)]
  IN IF type = "STREAM" /\ Len(r.values) = 4
     THEN [r EXCEPT !.values[3] = Len(r.values[4])] ELSE r
=============================================================================
