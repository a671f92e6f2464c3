-------------------------------- MODULE Headers --------------------------------
(***************************************************************************)
(* The packet headers: wire/long_header.c, wire/short_header.c and         *)
(* wire/version_negotiation.c, with the packet numbers of                  *)
(* util/packet_number.c.  A packet is a sequence of bytes, except that its *)
(* first byte and the byte of the two lengths of connection ids stand as   *)
(* records of their bit fields.                                            *)
(***************************************************************************)
EXTENDS BigEndian, SequencesExt

(* packet_number_t has four bytes.                                         *)
PacketNumbers == 0 .. Power[4] - 1

(* Mutant of PnumLength: the limits are taken for the largest numbers.     *)
PnumLengthLate(p) ==
  CHOOSE n \in 1 .. 4 : p <= Power[n] /\ (n = 1 \/ p > Power[n - 1])

(* packet_number_length                                                    *)
PnumLength(p) ==
  CHOOSE n \in 1 .. 4 : p < Power[n] /\ (n = 1 \/ p >= Power[n - 1])

(* Mutant of PnumDecode: a number ahead by up to a window is kept.         *)
PnumDecodeWide(largest, truncated, n) ==
  LET win == Power[n]
      expected == (largest + 1) % Power[4]
      candidate == (expected - (expected % win)) + truncated
  IN IF candidate <= (expected - win) % Power[4] THEN (candidate + win) % Power[4]
     ELSE IF candidate > (expected + win) % Power[4] /\ candidate > win
     THEN candidate - win ELSE candidate

(* packet_number_decode for n < 4 bytes: for four its window, 1 << 32, is  *)
(* undefined.                                                              *)
PnumDecode(largest, truncated, n) ==
  LET win == Power[n]
      expected == (largest + 1) % Power[4]
      candidate == (expected - (expected % win)) + truncated
  IN IF candidate <= (expected - win) % Power[4] THEN (candidate + win) % Power[4]
     ELSE IF candidate > (expected + win \div 2) % Power[4] /\ candidate > win
     THEN candidate - win ELSE candidate

-----------------------------------------------------------------------------
LONG_HEADER_MAX_SIZE == 54
SHORT_HEADER_MAX_SIZE == 23
VERSION_NEGOTIATION_HEADER_MAX_SIZE == 42

LongTypes == {"INITIAL", "0RTT", "HANDSHAKE", "RETRY"}

Octets == Seq(0 .. Byte - 1)
VersionNumbers == 0 .. Power[4] - 1

(* A connection id has 0 or 4 to 18 bytes; its length is sent less three.  *)
IdSizes == {0} \cup 4 .. 18
ConnIds == {id \in Octets : Len(id) \in IdSizes}

(* The structs of the headers.                                             *)
LongHeaders ==
  [kind : {"long"}, type : LongTypes, version : VersionNumbers, dst : ConnIds,
   src : ConnIds, len : Nat, pnum : PacketNumbers, token : Octets, ori : ConnIds]

ShortHeaders ==
  [kind : {"short"}, spin : BOOLEAN, key_phase : BOOLEAN, dst : ConnIds,
   pnum : PacketNumbers]

VersionHeaders ==
  [kind : {"version"}, version : VersionNumbers, dst : ConnIds, src : ConnIds]

Nibble(id) == IF id = <<>> THEN 0 ELSE Len(id) - 3
IdSize(nibble) == IF nibble = 0 THEN 0 ELSE nibble + 3

(* Mutant of LongSize: room for a packet number of one byte.               *)
LongSizeShort(h) ==
  6 + Len(h.dst) + Len(h.src)
  + (IF h.type = "INITIAL" THEN Len(h.token) + VarintSize(Len(h.token)) ELSE 0)
  + (IF h.type = "RETRY" THEN Len(h.ori) ELSE VarintSize(h.len) + 1)

(* __long_header_size, __short_header_size and                             *)
(* __version_negotiation_header_size                                       *)
LongSize(h) ==
  6 + Len(h.dst) + Len(h.src)
  + (IF h.type = "INITIAL" THEN Len(h.token) + VarintSize(Len(h.token)) ELSE 0)
  + (IF h.type = "RETRY" THEN Len(h.ori) ELSE VarintSize(h.len) + PnumLength(h.pnum))

ShortSize(h) == 1 + Len(h.dst) + PnumLength(h.pnum)

VersionSize(h) == 6 + Len(h.dst) + Len(h.src)

HeaderSize(h) ==
  CASE h.kind = "long" -> LongSize(h)
    [] h.kind = "short" -> ShortSize(h)
    [] h.kind = "version" -> VersionSize(h)

(* The encoders, into as many bytes as the size function tells: none of    *)
(* their early returns leaves out anything but empty fields.               *)
LongEncode(h) ==
  LET low == IF h.type = "RETRY" THEN Len(h.ori) - 3 ELSE PnumLength(h.pnum) - 1
  IN <<[form |-> "long", type |-> h.type, low |-> low]>>
     \o BigEndianEncode(h.version, 4)
     \o <<[dst |-> Nibble(h.dst), src |-> Nibble(h.src)]>> \o h.dst \o h.src
     \o (IF h.type = "INITIAL" THEN EncodeBytes(Len(h.token)) \o h.token ELSE <<>>)
     \o (IF h.type = "RETRY" THEN h.ori
         ELSE EncodeBytes(h.len) \o BigEndianEncode(h.pnum, PnumLength(h.pnum)))

ShortEncode(h) ==
  <<[form |-> "short", spin |-> h.spin, key_phase |-> h.key_phase,
     low |-> PnumLength(h.pnum) - 1]>>
  \o h.dst \o BigEndianEncode(h.pnum, PnumLength(h.pnum))

VersionEncode(h) ==
  <<[form |-> "version"]>> \o BigEndianEncode(0, 4)
  \o <<[dst |-> Nibble(h.dst), src |-> Nibble(h.src)]>> \o h.dst \o h.src

HeaderEncode(h) ==
  CASE h.kind = "long" -> LongEncode(h)
    [] h.kind = "short" -> ShortEncode(h)
    [] h.kind = "version" -> VersionEncode(h)

-----------------------------------------------------------------------------
(* What a decoder does with one field: the bytes it takes, and the struct  *)
(* afterwards.                                                             *)
LongField(h, buf, used, field) ==
  LET take(n) == SubSeq(buf, used + 1, used + n)
      int == Decode(buf, used, 0)
      ori == IF buf[1].low = 0 THEN Len(h.ori) ELSE buf[1].low + 3
      pnum == buf[1].low + 1
  IN CASE field = "first" -> <<1, [h EXCEPT !.type = buf[1].type]>>
       [] field = "version" -> <<4, [h EXCEPT !.version = BigEndianDecode(0, take(4))]>>
       [] field = "cil" -> <<1, h>>
       [] field = "dst" ->
            <<IdSize(buf[6].dst), [h EXCEPT !.dst = take(IdSize(buf[6].dst))]>>
       [] field = "src" ->
            <<IdSize(buf[6].src), [h EXCEPT !.src = take(IdSize(buf[6].src))]>>
       [] field = "token" ->
            <<int.result + int.value,
              [h EXCEPT !.token = SubSeq(buf, used + int.result + 1,
                                         used + int.result + int.value)]>>
       [] field = "ori" -> <<ori, [h EXCEPT !.ori = take(ori)]>>
       [] field = "len" -> <<int.result, [h EXCEPT !.len = int.value]>>
       [] field = "pnum" -> <<pnum, [h EXCEPT !.pnum = BigEndianDecode(0, take(pnum))]>>

(* The flags of the struct are set, never cleared, and its number keeps    *)
(* the bytes above those that are sent.                                    *)
ShortField(h, buf, used, field, idSize) ==
  LET take(n) == SubSeq(buf, used + 1, used + n)
      pnum == buf[1].low + 1
  IN CASE field = "first" ->
            <<1, [h EXCEPT !.spin = @ \/ buf[1].spin,
                           !.key_phase = @ \/ buf[1].key_phase]>>
       [] field = "dst" -> <<idSize, [h EXCEPT !.dst = take(idSize)]>>
       [] field = "pnum" -> <<pnum, [h EXCEPT !.pnum = BigEndianDecode(@, take(pnum))]>>

(* The version is never read: its decoder is offered one byte.  An id that *)
(* is not sent leaves the struct's as it was.                              *)
VersionField(h, buf, used, field) ==
  LET id(old, n) == IF n = 0 THEN old ELSE SubSeq(buf, used + 1, used + n)
  IN CASE field = "first" -> <<1, h>>
       [] field = "version" -> <<4, [h EXCEPT !.version = 0]>>
       [] field = "cil" -> <<1, h>>
       [] field = "dst" ->
            <<IdSize(buf[6].dst), [h EXCEPT !.dst = id(@, IdSize(buf[6].dst))]>>
       [] field = "src" ->
            <<IdSize(buf[6].src), [h EXCEPT !.src = id(@, IdSize(buf[6].src))]>>

(* Mutant of Fields: a Retry's original id is not skipped.                 *)
FieldsNoOri(kind, buf) ==
  CASE kind = "short" -> <<"first", "dst", "pnum">>
    [] kind = "version" -> <<"first", "version", "cil", "dst", "src">>
    [] kind = "long" ->
         <<"first", "version", "cil", "dst", "src">>
         \o (IF buf[1].type = "INITIAL" THEN <<"token">> ELSE <<>>)
         \o (IF buf[1].type = "RETRY" THEN <<>> ELSE <<"len", "pnum">>)

Fields(kind, buf) ==
  CASE kind = "short" -> <<"first", "dst", "pnum">>
    [] kind = "version" -> <<"first", "version", "cil", "dst", "src">>
    [] kind = "long" ->
         <<"first", "version", "cil", "dst", "src">>
         \o (IF buf[1].type = "INITIAL" THEN <<"token">> ELSE <<>>)
         \o (IF buf[1].type = "RETRY" THEN <<"ori">> ELSE <<"len", "pnum">>)

(* Where a decoder returns 0 after a field: when it is beyond the end of   *)
(* the packet, or already when it stands there.                            *)
Rejects(kind, field, used, size) ==
  \/ used > size /\ field \notin {"token", "ori"}
  \/ used = size /\ field \notin {"token", "ori", "pnum"}
     /\ ~ (kind = "version" /\ field \in {"dst", "src"})

HeaderField(h, buf, used, field, idSize) ==
  CASE h.kind = "long" -> LongField(h, buf, used, field)
    [] h.kind = "short" -> ShortField(h, buf, used, field, idSize)
    [] h.kind = "version" -> VersionField(h, buf, used, field)

(* One step of a decoder: the next field, unless it has returned 0.        *)
ReadField(r, buf, field, idSize) ==
  LET read == HeaderField(r.hdr, buf, r.used, field, idSize)
      used == r.used + read[1]
      refused == Rejects(r.hdr.kind, field, used, Len(buf))
  IN IF r.refused THEN r
     ELSE [hdr |-> IF refused /\ field = "first" THEN r.hdr ELSE read[2],
           used |-> used, refused |-> refused]

(* lpack_get_header, spack_get_header and version_negotiation_get_header,  *)
(* into a struct that holds h.                                             *)
HeaderDecode(h, buf, idSize) ==
  LET fields == Fields(h.kind, buf)
      unread == [hdr |-> h, used |-> 0, refused |-> FALSE]
      after[k \in 0 .. Len(fields)] ==
        IF k = 0 THEN unread ELSE ReadField(after[k - 1], buf, fields[k], idSize)
  IN IF h.kind = "long" /\ buf[1].form # "long"
     THEN [unread EXCEPT !.refused = TRUE]
     ELSE after[Len(fields)]
=============================================================================
