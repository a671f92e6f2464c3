------------------------------ MODULE PacketPath ------------------------------
(***************************************************************************)
(* Packets on their way between two endpoints.  A sender takes a buffer    *)
(* from the packet store, writes the header in front of the payload and    *)
(* sends it; the network loses, repeats and reorders packets; the receiver *)
(* reads every header into one struct, which it uses again for the next    *)
(* packet.  What is sent is long headers, short headers, or the packets of *)
(* a version negotiation: a client asks a server for a version, and is     *)
(* told the supported ones if the server does not support it.              *)
(***************************************************************************)
EXTENDS Headers, PackStore, VersionRegistry

CONSTANTS
  Roles,           \* what is sent: a subset of "long", "short", "version"
  LongPackets,     \* packets with a long header: [hdr, payload]
  ShortPackets,    \* packets with a short header, with ids of one length
  Structs,         \* the structs of the receivers at first, cleared
  Sections,        \* version sections a server may be linked with
  ClientVersions,  \* versions a client may ask for
  Ids,             \* pairs of connection ids of a client and a server
  MaxFlight        \* bound: packets in flight

ASSUME RolesAssumption == Roles \subseteq {"long", "short", "version"}
(* A Retry has an original id; a packet's size is a size_t.                *)
ASSUME LongAssumption ==
  \A p \in LongPackets :
    /\ p.hdr \in LongHeaders /\ p.payload \in Octets
    /\ p.hdr.type = "RETRY" => p.hdr.ori # <<>>
    /\ HeaderSize(p.hdr) + Len(p.payload) < Word

ASSUME ShortAssumption ==
  /\ \A p \in ShortPackets : p.hdr \in ShortHeaders /\ p.payload \in Octets
  /\ \A p, q \in ShortPackets : Len(p.hdr.dst) = Len(q.hdr.dst)

ASSUME StructsAssumption ==
  /\ DOMAIN Structs = {"long", "short", "version"}
  /\ Structs.long \in LongHeaders
  /\ Structs.short \in ShortHeaders
  /\ Structs.short.pnum = 0 /\ ~ Structs.short.spin /\ ~ Structs.short.key_phase
  /\ Structs.version \in VersionHeaders

(* A program has one entry of version 0.                                   *)
ASSUME SectionsAssumption ==
  \A s \in Sections :
    s \in Seq(VersionNumbers) /\ Cardinality({i \in DOMAIN s : s[i] = 0}) = 1

ASSUME ClientsAssumption ==
  /\ ClientVersions \subseteq VersionNumbers
  /\ \A ids \in Ids : ids.client \in ConnIds /\ ids.server \in ConnIds

VARIABLES
  role,     \* what is sent
  flight,   \* packets in flight: [hdr, payload]
  last,     \* history variable: the highest number sent in a short header
  structs,  \* the receivers' structs, by kind of header
  got,      \* history variable: the packet received last and what was read
  longest,  \* history variable: bytes of the longest number read
  flags,    \* history variable: the flags read so far
  offered   \* the versions a client read out of the last negotiation packet

pathVars == <<role, flight, last, structs, got, longest, flags, offered,
              storeVars, section, started, versions, version_count>>

Nothing == [result |-> "nothing"]

PathInit ==
  /\ role \in Roles
  /\ flight = {}
  /\ last = -1
  /\ structs = Structs
  /\ got = Nothing
  /\ longest = 0
  /\ flags = {}
  /\ offered = {}
  /\ StoreInit
  /\ RegistryInit(IF role = "version" THEN Sections ELSE {<<0>>})

-----------------------------------------------------------------------------
Reserve(kind) ==
  CASE kind = "long" -> LONG_HEADER_MAX_SIZE
    [] kind = "short" -> SHORT_HEADER_MAX_SIZE
    [] kind = "version" -> VERSION_NEGOTIATION_HEADER_MAX_SIZE

(* The caller sends a packet out of a buffer of its own, if it gets one.   *)
(* It may keep the buffer until pack_free.                                 *)
Put(p, others) ==
  /\ Cardinality(others) < MaxFlight
  /\ \E base \in Bases : PackMalloc(base, Reserve(p.hdr.kind), Len(p.payload))
  /\ flight' = IF astray' THEN others ELSE others \cup {p}

SendLong(p) ==
  /\ role = "long"
  /\ Put(p, flight)
  /\ UNCHANGED <<role, last, structs, got, longest, flags, offered, registryVars>>

(* Numbers are handed out in ascending order.                              *)
SendShort(p) ==
  /\ role = "short"
  /\ p.hdr.pnum > last
  /\ last' = p.hdr.pnum
  /\ Put(p, flight)
  /\ UNCHANGED <<role, structs, got, longest, flags, offered, registryVars>>

(* The client's first packet, or the next one after it was told which      *)
(* versions the server supports.                                           *)
Initial(v, ids) ==
  [hdr |-> [kind |-> "long", type |-> "INITIAL", version |-> v, dst |-> ids.server,
            src |-> ids.client, len |-> 1, pnum |-> 0, token |-> <<>>, ori |-> <<>>],
   payload |-> <<1>>]

AskFor(v, ids) ==
  /\ role = "version"
  /\ offered = {} \/ v \in offered
  /\ Put(Initial(v, ids), flight)
  /\ UNCHANGED <<role, last, structs, got, longest, flags, offered, registryVars>>

Release(ptr) ==
  /\ PackFree(ptr)
  /\ UNCHANGED <<role, flight, last, structs, got, longest, flags, offered, registryVars>>

Lose(p) ==
  /\ flight' = flight \ {p}
  /\ UNCHANGED <<role, last, structs, got, longest, flags, offered, storeVars,
                 registryVars>>

-----------------------------------------------------------------------------
(* lpack_put_header and its like: the header, as many bytes as it was      *)
(* measured, and the payload.                                              *)
Sent(p) == HeaderEncode(p.hdr) \o p.payload

Received(p) ==
  HeaderDecode(structs[p.hdr.kind], Sent(p), Len(p.hdr.dst))

(* The receiver reads the header of p; p may arrive again.                 *)
Receive(p, d) ==
  /\ structs' = [structs EXCEPT ![p.hdr.kind] = d.hdr]
  /\ got' = [result |-> IF d.refused THEN "refused" ELSE "read", packet |-> p,
             payload |-> SubSeq(Sent(p), d.used + 1, Len(Sent(p)))]

ReceiveLong(p) ==
  /\ role = "long"
  /\ Receive(p, Received(p))
  /\ flight' \in {flight, flight \ {p}}
  /\ UNCHANGED <<role, last, longest, flags, offered, storeVars, registryVars>>

ReceiveShort(p) ==
  /\ role = "short"
  /\ Receive(p, Received(p))
  /\ longest' = IF PnumLength(p.hdr.pnum) > longest THEN PnumLength(p.hdr.pnum) ELSE longest
  /\ flags' = flags \cup {f \in {"spin", "key_phase"} : p.hdr[f]}
  /\ flight' \in {flight, flight \ {p}}
  /\ UNCHANGED <<role, last, offered, storeVars, registryVars>>

(* The server answers a version it does not support with those it does,    *)
(* if it gets a buffer: the client's id first.                             *)
Answer(h, payload) ==
  [hdr |-> [kind |-> "version", version |-> 0, dst |-> h.src, src |-> h.dst],
   payload |-> payload]

HearInitial(p) ==
  LET d == Received(p)
      others == flight \ {p}
      answer == Answer(d.hdr, VersionFill(4 * version_count'))
  IN /\ role = "version"
     /\ p.hdr.kind = "long"
     /\ Receive(p, d)
     /\ SupportInit
     /\ \/ /\ d.refused \/ Supported(d.hdr.version)
           /\ flight' \in {flight, others}
           /\ UNCHANGED storeVars
        \/ /\ ~ d.refused /\ ~ Supported(d.hdr.version)
           /\ \E kept \in {flight, others} : Put(answer, kept)
     /\ UNCHANGED <<role, last, longest, flags, offered>>

(* The client reads the versions behind the header.                        *)
VersionsIn(payload) ==
  {BigEndianDecode(0, SubSeq(payload, 4 * i - 3, 4 * i)) : i \in 1 .. Len(payload) \div 4}

HearAnswer(p) ==
  LET d == Received(p)
  IN /\ role = "version"
     /\ p.hdr.kind = "version"
     /\ Receive(p, d)
     /\ IF d.refused THEN UNCHANGED offered ELSE offered' = VersionsIn(got'.payload)
     /\ flight' \in {flight, flight \ {p}}
     /\ UNCHANGED <<role, last, longest, flags, storeVars, registryVars>>

(* The kinds of headers that are sent, and where the payload of such a     *)
(* packet may begin.                                                       *)
Kinds == IF role = "version" THEN {"long", "version"} ELSE {role}
Pointers == {base + Reserve(kind) : base \in Bases, kind \in Kinds}

PathNext ==
  \/ \E p \in LongPackets : SendLong(p)
  \/ \E p \in ShortPackets : SendShort(p)
  \/ \E v \in ClientVersions, ids \in Ids : AskFor(v, ids)
  \/ \E ptr \in Pointers : Release(ptr)
  \/ \E p \in flight :
       Lose(p) \/ ReceiveLong(p) \/ ReceiveShort(p) \/ HearInitial(p) \/ HearAnswer(p)

PathSpec == PathInit /\ [][PathNext]_pathVars

-----------------------------------------------------------------------------
HasRead(kind) == got.result = "read" /\ got.packet.hdr.kind = kind

(* A header has the size it is measured at and, except for a Retry or an   *)
(* Initial, fits into the room that was left for it: nothing is written in *)
(* front of the block.                                                     *)
HeaderFits ==
  \A p \in flight :
    LET h == p.hdr
    IN /\ Len(HeaderEncode(h)) = HeaderSize(h)
       /\ \/ h.kind = "long" /\ h.type \in {"RETRY", "INITIAL"}
          \/ HeaderSize(h) <= Reserve(h.kind)

(* A receiver refuses a packet only if it is a version negotiation with    *)
(* nothing behind its fixed part; the payload of every other packet begins *)
(* where the sender put it, whatever its struct held before.               *)
PayloadFound ==
  CASE got.result = "read" -> got.payload = got.packet.payload
    [] got.result = "refused" -> /\ got.packet.hdr.kind = "version"
                                 /\ HeaderSize(got.packet.hdr) = 6
                                 /\ got.packet.payload = <<>>
    [] got.result = "nothing" -> TRUE

(* The fields of a long header or a negotiation packet are read as they   *)
(* were sent, with nothing of the packets before; except that the struct   *)
(* of a negotiation keeps an id where an empty one is sent.                *)
Carried(h) ==
  IF h.kind = "version" THEN {"version"} \cup {id \in {"dst", "src"} : h[id] # <<>>}
  ELSE {"type", "version", "dst", "src"}
       \cup (IF h.type = "INITIAL" THEN {"token"} ELSE {})
       \cup (IF h.type = "RETRY" THEN {"ori"} ELSE {"len", "pnum"})

FieldsAsSent ==
  HasRead("long") \/ HasRead("version") =>
    LET h == got.packet.hdr
    IN \A field \in Carried(h) : structs[h.kind][field] = h[field]

(* The number of a short header is read as it was sent until a longer one  *)
(* was read; then its bytes are read as they were sent.                    *)
NumberRead ==
  HasRead("short") =>
    LET n == PnumLength(got.packet.hdr.pnum)
        sent == got.packet.hdr.pnum
    IN /\ structs.short.pnum % Power[n] = sent % Power[n]
       /\ n = longest => structs.short.pnum = sent

(* The spin bit and the key phase that are read are those of any packet    *)
(* read so far, not of the last one.                                       *)
FlagsGather ==
  flags = {f \in {"spin", "key_phase"} : structs.short[f]}

(* No header is read as another one was sent, but for what is left in the  *)
(* struct of the packets before, and that is only where the three say.     *)
HeadersRead == FieldsAsSent /\ NumberRead /\ FlagsGather

(* Around a number a receiver knows, packet_number_decode finds every      *)
(* number in its own block of a window or the one before, if it is less    *)
(* than half a window away and the first window is over.  Everywhere its   *)
(* result has the bytes it was given.                                      *)
NumberRecovered ==
  \A p \in flight, n \in 1 .. 3 :
    p.hdr.kind = "short" =>
      LET win == Power[n]
          expected == structs.short.pnum + 1
          number == p.hdr.pnum
          decoded == PnumDecode(structs.short.pnum, number % win, n)
      IN /\ decoded % win = number % win
         /\ /\ expected \in win .. Power[4] - win
            /\ number > expected - win \div 2 /\ number <= expected + win \div 2
            /\ number < expected - (expected % win) + win
            => decoded = number

(* The versions a client is offered are those the server supports: none it *)
(* would refuse the next time, and none left out.                          *)
OfferedSupported == offered # {} => offered = versions /\ 0 \notin offered
=============================================================================
