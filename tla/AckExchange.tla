----------------------------- MODULE AckExchange -----------------------------
(***************************************************************************)
(* A received history whose acknowledgements cross a network.  The         *)
(* endpoint takes the blocks of recv_packet_generate_ack, allocates what   *)
(* ack_size tells and calls ack_encode; the peer calls ack_decode on the   *)
(* rest of the packet, later or never, while the history goes on.          *)
(***************************************************************************)
EXTENDS ReceivedHistory, AckFrame

CONSTANTS
  Delays,     \* values of the delay field
  Ecn,        \* the ECN counters, a sequence of three
  Rests,      \* what may follow the frame in its packet, as bytes
  Beyonds     \* what memory may hold behind the packet

(* Frame and rest together are a packet, whose size is a size_t.           *)
ASSUME WireAssumption ==
  /\ 16 * (Modulus + 4) < Word
  /\ Delays \subseteq 0 .. Word - 1
  /\ Ecn \in Seq(0 .. Word - 1) /\ Len(Ecn) = 3
  /\ \A rest \in Rests :
       rest \in Seq(0 .. Byte - 1) /\ 16 * (Modulus + 4) + Len(rest) < Word
  /\ Beyonds \subseteq 0 .. Byte - 1

VARIABLES
  sent,       \* the frame last sent
  packet,     \* its packet on the way: the frame's bytes and the rest
  heard       \* what ack_decode made of it

NoAck == [type |-> "none"]

ackVars == <<sent, packet, heard>>

ExchangeInit ==
  /\ Init
  /\ sent = NoAck
  /\ packet = <<>>
  /\ heard = NoAck

(* The caller's use of generate_ack, ack_size and ack_encode.  A history   *)
(* without packets has no blocks.                                          *)
SendAck(type, delay, rest) ==
  LET frame == [type |-> type, delay |-> delay, blocks |-> GenerateAck, ecn |-> Ecn]
      bytes == AckEncode(frame, AckSize(frame))
  IN /\ size # 0
     /\ sent = NoAck
     /\ sent' = [type |-> type, delay |-> delay, blocks |-> GenerateAck, ecn |-> Ecn,
                 length |-> Len(bytes), rest |-> rest]
     /\ packet' = IF bytes = <<>> THEN <<>> ELSE bytes \o rest
     /\ UNCHANGED heard

HearAck ==
  /\ packet # <<>>
  /\ \E beyond \in Beyonds : heard' = AckDecode(packet, sent.type, beyond)
  /\ packet' = <<>>
  /\ UNCHANGED sent

(* The packet is lost, or what was heard is done with.                     *)
ForgetAck ==
  /\ sent # NoAck
  /\ sent' = NoAck
  /\ packet' = <<>>
  /\ heard' = NoAck

ExchangeNext ==
  \/ Next /\ UNCHANGED ackVars
  \/ /\ UNCHANGED vars
     /\ \/ \E type \in Types, delay \in Delays, rest \in Rests :
             SendAck(type, delay, rest)
        \/ HearAck
        \/ ForgetAck

ExchangeSpec == ExchangeInit /\ [][ExchangeNext]_<<vars, ackVars>>

-----------------------------------------------------------------------------
(* Blocks with at least one packet between them, which the gap of the      *)
(* frame format can express.                                               *)
Gapped(f) ==
  \A i \in 1 .. Len(f.blocks) - 1 : f.blocks[i].start >= f.blocks[i + 1].end + 2

Numbers(blocks) == UNION {b.start .. b.end : b \in {blocks[i] : i \in DOMAIN blocks}}

(* A buffer of ack_size bytes always suffices for ack_encode, although     *)
(* ack_size does not measure the gaps that ack_encode writes.              *)
SizeSuffices == sent # NoAck /\ Gapped(sent) => sent.length > 0

(* Read as the format is meant, the bytes on the wire acknowledge the      *)
(* blocks of the history when it was asked, and only packets that arrived. *)
Understood(bytes, type) ==
  LET head == GetAll(bytes, 0, Nothing, <<FALSE, FALSE, FALSE, FALSE>>)
      count == head.values[3] + 1
      v == GetAll(bytes, 0, head, [i \in 1 .. 2 * (count - 1) |-> FALSE]).values
  IN Numbers(Rebuild(v[1], v[4], [i \in 2 .. count |-> v[2 * i + 1]],
                          [i \in 2 .. count |-> v[2 * i + 2]], count))

WireTruthful ==
  packet # <<>> /\ Gapped(sent) =>
    /\ Understood(packet, sent.type) = Numbers(sent.blocks)
    /\ Understood(packet, sent.type) \subseteq arrived

Accepted == heard # NoAck /\ heard # Failure

(* A decoder that accepts the frame stops where the encoder stopped, so    *)
(* the next frame of the packet is read from its first byte; and whatever  *)
(* becomes of its later blocks, the frame yields the right number of them, *)
(* the right largest number and first block, delay and counters.  An       *)
(* acknowledgement of one block arrives unchanged.                         *)
FirstBlockHeard ==
  Accepted /\ Gapped(sent) =>
    /\ heard.used = sent.length
    /\ Len(heard.blocks) = Len(sent.blocks)
    /\ heard.blocks[1] = sent.blocks[1]
    /\ Numbers(<<heard.blocks[1]>>) \subseteq arrived
    /\ heard.delay = sent.delay
    /\ heard.type = "ACK_ECN" => heard.ecn = sent.ecn

(* ack_decode accepts every frame that has one block, carries counters or  *)
(* is followed by another frame.                                           *)
HeardWhenFollowed ==
  heard # NoAck /\ Gapped(sent) =>
    Accepted <=> (Len(sent.blocks) = 1 \/ sent.type = "ACK_ECN" \/ sent.rest # <<>>)
=============================================================================
