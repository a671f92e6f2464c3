-------------------------------- MODULE Payload --------------------------------
(***************************************************************************)
(* The frames of a packet: an endpoint puts one after the other into a     *)
(* buffer, each behind its type byte and after comparing its size with the *)
(* room left; the packet is lost or arrives; and the peer reads the frames *)
(* one after the other into structs that it uses again for every packet.   *)
(***************************************************************************)
EXTENDS Frames

CONSTANTS
  FrameSet,     \* frames an endpoint sends: [type, values, fin]
  Capacities,   \* sizes of the packet buffer
  Junk,         \* what the buffer, or memory behind it, may hold
  MallocFails,  \* whether the copy of a frame's data may not be allocated
  MaxFrames     \* bound: frames of a packet

(* What a field of a kind can carry.  No integer is as large as those that *)
(* have no encoding.                                                       *)
Carries(kind, value) ==
  CASE kind = "int" -> value \in Nat /\ ~ TooLarge(value)
    [] kind = "opt" -> value \in Nat /\ ~ TooLarge(value)
    [] kind = "two" -> value \in 0 .. Power[2] - 1
    [] kind = "one" -> value \in 0 .. Byte - 1
    [] OTHER -> value \in Seq(0 .. Byte - 1)

(* A frame that an endpoint sends: data have the length that the field     *)
(* before them tells, a path challenge and a reset token have theirs.      *)
Proper(f) ==
  LET kinds == Codecs[f.type].size
  IN /\ f.values = [i \in DOMAIN kinds |-> f.values[i]]
     /\ \A i \in DOMAIN kinds :
          /\ Carries(kinds[i], f.values[i])
          /\ kinds[i] = "data" => f.values[i - 1] = Len(f.values[i])
     /\ f.type = "PATH" => Len(f.values[1]) = PathLength
     /\ f.type = "NEW_CONNID" => f.values[4] # <<>>

ASSUME FrameAssumption ==
  \A f \in FrameSet : f.type \in DOMAIN Codecs /\ f.fin \in BOOLEAN /\ Proper(f)
ASSUME BufferAssumption == Capacities \subseteq 0 .. Word - 1 /\ Junk \subseteq 0 .. Byte - 1
ASSUME FailureAssumption == MallocFails \in BOOLEAN
ASSUME FramesAssumption == MaxFrames \in Nat

VARIABLES
  capacity,   \* size of the packet's buffer
  junk,       \* what the buffer held before
  sent,       \* frames in the buffer: [frame, typeByte, from, to]
  packet,     \* their bytes; a type byte stands as 0 here
  refused,    \* the frame last refused by its encoder, with the room it had
  next,       \* 0 while the packet is built, else the frame to be read next
  at,         \* how far the peer has read
  heard,      \* what it read last: [result, values, fin]
  fin,        \* struct stream's fin as the peer has it
  ended,      \* history variable: the streams whose end was sent to the peer
  streams     \* history variable: those whose frames were read into the struct

vars == <<capacity, junk, sent, packet, refused, next, at, heard, fin, ended, streams>>

None == [result |-> "none"]

Fresh ==
  /\ sent' = <<>> /\ packet' = <<>>
  /\ refused' = None
  /\ next' = 0 /\ at' = 0
  /\ heard' = None
  /\ capacity' \in Capacities
  /\ junk' \in Junk

Init ==
  /\ sent = <<>> /\ packet = <<>>
  /\ refused = None
  /\ next = 0 /\ at = 0
  /\ heard = None
  /\ capacity \in Capacities
  /\ junk \in Junk
  /\ fin = FALSE /\ ended = {} /\ streams = {}

-----------------------------------------------------------------------------
(* Mutant of TypeByte: every last frame of a packet ends the stream.       *)
TypeByteFinal(f) ==
  [flags |-> {i \in {2, 3} : f.values[i] # 0}, fin |-> TRUE]

(* stream_type_byte: which optional fields follow, and the end bit.        *)
TypeByte(f) ==
  [flags |-> {i \in {2, 3} : f.values[i] # 0}, fin |-> f.fin]

(* The type byte of a STREAM frame as it is before or after stream_encode, *)
(* which toggles the end bit once more.                                    *)
TypeBytes(f) ==
  IF f.type # "STREAM" THEN {[flags |-> {}, fin |-> FALSE]}
  ELSE {TypeByte(f), [TypeByte(f) EXCEPT !.fin = f.fin # @]}

(* The caller puts a frame that fits behind its type byte.  An encoder     *)
(* that returns 0 all the same leaves the packet as it is.                 *)
PutFrame(f, typeByte) ==
  LET room == capacity - Len(packet) - 1
      bytes == FrameEncode(f.type, f.values, room, junk)
      from == Len(packet) + 1
  IN /\ next = 0
     /\ Len(sent) < MaxFrames
     /\ FrameSize(f.type, f.values) <= room
     /\ IF bytes = <<>>
        THEN refused' = [result |-> f, room |-> room] /\ UNCHANGED <<sent, packet>>
        ELSE /\ sent' = Append(sent, [frame |-> f, typeByte |-> typeByte,
                                      from |-> from, to |-> from + Len(bytes)])
             /\ packet' = packet \o <<0>> \o bytes
             /\ refused' = None
     /\ UNCHANGED <<capacity, junk, next, at, heard, fin, ended, streams>>

(* The stream a frame belongs to.                                          *)
StreamOf(f) == IF f.type = "STREAM" THEN {f.values[1]} ELSE {}

(* The packet leaves, without the rest of the buffer.                      *)
SendPacket ==
  /\ next = 0
  /\ sent # <<>>
  /\ next' = 1
  /\ refused' = None
  /\ ended' = ended \cup UNION {StreamOf(sent[i].frame) : i \in {j \in DOMAIN sent : sent[j].frame.fin}}
  /\ UNCHANGED <<capacity, junk, sent, packet, at, heard, fin, streams>>

Reading == next \in DOMAIN sent /\ at = sent[next].from - 1

Allocates == {"TOKEN", "CRYPTO", "CONN_CLOSE", "STREAM"}

(* The peer reads a type byte and calls the decoder of that type with the  *)
(* rest of the packet.  A decoder that returns 0 ends the reading.         *)
HearFrame(memory, allocated) ==
  LET type == sent[next].frame.type
      flags == sent[next].typeByte.flags
      buf == SubSeq(packet, at + 2, Len(packet))
      d == FrameDecode(type, flags, buf, memory)
  IN /\ Reading
     /\ allocated \/ type \in Allocates
     /\ fin' = (fin \/ (type = "STREAM" /\ sent[next].typeByte.fin))
     /\ streams' = streams \cup StreamOf(sent[next].frame)
     /\ IF d.failed \/ ~ allocated
        THEN /\ heard' = [result |-> "refused", allocated |-> allocated]
             /\ next' = Len(sent) + 1
             /\ UNCHANGED at
        ELSE /\ heard' = [result |-> "read", index |-> next,
                          values |-> d.values, fin |-> fin']
             /\ at' = at + 1 + d.used
             /\ next' = next + 1
     /\ UNCHANGED <<capacity, junk, sent, packet, refused, ended>>

(* The packet is lost, or the peer is done with it: it has read everything *)
(* or does not stand before a type byte.                                   *)
NextPacket ==
  /\ next # 0
  /\ next = 1 \/ ~ Reading
  /\ Fresh
  /\ UNCHANGED <<fin, ended, streams>>

Next ==
  \/ \E f \in FrameSet : \E typeByte \in TypeBytes(f) : PutFrame(f, typeByte)
  \/ SendPacket
  \/ \E memory \in Junk, allocated \in {TRUE, ~ MallocFails} :
       HearFrame(memory, allocated)
  \/ NextPacket

Spec == Init /\ [][Next]_vars

-----------------------------------------------------------------------------
(* A frame with nothing behind its last mandatory field.                   *)
Bare(f) ==
  \/ f.type = "STREAM" /\ f.values[2] = 0 /\ f.values[3] = 0
  \/ f.type = "CONN_CLOSE" /\ f.values[3] = 0

(* What the size function of a frame tells is what its encoder uses, for   *)
(* every frame it accepts.                                                 *)
SizeExact ==
  \A i \in DOMAIN sent :
    sent[i].to - sent[i].from = FrameSize(sent[i].frame.type, sent[i].frame.values)

(* A frame that fits is refused by its encoder only if it fills the buffer *)
(* to the end and is bare.                                                 *)
RefusedOnlyBare ==
  refused # None =>
    /\ Bare(refused.result)
    /\ FrameSize(refused.result.type, refused.result.values) = refused.room

(* The buffer a caller asks for is the one a frame needs.                  *)
FramesFit == SizeExact /\ RefusedOnlyBare

Got == heard.result = "read"
Heard == sent[heard.index]

(* A STREAM frame without a length takes the rest of the packet.           *)
Unbounded(f) == f.type = "STREAM" /\ f.values[3] = 0

(* A decoder that accepts a frame stops where its encoder stopped, except  *)
(* for RESET, NEW_CONNECTION_ID and a STREAM frame without a length that   *)
(* is not the last of the packet.                                          *)
DecodersInStep ==
  Got /\ Heard.frame.type \notin {"RESET", "NEW_CONNID"} =>
    at = IF Unbounded(Heard.frame) THEN Len(packet) ELSE Heard.to

(* And it reads the values that were sent, whatever stands before and      *)
(* behind the frame in the packet; of NEW_CONNECTION_ID the first one.     *)
HeardAsSent ==
  Got /\ Heard.frame.type # "RESET" =>
    \/ heard.values = Heard.frame.values
    \/ Heard.frame.type = "NEW_CONNID" /\ heard.values = <<Heard.frame.values[1]>>
    \/ Unbounded(Heard.frame) /\ Len(packet) > Heard.to

(* One frame after another is read where it begins, and as it was sent.    *)
FramesHeard == DecodersInStep /\ HeardAsSent

(* With memory for its data, a frame is refused by its decoder only if it  *)
(* is bare and the last one of the packet.                                 *)
HeardUnlessBare ==
  heard.result = "refused" /\ heard.allocated =>
    Bare(Last(sent).frame) /\ at = Last(sent).from - 1

(* A struct stream tells of an end only if the end of one of the streams   *)
(* whose frames were read into it was sent.  Used for one stream, it tells *)
(* of that stream's end; used again for another one, it goes on telling of *)
(* the first one's, since stream_decode does not clear fin.                *)
EndNotInvented == fin => ended \cap streams # {}
=============================================================================
