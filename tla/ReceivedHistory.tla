--------------------------- MODULE ReceivedHistory ---------------------------
(***************************************************************************)
(* The received-packet history of ack/received_packet_history.c: a doubly  *)
(* linked list of closed intervals of packet numbers, lowest first, from   *)
(* which an endpoint builds its ACK frames.  The list is the sequence      *)
(* `ranges`, its head's `next` being ranges[1] and its head's `prev` the   *)
(* last element.  Packet numbers are unsigned and wrap at Modulus.         *)
(*                                                                         *)
(* A failing malloc leaves every field as it was, so it is a stuttering    *)
(* step of this specification.                                             *)
(***************************************************************************)
EXTENDS Integers, Sequences, FiniteSets, SequencesExt

CONSTANTS
  Modulus,      \* 2^32 in the code: packet_number_t is a uint32_t
  PNums,        \* the packet numbers the peer uses
  Duplicates    \* whether the network may deliver a packet twice

Number == 0 .. Modulus - 1

ASSUME ModulusAssumption == Modulus \in Nat \ {0}
ASSUME PNumsAssumption == PNums \subseteq Number
ASSUME DuplicatesAssumption == Duplicates \in BOOLEAN

VARIABLES
  ranges,       \* the interval list
  lowest,       \* lowest_pnum
  size,         \* the node counter generate_ack sizes its array with
  arrived       \* history variable: every number ever received

vars == <<ranges, lowest, size, arrived>>

Interval == [min : Number, max : Number]
Single(p) == [min |-> p, max |-> p]

(* pnum - 1 and pnum + 1 in unsigned arithmetic.                           *)
Pred(p) == IF p = 0 THEN Modulus - 1 ELSE p - 1
Succ(p) == IF p = Modulus - 1 THEN 0 ELSE p + 1

Within(r, p) == r.min <= p /\ p <= r.max

(* The packet numbers an acknowledgement of these intervals claims.        *)
Covered(rs) == {p \in Number : \E i \in DOMAIN rs : Within(rs[i], p)}

Init ==
  /\ ranges = <<>>
  /\ lowest = 0
  /\ size = 0
  /\ arrived = {}

-----------------------------------------------------------------------------
(* recv_packet_received: a walk from the tail of the list to its head that *)
(* returns at the first node which concerns pnum.                          *)

(* Mutant of Adjacent: only the lower end is tried.                        *)
AdjacentBelow(r, p) == r.min = Succ(p)

Adjacent(r, p) == r.max = Pred(p) \/ r.min = Succ(p)

Concerns(r, p) == Within(r, p) \/ Adjacent(r, p) \/ p > r.max

ReturnsAt(i, p) ==
  /\ Concerns(ranges[i], p)
  /\ \A j \in i + 1 .. Len(ranges) : ~ Concerns(ranges[j], p)

ReceiveFirst(p) ==
  /\ size = 0
  /\ ranges' = Append(ranges, Single(p))
  /\ size' = size + 1

ReceiveCovered(i, p) ==
  /\ Within(ranges[i], p)
  /\ UNCHANGED <<ranges, size>>

(* The upper end is tried before the lower one.                            *)
Stretch(r, p) ==
  IF r.max = Pred(p) THEN [r EXCEPT !.max = p] ELSE [r EXCEPT !.min = p]

(* Mutant of Joins: any predecessor that ends lower is folded in.          *)
JoinsAny(before, r) == before.max < r.max

(* The condition under which the stretched interval r is folded into the   *)
(* one before it.  The code compares the predecessor's end with r.max.     *)
Joins(before, r) == Succ(before.max) = r.max

ReceiveExtend(i, p) ==
  LET r == Stretch(ranges[i], p)
  IN /\ ~ Within(ranges[i], p)
     /\ Adjacent(ranges[i], p)
     /\ IF i > 1 /\ Joins(ranges[i - 1], r)
        THEN /\ ranges' = RemoveAt([ranges EXCEPT ![i - 1].max = r.max], i)
             /\ size' = size - 1
        ELSE /\ ranges' = [ranges EXCEPT ![i] = r]
             /\ size' = size

ReceiveAbove(i, p) ==
  /\ p > ranges[i].max
  /\ ~ Adjacent(ranges[i], p)
  /\ ranges' = InsertAt(ranges, i + 1, Single(p))
  /\ size' = size + 1

ReceiveLowest(p) ==
  /\ size # 0
  /\ \A i \in DOMAIN ranges : ~ Concerns(ranges[i], p)
  /\ ranges' = InsertAt(ranges, 1, Single(p))
  /\ size' = size + 1

RecvPacketReceived(p) ==
  /\ Duplicates \/ p \notin arrived
  /\ arrived' = arrived \cup {p}
  /\ UNCHANGED lowest
  /\ \/ ReceiveFirst(p)
     \/ /\ size # 0
        /\ \E i \in DOMAIN ranges :
             /\ ReturnsAt(i, p)
             /\ \/ ReceiveCovered(i, p)
                \/ ReceiveExtend(i, p)
                \/ ReceiveAbove(i, p)
     \/ ReceiveLowest(p)

-----------------------------------------------------------------------------
(* recv_packet_delete_below: a walk from the head that trims or drops      *)
(* intervals and returns at the first one it would leave alone.            *)

(* Mutants: an interval that ends at the bound is not trimmed; is dropped. *)
TrimsShort(r, p) == p > r.min /\ p < r.max
DropsEnd(r, p) == r.max <= p

Trims(r, p) == p > r.min /\ p <= r.max
Drops(r, p) == r.max < p

Visited(i, p) ==
  \A j \in 1 .. i : Trims(ranges[j], p) \/ Drops(ranges[j], p)

Kept(p) == {i \in DOMAIN ranges : ~ (Visited(i, p) /\ Drops(ranges[i], p))}

(* Mutant of Trimmed: the bound itself is cut off too.                     *)
TrimmedPast(i, p) ==
  IF Visited(i, p) THEN [ranges[i] EXCEPT !.min = p + 1] ELSE ranges[i]

Trimmed(i, p) ==
  IF Visited(i, p) THEN [ranges[i] EXCEPT !.min = p] ELSE ranges[i]

(* Mutant of DeleteWalk: size is not decremented with a removed node.      *)
DeleteWalkUncounted(p) ==
  /\ \E f \in [1 .. Cardinality(Kept(p)) -> Kept(p)] :
       /\ \A i, j \in DOMAIN f : i < j => f[i] < f[j]
       /\ ranges' = [i \in DOMAIN f |-> Trimmed(f[i], p)]
  /\ size' = size

(* f lists the surviving nodes in list order.                              *)
DeleteWalk(p) ==
  /\ \E f \in [1 .. Cardinality(Kept(p)) -> Kept(p)] :
       /\ \A i, j \in DOMAIN f : i < j => f[i] < f[j]
       /\ ranges' = [i \in DOMAIN f |-> Trimmed(f[i], p)]
  /\ size' = size - (Len(ranges) - Cardinality(Kept(p)))

RecvPacketDeleteBelow(p) ==
  /\ UNCHANGED arrived
  /\ IF p <= lowest
     THEN UNCHANGED <<ranges, lowest, size>>
     ELSE lowest' = p /\ DeleteWalk(p)

(* recv_packet_generate_ack: the blocks of the ACK, highest first.         *)
Block(r) == [start |-> r.min, end |-> r.max]
(* Mutant of GenerateAck: the list is walked from its head.                *)
GenerateAckFromHead == [i \in DOMAIN ranges |-> Block(ranges[i])]
GenerateAck == [i \in DOMAIN ranges |-> Block(Reverse(ranges)[i])]

Next == \E p \in PNums : RecvPacketReceived(p) \/ RecvPacketDeleteBelow(p)

Spec == Init /\ [][Next]_vars

-----------------------------------------------------------------------------
TypeOK ==
  /\ ranges \in Seq(Interval)
  /\ lowest \in Number
  /\ size \in Int
  /\ arrived \subseteq Number

(* An ACK never claims a packet that did not arrive: whatever the order of *)
(* arrivals, extensions, merges and deletions, the intervals contain only  *)
(* received numbers.                                                       *)
NoFalseAck == Covered(ranges) \subseteq arrived

(* A number that arrived and is not below the last delete_below bound is   *)
(* still reported: stretching, merging, inserting and trimming lose none.  *)
NothingLost == \A p \in arrived : p >= lowest => p \in Covered(ranges)

(* The size counter that recv_packet_generate_ack gives to calloc is the   *)
(* number of cells its loop then writes.                                   *)
AckFits == size = Len(ranges)

(* Every interval is inhabited and the upper ends of the list keep a       *)
(* distance of two, even when duplicates make intervals overlap: a         *)
(* stretched interval never ends one above its predecessor, so the merge   *)
(* branch is never taken and no node is freed by a reception.              *)
EndsApart ==
  /\ \A i \in DOMAIN ranges : ranges[i].min <= ranges[i].max
  /\ \A i, j \in DOMAIN ranges : i < j => ranges[i].max + 2 <= ranges[j].max

(* When every packet arrives at most once the blocks of an ACK are         *)
(* disjoint and strictly descending, the form ack_encode takes.            *)
AckDescending ==
  \A i, j \in DOMAIN GenerateAck :
    i < j => GenerateAck[i].start > GenerateAck[j].end

(* When every packet arrives at most once, delete_below(p) removes from    *)
(* the report exactly the numbers below p.                                 *)
DeleteIsExact ==
  [][lowest' # lowest =>
       Covered(ranges') = {q \in Covered(ranges) : q >= lowest'}]_vars

(* Each call changes the reported set the way the abstract PacketSet does. *)
Reported == INSTANCE PacketSet WITH held <- Covered(ranges)
ImplementsPacketSet == Reported!Spec

(* Two neighbouring blocks leave a packet between them, as the "merge"     *)
(* branch intends and as ack_encode's gap (start - end - 2) requires.      *)
AckMerged ==
  \A i \in 1 .. Len(GenerateAck) - 1 :
    GenerateAck[i].start >= GenerateAck[i + 1].end + 2
=============================================================================
