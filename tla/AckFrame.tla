------------------------------- MODULE AckFrame -------------------------------
(***************************************************************************)
(* The ACK frame of wire/ack.c.  A frame is a record of its type, delay,   *)
(* blocks (highest first) and ECN counters.  Encoder and decoder go        *)
(* through a sequence of variable-length integers and add what the integer *)
(* functions return, error codes included, to an unsigned position.        *)
(***************************************************************************)
EXTENDS Varint

Types == {"ACK", "ACK_ECN"}

Distance(b) == Unsigned(b.end - b.start)

(* Mutant of Gap: the number of packets between the blocks.                *)
GapPackets(a, b) == Unsigned(a.start - b.end - 1)

Gap(a, b) == Unsigned(a.start - b.end - 2)

Counters(f) == IF f.type = "ACK_ECN" THEN f.ecn ELSE <<>>

Total(s) ==
  LET sum[i \in 0 .. Len(s)] == IF i = 0 THEN 0 ELSE sum[i - 1] + s[i]
  IN sum[Len(s)]

(* What the block i of f adds to ack_size: its loop measures every gap     *)
(* from the first block.                                                   *)
BlockSize(f, i) ==
  VarintSize(Distance(f.blocks[i]))
  + IF i = 1 THEN 0 ELSE VarintSize(Gap(f.blocks[1], f.blocks[i]))

(* Mutant of AckSize: the counters are left out.                           *)
AckSizeNoEcn(f) ==
  LET n == Len(f.blocks)
  IN Unsigned(VarintSize(f.blocks[1].end) + VarintSize(f.delay) + VarintSize(n - 1)
              + Total([i \in 1 .. n |-> BlockSize(f, i)]))

AckSize(f) ==
  LET n == Len(f.blocks)
      ecn == Counters(f)
  IN Unsigned(VarintSize(f.blocks[1].end) + VarintSize(f.delay) + VarintSize(n - 1)
              + Total([i \in 1 .. n |-> BlockSize(f, i)])
              + Total([i \in 1 .. Len(ecn) |-> VarintSize(ecn[i])]))

-----------------------------------------------------------------------------
(* ack_encode.                                                             *)

(* After an integer that others must follow the code gives up when the     *)
(* buffer is full, after the others when it is overrun.                    *)
More(v) == [value |-> v, more |-> TRUE]
Enough(v) == [value |-> v, more |-> FALSE]
GivesUp(used, room, more) == used > room \/ (more /\ used = room)

HeadOf(f) ==
  <<More(f.blocks[1].end), More(f.delay), More(Len(f.blocks) - 1),
    Enough(Distance(f.blocks[1]))>>

(* The integer j of those of the later blocks: a gap or a distance.        *)
PairOf(f, j) ==
  LET i == (j + 1) \div 2
  IN IF j % 2 = 1 THEN More(Gap(f.blocks[i], f.blocks[i + 1]))
                  ELSE Enough(Distance(f.blocks[i + 1]))

Fields(f) ==
  LET ecn == Counters(f)
  IN HeadOf(f) \o [j \in 1 .. 2 * (Len(f.blocks) - 1) |-> PairOf(f, j)]
     \o [i \in 1 .. Len(ecn) |-> IF i < 3 THEN More(ecn[i]) ELSE Enough(ecn[i])]

Put(w, field, room) ==
  LET n == EncodeResult(field.value, Unsigned(room - w.used))
      bytes == EncodeBytes(field.value)
      used == Unsigned(w.used + n)
  IN IF w.failed THEN w
     ELSE [used |-> used,
           buf |-> [k \in 1 .. room |-> IF n > 0 /\ k \in w.used + 1 .. w.used + n
                                        THEN bytes[k - w.used] ELSE w.buf[k]],
           failed |-> GivesUp(used, room, field.more)]

(* The bytes of the frame, none when ack_encode returns 0.                 *)
AckEncode(f, room) ==
  LET fields == Fields(f)
      after[k \in 0 .. Len(fields)] ==
        IF k = 0 THEN [used |-> 0, buf |-> [i \in 1 .. room |-> 0], failed |-> FALSE]
        ELSE Put(after[k - 1], fields[k], room)
      end == after[Len(fields)]
  IN IF end.failed THEN <<>> ELSE SubSeq(end.buf, 1, end.used)

-----------------------------------------------------------------------------
(* ack_decode.                                                             *)

Get(buf, beyond, r, more) ==
  LET d == Decode(buf, r.used, beyond)
      used == Unsigned(r.used + d.result)
  IN IF r.failed THEN r
     ELSE [used |-> used, values |-> Append(r.values, d.value),
           failed |-> GivesUp(used, Len(buf), more)]

GetAll(buf, beyond, r, mores) ==
  LET after[k \in 0 .. Len(mores)] ==
        IF k = 0 THEN r ELSE Get(buf, beyond, after[k - 1], mores[k])
  IN after[Len(mores)]

Nothing == [used |-> 0, values |-> <<>>, failed |-> FALSE]

(* Mutant of HeadFields: the first block must be followed by others.       *)
HeadFieldsStrict == <<TRUE, TRUE, TRUE, TRUE>>

HeadFields == <<TRUE, TRUE, TRUE, FALSE>>

EcnFields(type) == IF type = "ACK_ECN" THEN <<TRUE, TRUE, FALSE>> ELSE <<>>

(* Both integers of a later block need a successor.                        *)
PairFields(count) == [i \in 1 .. 2 * (count - 1) |-> TRUE]

(* The blocks that follow from the largest number, the first distance and  *)
(* the gap and distance of every later block.                              *)
Rebuild(largest, distance, gap, later, count) ==
  LET block[i \in 1 .. count] ==
        LET end == IF i = 1 THEN largest
                            ELSE Unsigned(block[i - 1].start - gap[i] - 2)
        IN [start |-> Unsigned(end - IF i = 1 THEN distance ELSE later[i]),
            end |-> end]
  IN block

Failure == [used |-> 0]

(* Of a later block's two integers the second is read into the variable of *)
(* the first, the gap, and the distance stays 0.                           *)
Decoded(v, count) ==
  Rebuild(v[1], v[4], [i \in 2 .. count |-> v[2 * i + 2]],
          [i \in 2 .. count |-> 0], count)

AckDecode(buf, type, beyond) ==
  LET head == GetAll(buf, beyond, Nothing, HeadFields)
      count == head.values[3] + 1
      all == GetAll(buf, beyond, head, PairFields(count) \o EcnFields(type))
      v == all.values
  IN IF head.failed \/ all.failed THEN Failure
     ELSE [used |-> all.used, type |-> type, delay |-> v[2],
           blocks |-> Decoded(v, count),
           ecn |-> SubSeq(v, 2 * count + 3, Len(v))]
=============================================================================
