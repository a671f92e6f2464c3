# A verification project for guic

guic is a C library with the parts a QUIC endpoint is built from: histories of
received and sent packets, a packet number generator, congestion control, a
round-trip estimator, frame and header codecs, and the containers below them.
The repository has no connection layer: nothing in `src/` creates threads, opens
sockets or sets timers. Every part is a struct with functions that a connection
would call one at a time, so the hard behaviour is not the interleaving of
threads but of **calls**: packets that arrive late, twice or never, losses and
acknowledgements reported in any order, timeouts between them, allocations that
fail, numbers that wrap, and long sequences of legal calls on one structure.

## Inventory

| component | state | operations | what makes it correct |
|---|---|---|---|
| received packet history `ack/received_packet_history.c` | doubly linked list of closed intervals, `size`, `lowest_pnum` | received, delete_below, generate_ack | an ACK claims exactly the packets that arrived and were not forgotten; blocks are disjoint and descending; the block array is as long as the list |
| sent packet history `ack/sent_packet_history.c` | list in send order, tree by number, `first`, two counters, retransmission links in each packet | sent, retransmission, mark_cannot_retrans, remove | counters equal the packets they count; list and tree record the same packets; links agree in both directions |
| linked list `util/linked_list.c` | `next`, `prev` | insert before and after, remove | both directions thread the same nodes |
| red-black tree `util/rbtree.c` | nodes with parent, children, colour; one shared sentinel | link, fixup, delete | every inserted and not deleted key is found, links agree, the tree is balanced, every loop ends |
| packet number generator `util/packet_number.c` | `next`, `skip`, a tree of numbers | init, peek, pop, existed; and the pure length and decode | no number handed out twice, skipped ones never, skipping never stops, also across the wrap |
| congestion controller `congestion/congestion.c` | window, slow start threshold, largest sent and acknowledged, bound of the last cut | on_sent, received_acked, loss, retransmission_timeout, try_slow_start, reset, next_sent_delay | window in bounds, one cut for each flight, no growth in recovery |
| cubic `congestion/cubic.c`, PRR `congestion/prr.c`, hybrid slow start `congestion/hybrid_slow_start.c` | one struct each inside the controller | called by the controller only | friendly growth; a draining flight in recovery; an exit from slow start only on evidence |
| round-trip estimator `timer/rtt.c` | scaled srtt, variance, timeout | init, update | timeout within its limits, estimates positive |
| packet buffer store `wire/pack_store.c` | a global tree of buffers | malloc, free | every buffer is freed once, at the address it was allocated at |
| version registry `handshake/version_negotiation.c` | a global tree filled once | support, count, fill | answers agree with the registered versions |
| ACK frame codec `wire/ack.c` | none | size, encode, decode | decode inverts encode for every list of blocks that the received history produces |
| other frames `wire/*.c`, except headers and ACK | none (the structs the caller decodes into) | size, encode, decode for fifteen types | sizes agree; a decoder stops where the encoder stopped and reads what was written, with nothing of earlier frames |
| packet headers `wire/long_header.c`, `wire/short_header.c`, `wire/version_negotiation.c`, and the packet number functions | none (the structs the caller decodes into) | put, get; length, decode | headers fit the room left for them; payload and fields are found again; truncated numbers are recovered |
| integers `util/variable_integer.c`, `util/bigendian.c` | none | size, encode, decode | decode inverts encode |

How they interact. The sent history is a linked list and a red-black tree over
the same nodes. The tree is also below the packet number generator, the buffer
store and the version registry; each of these has its own copy of the
search-and-link loop. The congestion controller calls its three parts and reads
the round-trip estimator. The received history gives its blocks to the ACK codec.
All other connections would be made by the missing connection layer; where a
model needs it (a sender that keeps to the window, a peer whose packets arrive in
any order) the environment is part of the model and is named as such below.

The hard behaviours are listed line by line under `hazards` in `PROJECT.json`.

## Modules

| module | models | extends / instantiates |
|---|---|---|
| `PacketSet` | abstract: the set of numbers an ACK would report | |
| `ReceivedHistory` | `ack/received_packet_history.c` | refines `PacketSet` |
| `SequenceLemmas` | lemmas about sequences and natural numbers that the proofs share | |
| `Varint` | `util/variable_integer.c`, as operators | |
| `AckFrame` | `wire/ack.c`, as operators | extends `Varint` |
| `AckExchange` | an endpoint that sends ACKs of its history, a network, a peer that decodes them | extends `ReceivedHistory` and `AckFrame` |
| `AckExchangeProofs` | theorems about `ReceivedHistory` and about `AckExchange` | extends `CodecProofs` |
| `LinkedList` | `util/linked_list.c`, at pointer level | |
| `TreeWear` | how long the users of `util/rbtree.c` can rely on it | |
| `SentHistory` | `ack/sent_packet_history.c` | extends `TreeWear`, instantiates `LinkedList` |
| `SentHistoryProofs` | theorems about `SentHistory` | extends `SequenceLemmas` |
| `Dictionary` | abstract: a set of keys with insert and delete | |
| `RBTree` | `util/rbtree.c` and the search loops of its users | refines `Dictionary` |
| `RBTreeProofs` | theorems about `RBTree` | extends `SequenceLemmas` |
| `PacketNumber` | the generator of `util/packet_number.c` | |
| `Rtt` | `timer/rtt.c` | |
| `Cubic`, `Recovery`, `HybridSlowStart` | the parts of the congestion controller, as functions on their structs | |
| `Congestion` | `congestion/congestion.c` and the sender around it | extends the three and `Rtt` |
| `CongestionProofs` | theorems about `Rtt` and `Congestion` | |
| `BigEndian` | `util/bigendian.c`, as operators | extends `Varint` |
| `Frames` | the frame codecs, one record for each type | extends `BigEndian` |
| `Payload` | the frames of a packet, written, sent and read one after the other | extends `Frames` |
| `Headers` | the three header codecs and the two pure functions of `util/packet_number.c` | extends `BigEndian` |
| `PackStore` | `wire/pack_store.c` over the heap | extends `TreeWear` |
| `VersionRegistry` | `handshake/version_negotiation.c` | extends `BigEndian` |
| `PacketPath` | packets in buffers of the store, a network, receivers that use their structs again, a server that negotiates versions | extends `Headers`, `PackStore`, `VersionRegistry` |
| `CodecProofs` | theorems about `Varint` and `BigEndian` | extends `SequenceLemmas` |
| `PacketPathProofs` | theorems about `PacketPath`, `PackStore`, `Headers` and `VersionRegistry`, and about `PacketNumber` | extends `CodecProofs` |
| `PayloadProofs` | theorems about `Frames` and `Payload` | extends `CodecProofs` |
| `MC...` | the instances for TLC | |

### ReceivedHistory

The list is the sequence `ranges`, the lowest interval first; the counter `size`
is separate because `generate_ack` allocates by the counter and writes by the
list. `recv_packet_received` walks from the tail and returns at the first node
that concerns the packet: `ReturnsAt(i, p)` names that node, and
`ReceiveFirst`, `ReceiveCovered`, `ReceiveExtend`, `ReceiveAbove` and
`ReceiveLowest` are the ways it can end. The merge branch is inside
`ReceiveExtend` with the comparison the code makes (`Joins`).
`RecvPacketDeleteBelow` is the whole walk from the head with its early return.
`pnum - 1` and `pnum + 1` wrap at `Modulus`. A failed `malloc` leaves the
struct unchanged, which is a stuttering step. `arrived` is a history variable.

### Varint, AckFrame and AckExchange

Integers are sequences of bytes; the width of a byte follows from `Low`, the
values its first byte holds beside the two length bits (64 in the code), and so do
the limits of the four lengths and the width of `uint64_t`. `ack_encode` and
`ack_decode` repeat one step, `Put` and `Get`, for each integer of the frame: each
is a recursive function over the number of integers done. The step adds what the integer function returns to an unsigned position,
error codes included, and gives up on `>=` or `>` as the code does at that
place (`GivesUp`). `Gap` wraps for blocks that touch. `Decoded` keeps the code's
mapping: the second integer of a later block goes into the gap and its distance
stays 0.

The caller of these functions is not in the repository. `AckExchange` is the
obvious one: it takes the blocks of `generate_ack`, allocates what `ack_size` says,
encodes, and appends the rest of the packet; the peer decodes later or never, while
packets keep arriving and being forgotten. `WireAssumption` says that a frame with as
many blocks as there are packet numbers is measured without overflow of `size_t`, 2^32
against 2^64 in the code, and that a packet's size is a `size_t`. The properties speak of frames whose
blocks have a packet between them (`Gapped`), since `ReceivedMerge` shows that the
history also produces others, which the format cannot express.

### SentHistory and LinkedList

The list is modelled by its `next` and `prev` pointers, since removal from the
middle is what the code relies on; the tree by the set `dict` of numbers that a
search finds. `malloc` may fail for any packet, in a retransmission at any place of
the batch. `__readjust_first` reads a `sent_packet_node` as a `packet_llnode`:
the word it takes for a packet pointer holds the colour of a tree node. The
walk may fault (`crashed`) or leave `first` at any node (`ReadjustFirst`), and
the comparison that decides whether to walk at all may go either way
(`PerhapsReadjust`). This is why deadlock is not checked here: a crashed process
stops.

`SendAll` records a batch packet by packet: `Appended` is the list after its
`ll_insert_before` calls, a recursive function, and `Picks` chooses which of the
batch's packets got their memory.

How far `dict` follows the calls is counted by `wear` (`TreeWear`): a tree that was
filled finds exactly what it should up to and including its second deletion
(`TrimIsDictionary`). A third deletion, or an insertion after a deletion, wears it:
from then on a change may lose entries and may find removed packets
again (`TreeReturns` ends with both), so `DictAfter` leaves `dict` any set of packets that were
recorded at some time. Nodes are never freed here, so a removed node still has its
fields and its stale links. `misled` is set when such a find leads a call to a removed
packet; what the call then does is followed exactly: the counters go down once more,
and `ll_remove` ties the former neighbours of the node to each other.

The two early returns for a counter below zero come after the decrement, as in
the code, and leave the rest of the call undone. `CountsExact` implies that they
are not reached before a call was misled; the run reaches them afterwards.
`MaxDeficit` bounds how far below zero a counter is followed.

### RBTree and Dictionary

One action for each comparison of a search, iteration of a fixup, or unlinking,
over parent, left and right pointers, colours and the shared sentinel, whose
parent is written by transplants and read by the fixup. Left and right cases are
one operator with a side as parameter. `work` counts the loop iterations of the
current call, and stands still above its bound, so that a loop which does not end
shows up twice: as a violation of `WorkBounded`, and, with the fairness of
`FairSpec`, of `CallsReturn`, which also says with what the call returns. An
iteration of the deletion fixup is two actions, because the code chooses its
branch (`side`) before the rotation that changes whose child the node is.

`MaxDeletions` bounds the calls of `rbtree_delete`. It is not only there to keep a run
small: what `TreeTrim` checks holds for two deletions and is false for more. The first deletion starts from a balanced tree and may leave a red node where a
black one is missing. The second may therefore meet the sentinel where it expects a
sibling, and paints it red, which changes no link. From the third on the code reads that
colour and may rotate the sentinel into the tree, with everything below it cut off. How
many deletions it takes depends on the tree: when 1 to 10 are inserted in this order, as
packet numbers are, and 8, 7, 1, 4 and 2 are deleted, the fifth deletion loses keys; in
some trees of seventeen keys the third does. No tree of at most nine keys loses any by deletions alone, however many.

A transplant leaves the sentinel's parent at a node that has gone. `MCRBTree` has a
script of calls (`Calls`) in which this node comes back: nine keys are inserted in
ascending order and four of them deleted in between; the sentinel, painted red by a
deletion, lets the fixup of an insertion take the deleted node for a parent, and two
rotations later it is the root. `DeletedStayGone` is what fails there.

`Dictionary` is the abstraction the tree's users rely on: insertion of an absent
key, deletion of a present one. Under the refinement the steps inside a call
stutter.

### PacketNumber

`next`, `skip` and the generator's history as in the struct, in arithmetic modulo
`Modulus`; `rand()` may return any member of `Rands`, chosen so that the product
with `period - 1` does and does not wrap. `issued`, `skipped` and `consumed` are
history variables; `consumed` also bounds the run (`MaxConsumed`) a little beyond
one full round, so that properties that hold "until the numbers have gone round"
are checked up to and across that point.

### Congestion

The struct's fields are variables of the same meaning, the sub-structs records.
The three parts are operators that return the struct a call leaves, in the
parameter order of their own declarations; `GrowCubic` passes them what
`__increase_cwnd` passes, which is another order. Factors are exact fractions
(7/10 is CUBIC_FACTOR_BETA, so alpha is 21/13); time enters cubic only as
`4 (t - time_peroid)^3`, any non-decreasing value of `Ages` within an epoch.

The environment around it: packets leave in ascending order, each is reported
acknowledged or lost at most once, in any order, with the bytes in flight counted
with or without it; a retransmittable packet is sent only when the window is
open or, in recovery, when PRR allows it, as `congestion_next_sent_delay` is
meant to be used. Timeouts and resets come at any moment. `current` and `cut`
are history variables: what was sent since the last reset, and what was sent when
the window was last cut; `slowSeen` counts the slow samples (above the minimum and
the threshold) since slow start was entered; `unpaced` counts what was sent since
the last cut while the controller was not in recovery. The last one is needed
because `__recovering` is false until the first acknowledgement of a connection,
so that after a loss before it the sender is limited by the window alone and
`prr.sent` stays 0: when that acknowledgement comes, more may be in flight than PRR
knows of. `RecoveryDrains` says that this, and one packet, is all.

A sample of 0 ticks is taken for "no minimum yet": the round forgets its faster
samples, and slow start can then end although fewer samples were slow than a round
needs. `DelayExitNeedsSamples` therefore speaks of connections that never measured
0 (`least`, the history variable of `Rtt`).

`congestion_try_slow_start` is called with the estimator of the connection:
`TrySlowStart` first measures a sample (`Measure` of `Rtt`) and hands hybrid slow
start the last sample and the constant minimum, as the code reads them from the
struct.

`lost_packet`, `lost_bytes` and the fields of cubic that are never read are kept
only as far as the code sets them. `reduction` is a constant because no function
sets it; the branches it guards are modelled, and never taken by the runs.

### Rtt

`struct rtt_status` as a record, with the shifts as divisions: `srtt` is eight
times a time, `rttvar` four times a deviation. Negative intermediate values are
real (the type is signed). `least` and `most` are history variables, the bounds of
all samples. `rtt_status_init` leaves `last_rtt` unset; the model has 0 there,
which nothing reads before the first sample.

### BigEndian, Frames and Payload

A frame is a sequence of values in wire order, and a codec a record of the kinds
of fields its three functions go through, each with the comparison the code makes
behind it: `"full"` for `>=`, `"over"` for `>`, `"none"`. So the fifteen files
become fifteen records, and what they differ in is what can be read off them.
`EncodeFields` and `FrameDecode` interpret a record; `reset_encode`, which writes
its fields on top of each other, has an operator of its own. A decoder that runs
past the end of the packet reads memory the model leaves open (`Junk`).

`Payload` is the missing caller: it compares a frame's size with the room, writes a
type byte and the frame, and sends the packet without the rest of the buffer. The
type byte of a STREAM frame may have been taken before or after `stream_encode`,
which toggles its end bit; nothing in the repository says which. The reader stands
on type bytes only: when a decoder has not stopped at one, it gives up the packet.
Allocation for the copy of a frame's data may fail.

`fin` is the field of the one `struct stream` the peer uses for every STREAM frame,
whatever stream it belongs to. `streams` remembers whose frames were read into it, and
`ended` which streams' ends were sent. The code never clears the field, so a struct that
told of one stream's end goes on telling it when it is used for another stream;
`EndNotInvented` therefore speaks of one of the streams read into the struct, and is
about the stream itself only when a caller keeps a struct for each.

What is assumed of the constants: the frames an endpoint sends are `Proper`, that is
their integers have an encoding, their data have the length that the struct's field
tells, a path challenge and a reset token have theirs (`FrameAssumption`); a buffer's
size is a `size_t`, and what it held are bytes (`BufferAssumption`).

### Headers and PacketPath

A header is a record; its bytes are a sequence in which the first byte and the byte
of the two id lengths stand as records of their bit fields. `HeaderDecode` goes
through the fields of the kind, a recursive function of the steps `ReadField`, into
the struct the receiver used for the packet before, which shows what is not cleared.
`Rejects` has the comparison behind each
field. The early returns of the encoders leave out nothing but empty fields, since
they are given exactly the size that the size function tells; `HeaderFits` checks
that size.

`PacketPath` puts the parts together: a sender takes a buffer from `PackStore` with
the room that `include/wire/pack_store.h` names for the kind of header, and the
packet is lost, repeated or overtaken. `SendShort` hands out numbers in ascending
order. In the role `"version"` a client sends an Initial, the server answers a
version it does not support with what `version_fill` gives, and the client asks
again with one it was offered. What is assumed of
the constants: a Retry's original id is not empty and a packet is not longer than a
`size_t` tells (`LongAssumption`); short headers go to one receiver, which knows the
length of its ids (`ShortAssumption`); the receivers' structs hold what their types
allow, and number and flags of a short header's are cleared before their first use
(`StructsAssumption`); a program has one entry of version 0, the one of
`handshake/version_negotiation.c` (`SectionsAssumption`).

### PackStore and VersionRegistry

`heap` is what `malloc` gave, at any address that does not overlap; `store` maps the
pointer a caller has to the room in front of it. `PackFree` takes any pointer, also
one that is free already; `FreeObject` is what it does with a node it finds. `wear`
counts as in `SentHistory`: until the store's tree is worn it finds exactly what it
should. A worn tree may have lost the node, and the call then changes nothing. Unlike the
sent history the store frees its nodes, so a worn tree may also lead a search or a fixup
to freed memory (`GoAstray`). That is undefined behaviour: the process is `astray`, and
nothing it does afterwards is followed or promised. The registry is a section in the linker's order; `SupportInit` is
its lazy initialisation, which every call runs first, so `Supported` and
`VersionFill` read the state after it.

## Runs

Deadlock is checked for the received history, the exchange of acknowledgements, the
frames and the packet path, in which something can always happen. The sent
history may crash, and the other models end when their finite sets of keys,
numbers or packets are used up. No run uses symmetry: packet numbers and keys are
ordered.

| run | shows | bounds, and why they are enough |
|---|---|---|
| `ReceivedDup` | arrivals in any order with duplicates, and any deletions: no false acknowledgement, none lost, the counter fits the list, upper ends stay two apart, `PacketSet` is implemented | six numbers give three separate intervals, so an interval has neighbours on both sides; `Modulus` 8 keeps 0 and the largest number from being adjacent |
| `AckExchange` | without duplicates: ACK blocks disjoint and descending, delete_below exact; an ACK fits the buffer `ack_size` asks for, is true on the wire, is decoded in step and with its first block intact, however late | six numbers give three intervals, so `ack_size` and `ack_encode` disagree about a gap; with `Low` 2 the integers of the frame take 1, 2 and 4 bytes |
| `ReceivedMerge` (violation) | the announced merge does not happen | |
| `SentHistory` | dictionary exact until its tree is worn; counters exact and list in send order until the tree leads a call to a removed packet, counters never too high afterwards; links agree | three packets: a batch of two beside another one, an insertion after a deletion and a third deletion, each of which wears the tree; packets of every kind (1-RTT or not, retransmittable or not); `MaxDeficit` 1, so that the early returns are taken and a second underflow is seen |
| `SentRetransmission` (violation) | a retransmission of a known packet is never recorded | |
| `TreeTrim` | filled in any order, then up to two deletions: nothing lost, links, red-black shape, bounded work, `Dictionary` implemented, every call returns | seven keys: both fixups take every branch; two deletions, because more need not go well (below); liveness under `FairSpec` |
| `TreeReturns` (violation) | insertions after deletions lose keys and find deleted ones again | the script of nine keys in `MCRBTree`; free choice among as many calls is out of reach |
| `NumbersOnce` | no number twice, no skipped one ever, skipping regular, across the wrap | modulus 20 started at 15 with 23 numbers: one wrap and one full round; draws with and without overflow |
| `CongestionRecovery` | window bounds, one cut per flight, no growth in recovery, PRR keeps the flight from growing by more than a packet and what it has not counted | five packets of two sizes: two flights of losses with acknowledgements between them, timeouts and resets, and losses before the first acknowledgement |
| `CongestionSlowStart` | with samples interleaved: delay exit only after enough slow samples, no return to slow start by an acknowledgement; the smoothed time, its variance and the timeout within the bounds the samples give | rounds of three and four samples: a round that ends early, one that forgets its minimum, and one sample more; packets of full size; samples below, at and above the minimum, 0 included; a small `MaxTv` so that the timeout reaches it |
| `CongestionFirstAck` (violation) | the first ACK of a cubic epoch widens the window by far more than the tests of cubic expect | |
| `Packets` | frames of every type: sizes exact, decoders in step, values as sent, refusals only of bare frames at the end of a packet, no end heard unless that of one of the streams read into the struct was sent. Headers of every kind: room, payload, fields, numbers and flags. Offers of exactly the supported versions. The store frees each buffer at its address and never twice, until the process follows a worn tree to a freed node | two frames in a packet: each type stands before, behind and without another; a buffer in which only small frames fit and one that holds two; two streams that share a struct, over any number of packets. With `Low` 2 a byte has three bits, so numbers and integers of every length and on both sides of each limit occur. Two packets in flight and two places for buffers: overtaking, repetition, reuse of an address with another header size, and enough allocations and frees to wear the tree |

A property that is a conjunction of named parts is checked under the name of the
whole: `RecordsAgree` (the types, the dictionary until its tree is worn, the threading of the list until a call is misled),
`WellFormed` (types, parent links, red-black shape), `EstimatesInRange` (smoothed
time, variance, timeout), `FramesFit` (sizes, refusals of encoders), `FramesHeard`
(where decoders stop, what they read) and `HeadersRead` (fields, numbers, flags).
`CwndBounded` includes the types of the controller. The types of the received history
and of the number generator, and that the generator's numbers are an unbroken run
(`Unbroken`), are proved for all instances and not checked on small ones again.

Each property of a passing run is also broken by a mutant of the model, a small
change of the kind a bug in the code would be. The mutated operators stand
before the one they mutate, with a comment that begins "Mutant of".

Frames and headers of a packet lie side by side and do not touch each other, so
`MCPackets` lets a behaviour have either (`part`) instead of their product.

Fairness and liveness. There is no scheduler, no timer and no retry in this
library: nothing has to happen unless the caller makes a call. What must terminate
is each call, and the only calls with loops that are not a walk over a finite
structure are those of the tree. `FairSpec` of `RBTree` assumes weak fairness of the
steps of a running call (`Running`), no more: a call runs on its caller's thread and
waits for nothing, so it always goes on. It assumes nothing of the callers. Under
it `CallsReturn` says that every call returns, and leaves a tree that finds what it
should. No other specification states fairness.

## What is proved

### The received history

`AckExchangeProofs` proves in its first part, which assumes nothing of the wire, for
every modulus, every set of packet numbers and executions of every length:

| theorem | property | assumption |
|---|---|---|
| `TypeCorrect` | `TypeOK` | none |
| `AckArrayFits` | `AckFits` | none |
| `NeverFalseAck` | `NoFalseAck` | none: duplicates and wrapping numbers included |
| `MergeNeverTaken` | `EndsApart` | `NoWrap` |
| `ImplementsSet` | `ImplementsPacketSet` | `NoWrap` |
| `NothingEverLost` | `NothingLost` | `NoWrap` |
| `BlocksDescend` | `AckDescending` | `NoWrap`, no duplicates |
| `DeletionExact` | `DeleteIsExact` | `NoWrap`, no duplicates |

`NoWrap` says that the largest number of the type is not used, as on every
connection that ends before its 2^32-th packet. With it, `pnum + 1` in the code is
the successor; without it an interval that ends at the top of the range is taken
to adjoin packet 0, the list is no longer ordered, and only the theorems without
the assumption hold.

Argument, in layers that each use the ones before:

1. `ReceiveCases` and `DeleteCases` say what a call does to the list element by
   element (a node inserted, stretched or merged; the surviving nodes, trimmed).
   With them `TypeInv` (types and the counter) is inductive.
2. `AllHonest`: every interval contains arrived numbers only, **and its two ends
   have arrived**. The second half is needed because with wrapping numbers an
   interval can be empty and a later merge still uses its end. It implies
   `NoFalseAck`.
3. `Apart`: intervals are inhabited, end below the top, and upper ends are two
   apart. A packet that stretches an interval is two below every later end,
   because the walk has passed those (`PassedAbove`), so the comparison of the
   merge branch is never true (`MergeDead`). Without merges a reception adds its
   packet to the report and nothing else, a deletion removes only numbers below its
   bound, and the refinement of `PacketSet` follows.
4. `Ascending`: disjoint and ascending intervals. `Apart` does not imply it: a
   duplicate can stretch an interval over its predecessor. When no packet comes
   twice, `AllHonest` shows that the packet lies in no interval, and a lower end
   cannot move past a predecessor. In such a list the walk of `delete_below` stops
   at the first interval at or above its bound and all later ones are above it too.

### The packet number generator

`PacketPathProofs` proves, in its last part, for every modulus, first number, period, divisor,
set of values of `rand()` and execution:

| theorem | property | assumption |
|---|---|---|
| `NumbersTyped` | `TypeOK` | `Short` |
| `SkipStaysAhead` | `SkipAhead` | `Short` |
| `RunUnbroken` | `Unbroken` | `Short` |
| `NumbersNeverReused` | `NeverReused` | `Short` |
| `SkipsRegularly` | `LeftOutRegularly` | `Short` |
| `ExistedIsBeforeGap` | `ExistedBeforeGap` | none |

`Short` says that the longest distance the generator draws is shorter than a
round of all numbers: in the code 131077 against 2^32.

Argument. `Ahead(p, q)` is a distance on the circle of numbers; a few lemmas say
how a step forward and a change of origin change it.

1. `Ready`: types, and the number to leave out is between 1 and `LongestRun` ahead.
   A pop that steps onto it draws a new one; any other pop leaves it at least one
   ahead. The draw needs that division is monotone (`QuotientMonotone`).
2. `FirstRound` adds where `next` is (`Position`: as far from `First` as numbers
   were consumed) to what was consumed (`Unbroken`). Neither is inductive without
   the other. It implies that `next` and its successor are new, hence
   `NeverReused`.
3. `Regular`: behind each consumed number there is, within `LongestRun`, one that
   was left out, **or the one to be left out next**. The second half is what makes
   it inductive; `LeftOutRegularly` follows for the numbers far enough behind
   `next`.

### The round-trip estimator

`CongestionProofs` proves first, for every set of samples, every minimum and maximum of the
timeout and every sequence of samples:

| theorem | property |
|---|---|
| `RttTypes` | `RttTypeOK`: no integer leaves its type, the timeout stays within its limits |
| `EstimatesStayInRange` | `EstimatesInRange`: `SmoothedInRange`, `VarianceBounded` and `TimeoutCovers` |
| `MeasureKept` | `StaysMeasured`: once the smoothed time is not 0 it never is again |

Argument. `RttInv` is inductive: types, the history variables as bounds of the
samples, and the three ranges together. A sample moves the smoothed time by at most
an eighth of its distance; what rounding down loses and what the code's `- 1` takes
cancel to less than a tick (`SmoothedBounds`). That bounds how far a sample can be
from the smoothed time (`DriftBound`), so the variance cannot pass four times that,
because there a quarter of it decays with each sample (`VariedBound`).
`VarianceBounded` needs `SmoothedInRange` and is not inductive without it. Integers
of the model are unbounded: a `microtime_t` overflows only for samples above an
eighth of its range.

### Integers

`CodecProofs` proves, for every width of a byte and every number:

| theorem | says |
|---|---|
| `BigEndianInverts` | decoding `n` bytes into a struct that held `old` gives the number sent and, above it, the bytes of `old` |
| `VarintInverts` | decoding at any place of a buffer reads the number and takes as many bytes as were written |

Argument. `Worth` is defined by recursion over the bytes; that the recursion has a
solution, and only one, is shown over the set of lengths for which it has one
(`WorthSteps`, with `SetInduction`). Its i-th value for the low `n` bytes of `v` is `v`
shifted by the bytes still to come (`WorthOfDigits`), by the uniqueness of quotient
and remainder. An integer of length `n` is less than `Limit(n)`, so that its
first byte leaves the two bits free.

### Acknowledgements on the wire

`AckExchangeProofs` then proves, for every modulus, every width of a byte, every list of
blocks the history can produce, every rest of a packet and every order of arrivals,
deletions, sends, receptions and losses:

| theorem | property | hypothesis |
|---|---|---|
| `HistoryUndisturbed` | `ExchangeSpec => Spec`: what is proved of the history holds here | none |
| `SizeAlwaysSuffices` | `SizeSuffices` | `NoWrap`, `Expressible` |
| `WireIsTruthful` | `WireTruthful` | `NoWrap`, `Expressible` |
| `HeardExactlyWhenFollowed` | `HeardWhenFollowed` | `NoWrap`, `Expressible` |
| `FirstBlockAlwaysHeard` | `FirstBlockHeard` | `NoWrap`, `Expressible` |

`Expressible` says that the delay and the counters that the caller passes are below the
limit of integers, 2^62. Above it `ack_size` adds an error code to its result.
Duplicates need no hypothesis: a frame whose blocks overlap or touch is not `Gapped`,
and the properties are about the others.

Argument. `AckInv` is inductive together with the invariants of the history, and TLC
checked it on the instance of `AckExchange` before it was proved: a frame in use was
made of blocks of the history, which are inhabited (`Apart`) and hold arrived packets
only (`AllHonest`); its packet, while it lives, is the encoder's bytes and the rest, and
what was heard is the decoder's result for them. That packets keep arriving and being
forgotten disturbs none of it, because `arrived` only grows. The rest is about
one frame:

1. The recursions of `AckFrame` have solutions (`TotalSteps`, `EncodeSteps`,
   `GetSteps`, `RebuildSteps`), shown over the set of lengths for which they have one.
2. `FieldsOf` says which integer stands at which place of the frame, and
   `Positions` where its bytes begin.
3. `SizeHolds`: `ack_size` is at least the place where the last integer ends. Each gap
   is at most the distance to the first block, which `ack_size` measures in its
   place, and a larger integer takes no fewer bytes (`SizeMonotone`).
4. `FrameWritten`: in a buffer of at least that size the encoder never gives up and
   writes each integer at its place. Each step keeps the bytes before it, and only
   the last integer, which needs no successor, may end the buffer.
5. `AllRead`: a reader at the a-th place that reads m integers ends at the place
   after them and knows their values (`VarintInverts` for each), or gives up when the
   last of them must be followed and ends the packet. Any earlier one is
   followed by another. `FrameDecoded` applies it to what `ack_decode` demands,
   `FrameUnderstood` to a reader who demands no successors, whose blocks are those
   of the frame by induction over their number (`BlocksRebuilt`).

### The packet path

`PacketPathProofs` proves, for every set of packets and of ids that the assumptions
of `PacketPath` admit, every address, number of packets in flight and width of a
byte, and every order of sends, losses, repetitions, receptions and frees:

| theorem | property |
|---|---|
| `StoreIsHeap` | `StoreMatchesHeap`, of `PackStore` on its own: until the tree is worn, then until the process is astray |
| `StoreOnThePath` | `StoreMatchesHeap` |
| `RoomInFront` | `HeaderFits` |
| `PayloadOnThePath` | `PayloadFound` |
| `HeadersOnThePath` | `HeadersRead` |
| `NumbersOnThePath` | `NumberRecovered` |
| `OffersOnThePath` | `OfferedSupported` |

Argument. `PathInv` is inductive, and TLC checked it on the instance of `Packets`. Its parts:

1. `StoreInv`. `StoreMatchesHeap` alone is not inductive: a new buffer's payload could
   coincide with an old one's if blocks overlapped. `StoreInv` adds that each pointer
   lies inside the block it names (`InBlock`, its end included, since a payload may be
   empty) and the types; blocks apart then keep pointers apart (`FreshPointer`). Two
   things go wrong separately, and the property tells them apart: a worn tree that
   only loses nodes leaves buffers allocated and their objects with them, so every
   other free is still right; one that leads to a freed node ends what can be said. That
   the latter needs a worn tree is part of the invariant (`AstrayKeeps`); it rests, as the
   exactness before, on `TreeWear`, whose justification is `TrimIsDictionary`.
2. `FlightType`: what is in flight has the type of a packet, and a negotiation packet
   carries the versions of the registry (`RegistryType`). The second half is what makes
   `OfferedSupported` provable: the offer is what a packet carried that may be old. It
   needs that `version_fill` writes all of the section but its mark
   (`MarkRemoved`), and that reading four bytes at a time finds those and no
   others (`VersionsRead`).
3. `ReadInv`: the types of the structs, `PayloadFound`, `HeadersRead`, and
   `NumberBound`: the number in the struct of short headers is one of `longest`
   bytes. `NumberRead` is not inductive without it, since a number of that length
   replaces all of the old one only if the old one is no longer
   (`OverwrittenBound`).

A reception is three lemmas about the decoders, `LongRead`, `ShortRead` and
`VersionRead`: whatever the struct held, they give back what the encoder was given.
`DecodeSteps` unfolds the recursion of `HeaderDecode` to one step for each field;
`Stands` says which bytes stand where in a packet, and is carried through the
concatenations of the encoders; each field is read by `VarintInverts`,
`BigEndianInverts` or as it stands. A long header takes five to seven steps, by the
type of its packet; that none of them is refused follows from the fields still to
come (`Rejects` compares with the end of the packet after each field). `NumberDecoded` is
arithmetic about the block of numbers that the expected one lies in.

### The frames of a packet

`PayloadProofs` proves, for every set of proper frames of the fifteen types, every
size and content of the buffer, every width of a byte, every number of frames in a
packet, failing allocations, and every loss of packets:

| theorem | property |
|---|---|
| `PayloadSound` | the inductive invariant `PayloadInv` |
| `EveryFrameFits` | `FramesFit` |
| `EveryFrameHeard` | `FramesHeard` |
| `OnlyBareUnheard` | `HeardUnlessBare` |
| `EndSentBeforeHeard` | `EndNotInvented` |

Argument. `PayloadInv` was checked by TLC on the instance of `Packets` before it was
proved. It says of each frame in the packet that its fields stand behind its type
byte (`InPlace`, by `Stands`), that the type byte announces its optional fields and
no end it does not have (`Announced`), and that every frame but the last ends before
the packet does. `FramesHeard` alone is not inductive: the next frame is read from
bytes of which it says nothing. `EndSentBeforeHeard` rests on the second half of
`Announced`, and on the frames of a packet that is being read having been sent
(`EndsKnown`). The rest is about one frame.

1. The recursions of `Frames` have solutions (`OffsetSteps`, `WriteSteps`,
   `ReadSteps`), shown over the set of lengths for which they have one.
2. `Shape` is what the fifteen codecs have in common and the proof needs: the three
   functions go through the same kinds of fields, and a field that is checked for a
   full buffer is not the last one and has one behind it that is never empty, but for
   the cases in `MayEnd`. `CodecShapes` goes through the records, one by one; nothing
   else does.
3. `FrameWritten`: in a buffer of at least its size an encoder writes each field at
   its offset and nothing else, or gives up. Offsets grow (`OffsetsGrow`), so that it
   can give up only where the frame ends, and there only a bare one does (`FullIsBare`,
   `GiveUpBare`).
4. `FrameRead`: a decoder that has read k fields stands at the k-th offset with
   the values sent (`Ready`), or has given up at the end of the packet, and then the
   frame is bare (`Stopped`); each field takes it one further (`StepRead`). Integers
   are read by `VarintInverts`, two bytes by `BigEndianInverts`. The last field of a
   STREAM frame is apart (`StreamRead`), since its length may be the rest of the packet.

### The sent history

`SentHistoryProofs` proves, for every set of packets, every batch length, every
choice of failing allocations, everything a worn tree may lose or find again and
every wild pointer of `__readjust_first`:

| theorem | property |
|---|---|
| `HistoryHolds` | the inductive invariant `HistoryInv` |
| `CountersStayExact` | `CountsExact`: the counters equal the packets they count until a call was misled, and are never too high |
| `RecordsStayTogether` | `RecordsAgree`: dictionary equal to the list until its tree is worn, list in send order until a call was misled |
| `LinksBothWays` | `RetransLinked`: retransmissions linked in both directions, once each |

There are no hypotheses, but the properties end where the tree fails: `wear` counts how
long `TrimIsDictionary` vouches for it, and `misled` is set by the code's own steps,
when it changes what is recorded of a packet that is gone. Until the second removal and
as long as nothing is sent after a removal, no call can be misled.

Argument. `HistoryInv` is the conjunction of types, `OrderInv`, `ListInv`, `DictInv`,
`CountInv` and `Links`; TLC checked it on the instance of `SentHistory` before it was
proved. None but the types and `OrderInv` is inductive without others.

1. The list. `ListInSendOrder` says that the chain of `next` pointers is the
   order of sending. To show that a removal from the middle keeps it one has to know
   the pointers around the removed node: `Threads(list, order)` says, element by
   element, that both directions go through `order`. That `order` has no repetitions
   is `OrderInv`, which holds in any case; `ListInv`
   needs that no call was misled, since a removed node ties neighbours it no longer has.
   `InsertThreads` and `RemoveThreads` are the two operations;
   `AppendedThreads` follows the recursion of a batch by induction over its length.
   `HoldsThreads` goes back to the property.
2. The dictionary. Until its tree is worn it is `Tracked`; afterwards what a call finds
   is in `order` or was removed (`TypeOK`), and the second case is the one in
   which `Reaches` sets `misled`. So a call that is not misled acts on a packet of
   the list (`UnlinkStep`).
3. The counters. `Counted(Tracked)` gains what is sent, since a packet is handed
   over once (`Tracked` is part of `used`), and loses what is removed or marked.
   Hence, until a call was misled, the decremented counter is at least 0 and the early
   returns are dead (`UncountSteps`). A misled call counts out a packet that is not in
   the list, or returns early when that takes the counter below 0, and leaves packets
   marked or linked as they were (`UnderflowKeeps`): the counters are then too low
   or right, and no later call makes them too high.
4. The links. `RetransLinked` counts occurrences in `retransAs`. The invariant says
   that `retransAs[p]` has no repetitions and its elements are exactly the packets
   whose `retransOf` is p, and that such a packet is `used`: a batch is new, so its
   packets are not linked yet.

### The tree

`RBTreeProofs` proves of the time in which a tree is filled and of the first two
deletions from it, for every finite set of keys, in whatever order they are inserted and
whichever two are deleted:

| theorem | property | hypothesis |
|---|---|---|
| `FillKeepsAll` | `NothingLost` | nothing was deleted so far |
| `FillWellFormed` | `WellFormed`, with the types and `RedBlack` | nothing was deleted so far |
| `FillWorkBounded` | `WorkBounded` | nothing was deleted so far |
| `FillIsDictionary` | `ImplementsDictionary` | `MaxDeletions = 0` |
| `TrimKeepsAll` | `NothingLost` | at most two keys deleted so far, no insertion after a deletion |
| `TrimWellFormed` | `WellFormed` | the same |
| `TrimWorkBounded` | `WorkBounded` | the same |
| `TrimIsDictionary` | `ImplementsDictionary` | `MaxDeletions <= 2`, no insertion after a deletion |

The first three are `[](deleted = {} => ...)`: they hold of any execution until its first
deletion. The version registry and the number generator never delete, and the
hypotheses are theirs. The `Trim` theorems go as far as the code does: a third
deletion may lose keys, and so may an insertion after a deletion (`TreeReturns`). The two
on work are all of `CallsReturn` that is not liveness: no loop of these calls goes
round for ever.

Argument for the filling. `FillInv` says that there are two functions, `r` and `h`, for which
`Filling(r, h)` holds. TLC checked it on the seven keys of `TreeTrim`, with both
computed from the tree, before it was proved. The functions replace an induction over trees:

1. `Shape`: `r[n]` is the set of keys whose search passes `n`. The root has all keys;
   a child has the half of its parent's on its side (`ChildrenLinked`), which is
   never missing where a linked key needs it (`Reached`); two of these sets are
   nested or disjoint (`Nested`, `Apart`); every linked node hangs below its parent
   (`ParentsLinked`); and nodes that are not linked, the sentinel among them, are as
   `rbtree_node_init` left them (`Fresh`). That the search finds the linked keys and no
   others (`FoundLinked`) follows by induction over the steps of the search
   (`PassedAbove`), since each set is a proper part of the one before.
2. A rotation changes `r` for the two nodes it turns: the one that comes up takes
   over the keys of the other, which keeps its half of them (`Rotated`). `RotateShape` shows
   that the shape survives.
3. `Even`: `h[n]` black nodes are below `n` on either side. `BlacksAddUp` adds them up
   along a search, which gives the balance that `RedBlack` speaks of. `RedApart`: no red
   node has a red parent, or is the root, but the one that `rbtree_fixup` is at. Neither
   is kept by a rotation alone; the repaintings around it restore them (`TurnEven`).
4. `Progress` bounds the steps: those of the search with the nodes below the place it
   has reached, those of the fixup with the nodes above the red one. An iteration of
   the fixup climbs or ends.

`FillIsDictionary` follows with `FillStep`: a step changes what a search finds only where
`rbtree_link` adds a key.

Argument for the deletions. `TrimInv` takes over at the first deletion, when `FillInv`
says nothing any more; TLC checked it on seven keys before it was proved.

1. `Wired` is `Shape` without what only a filled tree has (`Fresh`, all keys passing the
   root). Every rotation and repainting keeps it (`RotateWired`, `PaintWired`), provided
   that the node that comes up is not the sentinel. That is what the colours are needed for.
2. `Short(t, L, h, x, q, d)`: as `Even`, with one black node missing below `q` on side `d`,
   and a red node `x` counted as black. `x` is there because `DeleteDone` does not paint
   the node at which the loop ends: what counted one black node too few is even again
   if that node counts (`LoopEnds`). `Balanced` is `Short` with nothing missing, `Lacking`
   with one missing above the node the loop is at.
3. Where a black node is missing there is a sibling (`SiblingFacts`), so the first half
   of an iteration rotates a linked node up (`SiblingStep`). In the second half a black
   sibling is painted red and the loop climbs (`ClimbStep`), which ends it if the parent is
   red, or a red nephew is turned up and it ends at the root (`TurnStep`).
4. The first deletion starts from a red-black tree, and `Tame`, no red node below a red
   one, makes its last rotation restore the count. The second starts from a tree in which `x`
   may be red below red. When such a sibling was rotated away, the new one may be the
   sentinel, and the count is lost. But then the parent is red, so this iteration is the
   last whatever it does, and it turns no sentinel up as long as that is black (`Hung`);
   it may paint it red, though, and after that nothing is known. `Cut` says what is
   known during and after the first deletion and the second.
5. `Unlink`. A node with one child is lifted out (`LiftWired`, `LiftLacks`). A node with
   two is replaced by the next key, which `__rbtree_minimum` finds (`MinimumFirst`). The
   code's twelve assignments amount to two steps (`InnerRenames`): the next key is lifted
   out of its own place, then takes the name of the node that goes. No
   key lies between the two (`InnerBeside`), so every comparison has the same result
   under the new name, and so has the shape (`RenameWired`) and the count (`RenameColors`).
6. `Above` bounds the work: each climb has one node less above it (`AboveShrinks`).

`TrimIsDictionary` follows with `TrimStep`: the key is gone when `Unlink` has run, and since
the shape determines what a search finds, the fixup changes nothing of it.

### The congestion controller

`CongestionProofs` then proves, for every finite set of packets, all sizes up to a
segment, all windows with `MinCwnd <= InitCwnd <= MaxCwnd` (the arguments of
`congestion_init`), every set of samples and every age of a cubic epoch:

| theorem | property | hypothesis |
|---|---|---|
| `WindowStaysBounded` | `CwndBounded`, with the types of the controller | `NoReduction` |
| `FlightCutOnce` | `OneCutPerFlight` | `NoReduction` |
| `WindowHeldInRecovery` | `NoGrowthInRecovery` | `NoReduction` |
| `FlightDrains` | `RecoveryDrains` | `NoReduction`, `AllRetransmittable` |
| `SharedEstimates` | `EstimatesInRange` | none |
| `DelayExitEarned` | `DelayExitNeedsSamples` | none |
| `SlowStartStaysLeft` | `SlowStartLeft` | `NoReduction`, `FullPackets` |

`NoReduction` is what `congestion_init` leaves and no function changes.
`AllRetransmittable` is needed because PRR counts the acknowledgement of every
packet as delivered, while only retransmittable packets are in flight: an
acknowledged ACK-only packet lets a packet out that nothing has drained.
`FullPackets`: cubic asks for a window that depends on the acknowledged packet's
size (`CongestionFirstAck`).

Argument, in layers:

1. `NumbersInv`: `large_sent`, `large_acked` and `cb_large_sent` are packets or 0,
   and the packets of the last cut are those up to `cb_large_sent`. It needs no
   hypothesis.
2. `WindowInv` adds types, the bounds, and what an epoch of cubic starts from
   (`EpochInv`). Cubic divides fractions and compares with a window that an epoch's
   first acknowledgement computed: the bound from below needs that an epoch never
   asks for less than the segment it started from.
   `FlightCutOnce` and `WindowHeldInRecovery` are consequences of one step.
3. `DrainInv` splits the flight at `cb_large_sent`. What was in flight at the loss
   shrinks by at least what PRR counts as delivered; what was sent afterwards is
   counted by PRR or by `unpaced`; and during recovery the threshold is the window.
   `RecoveryDrains` follows from the comparison of two products in
   `prr_check_send` (`Proportional`). `Bytes` is the cardinality of a set, so that
   the bytes of disjoint sets add up (`BytesOfUnion`).
4. `SlowSeenInv`: a round's samples were slow, **or** the minimum of the round is
   low and positive. The second half fails after a sample of 0.
5. `LeftInv`: in slow start no epoch is open, and in an epoch the window is no
   larger than what cubic asks for, which only grows with the age.

Two properties were restated when their proofs failed, after TLC had found
counterexamples on larger instances: `RecoveryDrains` did not have `unpaced`, and
`DelayExitNeedsSamples` did not exempt samples of 0 and counted samples of any
size. The runs now reach both cases.

### What is not proved

Of the safety properties and refinements that the passing runs check, every one is
stated by a theorem; what hypotheses it needs is in the tables above.

Out of the prover's reach: liveness (`CallsReturn`) and `ENABLED`. The library's
induction theorems take an operator as a parameter, which the provers cannot
instantiate; `SequenceLemmas` has induction over a *set* of natural numbers instead
(`LeastNatural`, `SetInduction`), with which the recursion of `Appended`, the
length of a batch and the steps of a search are dealt with.

## Findings

Four disagreements between the code and what it says of itself are kept as
violation runs, with the quoted lines in `PROJECT.json`: the dead merge branch
(`ReceivedMerge`), retransmissions that are not recorded (`SentRetransmission`),
the missing final blackening in the deletion fixup, after which a later insertion loses
keys and links deleted nodes into the tree again (`TreeReturns`), and the swapped
arguments of `cubic_received_ack` (`CongestionFirstAck`). What the third means for the
tree's users: the sent history counts a removed packet out twice, and the packet
store reads and links nodes that it has freed.

Smaller observations made while modelling, which no run states:

- `ack_decode` reads both integers of every block after the first into `gap` and
  leaves the block's length 0 (`wire/ack.c:155` and `:162`), so those blocks come
  out wrong. It also asks for a byte behind the last block (`:165`), so that a frame
  of several blocks without ECN counters is refused at the end of a packet. No
  comment or test of the repository speaks of either; `FirstBlockHeard` and
  `HeardWhenFollowed` say what does hold.
- `ack_size` measures all gaps from the first block (`blocks[i - i]`,
  `wire/ack.c:18`). Its result is too large for three and more blocks, never too
  small (`SizeSuffices`).
- `ack_encode` adds the negative results of `varint_encode` to its position. For
  two blocks that touch, the gap is -1, the position goes back by one, and the call
  succeeds with a byte overwritten.
- After a duplicate has made two intervals overlap, `delete_below` can return
  before an interval that begins below its bound. `DeleteIsExact` is therefore
  checked for the duplicate-free history only.
- In congestion avoidance the ACK of a packet much smaller than a segment can
  shrink the window, also below `min_cwnd`: the window cubic asks for depends on
  the packet's size and is limited from above only. This is why `CwndBounded` has
  the smaller of a segment and `min_cwnd` as its lower limit, and why
  `SlowStartLeft` is checked for packets of full size.
- Slow start adds a segment to a window below `max_cwnd` without a second
  comparison, so the window may exceed `max_cwnd` by less than a segment.
- `w_last_max` is only written when the window is smaller than its old value,
  which is 0, so it stays 0 and cubic never aims at an earlier maximum.
- `congestion_next_sent_delay` returns `srtt / (2 * cwnd)` when PRR refuses,
  which is 0 in integers for every usual window: PRR's refusal has no effect
  unless the caller treats it as one. `RecoveryDrains` is about a sender that
  does.
- Packet number 0 does not count for the controller: its ACK does not start
  recovery and its loss never cuts the window. The model's packets begin at 1.
- `congestion_reset` keeps no memory of packets still in flight; their later
  losses can cut the window again. `OneCutPerFlight` is about packets sent since
  the last reset.
- `pnum_gener_existed` finds the numbers handed out just before a gap
  (`ExistedBeforeGap`), neither all that were handed out nor those left out.
- `packet_number_decode` compares in unsigned arithmetic. In the first window every
  number comes out a window too high, and a number in the window after that of the
  expected one always comes out a window too low, however near it is.
  `NumberRecovered` says where it is right. For numbers of four bytes its window,
  `1 << 32`, is undefined in C; the model leaves that length out. Nothing calls it.
- `LONG_HEADER_MAX_SIZE` is 54. A Retry with three connection ids of 18 bytes needs
  60, and an Initial as much more as its token is long. `HeaderFits` says that every
  other header fits.
- `reset_encode` writes its three fields to the start of the buffer, one over the
  other. `new_connid_decode` reads the sequence number and nothing else.
- `stream_encode` toggles the end bit that `stream_type_byte` has set: a caller that
  writes the type byte afterwards announces no end. `stream_decode` sets `fin` and
  never clears it, as `spack_get_header` does with the spin bit and the key phase: a struct
  used for a second stream tells the end of the first one (`wire/stream.c:90`).
- A STREAM frame with nothing behind its id and a CONNECTION_CLOSE without a reason
  are refused by encoder and decoder at the end of a packet.
- A STREAM frame without a length takes the rest of the packet. `stream_size`
  counts its data, which is empty, so such a frame is one without data.
- `spack_get_header` decodes the number over the old one, so a shorter number keeps
  the high bytes of a longer one before it. The test of short headers decodes into
  a struct that is not initialised (`test/wire/short_header.c`).
- `version_negotiation_get_header` offers `bigendian_decode` one byte of the four
  and never reads the version; the test passes its arguments in another order than
  it declares (`test/wire/version_negotiation.c`). A negotiation packet without ids
  and versions is refused.
- `version_fill` skips one entry of the section, the count skips version 0: a second
  entry of version 0 in a program would be sent and not counted.

## Plan

Order: what an endpoint's correctness rests on first. Done: the received history
with its abstraction and proofs, the ACK frames made of it, the sent history over
list and dictionary, the tree, the number generator, congestion control, the
round-trip estimator, the packet store, frames, headers and the version registry.
Every part with state or an encoding is modelled.

Next abstractions: a window specification (a window, a flight, at most one cut
for each flight) that `Congestion` implements.

Next theorems: the refinement of the window specification.

## Not modelled, and why

Connection id and stream type helpers (an empty struct and a remainder), the parts
of the linked list that only the received history uses (it is modelled over a
sequence), and the test runner, which is a development tool. Logging does not exist
in the code. Allocation failure is modelled where the code can go on after it: the
registry and the store exit the program when they cannot allocate their tree, and
`lpack_get_header` does not look at what `malloc` returns for a token. A four-byte
`packet_number_decode` is undefined behaviour and has no caller. The same holds of what
a process does in `PackStore` after it has followed a link to a freed node. A worn tree
may also send a search or a fixup of its users round for ever or to a null pointer;
in the models of the users such a call has no step, and the behaviour ends there.
