----------------------------- MODULE SentHistory -----------------------------
(***************************************************************************)
(* The sent-packet history of ack/sent_packet_history.c: the packets that  *)
(* are in flight, in a list in the order they were sent and in a           *)
(* dictionary by packet number, with counters of the packets that may      *)
(* still be retransmitted.  A packet is known by its number and is sent    *)
(* once, so its number also names its list node and its tree node.         *)
(***************************************************************************)
EXTENDS Integers, Sequences, FiniteSets, SequencesExt, TreeWear

CONSTANTS
  Packets,      \* packet numbers
  Retransmittable,  \* those the caller sends with allow_retrans set
  OneRTT,       \* those whose encrypt_level is ENCRYPT_LEVEL_1RTT
  MaxBatch,     \* bound: packets in one retransmission
  MaxDeficit,   \* bound: how far below 0 a counter is followed
  ListHead,         \* the list head
  NULL

ASSUME PacketsAssumption == IsFiniteSet(Packets)
ASSUME KindsAssumption == Retransmittable \subseteq Packets /\ OneRTT \subseteq Packets
ASSUME NamesAssumption == ListHead \notin Packets /\ NULL \notin Packets \cup {ListHead}
ASSUME BatchAssumption == MaxBatch \in Nat
ASSUME DeficitAssumption == MaxDeficit \in Nat

VARIABLES
  list,         \* list: next and prev pointers
  dict,         \* dict: the numbers the search tree finds
  first,        \* first
  packetsCount, \* packets_count
  cryptoCount,  \* crypto_packets_count
  allow,        \* allow_retrans of each packet
  retransAs,    \* retrans_as of each packet
  retransOf,    \* retrans_pnum of each packet, NULL while is_retrans is unset
  crashed,      \* the process followed a wild pointer
  order,        \* history variable: packets sent and not removed, oldest first
  used,         \* history variable: packets the caller has handed over
  removed,      \* history variable: packets removed again
  wear,         \* history variable: the wear of the tree
  misled        \* history variable: the tree led a call to a removed packet

vars == <<list, dict, first, packetsCount, cryptoCount, allow, retransAs,
          retransOf, crashed, order, used, removed, wear, misled>>

LL == INSTANCE LinkedList WITH Node <- Packets

Init ==
  /\ list = LL!HeadInit
  /\ dict = {}
  /\ first = NULL
  /\ packetsCount = 0
  /\ cryptoCount = 0
  /\ allow = [p \in Packets |-> p \in Retransmittable]
  /\ retransAs = [p \in Packets |-> <<>>]
  /\ retransOf = [p \in Packets |-> NULL]
  /\ crashed = FALSE
  /\ order = <<>>
  /\ used = {}
  /\ removed = {}
  /\ wear = 0
  /\ misled = FALSE

-----------------------------------------------------------------------------
(* The packets in flight and those among S that the counters count.        *)
Tracked == ToSet(order)
Counted(S) == {p \in S : allow[p]}

(* The search tree after a change that should leave it with S and wears it *)
(* to w: a worn tree may lose entries, and since no node is freed and the  *)
(* sentinel still points at removed ones, it may find these again.         *)
DictAfter(S, w) ==
  /\ wear' = w
  /\ dict' \in IF w = Worn THEN SUBSET (S \cup Tracked \cup removed) ELSE {S}

(* The list l after ll_insert_before of the packets of s, one by one.      *)
Appended(l, s) ==
  LET after[n \in 0 .. Len(s)] ==
        IF n = 0 THEN l ELSE LL!InsertBefore(after[n - 1], ListHead, s[n])
  IN after[Len(s)]

(* sent_packet_sent of the packets of s, one after the other.              *)
SendAll(s) ==
  /\ list' = Appended(list, s)
  /\ IF s = <<>> THEN UNCHANGED <<dict, wear>>
     ELSE DictAfter(dict \cup ToSet(s), AfterInsert(wear))
  /\ first' = IF first = NULL /\ s # <<>> THEN s[1] ELSE first
  /\ packetsCount' = packetsCount + Cardinality(Counted(ToSet(s)))
  /\ cryptoCount' = cryptoCount + Cardinality(Counted(ToSet(s)) \ OneRTT)
  /\ order' = order \o s

HandOver(S) ==
  /\ S \cap used = {}
  /\ used' = used \cup S

(* sent_packet_sent.  When malloc fails the packet is not recorded.        *)
SentPacketSent(p) ==
  /\ HandOver({p})
  /\ \E s \in {<<p>>, <<>>} : SendAll(s)
  /\ UNCHANGED <<allow, retransAs, retransOf, crashed, removed, misled>>

(* The ways to pick n of m places, in their order.                         *)
Picks(n, m) ==
  {f \in [1 .. n -> 1 .. m] : \A i, j \in 1 .. n : i < j => f[i] < f[j]}

(* sent_packet_retransmission of the packets of batch for a packet that is *)
(* not, or no longer, in the dictionary: those are recorded whose malloc   *)
(* does not fail.                                                          *)
RetransmissionUnknown(batch, p) ==
  /\ p \notin dict
  /\ \E n \in 0 .. Len(batch) : \E f \in Picks(n, Len(batch)) :
       SendAll([i \in 1 .. n |-> batch[f[i]]])
  /\ UNCHANGED <<allow, retransAs, retransOf, crashed, removed, misled>>

(* Mutant of Marked: the whole batch is marked, whatever was allocated.    *)
MarkedAll(batch, done) == batch

(* The packets of the batch that are marked when the loop has done `done`. *)
Marked(batch, done) == SubSeq(batch, 1, done)

(* For a packet that is in the dictionary the batch is linked to it, up to *)
(* the first malloc that fails, and none of it is recorded.                *)
RetransmissionKnown(batch, p) ==
  /\ p \in dict
  /\ \E done \in 0 .. Len(batch) :
       /\ retransAs' = [retransAs EXCEPT ![p] = @ \o SubSeq(batch, 1, done)]
       /\ retransOf' = [q \in Packets |->
                          IF q \in ToSet(Marked(batch, done)) THEN p ELSE retransOf[q]]
  /\ UNCHANGED <<list, dict, first, packetsCount, cryptoCount, order, allow,
                 crashed, removed, wear, misled>>

Batches == {s \in SeqOf(Packets, MaxBatch) : IsInjective(s)}

SentPacketRetransmission(batch, p) ==
  /\ p \notin ToSet(batch)
  /\ HandOver(ToSet(batch))
  /\ \/ RetransmissionUnknown(batch, p)
     \/ RetransmissionKnown(batch, p)

-----------------------------------------------------------------------------
(* __readjust_first.  A list node is read as if a packet pointer followed  *)
(* its links; what follows is the tree node's colour, so unless the next   *)
(* node is the list head the walk follows a wild pointer: it faults, or it *)
(* stops anywhere further along.                                           *)
ReadjustFirst ==
  IF list.next[first] = ListHead
  THEN first' = ListHead /\ UNCHANGED crashed
  ELSE /\ crashed' \in BOOLEAN
       /\ first' \in IF crashed' THEN {first} ELSE Tracked \cup removed \cup {ListHead}

(* The comparison that decides whether `first` moves reads a word that is  *)
(* not a packet pointer: it may come out either way.                       *)
PerhapsReadjust == ReadjustFirst \/ UNCHANGED <<first, crashed>>

(* Mutant of Uncount: a packet that was marked before is counted out a     *)
(* second time.                                                            *)
UncountAgain(p) ==
  /\ packetsCount' = packetsCount - 1
  /\ cryptoCount' = IF p \notin OneRTT THEN cryptoCount - 1 ELSE cryptoCount

(* The counters after p stops being retransmittable.                       *)
Uncount(p) ==
  IF allow[p]
  THEN /\ packetsCount' = packetsCount - 1
       /\ cryptoCount' = IF p \notin OneRTT /\ packetsCount' >= 0
                         THEN cryptoCount - 1 ELSE cryptoCount
  ELSE UNCHANGED <<packetsCount, cryptoCount>>

(* The call changes what is recorded of p, which may have been removed.    *)
Reaches(p) == misled' = (misled \/ p \in removed)

(* The early returns taken when a counter would become negative.           *)
Underflows == packetsCount' < 0 \/ cryptoCount' < 0

(* sent_packet_mark_cannot_retrans                                         *)
MarkCannotRetrans(p) ==
  /\ p \in dict
  /\ Reaches(p)
  /\ Uncount(p)
  /\ IF Underflows
     THEN UNCHANGED <<allow, first, crashed>>
     ELSE /\ allow' = [allow EXCEPT ![p] = FALSE]
          /\ PerhapsReadjust
  /\ UNCHANGED <<list, dict, retransAs, retransOf, order, used, removed, wear>>

(* Mutant of Unlink: the tree keeps the entry.                             *)
UnlinkList(p) ==
  /\ list' = LL!Remove(list, p)
  /\ dict' = dict /\ wear' = AfterDelete(wear)
  /\ order' = RemoveFirst(order, p)
  /\ removed' = removed \cup {p}

(* ll_remove and rbtree_delete.  A removed node still points at what were  *)
(* its neighbours: removed once more, it ties those to each other.         *)
Unlink(p) ==
  /\ list' = LL!Remove(list, p)
  /\ DictAfter(dict \ {p}, AfterDelete(wear))
  /\ order' = RemoveFirst(order, p)
  /\ removed' = removed \cup {p}

(* sent_packet_remove.  The node is never freed.                           *)
SentPacketRemove(p) ==
  /\ p \in dict
  /\ PerhapsReadjust
  /\ IF crashed'
     THEN UNCHANGED <<list, dict, packetsCount, cryptoCount, order, removed, wear, misled>>
     ELSE /\ Reaches(p)
          /\ Uncount(p)
          /\ IF Underflows
             THEN UNCHANGED <<list, dict, order, removed, wear>>
             ELSE Unlink(p)
  /\ UNCHANGED <<allow, retransAs, retransOf, used>>

(* Marking or removing a number the dictionary does not find does nothing. *)
UnknownNumber(p) == p \notin dict /\ UNCHANGED vars

(* Bound: a counter that misled calls have taken below 0 is followed only  *)
(* so far.                                                                 *)
Followed == packetsCount >= - MaxDeficit /\ cryptoCount >= - MaxDeficit

Next ==
  /\ ~ crashed
  /\ Followed
  /\ \E p \in Packets :
       \/ SentPacketSent(p)
       \/ \E batch \in Batches : SentPacketRetransmission(batch, p)
       \/ MarkCannotRetrans(p)
       \/ SentPacketRemove(p)
       \/ UnknownNumber(p)

Spec == Init /\ [][Next]_vars

-----------------------------------------------------------------------------
TypeOK ==
  /\ dict \subseteq Tracked \cup removed
  /\ first \in Packets \cup {ListHead, NULL}
  /\ packetsCount \in Int
  /\ cryptoCount \in Int
  /\ allow \in [Packets -> BOOLEAN]
  /\ retransAs \in [Packets -> Seq(Packets)]
  /\ retransOf \in [Packets -> Packets \cup {NULL}]
  /\ crashed \in BOOLEAN
  /\ order \in Seq(Packets)
  /\ used \subseteq Packets
  /\ removed \subseteq used
  /\ wear \in Wear
  /\ misled \in BOOLEAN

(* packets_count and crypto_packets_count are the numbers of recorded      *)
(* packets that may still be retransmitted, in all and outside 1-RTT, as   *)
(* long as the tree has not led a call to a packet that was removed: no    *)
(* other order of sending, marking, removing, failed allocations or lost   *)
(* dictionary entries makes them drift, and the "BUG" returns that test    *)
(* for a negative counter are not taken.  Afterwards they are too low or   *)
(* right, never too high.                                                  *)
CountsExact ==
  ~ crashed =>
    LET packets == Cardinality(Counted(Tracked))
        crypto == Cardinality(Counted(Tracked) \ OneRTT)
    IN /\ packetsCount <= packets /\ cryptoCount <= crypto
       /\ ~ misled => packetsCount = packets /\ cryptoCount = crypto

(* The pointers of the list thread the recorded packets in the order they  *)
(* were sent, forwards and backwards, whatever was removed in between.     *)
ListInSendOrder == LL!Holds(list, order)

(* The three records of what is outstanding, the list, the dictionary and  *)
(* the fields of the packets, agree after every call as far as the tree    *)
(* allows it.  The dictionary finds exactly the packets in the list until  *)
(* the tree is worn; a worn one may miss some of them and find removed     *)
(* ones.  The list is threaded rightly as long as no such find has led a   *)
(* call to a packet that was removed.                                      *)
RecordsAgree ==
  /\ TypeOK
  /\ wear # Worn => dict = Tracked
  /\ ~ misled => ListInSendOrder

(* A packet is linked from the packet it retransmits exactly when it is    *)
(* marked as its retransmission, even when an allocation fails half way.   *)
RetransLinked ==
  \A p, q \in Packets :
    Cardinality({i \in DOMAIN retransAs[p] : retransAs[p][i] = q}) =
      IF retransOf[q] = p THEN 1 ELSE 0

(* A retransmission that was marked as one is recorded as sent, like the   *)
(* ones whose original is no longer known.                                 *)
RetransmissionRecorded ==
  \A p \in Packets : retransOf[p] # NULL => p \in Tracked \cup removed
=============================================================================
