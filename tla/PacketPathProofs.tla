--------------------------- MODULE PacketPathProofs ---------------------------
(***************************************************************************)
(* Theorems about PacketPath and the parts it is made of: the packet store *)
(* for every placement of its blocks, the headers for bytes of every       *)
(* width, every packet and whatever the receivers' structs held before;    *)
(* and about PacketNumber, which generates the numbers in the headers.     *)
(***************************************************************************)
EXTENDS PacketPath, PacketNumber, CodecProofs, FiniteSetTheorems

-----------------------------------------------------------------------------
(* The packet store.                                                       *)

(* Addresses and sizes are natural numbers.                                *)
StoreTypes ==
  /\ DOMAIN heap \subseteq Nat
  /\ \A b \in DOMAIN heap : heap[b] \in Nat
  /\ DOMAIN store \subseteq Nat
  /\ \A p \in DOMAIN store : store[p] \in Nat
  /\ heap = [b \in DOMAIN heap |-> heap[b]]
  /\ store = [p \in DOMAIN store |-> store[p]]

(* A payload begins in its block or at the end of it.                      *)
InBlock ==
  \A p \in DOMAIN store :
    p - store[p] \in DOMAIN heap /\ store[p] <= heap[p - store[p]]

(* Inductive: without InBlock a new pointer could be one that is in the    *)
(* store already, whose object would be overwritten.  Nothing is followed  *)
(* once the process has gone astray.                                       *)
StoreInv ==
  /\ StoreTypes
  /\ InBlock
  /\ StoreMatchesHeap
  /\ astray => wear = Worn

LEMMA InitStore == StoreInit => StoreInv
  BY DEF StoreInit, StoreInv, StoreTypes, InBlock, StoreMatchesHeap

(* malloc gives a block that is not allocated, and so a pointer that the   *)
(* store does not hold.                                                    *)
LEMMA FreshPointer ==
  ASSUME StoreInv, NEW base \in Nat, NEW header_size \in Nat, NEW size \in Nat,
         Apart(base, header_size + size)
  PROVE  base \notin DOMAIN heap /\ base + header_size \notin DOMAIN store
<1>1. ASSUME base \in DOMAIN heap PROVE FALSE
  <2>1. heap[base] \in Nat
    BY <1>1 DEF StoreInv, StoreTypes
  <2>2. base + (header_size + size) < base \/ base + heap[base] < base
    BY <1>1 DEF Apart
  <2> QED BY <2>1, <2>2
<1>2. ASSUME base + header_size \in DOMAIN store PROVE FALSE
  <2> DEFINE p == base + header_size
  <2> DEFINE b == p - store[p]
  <2>1. p \in Nat /\ store[p] \in Nat
    BY <1>2 DEF StoreInv, StoreTypes
  <2>2. b \in DOMAIN heap /\ store[p] <= heap[b]
    BY <1>2 DEF StoreInv, InBlock
  <2>3. b \in Nat /\ heap[b] \in Nat
    BY <2>2 DEF StoreInv, StoreTypes
  <2>4. base + (header_size + size) < b \/ b + heap[b] < base
    BY <2>2 DEF Apart
  <2> HIDE DEF b
  <2>5. p = b + store[p]
    BY <2>1 DEF b
  <2> QED BY <2>1, <2>2, <2>3, <2>4, <2>5
<1> QED BY <1>1, <1>2

(* What happens to a process that goes astray is not followed.             *)
LEMMA AstrayKeeps ==
  ASSUME StoreInv, NEW w, GoAstray(w)
  PROVE  StoreInv'
<1>1. heap' = heap /\ store' = store /\ astray' /\ wear' = Worn
  BY DEF GoAstray
<1>2. StoreTypes' /\ InBlock'
  BY <1>1 DEF StoreInv, StoreTypes, InBlock
<1>3. StoreMatchesHeap'
  BY <1>1 DEF StoreMatchesHeap
<1> QED BY <1>1, <1>2, <1>3 DEF StoreInv

(* pack_malloc adds one block and its object.                              *)
LEMMA BlockAdded ==
  ASSUME StoreInv, NEW base \in Nat, NEW header_size \in Nat, NEW size \in Nat,
         ~ astray, ~ astray', Apart(base, header_size + size),
         heap' = [b \in DOMAIN heap \cup {base} |->
                    IF b = base THEN header_size + size ELSE heap[b]],
         store' = [p \in DOMAIN store \cup {base + header_size} |->
                     IF p = base + header_size THEN header_size ELSE store[p]]
  PROVE  StoreInv'
<1> DEFINE ptr == base + header_size
<1>1. base \notin DOMAIN heap /\ ptr \notin DOMAIN store
  BY FreshPointer
<1>0. /\ {p - store[p] : p \in DOMAIN store} = DOMAIN heap
      /\ \A p, q \in DOMAIN store : p - store[p] = q - store[q] => p = q
  BY DEF StoreInv, StoreMatchesHeap
<1>2. /\ DOMAIN heap' = DOMAIN heap \cup {base}
      /\ heap'[base] = header_size + size
      /\ \A b \in DOMAIN heap : heap'[b] = heap[b]
  BY <1>1
<1>3. /\ DOMAIN store' = DOMAIN store \cup {ptr}
      /\ store'[ptr] = header_size
      /\ \A p \in DOMAIN store : store'[p] = store[p]
  BY <1>1
<1>4. ptr - store'[ptr] = base
  BY <1>3
<1>5. StoreTypes'
  <2>1. heap' = [b \in DOMAIN heap' |-> heap'[b]] /\ store' = [p \in DOMAIN store' |-> store'[p]]
    OBVIOUS
  <2> QED BY <1>2, <1>3, <2>1 DEF StoreInv, StoreTypes
<1>6. InBlock'
  <2> SUFFICES ASSUME NEW p \in DOMAIN store'
               PROVE  /\ p - store'[p] \in DOMAIN heap'
                      /\ store'[p] <= heap'[p - store'[p]]
    BY DEF InBlock
  <2>1. CASE p = ptr
    <3>1. header_size <= header_size + size
      OBVIOUS
    <3> QED BY <2>1, <3>1, <1>2, <1>3, <1>4
  <2>2. CASE p \in DOMAIN store
    <3>1. p - store[p] \in DOMAIN heap /\ store[p] <= heap[p - store[p]]
      BY <2>2 DEF StoreInv, InBlock
    <3> QED BY <2>2, <3>1, <1>2, <1>3
  <2> QED BY <2>1, <2>2, <1>3
<1>7. StoreMatchesHeap'
  <2>1. {p - store'[p] : p \in DOMAIN store'} = DOMAIN heap'
    <3>1. {p - store'[p] : p \in DOMAIN store'}
            = {p - store[p] : p \in DOMAIN store} \cup {base}
      BY <1>3, <1>4
    <3> QED BY <3>1, <1>0, <1>2
  <2>2. ASSUME NEW p \in DOMAIN store', NEW q \in DOMAIN store',
               p - store'[p] = q - store'[q]
        PROVE  p = q
    <3>1. CASE p \in DOMAIN store /\ q \in DOMAIN store
      BY <2>2, <3>1, <1>0, <1>3
    <3>2. ASSUME NEW r \in DOMAIN store PROVE r - store'[r] # base
      <4>1. r - store[r] \in DOMAIN heap
        BY DEF StoreInv, InBlock
      <4> QED BY <4>1, <1>1, <1>3
    <3> QED BY <2>2, <3>1, <3>2, <1>3, <1>4
  <2> QED BY <2>1, <2>2 DEF StoreMatchesHeap
<1> QED BY <1>5, <1>6, <1>7 DEF StoreInv

LEMMA MallocKeeps ==
  ASSUME StoreInv, NEW base \in Nat, NEW header_size \in Nat, NEW size \in Nat,
         PackMalloc(base, header_size, size)
  PROVE  StoreInv'
<1>1. CASE GoAstray(AfterInsert(wear))
  BY <1>1, AstrayKeeps
<1>2. CASE ~ GoAstray(AfterInsert(wear))
  <2>1. /\ ~ astray /\ astray' = astray
        /\ Apart(base, header_size + size)
        /\ heap' = [b \in DOMAIN heap \cup {base} |->
                      IF b = base THEN header_size + size ELSE heap[b]]
        /\ store' = [p \in DOMAIN store \cup {base + header_size} |->
                       IF p = base + header_size THEN header_size ELSE store[p]]
    BY <1>2, Zenon DEF PackMalloc
  <2>2. ~ astray'
    BY <2>1, Zenon
  <2> QED BY <2>1, <2>2, BlockAdded
<1> QED BY <1>1, <1>2

(* pack_free of a pointer that is found takes out one block and its        *)
(* object: no other object names that block.                               *)
LEMMA ObjectFreed ==
  ASSUME StoreInv, NEW ptr \in DOMAIN store, ~ astray, ~ astray', FreeObject(ptr)
  PROVE  StoreInv'
<1> DEFINE base == ptr - store[ptr]
<1>0. /\ {p - store[p] : p \in DOMAIN store} = DOMAIN heap
      /\ \A p, q \in DOMAIN store : p - store[p] = q - store[q] => p = q
  BY DEF StoreInv, StoreMatchesHeap
<1>1. /\ DOMAIN heap' = DOMAIN heap \ {base}
      /\ \A b \in DOMAIN heap' : heap'[b] = heap[b]
  BY DEF FreeObject, Restrict
<1>2. /\ DOMAIN store' = DOMAIN store \ {ptr}
      /\ \A p \in DOMAIN store' : store'[p] = store[p]
  BY DEF FreeObject, Restrict
<1>3. \A p \in DOMAIN store' : p - store[p] # base
  BY <1>0, <1>2
<1>4. StoreTypes'
  <2>1. heap' = [b \in DOMAIN heap' |-> heap'[b]] /\ store' = [p \in DOMAIN store' |-> store'[p]]
    BY DEF FreeObject, Restrict
  <2> QED BY <1>1, <1>2, <2>1 DEF StoreInv, StoreTypes
<1>5. InBlock'
  BY <1>1, <1>2, <1>3 DEF StoreInv, InBlock
<1>6. StoreMatchesHeap'
  <2>1. {p - store'[p] : p \in DOMAIN store'} = {p - store[p] : p \in DOMAIN store'}
    BY <1>2
  <2>2. {p - store[p] : p \in DOMAIN store'} = {p - store[p] : p \in DOMAIN store} \ {base}
    BY <1>2, <1>3
  <2>3. \A p, q \in DOMAIN store' : p - store'[p] = q - store'[q] => p = q
    BY <1>0, <1>2
  <2> QED BY <1>0, <1>1, <2>1, <2>2, <2>3 DEF StoreMatchesHeap
<1> QED BY <1>4, <1>5, <1>6 DEF StoreInv

LEMMA FreeKeeps ==
  ASSUME StoreInv, NEW ptr \in Nat, PackFree(ptr)
  PROVE  StoreInv'
<1>1. CASE UNCHANGED storeVars
  BY <1>1 DEF StoreInv, StoreTypes, InBlock, StoreMatchesHeap, storeVars
<1>2. CASE ptr \in DOMAIN store /\ ~ astray /\ ~ astray' /\ FreeObject(ptr)
  BY <1>2, ObjectFreed
<1>3. ASSUME NEW w, GoAstray(w) PROVE StoreInv'
  BY <1>3, AstrayKeeps
<1> QED BY <1>1, <1>2, <1>3 DEF PackFree

LEMMA StepStore == StoreInv /\ [StoreNext]_storeVars => StoreInv'
<1> SUFFICES ASSUME StoreInv, [StoreNext]_storeVars PROVE StoreInv'
  OBVIOUS
<1>1. ASSUME NEW base \in Bases, NEW header_size \in Nat, NEW size \in Nat,
             PackMalloc(base, header_size, size)
      PROVE  StoreInv'
  BY <1>1, BasesAssumption, MallocKeeps
<1>2. ASSUME NEW ptr \in Nat, PackFree(ptr) PROVE StoreInv'
  BY <1>2, FreeKeeps
<1>3. CASE UNCHANGED storeVars
  BY <1>3 DEF StoreInv, StoreTypes, InBlock, StoreMatchesHeap, storeVars
<1> QED BY <1>1, <1>2, <1>3 DEF StoreNext

(* pack_malloc and pack_free, in any order and with stale pointers: the    *)
(* objects of the store are the allocated blocks, one for one, so that     *)
(* pack_free frees only what malloc gave, and nothing twice.  That is so   *)
(* whatever happens up to the second pack_free that finds its object, and  *)
(* after a third, or a pack_malloc after one, for as long as the process   *)
(* has not followed a link of the tree to a freed node.                    *)
THEOREM StoreIsHeap == StoreSpec => []StoreMatchesHeap
<1>1. StoreInv => StoreMatchesHeap
  BY DEF StoreInv
<1> QED BY <1>1, InitStore, StepStore, PTL DEF StoreSpec

-----------------------------------------------------------------------------
(* Bytes in a buffer.                                                      *)

(* The bytes of chunk stand in buf behind the first `used`.                *)
Stands(buf, used, chunk) ==
  /\ used + Len(chunk) <= Len(buf)
  /\ \A i \in 1 .. Len(chunk) : buf[used + i] = chunk[i]

LEMMA StandsParts ==
  ASSUME NEW S, NEW s \in Seq(S), NEW t \in Seq(S), NEW buf, Len(buf) \in Nat,
         NEW used \in Nat, Stands(buf, used, s \o t)
  PROVE  /\ s \o t \in Seq(S) /\ Len(s \o t) = Len(s) + Len(t)
         /\ Len(s) \in Nat /\ Len(t) \in Nat
         /\ Stands(buf, used, s) /\ Stands(buf, used + Len(s), t)
  <1>1. Len(s) \in Nat /\ Len(t) \in Nat
    BY LenProperties
  <1>2. /\ s \o t \in Seq(S) /\ Len(s \o t) = Len(s) + Len(t)
        /\ \A i \in 1 .. Len(s) + Len(t) :
             (s \o t)[i] = IF i <= Len(s) THEN s[i] ELSE t[i - Len(s)]
    BY ConcatProperties
  <1>3. /\ used + (Len(s) + Len(t)) <= Len(buf)
        /\ \A i \in 1 .. Len(s) + Len(t) : buf[used + i] = (s \o t)[i]
    BY <1>2 DEF Stands
  <1>4. ASSUME NEW i \in 1 .. Len(s) PROVE buf[used + i] = s[i]
    <2>1. i \in 1 .. Len(s) + Len(t) /\ i <= Len(s)
      BY <1>1
    <2> QED
      BY <1>2, <1>3, <2>1
  <1>5. ASSUME NEW i \in 1 .. Len(t) PROVE buf[(used + Len(s)) + i] = t[i]
    <2>1. /\ Len(s) + i \in 1 .. Len(s) + Len(t) /\ ~ (Len(s) + i <= Len(s))
          /\ (Len(s) + i) - Len(s) = i /\ used + (Len(s) + i) = (used + Len(s)) + i
      BY <1>1
    <2> QED
      BY <1>2, <1>3, <2>1
  <1>6. used + Len(s) <= Len(buf) /\ (used + Len(s)) + Len(t) <= Len(buf)
    BY <1>1, <1>3
  <1>7. Stands(buf, used, s)
    BY <1>4, <1>6 DEF Stands
  <1>8. Stands(buf, used + Len(s), t)
    BY <1>5, <1>6 DEF Stands
  <1> QED
    BY <1>1, <1>2, <1>7, <1>8

LEMMA StandsWhole ==
  ASSUME NEW S, NEW s \in Seq(S)
  PROVE  Stands(s, 0, s)
  <1>1. Len(s) \in Nat
    BY LenProperties
  <1>2. \A i \in 1 .. Len(s) : 0 + i = i
    BY <1>1
  <1> QED
    BY <1>1, <1>2 DEF Stands

LEMMA StandsTaken ==
  ASSUME NEW S, NEW buf, NEW used \in Nat, NEW chunk \in Seq(S), Stands(buf, used, chunk)
  PROVE  SubSeq(buf, used + 1, used + Len(chunk)) = chunk
  <1> DEFINE n == Len(chunk)
             t == SubSeq(buf, used + 1, used + n)
  <1>1. n \in Nat /\ \A i \in 1 .. n : chunk[i] \in S
    BY LenProperties, ElementOfSeq
  <1>2. \A i \in 1 .. n : buf[used + i] = chunk[i]
    BY DEF Stands
  <1>3. ASSUME NEW i \in used + 1 .. used + n PROVE buf[i] \in S
    <2>1. i - used \in 1 .. n /\ used + (i - used) = i
      BY <1>1
    <2> QED
      BY <1>1, <1>2, <2>1
  <1>4. /\ t \in Seq(S)
        /\ Len(t) = IF used + 1 <= used + n THEN (used + n) - (used + 1) + 1 ELSE 0
        /\ \A i \in 1 .. (used + n) - (used + 1) + 1 : t[i] = buf[(used + 1) + i - 1]
    <2>1. used + 1 \in Int /\ used + n \in Int
      BY <1>1
    <2> HIDE DEF n
    <2> QED
      BY <1>3, <2>1, SubSeqProperties
  <1> HIDE DEF t
  <1>5. Len(t) = n
    BY <1>1, <1>4
  <1>6. ASSUME NEW i \in 1 .. n PROVE t[i] = chunk[i]
    <2>1. i \in 1 .. (used + n) - (used + 1) + 1 /\ (used + 1) + i - 1 = used + i
      BY <1>1
    <2> QED
      BY <1>2, <1>4, <2>1
  <1> QED
    BY <1>4, <1>5, <1>6, SeqEqual DEF t

LEMMA Single ==
  ASSUME NEW S, NEW e \in S
  PROVE  <<e>> \in Seq(S) /\ Len(<<e>>) = 1 /\ <<e>>[1] = e
  OBVIOUS

LEMMA WiderSeq ==
  ASSUME NEW S, NEW T, S \subseteq T, NEW s \in Seq(S)
  PROVE  s \in Seq(T)
  OBVIOUS

LEMMA Joined ==
  ASSUME NEW S, NEW s \in Seq(S), NEW t \in Seq(S)
  PROVE  s \o t \in Seq(S) /\ Len(s \o t) = Len(s) + Len(t)
  BY ConcatProperties

(* The five fields that every header with two ids begins with.             *)
FiveFields(first, version, ids, dst, src) ==
  <<first>> \o version \o <<ids>> \o dst \o src

LEMMA FiveFieldsLayout ==
  ASSUME NEW S, NEW first \in S, NEW version \in Seq(S), NEW ids \in S,
         NEW dst \in Seq(S), NEW src \in Seq(S), NEW buf, Len(buf) \in Nat,
         Len(version) = 4, Stands(buf, 0, FiveFields(first, version, ids, dst, src))
  PROVE  /\ FiveFields(first, version, ids, dst, src) \in Seq(S)
         /\ Len(FiveFields(first, version, ids, dst, src)) = 6 + Len(dst) + Len(src)
         /\ buf[1] = first /\ buf[6] = ids
         /\ Stands(buf, 1, version)
         /\ Stands(buf, 6, dst)
         /\ Stands(buf, 6 + Len(dst), src)
  <1> DEFINE A == <<first>>
             I == <<ids>>
             B == A \o version
             C == B \o I
             D == C \o dst
             E == D \o src
  <1>1. /\ A \in Seq(S) /\ Len(A) = 1 /\ A[1] = first
        /\ I \in Seq(S) /\ Len(I) = 1 /\ I[1] = ids
    BY Single
  <1>2. Stands(buf, 0, E) /\ E = FiveFields(first, version, ids, dst, src)
    BY DEF FiveFields
  <1> HIDE DEF A, I
  <1>3. B \in Seq(S)
    BY <1>1, ConcatProperties
  <1> HIDE DEF B
  <1>4. C \in Seq(S)
    BY <1>1, <1>3, ConcatProperties
  <1> HIDE DEF C
  <1>5. D \in Seq(S)
    BY <1>4, ConcatProperties
  <1> HIDE DEF D
  <1>6. /\ E \in Seq(S) /\ Len(E) = Len(D) + Len(src) /\ Len(D) \in Nat /\ Len(src) \in Nat
        /\ Stands(buf, 0, D) /\ Stands(buf, 0 + Len(D), src)
    BY <1>2, <1>5, StandsParts
  <1> HIDE DEF E
  <1>7. /\ Len(D) = Len(C) + Len(dst) /\ Len(C) \in Nat /\ Len(dst) \in Nat
        /\ Stands(buf, 0, C) /\ Stands(buf, 0 + Len(C), dst)
    <2>1. Stands(buf, 0, C \o dst)
      BY <1>6 DEF D
    <2>2. D = C \o dst
      BY DEF D
    <2> QED
      BY <1>4, <2>1, <2>2, StandsParts
  <1>8. /\ Len(C) = Len(B) + Len(I) /\ Len(B) \in Nat
        /\ Stands(buf, 0, B) /\ Stands(buf, 0 + Len(B), I)
    <2>1. Stands(buf, 0, B \o I)
      BY <1>7 DEF C
    <2>2. C = B \o I
      BY DEF C
    <2> QED
      BY <1>1, <1>3, <2>1, <2>2, StandsParts
  <1>9. /\ Len(B) = Len(A) + 4
        /\ Stands(buf, 0, A) /\ Stands(buf, 0 + Len(A), version)
    <2>1. Stands(buf, 0, A \o version)
      BY <1>8 DEF B
    <2>2. B = A \o version
      BY DEF B
    <2> QED
      BY <1>1, <2>1, <2>2, StandsParts
  <1>10. Len(B) = 5 /\ Len(C) = 6 /\ Len(D) = 6 + Len(dst) /\ Len(E) = 6 + Len(dst) + Len(src)
    BY <1>1, <1>6, <1>7, <1>8, <1>9
  <1>11. buf[1] = first
    <2>1. buf[0 + 1] = A[1]
      BY <1>1, <1>9 DEF Stands
    <2> QED
      BY <1>1, <2>1
  <1>12. buf[6] = ids
    <2>1. buf[(0 + Len(B)) + 1] = I[1]
      BY <1>1, <1>8 DEF Stands
    <2> QED
      BY <1>1, <1>10, <2>1
  <1>13. 0 + Len(D) = 6 + Len(dst) /\ 0 + Len(C) = 6 /\ 0 + Len(A) = 1
    BY <1>1, <1>7, <1>10
  <1>14. Stands(buf, 1, version) /\ Stands(buf, 6, dst) /\ Stands(buf, 6 + Len(dst), src)
    BY <1>6, <1>7, <1>9, <1>13
  <1> QED
    BY <1>2, <1>6, <1>10, <1>11, <1>12, <1>14

-----------------------------------------------------------------------------
(* The steps of a decoder.                                                 *)

(* HeaderDecode comes to its result by reading n fields, one by one.       *)
ReadsInSteps(h, buf, idSize, fields, n) ==
  \E f : /\ f[0] = [hdr |-> h, used |-> 0, refused |-> FALSE]
         /\ \A k \in 1 .. n : f[k] = ReadField(f[k - 1], buf, fields[k], idSize)
         /\ HeaderDecode(h, buf, idSize) = f[n]

(* The recursion of HeaderDecode has a solution, which it follows.         *)
LEMMA DecodeSteps ==
  ASSUME NEW h, NEW buf, NEW idSize, NEW n \in Nat, NEW fields,
         fields = Fields(h.kind, buf), Len(fields) = n,
         ~ (h.kind = "long" /\ buf[1].form # "long")
  PROVE  ReadsInSteps(h, buf, idSize, fields, n)
  <1> DEFINE unread == [hdr |-> h, used |-> 0, refused |-> FALSE]
             Read(r, k) == ReadField(r, buf, fields[k], idSize)
             Steps(f, m) == [k \in 0 .. m |-> IF k = 0 THEN unread ELSE Read(f[k - 1], k)]
             P == {m \in Nat : \E f : f = Steps(f, m)}
  <1>1. HeaderDecode(h, buf, idSize) = (CHOOSE f : f = Steps(f, n))[n]
    BY DEF HeaderDecode
  <1> HIDE DEF unread, Read
  <1>2. 0 \in P
    <2> DEFINE f == [k \in 0 .. 0 |-> unread]
    <2>1. f = Steps(f, 0)
      OBVIOUS
    <2> QED
      BY <2>1
  <1>3. ASSUME NEW m \in Nat, m \in P PROVE m + 1 \in P
    <2>1. PICK f : f = Steps(f, m)
      BY <1>3
    <2> DEFINE g == [k \in 0 .. m + 1 |-> IF k <= m THEN f[k] ELSE Read(f[m], m + 1)]
    <2>2. \A k \in 0 .. m : g[k] = f[k]
      OBVIOUS
    <2>3. ASSUME NEW k \in 0 .. m + 1
          PROVE  g[k] = IF k = 0 THEN unread ELSE Read(g[k - 1], k)
      <3>1. CASE k <= m
        <4>1. k \in 0 .. m /\ g[k] = f[k] /\ (k # 0 => g[k - 1] = f[k - 1])
          BY <2>2, <3>1
        <4>2. f[k] = IF k = 0 THEN unread ELSE Read(f[k - 1], k)
          BY <2>1, <4>1
        <4> QED
          BY <4>1, <4>2
      <3>2. CASE k = m + 1
        <4>1. k # 0 /\ k - 1 = m /\ g[m] = f[m] /\ ~ (k <= m)
          BY <2>2, <3>2
        <4> QED
          BY <3>2, <4>1
      <3> QED
        BY <3>1, <3>2
    <2>4. g = Steps(g, m + 1)
      <3>1. g = [k \in 0 .. m + 1 |-> g[k]]
        OBVIOUS
      <3> HIDE DEF g
      <3> QED
        BY <2>3, <3>1
    <2> HIDE DEF g
    <2> QED
      BY <2>4
  <1>4. n \in P
    <2> HIDE DEF P
    <2> QED
      BY <1>2, <1>3, SetInduction
  <1> DEFINE f == CHOOSE f : f = Steps(f, n)
  <1>5. f = Steps(f, n)
    BY <1>4
  <1>6. HeaderDecode(h, buf, idSize) = f[n]
    BY <1>1
  <1> HIDE DEF f
  <1>7. \A k \in 0 .. n : f[k] = IF k = 0 THEN unread ELSE Read(f[k - 1], k)
    BY <1>5
  <1>8. f[0] = unread /\ \A k \in 1 .. n : f[k] = Read(f[k - 1], k)
    BY <1>7
  <1> QED
    BY <1>6, <1>8 DEF unread, Read, ReadsInSteps

(* A field that the decoder does not return at.                            *)
Sofar(g, used) == [hdr |-> g, used |-> used, refused |-> FALSE]

LEMMA ReadStep ==
  ASSUME NEW g, NEW u, NEW read, NEW buf, NEW field, NEW idSize,
         HeaderField(g, buf, u, field, idSize) = read,
         ~ Rejects(g.kind, field, u + read[1], Len(buf))
  PROVE  ReadField(Sofar(g, u), buf, field, idSize) = Sofar(read[2], u + read[1])
  <1> DEFINE r == Sofar(g, u)
             used == r.used + read[1]
             refused == Rejects(r.hdr.kind, field, used, Len(buf))
  <1>1. r.hdr = g /\ r.used = u /\ r.refused = FALSE
    BY DEF Sofar
  <1>2. ReadField(r, buf, field, idSize)
          = [hdr |-> IF refused /\ field = "first" THEN r.hdr ELSE read[2],
             used |-> used, refused |-> refused]
    BY <1>1 DEF ReadField
  <1>3. refused = FALSE
    BY <1>1 DEF Rejects
  <1> QED
    BY <1>1, <1>2, <1>3 DEF Sofar

LEMMA ReadRefused ==
  ASSUME NEW r, r.refused, NEW buf, NEW field, NEW idSize
  PROVE  ReadField(r, buf, field, idSize) = r
  BY DEF ReadField

(* What is written to one field of a struct.                               *)
Update(g, h, f) == [g EXCEPT ![f] = h[f]]
Agree(g, h, F) == \A e \in F : g[e] = h[e]

LEMMA LongUpdate ==
  ASSUME NEW g \in LongHeaders, NEW h \in LongHeaders, NEW F,
         NEW f \in {"type", "version", "dst", "src", "len", "pnum", "token", "ori"},
         F \subseteq {"kind", "type", "version", "dst", "src", "len", "pnum", "token", "ori"},
         Agree(g, h, F)
  PROVE  Update(g, h, f) \in LongHeaders /\ Agree(Update(g, h, f), h, F \cup {f})
  BY DEF LongHeaders, Update, Agree

-----------------------------------------------------------------------------
(* Long headers.                                                           *)

LongFirst(h) ==
  [form |-> "long", type |-> h.type,
   low |-> IF h.type = "RETRY" THEN Len(h.ori) - 3 ELSE PnumLength(h.pnum) - 1]
IdLengths(h) == [dst |-> Nibble(h.dst), src |-> Nibble(h.src)]

Cells(h) == (0 .. Byte - 1) \cup {LongFirst(h), IdLengths(h)}

(* What lpack_put_header is given.                                         *)
LongSendable(h) ==
  /\ h \in LongHeaders
  /\ h.type = "RETRY" => h.ori # <<>>
  /\ LongSize(h) < Word

LEMMA PnumLengthType ==
  ASSUME NEW p \in PacketNumbers
  PROVE  PnumLength(p) \in 1 .. 4 /\ p < Power[PnumLength(p)] /\ p \in Nat
  <1> DEFINE Fits == {n \in 1 .. 4 : p < Power[n]}
  <1>1. p \in Nat /\ p < Power[4] /\ 4 \in Fits
    BY PowerType DEF PacketNumbers
  <1>2. PICK n \in Fits : \A m \in Fits : n <= m
    <2>1. Fits \subseteq Nat /\ Fits # {}
      BY <1>1
    <2> QED
      BY <2>1, LeastNatural
  <1>3. n = 1 \/ p >= Power[n - 1]
    <2>1. ASSUME n # 1 PROVE p >= Power[n - 1]
      <3>1. n - 1 \in 1 .. 4 /\ n - 1 \in 0 .. 8 /\ ~ (n <= n - 1)
        BY <2>1
      <3>2. n - 1 \notin Fits
        BY <1>2, <3>1
      <3> QED
        BY <1>1, <3>1, <3>2, PowerType
    <2> QED
      BY <2>1
  <1>4. \E k \in 1 .. 4 : p < Power[k] /\ (k = 1 \/ p >= Power[k - 1])
    BY <1>2, <1>3
  <1>5. PnumLength(p) \in 1 .. 4 /\ p < Power[PnumLength(p)]
    BY <1>4 DEF PnumLength
  <1> QED
    BY <1>1, <1>5

LEMMA IdType ==
  ASSUME NEW id \in ConnIds
  PROVE  /\ id \in Seq(0 .. Byte - 1) /\ Len(id) \in Nat /\ Len(id) <= 18
         /\ Nibble(id) \in Nat /\ IdSize(Nibble(id)) = Len(id)
         /\ (id = <<>> <=> Len(id) = 0) /\ (id # <<>> => Len(id) >= 4)
  <1>1. id \in Seq(0 .. Byte - 1) /\ Len(id) \in IdSizes
    BY DEF ConnIds, Octets
  <1>2. id = <<>> <=> Len(id) = 0
    BY <1>1, EmptySeq
  <1>3. Len(id) \in Nat
    BY <1>1, LenProperties
  <1>4. Len(id) <= 18 /\ (Len(id) # 0 => Len(id) >= 4)
    <2> DEFINE n == Len(id)
    <2>1. n \in {0} \cup 4 .. 18
      BY <1>1 DEF IdSizes
    <2> HIDE DEF n
    <2>2. n <= 18 /\ (n # 0 => n >= 4)
      BY <2>1
    <2> QED
      BY <2>2 DEF n
  <1>5. Nibble(id) \in Nat /\ IdSize(Nibble(id)) = Len(id)
    <2> DEFINE n == Len(id)
    <2>1. Nibble(id) = IF n = 0 THEN 0 ELSE n - 3
      BY <1>2 DEF Nibble
    <2>2. n \in Nat /\ (n # 0 => n >= 4)
      BY <1>3, <1>4
    <2> HIDE DEF n
    <2>3. Nibble(id) \in Nat /\ IdSize(Nibble(id)) = n
      BY <2>1, <2>2 DEF IdSize
    <2> QED
      BY <2>3 DEF n
  <1> QED
    BY <1>1, <1>2, <1>3, <1>4, <1>5

LEMMA VersionDigits ==
  ASSUME NEW v \in VersionNumbers
  PROVE  /\ BigEndianEncode(v, 4) \in Seq(0 .. Byte - 1) /\ Len(BigEndianEncode(v, 4)) = 4
         /\ v \in Nat /\ BigEndianDecode(0, BigEndianEncode(v, 4)) = v
  <1>1. 4 \in 0 .. 8 /\ Power[4] \in Nat \ {0}
    BY PowerType
  <1>2. v \in Nat /\ v < Power[4]
    BY <1>1 DEF VersionNumbers
  <1>3. BigEndianDecode(0, BigEndianEncode(v, 4)) = Power[4] * (0 \div Power[4]) + v
    BY <1>1, <1>2, BigEndianInverts
  <1>4. Power[4] * (0 \div Power[4]) + v = v
    <2>1. 0 \div Power[4] = 0
      BY <1>1
    <2> QED
      BY <1>1, <1>2, <2>1
  <1> QED
    BY <1>1, <1>2, <1>3, <1>4, DigitsType DEF BigEndianEncode

(* The integers of a header that can be sent have an encoding.             *)
LEMMA LongIntegers ==
  ASSUME NEW h, LongSendable(h)
  PROVE  /\ h.type = "INITIAL" => ~ TooLarge(Len(h.token))
         /\ h.type # "RETRY" => ~ TooLarge(h.len)
         /\ Len(h.token) \in Nat /\ h.len \in Nat
         /\ \A v \in Nat : ~ TooLarge(v) =>
              VarintSize(v) = Shortest(v) /\ Shortest(v) \in 1 .. 8
  <1>1. h \in LongHeaders /\ LongSize(h) < Word
    BY DEF LongSendable
  <1>2. /\ h.len \in Nat /\ h.pnum \in PacketNumbers /\ h.token \in Seq(0 .. Byte - 1)
        /\ h.dst \in ConnIds /\ h.src \in ConnIds /\ h.ori \in ConnIds
    BY <1>1 DEF LongHeaders, Octets
  <1>3. Len(h.token) \in Nat
    BY <1>2, LenProperties
  <1>4. Len(h.dst) \in Nat /\ Len(h.src) \in Nat /\ Len(h.ori) \in Nat
        /\ PnumLength(h.pnum) \in 1 .. 4
    <2>1. \A id \in ConnIds : Len(id) \in Nat
      BY IdType
    <2>2. PnumLength(h.pnum) \in 1 .. 4
      BY <1>2, PnumLengthType
    <2> QED
      BY <1>2, <2>1, <2>2
  <1>5. \A v \in Nat : ~ TooLarge(v) => VarintSize(v) = Shortest(v) /\ Shortest(v) \in 1 .. 8
    BY ShortestType, LengthsType
  <1>6. \A v \in Nat : TooLarge(v) => VarintSize(v) = Word - 1
    BY TooLargeSize
  <1>7. Word \in Nat \ {0}
    BY WordType
  <1>8. \A v \in Nat : VarintSize(v) \in Nat
    BY <1>5, <1>6, <1>7
  <1>9. VarintSize(Len(h.token)) \in Nat /\ VarintSize(h.len) \in Nat
    BY <1>2, <1>3, <1>8
  <1> DEFINE d == Len(h.dst)
             s == Len(h.src)
             t == Len(h.token)
             vt == VarintSize(t)
             vl == VarintSize(h.len)
             n == PnumLength(h.pnum)
             size == LongSize(h)
             w == Word
  <1>10. /\ d \in Nat /\ s \in Nat /\ t \in Nat /\ vt \in Nat /\ vl \in Nat /\ n \in 1 .. 4
         /\ w \in Nat \ {0} /\ size < w
    BY <1>1, <1>3, <1>4, <1>7, <1>9
  <1>11. h.type = "INITIAL" => size = 6 + d + s + (t + vt) + (vl + n)
    BY DEF LongSize
  <1>12. h.type # "INITIAL" /\ h.type # "RETRY" => size = 6 + d + s + 0 + (vl + n)
    BY DEF LongSize
  <1>13. h.type = "INITIAL" => vt # w - 1
    <2> HIDE DEF d, s, t, vt, vl, n, size, w
    <2> QED
      BY <1>10, <1>11
  <1>14. h.type # "RETRY" => vl # w - 1
    <2> HIDE DEF d, s, t, vt, vl, n, size, w
    <2> QED
      BY <1>10, <1>11, <1>12
  <1> QED
    BY <1>2, <1>3, <1>5, <1>6, <1>13, <1>14

(* Where the parts of a long header stand.                                 *)
TokenPart(h) ==
  IF h.type = "INITIAL" THEN EncodeBytes(Len(h.token)) \o h.token ELSE <<>>
Remainder(h) ==
  IF h.type = "RETRY" THEN h.ori
  ELSE EncodeBytes(h.len) \o BigEndianEncode(h.pnum, PnumLength(h.pnum))

LEMMA PartTypes ==
  ASSUME NEW h, LongSendable(h)
  PROVE  /\ TokenPart(h) \in Seq(0 .. Byte - 1)
         /\ Len(TokenPart(h)) = IF h.type = "INITIAL" THEN Len(h.token) + VarintSize(Len(h.token)) ELSE 0
         /\ Remainder(h) \in Seq(0 .. Byte - 1)
         /\ Len(Remainder(h)) = IF h.type = "RETRY" THEN Len(h.ori) ELSE VarintSize(h.len) + PnumLength(h.pnum)
  <1> DEFINE O == 0 .. Byte - 1
  <1>1. /\ h.len \in Nat /\ h.pnum \in PacketNumbers /\ h.token \in Seq(O) /\ h.ori \in ConnIds
    BY DEF LongSendable, LongHeaders, Octets
  <1>2. h.ori \in Seq(O)
    BY <1>1, IdType
  <1>3. \A v \in Nat : ~ TooLarge(v) =>
          EncodeBytes(v) \in Seq(O) /\ Len(EncodeBytes(v)) = VarintSize(v)
    BY EncodedType, ShortestType
  <1>4. /\ h.type = "INITIAL" => ~ TooLarge(Len(h.token))
        /\ h.type # "RETRY" => ~ TooLarge(h.len)
        /\ Len(h.token) \in Nat
    BY LongIntegers
  <1>5. /\ BigEndianEncode(h.pnum, PnumLength(h.pnum)) \in Seq(O)
        /\ Len(BigEndianEncode(h.pnum, PnumLength(h.pnum))) = PnumLength(h.pnum)
    <2> DEFINE n == PnumLength(h.pnum)
    <2>1. n \in 1 .. 4 /\ h.pnum \in Nat
      BY <1>1, PnumLengthType
    <2> HIDE DEF n
    <2>2. n \in 0 .. 8
      BY <2>1
    <2>3. BigEndianEncode(h.pnum, n) \in Seq(O) /\ Len(BigEndianEncode(h.pnum, n)) = n
      BY <2>1, <2>2, DigitsType DEF BigEndianEncode
    <2> QED
      BY <2>3 DEF n
  <1> HIDE DEF O
  <1>6. ASSUME NEW v \in Nat, ~ TooLarge(v), NEW t \in Seq(O)
        PROVE  /\ EncodeBytes(v) \o t \in Seq(O)
               /\ Len(EncodeBytes(v) \o t) = Len(t) + VarintSize(v)
    <2> DEFINE e == EncodeBytes(v)
    <2>1. e \in Seq(O) /\ Len(e) = VarintSize(v)
      BY <1>3, <1>6
    <2> HIDE DEF e
    <2>2. e \o t \in Seq(O) /\ Len(e \o t) = Len(e) + Len(t)
      BY <2>1, Joined
    <2>3. Len(e) \in Nat /\ Len(t) \in Nat
      BY <2>1, LenProperties
    <2>4. Len(e \o t) = Len(t) + VarintSize(v)
      BY <2>1, <2>2, <2>3
    <2> QED
      BY <2>2, <2>4 DEF e
  <1>7. h.type # "RETRY" => VarintSize(h.len) \in Nat /\ PnumLength(h.pnum) \in Nat
    BY <1>1, <1>4, LongIntegers, PnumLengthType
  <1>8. h.type # "RETRY" => /\ Remainder(h) \in Seq(O)
                            /\ Len(Remainder(h)) = VarintSize(h.len) + PnumLength(h.pnum)
    <2> SUFFICES ASSUME h.type # "RETRY"
                 PROVE  /\ Remainder(h) \in Seq(O)
                        /\ Len(Remainder(h)) = VarintSize(h.len) + PnumLength(h.pnum)
      OBVIOUS
    <2> DEFINE t == BigEndianEncode(h.pnum, PnumLength(h.pnum))
    <2>1. t \in Seq(O) /\ Len(t) = PnumLength(h.pnum)
      BY <1>5
    <2>2. Remainder(h) = EncodeBytes(h.len) \o t
      BY DEF Remainder
    <2> HIDE DEF t
    <2>3. Remainder(h) \in Seq(O) /\ Len(Remainder(h)) = Len(t) + VarintSize(h.len)
      BY <1>1, <1>4, <1>6, <2>1, <2>2
    <2> QED
      BY <1>7, <2>1, <2>3
  <1>9. h.type = "RETRY" => Remainder(h) \in Seq(O) /\ Len(Remainder(h)) = Len(h.ori)
    BY <1>2 DEF Remainder, O
  <1>10. h.type = "INITIAL" => /\ TokenPart(h) \in Seq(O)
                               /\ Len(TokenPart(h)) = Len(h.token) + VarintSize(Len(h.token))
    BY <1>1, <1>4, <1>6 DEF TokenPart
  <1>11. h.type # "INITIAL" => TokenPart(h) \in Seq(O) /\ Len(TokenPart(h)) = 0
    BY DEF TokenPart
  <1> QED
    BY <1>8, <1>9, <1>10, <1>11 DEF O

(* A buffer that holds the header of h.                                    *)
HoldsLong(buf, h) ==
  /\ Len(buf) \in Nat /\ DOMAIN buf = 1 .. Len(buf) /\ Len(buf) < Word
  /\ Stands(buf, 0, LongEncode(h))

TokenAt(h) == 6 + Len(h.dst) + Len(h.src)
RemainderAt(h) == TokenAt(h) + Len(TokenPart(h))

LEMMA LongLayout ==
  ASSUME NEW h, LongSendable(h), NEW buf, HoldsLong(buf, h)
  PROVE  /\ LongEncode(h) \in Seq(Cells(h)) /\ Len(LongEncode(h)) = LongSize(h)
         /\ buf[1] = LongFirst(h) /\ buf[6] = IdLengths(h)
         /\ Stands(buf, 1, BigEndianEncode(h.version, 4))
         /\ Stands(buf, 6, h.dst)
         /\ Stands(buf, 6 + Len(h.dst), h.src)
         /\ Stands(buf, TokenAt(h), TokenPart(h))
         /\ Stands(buf, RemainderAt(h), Remainder(h))
         /\ LongSize(h) = RemainderAt(h) + Len(Remainder(h))
         /\ LongSize(h) \in Nat /\ LongSize(h) <= Len(buf)
  <1> DEFINE S == Cells(h)
             V == BigEndianEncode(h.version, 4)
             G == FiveFields(LongFirst(h), V, IdLengths(h), h.dst, h.src)
             T == TokenPart(h)
             R == Remainder(h)
             size == LongSize(h)
  <1>1. LongEncode(h) = G \o T \o R
    BY DEF LongEncode, LongFirst, IdLengths, TokenPart, Remainder, FiveFields
  <1>2. h.dst \in ConnIds /\ h.src \in ConnIds
    BY DEF LongSendable, LongHeaders
  <1>3. LongFirst(h) \in S /\ IdLengths(h) \in S /\ 0 .. Byte - 1 \subseteq S
    BY DEF Cells
  <1>4. /\ V \in Seq(S) /\ Len(V) = 4 /\ T \in Seq(S) /\ R \in Seq(S)
        /\ h.dst \in Seq(S) /\ h.src \in Seq(S)
    <2>1. V \in Seq(0 .. Byte - 1) /\ Len(V) = 4
      BY VersionDigits DEF LongSendable, LongHeaders
    <2>2. T \in Seq(0 .. Byte - 1) /\ R \in Seq(0 .. Byte - 1)
      BY PartTypes
    <2>3. h.dst \in Seq(0 .. Byte - 1) /\ h.src \in Seq(0 .. Byte - 1)
      BY <1>2, IdType
    <2> HIDE DEF S, V, T, R
    <2> QED
      BY <1>3, <2>1, <2>2, <2>3, WiderSeq
  <1> HIDE DEF S, V, T, R
  <1>5. Len(buf) \in Nat /\ Stands(buf, 0, G \o T \o R)
    BY <1>1 DEF HoldsLong
  <1>6. G \in Seq(S)
    <2>1. <<LongFirst(h)>> \in Seq(S) /\ <<IdLengths(h)>> \in Seq(S)
      BY <1>3, Single
    <2> QED
      BY <1>4, <2>1, Joined DEF FiveFields
  <1>7. G \o T \in Seq(S)
    BY <1>4, <1>6, Joined
  <1> HIDE DEF G
  <1>8. /\ G \o T \o R \in Seq(S) /\ Len(G \o T \o R) = Len(G \o T) + Len(R)
        /\ Len(R) \in Nat /\ Len(G \o T) \in Nat
        /\ Stands(buf, 0, G \o T) /\ Stands(buf, 0 + Len(G \o T), R)
    <2> DEFINE P == G \o T
    <2>1. P \in Seq(S) /\ Stands(buf, 0, P \o R)
      BY <1>5, <1>7
    <2> HIDE DEF P
    <2>2. /\ P \o R \in Seq(S) /\ Len(P \o R) = Len(P) + Len(R)
          /\ Len(P) \in Nat /\ Len(R) \in Nat
          /\ Stands(buf, 0, P) /\ Stands(buf, 0 + Len(P), R)
      BY <1>4, <1>5, <2>1, StandsParts
    <2> QED
      BY <2>2 DEF P
  <1>9. /\ Len(G \o T) = Len(G) + Len(T) /\ Len(G) \in Nat /\ Len(T) \in Nat
        /\ Stands(buf, 0, G) /\ Stands(buf, 0 + Len(G), T)
    BY <1>4, <1>5, <1>6, <1>8, StandsParts
  <1>10. /\ Len(G) = 6 + Len(h.dst) + Len(h.src)
         /\ buf[1] = LongFirst(h) /\ buf[6] = IdLengths(h)
         /\ Stands(buf, 1, V) /\ Stands(buf, 6, h.dst) /\ Stands(buf, 6 + Len(h.dst), h.src)
    <2>1. Stands(buf, 0, FiveFields(LongFirst(h), V, IdLengths(h), h.dst, h.src))
      BY <1>9 DEF G
    <2> DEFINE first == LongFirst(h)
               ids == IdLengths(h)
               d == h.dst
               s == h.src
    <2>2. /\ first \in S /\ ids \in S /\ d \in Seq(S) /\ s \in Seq(S) /\ V \in Seq(S)
          /\ Len(V) = 4 /\ Len(buf) \in Nat /\ Stands(buf, 0, FiveFields(first, V, ids, d, s))
          /\ G = FiveFields(first, V, ids, d, s)
      BY <1>3, <1>4, <1>5, <2>1 DEF G
    <2> HIDE DEF first, ids, d, s
    <2>3. /\ Len(G) = 6 + Len(d) + Len(s)
          /\ buf[1] = first /\ buf[6] = ids
          /\ Stands(buf, 1, V) /\ Stands(buf, 6, d) /\ Stands(buf, 6 + Len(d), s)
      BY <2>2, FiveFieldsLayout
    <2> QED
      BY <2>3 DEF first, ids, d, s
  <1>11. TokenAt(h) = Len(G) /\ RemainderAt(h) = Len(G \o T)
    BY <1>9, <1>10 DEF TokenAt, RemainderAt, T
  <1>12. Stands(buf, TokenAt(h), T) /\ Stands(buf, RemainderAt(h), R)
    <2>1. 0 + Len(G) = Len(G) /\ 0 + Len(G \o T) = Len(G \o T)
      BY <1>8, <1>9
    <2> QED
      BY <1>8, <1>9, <1>11, <2>1
  <1>13. size = 6 + Len(h.dst) + Len(h.src) + Len(T) + Len(R)
    BY PartTypes DEF LongSize, T, R
  <1>14. Len(h.dst) \in Nat /\ Len(h.src) \in Nat
    <2>1. \A id \in ConnIds : Len(id) \in Nat
      BY IdType
    <2> QED
      BY <1>2, <2>1
  <1>15. size = RemainderAt(h) + Len(R) /\ size = Len(G \o T \o R) /\ size \in Nat
    <2> DEFINE d == Len(h.dst)
               s == Len(h.src)
               t == Len(T)
               r == Len(R)
               g == Len(G)
               gt == Len(G \o T)
               all == Len(G \o T \o R)
               at == RemainderAt(h)
    <2>1. /\ all = gt + r /\ gt = g + t /\ g = 6 + d + s /\ at = gt
          /\ size = 6 + d + s + t + r
      BY <1>8, <1>9, <1>10, <1>11, <1>13
    <2>2. d \in Nat /\ s \in Nat /\ t \in Nat /\ r \in Nat
      BY <1>8, <1>9, <1>14
    <2> HIDE DEF d, s, t, r, g, gt, all, at, size
    <2>3. size = at + r /\ size = all /\ size \in Nat
      BY <2>1, <2>2
    <2> QED
      BY <2>3 DEF at, r, all
  <1>16. size <= Len(buf)
    <2>1. 0 + Len(LongEncode(h)) <= Len(buf)
      BY DEF HoldsLong, Stands
    <2> QED
      BY <1>1, <1>15, <2>1
  <1> QED
    BY <1>1, <1>8, <1>10, <1>12, <1>15, <1>16 DEF S, V, T, R

LEMMA VarintRead ==
  ASSUME NEW buf, Len(buf) \in Nat, DOMAIN buf = 1 .. Len(buf), Len(buf) < Word,
         NEW v \in Nat, ~ TooLarge(v), NEW used \in Nat, Stands(buf, used, EncodeBytes(v))
  PROVE  Decode(buf, used, 0) = [result |-> VarintSize(v), value |-> v]
  <1>1. Len(EncodeBytes(v)) = Shortest(v) /\ VarintSize(v) = Shortest(v)
    BY EncodedType, ShortestType
  <1>2. /\ used + Shortest(v) <= Len(buf)
        /\ \A i \in 1 .. Shortest(v) : buf[used + i] = EncodeBytes(v)[i]
    BY <1>1 DEF Stands
  <1> QED
    BY <1>1, <1>2, VarintInverts

(* The first five fields.                                                  *)
LEMMA LongFrontRead ==
  ASSUME NEW h, LongSendable(h), NEW buf, HoldsLong(buf, h), NEW g \in LongHeaders
  PROVE  /\ LongField(g, buf, 0, "first") = <<1, Update(g, h, "type")>>
         /\ LongField(g, buf, 1, "version") = <<4, Update(g, h, "version")>>
         /\ LongField(g, buf, 5, "cil") = <<1, g>>
         /\ LongField(g, buf, 6, "dst") = <<Len(h.dst), Update(g, h, "dst")>>
         /\ LongField(g, buf, 6 + Len(h.dst), "src") = <<Len(h.src), Update(g, h, "src")>>
  <1>1. /\ buf[1] = LongFirst(h) /\ buf[6] = IdLengths(h)
        /\ Stands(buf, 1, BigEndianEncode(h.version, 4))
        /\ Stands(buf, 6, h.dst)
        /\ Stands(buf, 6 + Len(h.dst), h.src)
    BY LongLayout
  <1>2. h.version \in VersionNumbers /\ h.dst \in ConnIds /\ h.src \in ConnIds
    BY DEF LongSendable, LongHeaders
  <1>3. buf[1].type = h.type
    BY <1>1 DEF LongFirst
  <1>4. LongField(g, buf, 0, "first") = <<1, Update(g, h, "type")>>
    BY <1>3 DEF LongField, Update
  <1>5. LongField(g, buf, 1, "version") = <<4, Update(g, h, "version")>>
    <2> DEFINE V == BigEndianEncode(h.version, 4)
    <2>1. V \in Seq(0 .. Byte - 1) /\ Len(V) = 4 /\ BigEndianDecode(0, V) = h.version
      BY <1>2, VersionDigits
    <2> HIDE DEF V
    <2>2. Stands(buf, 1, V)
      BY <1>1 DEF V
    <2>3. SubSeq(buf, 1 + 1, 1 + 4) = V
      BY <2>1, <2>2, StandsTaken
    <2> QED
      BY <2>1, <2>3 DEF LongField, Update
  <1>6. LongField(g, buf, 5, "cil") = <<1, g>>
    BY DEF LongField, Update
  <1>7. /\ IdSize(buf[6].dst) = Len(h.dst) /\ IdSize(buf[6].src) = Len(h.src)
        /\ h.dst \in Seq(0 .. Byte - 1) /\ h.src \in Seq(0 .. Byte - 1)
        /\ Len(h.dst) \in Nat /\ Len(h.src) \in Nat
    <2>1. \A id \in ConnIds :
            IdSize(Nibble(id)) = Len(id) /\ id \in Seq(0 .. Byte - 1) /\ Len(id) \in Nat
      BY IdType
    <2>2. buf[6].dst = Nibble(h.dst) /\ buf[6].src = Nibble(h.src)
      BY <1>1 DEF IdLengths
    <2> QED
      BY <1>2, <2>1, <2>2
  <1>8. LongField(g, buf, 6, "dst") = <<Len(h.dst), Update(g, h, "dst")>>
    <2>1. SubSeq(buf, 6 + 1, 6 + Len(h.dst)) = h.dst
      BY <1>1, <1>7, StandsTaken
    <2> QED
      BY <1>7, <2>1 DEF LongField, Update
  <1>9. LongField(g, buf, 6 + Len(h.dst), "src") = <<Len(h.src), Update(g, h, "src")>>
    <2>1. 6 + Len(h.dst) \in Nat
      BY <1>7
    <2>2. SubSeq(buf, (6 + Len(h.dst)) + 1, (6 + Len(h.dst)) + Len(h.src)) = h.src
      BY <1>1, <1>7, <2>1, StandsTaken
    <2> QED
      BY <1>7, <2>2 DEF LongField, Update
  <1> QED
    BY <1>4, <1>5, <1>6, <1>8, <1>9

(* What follows them.                                                      *)
LEMMA LongPartsRead ==
  ASSUME NEW h, LongSendable(h), NEW buf, HoldsLong(buf, h), NEW g \in LongHeaders
  PROVE  /\ h.type = "INITIAL" =>
              LongField(g, buf, TokenAt(h), "token")
                = <<Len(TokenPart(h)), Update(g, h, "token")>>
         /\ h.type = "RETRY" =>
              LongField(g, buf, RemainderAt(h), "ori") = <<Len(h.ori), Update(g, h, "ori")>>
         /\ h.type # "RETRY" =>
              /\ LongField(g, buf, RemainderAt(h), "len")
                   = <<VarintSize(h.len), Update(g, h, "len")>>
              /\ LongField(g, buf, RemainderAt(h) + VarintSize(h.len), "pnum")
                   = <<PnumLength(h.pnum), Update(g, h, "pnum")>>
  <1> DEFINE O == 0 .. Byte - 1
  <1>1. /\ buf[1] = LongFirst(h)
        /\ Stands(buf, TokenAt(h), TokenPart(h))
        /\ Stands(buf, RemainderAt(h), Remainder(h))
    BY LongLayout
  <1>2. /\ h.type = "INITIAL" => ~ TooLarge(Len(h.token))
        /\ h.type # "RETRY" => ~ TooLarge(h.len)
        /\ Len(h.token) \in Nat /\ h.len \in Nat
        /\ \A v \in Nat : ~ TooLarge(v) => VarintSize(v) \in Nat
    BY LongIntegers
  <1>3. h.token \in Seq(O) /\ h.ori \in ConnIds /\ h.pnum \in PacketNumbers
    BY DEF LongSendable, LongHeaders, Octets
  <1>4. TokenAt(h) \in Nat /\ RemainderAt(h) \in Nat
    <2>1. Len(h.dst) \in Nat /\ Len(h.src) \in Nat
      <3>1. \A id \in ConnIds : Len(id) \in Nat
        BY IdType
      <3> QED
        BY <3>1 DEF LongSendable, LongHeaders
    <2>2. Len(TokenPart(h)) \in Nat
      BY PartTypes, LenProperties
    <2>3. TokenAt(h) \in Nat
      <3> DEFINE d == Len(h.dst)
                 s == Len(h.src)
      <3>1. TokenAt(h) = 6 + d + s /\ d \in Nat /\ s \in Nat
        BY <2>1 DEF TokenAt
      <3> HIDE DEF d, s
      <3> QED
        BY <3>1
    <2> QED
      BY <2>2, <2>3 DEF RemainderAt
  <1>5. \A v \in Nat, used \in Nat :
          ~ TooLarge(v) /\ Stands(buf, used, EncodeBytes(v)) =>
            Decode(buf, used, 0).result = VarintSize(v) /\ Decode(buf, used, 0).value = v
    BY VarintRead DEF HoldsLong
  <1>6. \A v \in Nat : ~ TooLarge(v) =>
          EncodeBytes(v) \in Seq(O) /\ Len(EncodeBytes(v)) = VarintSize(v)
    BY EncodedType, ShortestType
  <1> HIDE DEF O
  <1>7. Len(buf) \in Nat
    BY DEF HoldsLong
  <1>8. ASSUME h.type = "INITIAL"
        PROVE  LongField(g, buf, TokenAt(h), "token")
                 = <<Len(TokenPart(h)), Update(g, h, "token")>>
    <2> DEFINE at == TokenAt(h)
               n == Len(h.token)
               e == EncodeBytes(n)
               t == h.token
               vn == VarintSize(n)
    <2>1. TokenPart(h) = e \o t
      BY <1>8 DEF TokenPart
    <2>2. e \in Seq(O) /\ Len(e) = vn /\ t \in Seq(O) /\ n \in Nat /\ at \in Nat /\ vn \in Nat
          /\ Len(t) = n
      BY <1>2, <1>3, <1>4, <1>6, <1>8
    <2>3. Stands(buf, at, e \o t)
      BY <1>1, <2>1
    <2> HIDE DEF e, t, at, n, vn
    <2>4. Len(e \o t) = vn + n /\ Stands(buf, at, e) /\ Stands(buf, at + vn, t)
      BY <1>7, <2>2, <2>3, StandsParts
    <2>5. Decode(buf, at, 0).result = vn /\ Decode(buf, at, 0).value = n
      BY <1>2, <1>5, <1>8, <2>2, <2>4 DEF e, n, vn
    <2>6. SubSeq(buf, (at + vn) + 1, (at + vn) + n) = t
      <3>1. at + vn \in Nat
        BY <2>2
      <3> QED
        BY <2>2, <2>4, <3>1, StandsTaken
    <2> DEFINE u == [g EXCEPT !.token = t]
    <2>10. u = Update(g, h, "token")
      BY DEF t, Update
    <2>7. LongField(g, buf, at, "token") = <<vn + n, u>>
      BY <2>5, <2>6 DEF LongField
    <2> QED
      BY <2>1, <2>4, <2>7, <2>10 DEF at, t, n, vn, e
  <1>9. ASSUME h.type = "RETRY"
        PROVE  LongField(g, buf, RemainderAt(h), "ori")
                 = <<Len(h.ori), Update(g, h, "ori")>>
    <2> DEFINE at == RemainderAt(h)
               t == h.ori
               n == Len(t)
    <2>1. t \in Seq(0 .. Byte - 1) /\ n \in Nat /\ n >= 4 /\ at \in Nat
      BY <1>3, <1>4, <1>9, IdType DEF LongSendable
    <2>2. Stands(buf, at, t)
      BY <1>1, <1>9 DEF Remainder
    <2>3. buf[1].low = n - 3
      BY <1>1, <1>9 DEF LongFirst
    <2> HIDE DEF t, at
    <2>4. SubSeq(buf, at + 1, at + n) = t
      BY <2>1, <2>2, StandsTaken
    <2> HIDE DEF n
    <2>5. (IF buf[1].low = 0 THEN Len(g.ori) ELSE buf[1].low + 3) = n
      BY <2>1, <2>3
    <2> DEFINE u == [g EXCEPT !.ori = t]
    <2>10. u = Update(g, h, "ori")
      BY DEF t, Update
    <2>6. LongField(g, buf, at, "ori") = <<n, u>>
      BY <2>4, <2>5 DEF LongField
    <2> QED
      BY <2>6, <2>10 DEF at, t, n
  <1>10. ASSUME h.type # "RETRY"
         PROVE  /\ LongField(g, buf, RemainderAt(h), "len")
                     = <<VarintSize(h.len), Update(g, h, "len")>>
                /\ LongField(g, buf, RemainderAt(h) + VarintSize(h.len), "pnum")
                     = <<PnumLength(h.pnum), Update(g, h, "pnum")>>
    <2> DEFINE at == RemainderAt(h)
               e == EncodeBytes(h.len)
               n == PnumLength(h.pnum)
               t == BigEndianEncode(h.pnum, n)
               vn == VarintSize(h.len)
    <2>1. n \in 1 .. 4 /\ h.pnum \in Nat /\ h.pnum < Power[n]
      BY <1>3, PnumLengthType
    <2>2. t \in Seq(O) /\ Len(t) = n /\ BigEndianDecode(0, t) = h.pnum
      <3> HIDE DEF n
      <3>1. n \in 0 .. 8 /\ Power[n] \in Nat \ {0}
        BY <2>1, PowerType
      <3>2. t \in Seq(O) /\ Len(t) = n
        BY <2>1, <3>1, DigitsType DEF BigEndianEncode, O
      <3>3. BigEndianDecode(0, t) = Power[n] * (0 \div Power[n]) + h.pnum
        BY <2>1, <3>1, BigEndianInverts
      <3>4. 0 \div Power[n] = 0
        BY <3>1
      <3>5. Power[n] * 0 + h.pnum = h.pnum
        BY <2>1, <3>1
      <3> QED
        BY <3>2, <3>3, <3>4, <3>5
    <2>3. e \in Seq(O) /\ Len(e) = vn /\ at \in Nat /\ vn \in Nat
      BY <1>2, <1>4, <1>6, <1>10
    <2>4. Stands(buf, at, e \o t)
      BY <1>1, <1>10 DEF Remainder
    <2>5. buf[1].low = n - 1
      BY <1>1, <1>10 DEF LongFirst
    <2> HIDE DEF t, at, e
    <2>6. Stands(buf, at, e) /\ Stands(buf, at + vn, t)
      BY <1>7, <2>2, <2>3, <2>4, StandsParts
    <2>7. Decode(buf, at, 0).result = vn /\ Decode(buf, at, 0).value = h.len
      BY <1>2, <1>5, <1>10, <2>3, <2>6 DEF e
    <2> HIDE DEF vn, n
    <2>8. LongField(g, buf, at, "len") = <<vn, Update(g, h, "len")>>
      BY <2>7 DEF LongField, Update
    <2>9. SubSeq(buf, (at + vn) + 1, (at + vn) + n) = t /\ buf[1].low + 1 = n
      <3>1. at + vn \in Nat
        BY <2>3
      <3>2. SubSeq(buf, (at + vn) + 1, (at + vn) + n) = t
        BY <2>2, <2>6, <3>1, StandsTaken
      <3>3. buf[1].low + 1 = n
        BY <2>1, <2>5
      <3> QED
        BY <3>2, <3>3
    <2>10. LongField(g, buf, at + vn, "pnum") = <<n, Update(g, h, "pnum")>>
      BY <2>2, <2>9 DEF LongField, Update
    <2> QED
      BY <2>8, <2>10 DEF at, vn, n
  <1> QED
    BY <1>8, <1>9, <1>10

LEMMA LongPositions ==
  ASSUME NEW h, LongSendable(h), NEW buf, HoldsLong(buf, h)
  PROVE  /\ Len(h.dst) \in Nat /\ Len(h.src) \in Nat /\ Len(buf) \in Nat
         /\ TokenAt(h) = 6 + Len(h.dst) + Len(h.src)
         /\ RemainderAt(h) = TokenAt(h) + Len(TokenPart(h))
         /\ Len(TokenPart(h)) \in Nat
         /\ h.type # "INITIAL" => Len(TokenPart(h)) = 0
         /\ LongSize(h) <= Len(buf) /\ RemainderAt(h) < LongSize(h)
         /\ h.type = "RETRY" => LongSize(h) = RemainderAt(h) + Len(h.ori)
         /\ h.type # "RETRY" =>
              /\ LongSize(h) = (RemainderAt(h) + VarintSize(h.len)) + PnumLength(h.pnum)
              /\ RemainderAt(h) + VarintSize(h.len) < LongSize(h)
              /\ VarintSize(h.len) \in Nat
  <1>1. /\ LongSize(h) = RemainderAt(h) + Len(Remainder(h))
        /\ LongSize(h) <= Len(buf)
    BY LongLayout
  <1>2. /\ TokenPart(h) \in Seq(0 .. Byte - 1)
        /\ Len(TokenPart(h)) = IF h.type = "INITIAL" THEN Len(h.token) + VarintSize(Len(h.token)) ELSE 0
        /\ Len(Remainder(h)) = IF h.type = "RETRY" THEN Len(h.ori) ELSE VarintSize(h.len) + PnumLength(h.pnum)
    BY PartTypes
  <1>3. /\ h.dst \in ConnIds /\ h.src \in ConnIds /\ h.ori \in ConnIds
        /\ h.pnum \in PacketNumbers /\ h.len \in Nat
        /\ h.type = "RETRY" => h.ori # <<>>
    BY DEF LongSendable, LongHeaders
  <1>4. Len(h.dst) \in Nat /\ Len(h.src) \in Nat /\ Len(h.ori) \in Nat
        /\ (h.type = "RETRY" => Len(h.ori) >= 4)
    <2>1. \A id \in ConnIds : Len(id) \in Nat /\ (id # <<>> => Len(id) >= 4)
      BY IdType
    <2> QED
      BY <1>3, <2>1
  <1>5. PnumLength(h.pnum) \in 1 .. 4
    BY <1>3, PnumLengthType
  <1>6. h.type # "RETRY" => VarintSize(h.len) \in Nat
    BY <1>3, LongIntegers
  <1>7. Len(TokenPart(h)) \in Nat /\ Len(buf) \in Nat
    BY <1>2, LenProperties DEF HoldsLong
  <1> DEFINE d == Len(h.dst)
             s == Len(h.src)
             o == Len(h.ori)
             n == PnumLength(h.pnum)
             v == VarintSize(h.len)
             t == Len(TokenPart(h))
             r == Len(Remainder(h))
             at == TokenAt(h)
             rat == RemainderAt(h)
             size == LongSize(h)
             room == Len(buf)
  <1>8. at = 6 + d + s /\ rat = at + t
    BY DEF TokenAt, RemainderAt
  <1>9. /\ d \in Nat /\ s \in Nat /\ o \in Nat /\ n \in 1 .. 4 /\ t \in Nat /\ room \in Nat
        /\ size = rat + r /\ size <= room
        /\ (h.type = "RETRY" => o >= 4 /\ r = o)
        /\ (h.type # "RETRY" => v \in Nat /\ r = v + n)
        /\ (h.type # "INITIAL" => t = 0)
    BY <1>1, <1>2, <1>4, <1>5, <1>6, <1>7
  <1> HIDE DEF d, s, o, n, v, t, r, at, rat, size, room
  <1>10. h.type = "RETRY" => rat < size /\ size = rat + o
    BY <1>8, <1>9
  <1>11. h.type # "RETRY" =>
           rat < size /\ size = (rat + v) + n /\ rat + v < size /\ v \in Nat
    BY <1>8, <1>9
  <1>12. d \in Nat /\ s \in Nat /\ room \in Nat /\ t \in Nat /\ rat < size /\ size <= room
    BY <1>9, <1>10, <1>11
  <1> QED
    BY <1>8, <1>9, <1>10, <1>11, <1>12 DEF d, s, o, n, v, t, at, rat, size, room

LEMMA LongFrontSteps ==
  ASSUME NEW h, LongSendable(h), NEW buf, HoldsLong(buf, h), NEW g \in LongHeaders,
         NEW idSize, NEW f, f[0] = Sofar(g, 0), NEW names,
         names[1] = "first", names[2] = "version", names[3] = "cil", names[4] = "dst",
         names[5] = "src",
         \A k \in 1 .. 5 : f[k] = ReadField(f[k - 1], buf, names[k], idSize)
  PROVE  \E g5 \in LongHeaders :
           /\ f[5] = Sofar(g5, TokenAt(h))
           /\ Agree(g5, h, {"kind", "type", "version", "dst", "src"})
  <1> DEFINE g1 == Update(g, h, "type")
             g2 == Update(g1, h, "version")
             g4 == Update(g2, h, "dst")
             g5 == Update(g4, h, "src")
             d == Len(h.dst)
             s == Len(h.src)
  <1>1. h \in LongHeaders /\ g.kind = h.kind /\ h.kind = "long"
    BY DEF LongSendable, LongHeaders
  <1>2. g1 \in LongHeaders /\ Agree(g1, h, {"kind", "type"})
    <2>1. Agree(g, h, {"kind"})
      BY <1>1 DEF Agree
    <2>2. g1 \in LongHeaders /\ Agree(g1, h, {"kind"} \cup {"type"})
      BY <1>1, <2>1, LongUpdate
    <2> QED
      BY <2>2 DEF Agree
  <1> HIDE DEF g1
  <1>3. g2 \in LongHeaders /\ Agree(g2, h, {"kind", "type", "version"})
    <2>1. g2 \in LongHeaders /\ Agree(g2, h, {"kind", "type"} \cup {"version"})
      BY <1>1, <1>2, LongUpdate
    <2> QED
      BY <2>1 DEF Agree
  <1> HIDE DEF g2
  <1>4. g4 \in LongHeaders /\ Agree(g4, h, {"kind", "type", "version", "dst"})
    <2>1. g4 \in LongHeaders /\ Agree(g4, h, {"kind", "type", "version"} \cup {"dst"})
      BY <1>1, <1>3, LongUpdate
    <2> QED
      BY <2>1 DEF Agree
  <1> HIDE DEF g4
  <1>5. g5 \in LongHeaders /\ Agree(g5, h, {"kind", "type", "version", "dst", "src"})
    <2>1. g5 \in LongHeaders /\ Agree(g5, h, {"kind", "type", "version", "dst"} \cup {"src"})
      BY <1>1, <1>4, LongUpdate
    <2> QED
      BY <2>1 DEF Agree
  <1> HIDE DEF g5
  <1>6. /\ LongField(g, buf, 0, "first") = <<1, g1>>
        /\ LongField(g1, buf, 1, "version") = <<4, g2>>
        /\ LongField(g2, buf, 5, "cil") = <<1, g2>>
        /\ LongField(g2, buf, 6, "dst") = <<d, g4>>
        /\ LongField(g4, buf, 6 + d, "src") = <<s, g5>>
    BY <1>2, <1>3, <1>4, LongFrontRead DEF g1, g2, g4, g5
  <1>7. d \in Nat /\ s \in Nat /\ TokenAt(h) = 6 + d + s /\ TokenAt(h) < Len(buf) /\ Len(buf) \in Nat
    <2>1. /\ d \in Nat /\ s \in Nat /\ TokenAt(h) = 6 + d + s /\ Len(buf) \in Nat
          /\ RemainderAt(h) = TokenAt(h) + Len(TokenPart(h)) /\ Len(TokenPart(h)) \in Nat
          /\ LongSize(h) <= Len(buf) /\ RemainderAt(h) < LongSize(h) /\ LongSize(h) \in Nat
      BY LongPositions, LongLayout
    <2> HIDE DEF d, s
    <2> QED
      BY <2>1
  <1> HIDE DEF d, s
  <1>8. ASSUME NEW r \in LongHeaders, NEW field, NEW u
        PROVE  /\ r.kind = "long"
               /\ HeaderField(r, buf, u, field, idSize) = LongField(r, buf, u, field)
    BY DEF HeaderField, LongHeaders
  <1>9. ASSUME NEW field, NEW u \in Nat, u < Len(buf)
        PROVE  ~ Rejects("long", field, u, Len(buf))
    BY <1>7, <1>9 DEF Rejects
  <1>10. f[1] = Sofar(g1, 1)
    <2> DEFINE read == <<1, g1>>
    <2>1. HeaderField(g, buf, 0, "first", idSize) = read /\ g.kind = "long"
      BY <1>6, <1>8
    <2>2. read[1] = 1 /\ read[2] = g1
      OBVIOUS
    <2>3. ~ Rejects("long", "first", 0 + 1, Len(buf))
      BY <1>7, <1>9
    <2> HIDE DEF read
    <2>4. ReadField(Sofar(g, 0), buf, "first", idSize) = Sofar(g1, 0 + 1)
      BY <2>1, <2>2, <2>3, ReadStep
    <2>5. f[1] = ReadField(f[1 - 1], buf, names[1], idSize) /\ 1 - 1 = 0 /\ 0 + 1 = 1
      OBVIOUS
    <2> QED
      BY <2>4, <2>5
  <1>11. f[2] = Sofar(g2, 5)
    <2> DEFINE read == <<4, g2>>
    <2>1. HeaderField(g1, buf, 1, "version", idSize) = read /\ g1.kind = "long"
      BY <1>2, <1>6, <1>8
    <2>2. read[1] = 4 /\ read[2] = g2
      OBVIOUS
    <2>3. ~ Rejects("long", "version", 1 + 4, Len(buf))
      BY <1>7, <1>9
    <2> HIDE DEF read
    <2>4. ReadField(Sofar(g1, 1), buf, "version", idSize) = Sofar(g2, 1 + 4)
      BY <2>1, <2>2, <2>3, ReadStep
    <2>5. f[2] = ReadField(f[2 - 1], buf, names[2], idSize) /\ 2 - 1 = 1 /\ 1 + 4 = 5
      OBVIOUS
    <2> QED
      BY <1>10, <2>4, <2>5
  <1>12. f[3] = Sofar(g2, 6)
    <2> DEFINE read == <<1, g2>>
    <2>1. HeaderField(g2, buf, 5, "cil", idSize) = read /\ g2.kind = "long"
      BY <1>3, <1>6, <1>8
    <2>2. read[1] = 1 /\ read[2] = g2
      OBVIOUS
    <2>3. ~ Rejects("long", "cil", 5 + 1, Len(buf))
      BY <1>7, <1>9
    <2> HIDE DEF read
    <2>4. ReadField(Sofar(g2, 5), buf, "cil", idSize) = Sofar(g2, 5 + 1)
      BY <2>1, <2>2, <2>3, ReadStep
    <2>5. f[3] = ReadField(f[3 - 1], buf, names[3], idSize) /\ 3 - 1 = 2 /\ 5 + 1 = 6
      OBVIOUS
    <2> QED
      BY <1>11, <2>4, <2>5
  <1>13. f[4] = Sofar(g4, 6 + d)
    <2> DEFINE read == <<d, g4>>
    <2>1. HeaderField(g2, buf, 6, "dst", idSize) = read /\ g2.kind = "long"
      BY <1>3, <1>6, <1>8
    <2>2. read[1] = d /\ read[2] = g4
      OBVIOUS
    <2>3. ~ Rejects("long", "dst", 6 + d, Len(buf))
      BY <1>7, <1>9
    <2> HIDE DEF read
    <2>4. ReadField(Sofar(g2, 6), buf, "dst", idSize) = Sofar(g4, 6 + d)
      BY <2>1, <2>2, <2>3, ReadStep
    <2>5. f[4] = ReadField(f[4 - 1], buf, names[4], idSize) /\ 4 - 1 = 3
      OBVIOUS
    <2> QED
      BY <1>12, <2>4, <2>5
  <1>14. f[5] = Sofar(g5, TokenAt(h))
    <2> DEFINE read == <<s, g5>>
    <2>1. HeaderField(g4, buf, 6 + d, "src", idSize) = read /\ g4.kind = "long"
      BY <1>4, <1>6, <1>8
    <2>2. read[1] = s /\ read[2] = g5
      OBVIOUS
    <2>3. ~ Rejects("long", "src", (6 + d) + s, Len(buf)) /\ (6 + d) + s = TokenAt(h)
      BY <1>7, <1>9
    <2> HIDE DEF read
    <2>4. ReadField(Sofar(g4, 6 + d), buf, "src", idSize) = Sofar(g5, (6 + d) + s)
      BY <2>1, <2>2, <2>3, ReadStep
    <2>5. f[5] = ReadField(f[5 - 1], buf, names[5], idSize) /\ 5 - 1 = 4
      OBVIOUS
    <2> QED
      BY <1>13, <2>3, <2>4, <2>5
  <1> QED
    BY <1>5, <1>14

LEMMA LongFieldNames ==
  ASSUME NEW buf, NEW fields, fields = Fields("long", buf)
  PROVE  /\ fields[1] = "first" /\ fields[2] = "version" /\ fields[3] = "cil"
         /\ fields[4] = "dst" /\ fields[5] = "src"
         /\ buf[1].type = "INITIAL" =>
              Len(fields) = 8 /\ fields[6] = "token" /\ fields[7] = "len" /\ fields[8] = "pnum"
         /\ buf[1].type = "RETRY" => Len(fields) = 6 /\ fields[6] = "ori"
         /\ buf[1].type \notin {"INITIAL", "RETRY"} =>
              Len(fields) = 7 /\ fields[6] = "len" /\ fields[7] = "pnum"
  <1> DEFINE five == <<"first", "version", "cil", "dst", "src">>
  <1>1. ASSUME buf[1].type = "INITIAL"
        PROVE  /\ fields[1] = "first" /\ fields[2] = "version" /\ fields[3] = "cil"
               /\ fields[4] = "dst" /\ fields[5] = "src"
               /\ Len(fields) = 8 /\ fields[6] = "token" /\ fields[7] = "len" /\ fields[8] = "pnum"
    <2>1. fields = five \o <<"token">> \o <<"len", "pnum">>
      BY <1>1 DEF Fields
    <2> QED
      BY <2>1
  <1>2. ASSUME buf[1].type = "RETRY"
        PROVE  /\ fields[1] = "first" /\ fields[2] = "version" /\ fields[3] = "cil"
               /\ fields[4] = "dst" /\ fields[5] = "src"
               /\ Len(fields) = 6 /\ fields[6] = "ori"
    <2>1. fields = five \o <<>> \o <<"ori">>
      BY <1>2 DEF Fields
    <2> QED
      BY <2>1
  <1>3. ASSUME buf[1].type \notin {"INITIAL", "RETRY"}
        PROVE  /\ fields[1] = "first" /\ fields[2] = "version" /\ fields[3] = "cil"
               /\ fields[4] = "dst" /\ fields[5] = "src"
               /\ Len(fields) = 7 /\ fields[6] = "len" /\ fields[7] = "pnum"
    <2>1. fields = five \o <<>> \o <<"len", "pnum">>
      BY <1>3 DEF Fields
    <2> QED
      BY <2>1
  <1>4. "INITIAL" # "RETRY"
    OBVIOUS
  <1> QED
    BY <1>1, <1>2, <1>3, <1>4

(* lpack_get_header reads what lpack_put_header wrote, whatever the struct *)
(* held before.                                                            *)
LEMMA LongRead ==
  ASSUME NEW h, LongSendable(h), NEW buf, HoldsLong(buf, h), NEW g \in LongHeaders, NEW idSize
  PROVE  \E r \in LongHeaders :
           /\ HeaderDecode(g, buf, idSize) = Sofar(r, LongSize(h))
           /\ Agree(r, h, Carried(h))
  <1> DEFINE fields == Fields("long", buf)
             n == Len(fields)
             front == {"kind", "type", "version", "dst", "src"}
  <1>1. buf[1].form = "long" /\ buf[1].type = h.type
    <2>1. buf[1] = LongFirst(h)
      BY LongLayout
    <2> QED
      BY <2>1 DEF LongFirst
  <1>2. h \in LongHeaders /\ g.kind = "long" /\ h.kind = "long" /\ h.type \in LongTypes
    BY DEF LongSendable, LongHeaders
  <1>3. /\ fields[1] = "first" /\ fields[2] = "version" /\ fields[3] = "cil"
        /\ fields[4] = "dst" /\ fields[5] = "src" /\ n \in {6, 7, 8}
        /\ h.type = "INITIAL" =>
             n = 8 /\ fields[6] = "token" /\ fields[7] = "len" /\ fields[8] = "pnum"
        /\ h.type = "RETRY" => n = 6 /\ fields[6] = "ori"
        /\ h.type \notin {"INITIAL", "RETRY"} =>
             n = 7 /\ fields[6] = "len" /\ fields[7] = "pnum"
    BY <1>1, LongFieldNames
  <1>4. fields = Fields(g.kind, buf)
    BY <1>2
  <1> HIDE DEF fields
  <1>5. PICK f : /\ f[0] = Sofar(g, 0)
                 /\ \A k \in 1 .. n : f[k] = ReadField(f[k - 1], buf, fields[k], idSize)
                 /\ HeaderDecode(g, buf, idSize) = f[n]
    <2>1. n \in Nat /\ ~ (g.kind = "long" /\ buf[1].form # "long")
      BY <1>1, <1>3
    <2> HIDE DEF n
    <2>2. Len(fields) = n
      BY DEF n
    <2>3. ReadsInSteps(g, buf, idSize, fields, n)
      BY <1>4, <2>1, <2>2, DecodeSteps
    <2> QED
      BY <2>3 DEF ReadsInSteps, Sofar
  <1> HIDE DEF n
  <1>6. PICK g5 \in LongHeaders : f[5] = Sofar(g5, TokenAt(h)) /\ Agree(g5, h, front)
    <2>1. \A k \in 1 .. 5 : f[k] = ReadField(f[k - 1], buf, fields[k], idSize)
      BY <1>3, <1>5
    <2>2. /\ fields[1] = "first" /\ fields[2] = "version" /\ fields[3] = "cil"
          /\ fields[4] = "dst" /\ fields[5] = "src" /\ f[0] = Sofar(g, 0)
      BY <1>3, <1>5
    <2> QED
      BY <2>1, <2>2, LongFrontSteps
  <1>7. /\ RemainderAt(h) = TokenAt(h) + Len(TokenPart(h))
        /\ LongSize(h) <= Len(buf) /\ RemainderAt(h) < LongSize(h)
        /\ h.type # "INITIAL" => Len(TokenPart(h)) = 0
        /\ h.type = "RETRY" => LongSize(h) = RemainderAt(h) + Len(h.ori)
        /\ h.type # "RETRY" =>
             /\ LongSize(h) = (RemainderAt(h) + VarintSize(h.len)) + PnumLength(h.pnum)
             /\ RemainderAt(h) + VarintSize(h.len) < LongSize(h)
        /\ TokenAt(h) \in Nat /\ Len(buf) \in Nat
    <2>1. TokenAt(h) \in Nat
      <3> DEFINE d == Len(h.dst)
                 s == Len(h.src)
      <3>1. d \in Nat /\ s \in Nat /\ TokenAt(h) = 6 + d + s
        BY LongPositions
      <3> HIDE DEF d, s
      <3> QED
        BY <3>1
    <2> QED
      BY <2>1, LongPositions
  <1>8. ASSUME NEW r \in LongHeaders, NEW u, NEW field, NEW w, NEW v,
               LongField(r, buf, u, field) = <<w, v>>,
               ~ Rejects("long", field, u + w, Len(buf))
        PROVE  ReadField(Sofar(r, u), buf, field, idSize) = Sofar(v, u + w)
    <2> DEFINE read == <<w, v>>
    <2>1. HeaderField(r, buf, u, field, idSize) = read /\ r.kind = "long"
      BY <1>8 DEF HeaderField, LongHeaders
    <2>2. read[1] = w /\ read[2] = v
      OBVIOUS
    <2> HIDE DEF read
    <2> QED
      BY <1>8, <2>1, <2>2, ReadStep
  <1>9. \A u : ~ Rejects("long", "token", u, Len(buf)) /\ ~ Rejects("long", "ori", u, Len(buf))
    BY DEF Rejects
  <1>10. CASE h.type = "RETRY"
    <2> DEFINE r == Update(g5, h, "ori")
    <2>1. r \in LongHeaders /\ Agree(r, h, front \cup {"ori"})
      BY <1>2, <1>6, LongUpdate
    <2>2. TokenAt(h) = RemainderAt(h)
      BY <1>7, <1>10
    <2>3. LongField(g5, buf, RemainderAt(h), "ori") = <<Len(h.ori), r>>
      BY <1>10, LongPartsRead
    <2> HIDE DEF r
    <2>4. ReadField(Sofar(g5, RemainderAt(h)), buf, "ori", idSize)
            = Sofar(r, RemainderAt(h) + Len(h.ori))
      BY <1>8, <1>9, <2>3
    <2>5. f[6] = ReadField(f[6 - 1], buf, fields[6], idSize) /\ 6 - 1 = 5
      BY <1>3, <1>5, <1>10
    <2>6. HeaderDecode(g, buf, idSize) = Sofar(r, LongSize(h))
      BY <1>3, <1>5, <1>6, <1>7, <1>10, <2>2, <2>4, <2>5
    <2>7. Agree(r, h, Carried(h))
      BY <1>2, <1>10, <2>1 DEF Agree, Carried
    <2> QED
      BY <2>1, <2>6, <2>7
  <1>11. ASSUME h.type # "RETRY", NEW k \in {5, 6}, NEW F, NEW r \in LongHeaders,
                F \subseteq front \cup {"token"}, Agree(r, h, F),
                n = k + 2, fields[k + 1] = "len", fields[k + 2] = "pnum",
                f[k] = Sofar(r, RemainderAt(h))
         PROVE  \E q \in LongHeaders : /\ HeaderDecode(g, buf, idSize) = Sofar(q, LongSize(h))
                                       /\ Agree(q, h, F \cup {"len", "pnum"})
    <2> DEFINE p == Update(r, h, "len")
               q == Update(p, h, "pnum")
    <2>1. p \in LongHeaders /\ Agree(p, h, F \cup {"len"})
      BY <1>2, <1>11, LongUpdate
    <2> HIDE DEF p
    <2>2. q \in LongHeaders /\ Agree(q, h, F \cup {"len"} \cup {"pnum"})
      BY <1>2, <1>11, <2>1, LongUpdate
    <2> HIDE DEF q
    <2>3. /\ LongField(r, buf, RemainderAt(h), "len") = <<VarintSize(h.len), p>>
          /\ LongField(p, buf, RemainderAt(h) + VarintSize(h.len), "pnum") = <<PnumLength(h.pnum), q>>
      BY <1>11, <2>1, LongPartsRead DEF p, q
    <2>4. /\ ~ Rejects("long", "len", RemainderAt(h) + VarintSize(h.len), Len(buf))
          /\ ~ Rejects("long", "pnum", (RemainderAt(h) + VarintSize(h.len)) + PnumLength(h.pnum), Len(buf))
      <3> DEFINE a == RemainderAt(h) + VarintSize(h.len)
                 b == a + PnumLength(h.pnum)
                 size == Len(buf)
      <3>1. a < LongSize(h) /\ b = LongSize(h) /\ LongSize(h) <= size
        BY <1>7, <1>11
      <3>2. LongSize(h) \in Nat /\ a \in Nat /\ size \in Nat
        <4>1. LongSize(h) \in Nat /\ VarintSize(h.len) \in Nat /\ Len(TokenPart(h)) \in Nat
          BY <1>11, LongLayout, LongPositions
        <4> QED
          BY <1>7, <4>1
      <3> HIDE DEF a, b, size
      <3>3. a < size /\ ~ (b > size)
        BY <3>1, <3>2
      <3>4. a # size /\ ~ (a > size)
        BY <3>2, <3>3
      <3>5. ~ Rejects("long", "len", a, size) /\ ~ Rejects("long", "pnum", b, size)
        BY <3>3, <3>4 DEF Rejects
      <3> QED
        BY <3>5 DEF a, b, size
    <2>5. ReadField(Sofar(r, RemainderAt(h)), buf, "len", idSize)
            = Sofar(p, RemainderAt(h) + VarintSize(h.len))
      BY <1>8, <2>3, <2>4
    <2>6. ReadField(Sofar(p, RemainderAt(h) + VarintSize(h.len)), buf, "pnum", idSize)
            = Sofar(q, (RemainderAt(h) + VarintSize(h.len)) + PnumLength(h.pnum))
      BY <1>8, <2>1, <2>3, <2>4
    <2>7. /\ f[k + 1] = ReadField(f[k], buf, fields[k + 1], idSize)
          /\ f[k + 2] = ReadField(f[k + 1], buf, fields[k + 2], idSize)
      <3>1. /\ k + 1 \in 1 .. n /\ (k + 1) - 1 = k
            /\ k + 2 \in 1 .. n /\ (k + 2) - 1 = k + 1
        BY <1>11
      <3> QED
        BY <1>5, <3>1
    <2>8. f[n] = Sofar(q, LongSize(h))
      BY <1>7, <1>11, <2>5, <2>6, <2>7
    <2>9. F \cup {"len"} \cup {"pnum"} = F \cup {"len", "pnum"}
      OBVIOUS
    <2> QED
      BY <1>5, <2>2, <2>8, <2>9
  <1>12. CASE h.type = "INITIAL"
    <2> DEFINE r == Update(g5, h, "token")
               F == front \cup {"token"}
    <2>1. r \in LongHeaders /\ Agree(r, h, F)
      BY <1>2, <1>6, LongUpdate
    <2>2. LongField(g5, buf, TokenAt(h), "token") = <<Len(TokenPart(h)), r>>
      BY <1>12, LongPartsRead
    <2> HIDE DEF r
    <2>3. ReadField(Sofar(g5, TokenAt(h)), buf, "token", idSize) = Sofar(r, RemainderAt(h))
      BY <1>7, <1>8, <1>9, <2>2
    <2>4. f[6] = ReadField(f[6 - 1], buf, fields[6], idSize) /\ 6 - 1 = 5
      BY <1>3, <1>5, <1>12
    <2>5. f[6] = Sofar(r, RemainderAt(h))
      BY <1>3, <1>6, <1>12, <2>3, <2>4
    <2>6. n = 6 + 2 /\ fields[6 + 1] = "len" /\ fields[6 + 2] = "pnum"
      BY <1>3, <1>12
    <2> HIDE DEF F
    <2>7. F \subseteq front \cup {"token"}
      BY DEF F
    <2>8. PICK q \in LongHeaders : /\ HeaderDecode(g, buf, idSize) = Sofar(q, LongSize(h))
                                   /\ Agree(q, h, F \cup {"len", "pnum"})
      BY <1>11, <1>12, <2>1, <2>5, <2>6, <2>7
    <2>9. Carried(h) \subseteq F \cup {"len", "pnum"}
      BY <1>2, <1>12 DEF Carried, F
    <2> QED
      BY <2>8, <2>9 DEF Agree
  <1>13. CASE h.type \notin {"INITIAL", "RETRY"}
    <2>1. f[5] = Sofar(g5, RemainderAt(h))
      BY <1>6, <1>7, <1>13
    <2>2. n = 5 + 2 /\ fields[5 + 1] = "len" /\ fields[5 + 2] = "pnum"
      BY <1>3, <1>13
    <2>3. PICK q \in LongHeaders : /\ HeaderDecode(g, buf, idSize) = Sofar(q, LongSize(h))
                                   /\ Agree(q, h, front \cup {"len", "pnum"})
      <3> DEFINE F == front
      <3>1. F \subseteq front \cup {"token"} /\ Agree(g5, h, F)
        BY <1>6
      <3> HIDE DEF F
      <3>2. \E q \in LongHeaders : /\ HeaderDecode(g, buf, idSize) = Sofar(q, LongSize(h))
                                   /\ Agree(q, h, F \cup {"len", "pnum"})
        BY <1>11, <1>13, <2>1, <2>2, <3>1
      <3> QED
        BY <3>2 DEF F
    <2>4. Carried(h) \subseteq front \cup {"len", "pnum"}
      BY <1>2, <1>13 DEF Carried
    <2> QED
      BY <2>3, <2>4 DEF Agree
  <1> QED
    BY <1>10, <1>12, <1>13

-----------------------------------------------------------------------------
(* Short headers.                                                          *)

ShortFirst(h) ==
  [form |-> "short", spin |-> h.spin, key_phase |-> h.key_phase,
   low |-> PnumLength(h.pnum) - 1]

ShortCells(h) == (0 .. Byte - 1) \cup {ShortFirst(h)}

HoldsShort(buf, h) == Len(buf) \in Nat /\ Stands(buf, 0, ShortEncode(h))

(* What is left of a number that is read over another one.                 *)
Overwritten(old, new, n) == Power[n] * (old \div Power[n]) + new

LEMMA ShortLayout ==
  ASSUME NEW h \in ShortHeaders, NEW buf, HoldsShort(buf, h)
  PROVE  /\ ShortEncode(h) \in Seq(ShortCells(h)) /\ Len(ShortEncode(h)) = ShortSize(h)
         /\ buf[1] = ShortFirst(h)
         /\ Stands(buf, 1, h.dst)
         /\ Stands(buf, 1 + Len(h.dst), BigEndianEncode(h.pnum, PnumLength(h.pnum)))
         /\ ShortSize(h) = (1 + Len(h.dst)) + PnumLength(h.pnum)
         /\ ShortSize(h) <= Len(buf)
         /\ h.dst \in Seq(0 .. Byte - 1) /\ Len(h.dst) \in Nat /\ Len(buf) \in Nat
         /\ BigEndianEncode(h.pnum, PnumLength(h.pnum)) \in Seq(0 .. Byte - 1)
         /\ Len(BigEndianEncode(h.pnum, PnumLength(h.pnum))) = PnumLength(h.pnum)
         /\ PnumLength(h.pnum) \in 1 .. 4 /\ h.pnum \in Nat /\ h.pnum < Power[PnumLength(h.pnum)]
  <1> DEFINE S == ShortCells(h)
             O == 0 .. Byte - 1
             A == <<ShortFirst(h)>>
             D == h.dst
             n == PnumLength(h.pnum)
             t == BigEndianEncode(h.pnum, n)
             B == A \o D
             E == B \o t
  <1>1. h.dst \in ConnIds /\ h.pnum \in PacketNumbers
    BY DEF ShortHeaders
  <1>2. n \in 1 .. 4 /\ h.pnum \in Nat /\ h.pnum < Power[n]
    BY <1>1, PnumLengthType
  <1>3. t \in Seq(O) /\ Len(t) = n
    <2> HIDE DEF n, O
    <2>1. n \in 0 .. 8
      BY <1>2
    <2> QED
      BY <1>2, <2>1, DigitsType DEF BigEndianEncode, O
  <1>4. D \in Seq(O) /\ Len(D) \in Nat
    BY <1>1, IdType
  <1>5. A \in Seq(S) /\ Len(A) = 1 /\ A[1] = ShortFirst(h)
    <2>1. ShortFirst(h) \in S
      BY DEF ShortCells
    <2> HIDE DEF S
    <2> QED
      BY <2>1, Single
  <1>6. D \in Seq(S) /\ t \in Seq(S)
    <2>1. O \subseteq S
      BY DEF ShortCells
    <2> HIDE DEF S, O, D, t
    <2> QED
      BY <1>3, <1>4, <2>1, WiderSeq
  <1>7. ShortEncode(h) = E
    BY DEF ShortEncode, ShortFirst
  <1>8. Len(buf) \in Nat /\ Stands(buf, 0, E)
    BY <1>7 DEF HoldsShort
  <1> HIDE DEF S, O, A, D, t
  <1>9. B \in Seq(S)
    BY <1>5, <1>6, Joined
  <1> HIDE DEF B
  <1>10. /\ E \in Seq(S) /\ Len(E) = Len(B) + n /\ Len(B) \in Nat
         /\ Stands(buf, 0, B) /\ Stands(buf, 0 + Len(B), t)
    BY <1>3, <1>6, <1>8, <1>9, StandsParts
  <1> HIDE DEF E
  <1>11. /\ Len(B) = Len(A) + Len(D) /\ Stands(buf, 0, A) /\ Stands(buf, 0 + Len(A), D)
    <2>1. Stands(buf, 0, A \o D) /\ B = A \o D
      BY <1>10 DEF B
    <2> QED
      BY <1>5, <1>6, <1>8, <2>1, StandsParts
  <1>12. /\ 0 + Len(A) = 1 /\ 0 + Len(B) = 1 + Len(D) /\ Len(E) = (1 + Len(D)) + n
    BY <1>4, <1>5, <1>10, <1>11
  <1>13. buf[1] = ShortFirst(h)
    <2>1. buf[0 + 1] = A[1]
      BY <1>5, <1>11 DEF Stands
    <2> QED
      BY <1>5, <2>1
  <1>14. Stands(buf, 1, D) /\ Stands(buf, 1 + Len(D), t)
    BY <1>10, <1>11, <1>12
  <1>15. ShortSize(h) = (1 + Len(D)) + n
    BY DEF ShortSize, D
  <1>16. ShortSize(h) <= Len(buf)
    <2>1. 0 + Len(E) <= Len(buf)
      BY <1>8 DEF Stands
    <2> HIDE DEF n
    <2>2. Len(E) \in Nat /\ Len(E) = ShortSize(h)
      BY <1>2, <1>4, <1>12, <1>15
    <2> QED
      BY <2>1, <2>2
  <1> QED
    BY <1>2, <1>3, <1>4, <1>7, <1>8, <1>10, <1>12, <1>13, <1>14, <1>15, <1>16 DEF S, O, D, t

(* spack_get_header reads the id and the low bytes of the number that      *)
(* spack_put_header wrote; the flags and the other bytes stay.             *)
LEMMA ShortRead ==
  ASSUME NEW h \in ShortHeaders, NEW buf, HoldsShort(buf, h), NEW g \in ShortHeaders
  PROVE  HeaderDecode(g, buf, Len(h.dst))
           = Sofar([kind |-> "short", spin |-> g.spin \/ h.spin,
                    key_phase |-> g.key_phase \/ h.key_phase, dst |-> h.dst,
                    pnum |-> Overwritten(g.pnum, h.pnum, PnumLength(h.pnum))],
                   ShortSize(h))
  <1> DEFINE d == Len(h.dst)
             n == PnumLength(h.pnum)
             t == BigEndianEncode(h.pnum, n)
             g1 == [g EXCEPT !.spin = @ \/ h.spin, !.key_phase = @ \/ h.key_phase]
             g2 == [g1 EXCEPT !.dst = h.dst]
             new == Overwritten(g.pnum, h.pnum, n)
             g3 == [g2 EXCEPT !.pnum = new]
             spin == g.spin \/ h.spin
             key == g.key_phase \/ h.key_phase
             Make(x, y, id, p) ==
               [kind |-> "short", spin |-> x, key_phase |-> y, dst |-> id, pnum |-> p]
             fields == <<"first", "dst", "pnum">>
             size == Len(buf)
  <1>1. /\ buf[1] = ShortFirst(h)
        /\ Stands(buf, 1, h.dst) /\ Stands(buf, 1 + d, t)
        /\ ShortSize(h) = (1 + d) + n /\ ShortSize(h) <= size
        /\ h.dst \in Seq(0 .. Byte - 1) /\ d \in Nat /\ size \in Nat
        /\ t \in Seq(0 .. Byte - 1) /\ Len(t) = n
        /\ n \in 1 .. 4 /\ h.pnum \in Nat /\ h.pnum < Power[n]
    BY ShortLayout
  <1>2. /\ g = [kind |-> "short", spin |-> g.spin, key_phase |-> g.key_phase, dst |-> g.dst,
                pnum |-> g.pnum]
        /\ g.kind = "short" /\ g.pnum \in Nat
    <2>1. Power[4] \in Nat
      BY PowerType
    <2> QED
      BY <2>1 DEF ShortHeaders, PacketNumbers
  <1>3. g1 = Make(spin, key, g.dst, g.pnum)
    <2>1. g1 = [g EXCEPT !.spin = spin, !.key_phase = key]
      OBVIOUS
    <2> HIDE DEF spin, key, g1
    <2> QED
      BY <1>2, <2>1
  <1> HIDE DEF spin, key, g1
  <1>4. g2 = Make(spin, key, h.dst, g.pnum)
    BY <1>3
  <1> HIDE DEF g2
  <1>5. g3 = Make(spin, key, h.dst, new)
    <2> HIDE DEF new
    <2> QED
      BY <1>4
  <1> HIDE DEF g3, new
  <1>6. g1.kind = "short" /\ g2.kind = "short" /\ g2.pnum = g.pnum
    BY <1>3, <1>4
  <1>7. fields = Fields(g.kind, buf) /\ Len(fields) = 3 /\ ~ (g.kind = "long" /\ buf[1].form # "long")
    BY <1>2 DEF Fields
  <1>8. PICK f : /\ f[0] = [hdr |-> g, used |-> 0, refused |-> FALSE]
                 /\ \A k \in 1 .. 3 : f[k] = ReadField(f[k - 1], buf, fields[k], d)
                 /\ HeaderDecode(g, buf, d) = f[3]
    <2> DEFINE names == fields
               m == 3
    <2>1. names = Fields(g.kind, buf) /\ Len(names) = m /\ m \in Nat
      BY <1>7
    <2> HIDE DEF names, d, m
    <2>2. ReadsInSteps(g, buf, d, names, m)
      BY <1>7, <2>1, DecodeSteps
    <2> QED
      BY <2>2 DEF names, m, ReadsInSteps
  <1>9. /\ f[0] = Sofar(g, 0)
        /\ f[1] = ReadField(f[0], buf, "first", d)
        /\ f[2] = ReadField(f[1], buf, "dst", d)
        /\ f[3] = ReadField(f[2], buf, "pnum", d)
    <2>1. /\ f[1] = ReadField(f[1 - 1], buf, fields[1], d)
          /\ f[2] = ReadField(f[2 - 1], buf, fields[2], d)
          /\ f[3] = ReadField(f[3 - 1], buf, fields[3], d)
      BY <1>8
    <2> QED
      BY <1>8, <2>1 DEF Sofar
  <1>10. ASSUME NEW r, r.kind = "short", NEW field, NEW u, NEW w, NEW v,
                ShortField(r, buf, u, field, d) = <<w, v>>,
                ~ Rejects("short", field, u + w, size)
         PROVE  ReadField(Sofar(r, u), buf, field, d) = Sofar(v, u + w)
    <2> DEFINE read == <<w, v>>
    <2>1. HeaderField(r, buf, u, field, d) = read
      BY <1>10 DEF HeaderField
    <2>2. read[1] = w /\ read[2] = v
      OBVIOUS
    <2> HIDE DEF read
    <2> QED
      BY <1>10, <2>1, <2>2, ReadStep
  <1>11. /\ ~ Rejects("short", "first", 0 + 1, size)
         /\ ~ Rejects("short", "dst", 1 + d, size)
         /\ ~ Rejects("short", "pnum", (1 + d) + n, size)
    <2>1. 1 < size /\ 1 + d < size /\ (1 + d) + n <= size /\ d \in Nat /\ n \in Nat /\ size \in Nat
      <3> HIDE DEF d, n, size
      <3> QED
        BY <1>1
    <2> HIDE DEF d, n, size
    <2> QED
      BY <2>1 DEF Rejects
  <1>12. ShortField(g, buf, 0, "first", d) = <<1, g1>>
    <2>1. buf[1].spin = h.spin /\ buf[1].key_phase = h.key_phase
      BY <1>1 DEF ShortFirst
    <2> QED
      BY <2>1 DEF ShortField, g1
  <1>13. ShortField(g1, buf, 1, "dst", d) = <<d, g2>>
    <2>1. SubSeq(buf, 1 + 1, 1 + d) = h.dst
      BY <1>1, StandsTaken
    <2> QED
      BY <2>1 DEF ShortField, g2
  <1>14. ShortField(g2, buf, 1 + d, "pnum", d) = <<n, g3>>
    <2>1. SubSeq(buf, (1 + d) + 1, (1 + d) + n) = t
      <3>1. 1 + d \in Nat
        BY <1>1
      <3> HIDE DEF t, d, n
      <3> QED
        BY <1>1, <3>1, StandsTaken
    <2>2. BigEndianDecode(g2.pnum, t) = new
      <3>1. n \in 0 .. 8
        BY <1>1
      <3> HIDE DEF n
      <3>2. BigEndianDecode(g.pnum, t) = new
        BY <1>1, <1>2, <3>1, BigEndianInverts DEF Overwritten, new
      <3> QED
        BY <1>6, <3>2
    <2>3. buf[1].low + 1 = n
      <3>1. buf[1].low = n - 1
        BY <1>1 DEF ShortFirst
      <3> HIDE DEF n
      <3> QED
        BY <1>1, <3>1
    <2> HIDE DEF t, d, n
    <2>4. ShortField(g2, buf, 1 + d, "pnum", d)
            = <<n, [g2 EXCEPT !.pnum = BigEndianDecode(g2.pnum, t)]>>
      BY <2>1, <2>3 DEF ShortField
    <2> QED
      BY <2>2, <2>4 DEF g3
  <1>15. f[1] = Sofar(g1, 0 + 1)
    BY <1>2, <1>9, <1>10, <1>11, <1>12
  <1>16. f[2] = Sofar(g2, 1 + d)
    BY <1>6, <1>9, <1>10, <1>11, <1>13, <1>15
  <1>17. f[3] = Sofar(g3, (1 + d) + n)
    BY <1>6, <1>9, <1>10, <1>11, <1>14, <1>16
  <1> QED
    BY <1>1, <1>5, <1>8, <1>17 DEF spin, key, new

-----------------------------------------------------------------------------
(* Headers of a version negotiation.                                       *)

VersionFirst == [form |-> "version"]
VersionCells(h) == (0 .. Byte - 1) \cup {VersionFirst, IdLengths(h)}

HoldsVersion(buf, h) == Len(buf) \in Nat /\ Stands(buf, 0, VersionEncode(h))

LEMMA VersionLayout ==
  ASSUME NEW h \in VersionHeaders, NEW buf, HoldsVersion(buf, h)
  PROVE  /\ VersionEncode(h) \in Seq(VersionCells(h)) /\ Len(VersionEncode(h)) = VersionSize(h)
         /\ buf[6] = IdLengths(h)
         /\ Stands(buf, 6, h.dst) /\ Stands(buf, 6 + Len(h.dst), h.src)
         /\ VersionSize(h) = 6 + Len(h.dst) + Len(h.src) /\ VersionSize(h) <= Len(buf)
         /\ Len(buf) \in Nat
         /\ h.dst \in Seq(0 .. Byte - 1) /\ Len(h.dst) \in Nat
         /\ h.src \in Seq(0 .. Byte - 1) /\ Len(h.src) \in Nat
         /\ IdSize(buf[6].dst) = Len(h.dst) /\ IdSize(buf[6].src) = Len(h.src)
         /\ (h.dst = <<>> <=> Len(h.dst) = 0) /\ (h.src = <<>> <=> Len(h.src) = 0)
  <1> DEFINE S == VersionCells(h)
             V == BigEndianEncode(0, 4)
             E == FiveFields(VersionFirst, V, IdLengths(h), h.dst, h.src)
  <1>1. VersionEncode(h) = E
    BY DEF VersionEncode, FiveFields, VersionFirst, IdLengths
  <1>2. h.dst \in ConnIds /\ h.src \in ConnIds
    BY DEF VersionHeaders
  <1>3. /\ h.dst \in Seq(0 .. Byte - 1) /\ Len(h.dst) \in Nat
        /\ h.src \in Seq(0 .. Byte - 1) /\ Len(h.src) \in Nat
        /\ IdSize(Nibble(h.dst)) = Len(h.dst) /\ IdSize(Nibble(h.src)) = Len(h.src)
        /\ (h.dst = <<>> <=> Len(h.dst) = 0) /\ (h.src = <<>> <=> Len(h.src) = 0)
    <2>1. \A id \in ConnIds :
            /\ id \in Seq(0 .. Byte - 1) /\ Len(id) \in Nat
            /\ IdSize(Nibble(id)) = Len(id) /\ (id = <<>> <=> Len(id) = 0)
      BY IdType
    <2> QED
      BY <1>2, <2>1
  <1>4. V \in Seq(0 .. Byte - 1) /\ Len(V) = 4
    <2>1. 0 \in VersionNumbers
      <3>1. Power[4] \in Nat \ {0}
        BY PowerType
      <3> QED
        BY <3>1 DEF VersionNumbers
    <2> QED
      BY <2>1, VersionDigits
  <1>5. VersionFirst \in S /\ IdLengths(h) \in S /\ 0 .. Byte - 1 \subseteq S
    BY DEF VersionCells
  <1> HIDE DEF S, V
  <1>6. V \in Seq(S) /\ h.dst \in Seq(S) /\ h.src \in Seq(S)
    BY <1>3, <1>4, <1>5, WiderSeq
  <1>7. Len(buf) \in Nat /\ Stands(buf, 0, E)
    BY <1>1 DEF HoldsVersion
  <1>8. /\ E \in Seq(S) /\ Len(E) = 6 + Len(h.dst) + Len(h.src)
        /\ buf[6] = IdLengths(h)
        /\ Stands(buf, 6, h.dst) /\ Stands(buf, 6 + Len(h.dst), h.src)
    <2> DEFINE first == VersionFirst
               ids == IdLengths(h)
               d == h.dst
               s == h.src
    <2>1. /\ first \in S /\ ids \in S /\ d \in Seq(S) /\ s \in Seq(S) /\ V \in Seq(S)
          /\ Len(V) = 4 /\ Len(buf) \in Nat /\ Stands(buf, 0, FiveFields(first, V, ids, d, s))
          /\ E = FiveFields(first, V, ids, d, s)
      BY <1>4, <1>5, <1>6, <1>7
    <2> HIDE DEF first, ids, d, s, E
    <2>2. /\ E \in Seq(S) /\ Len(E) = 6 + Len(d) + Len(s) /\ buf[6] = ids
          /\ Stands(buf, 6, d) /\ Stands(buf, 6 + Len(d), s)
      BY <2>1, FiveFieldsLayout
    <2> QED
      BY <2>2 DEF first, ids, d, s
  <1> HIDE DEF E
  <1>9. VersionSize(h) = 6 + Len(h.dst) + Len(h.src)
    BY DEF VersionSize
  <1>10. VersionSize(h) <= Len(buf)
    <2>1. 0 + Len(E) <= Len(buf)
      BY <1>7 DEF Stands
    <2>2. Len(E) \in Nat
      BY <1>8, LenProperties
    <2>3. 0 + Len(E) = Len(E)
      BY <2>2
    <2> QED
      BY <1>8, <1>9, <2>1, <2>3
  <1>11. buf[6].dst = Nibble(h.dst) /\ buf[6].src = Nibble(h.src)
    BY <1>8 DEF IdLengths
  <1> QED
    BY <1>1, <1>3, <1>7, <1>8, <1>9, <1>10, <1>11 DEF S

(* What version_negotiation_get_header comes to in a packet of size bytes  *)
(* with the header h, r being the struct afterwards.                       *)
NegotiationRead(d, h, size, r) ==
  IF size = 6
  THEN d = [hdr |-> r, used |-> 6, refused |-> TRUE]
  ELSE /\ d = Sofar(r, VersionSize(h))
       /\ r.version = 0
       /\ h.dst # <<>> => r.dst = h.dst
       /\ h.src # <<>> => r.src = h.src

(* version_negotiation_get_header refuses a packet that is no longer than  *)
(* its fixed part; otherwise it reads the ids that are not empty.          *)
LEMMA VersionRead ==
  ASSUME NEW h \in VersionHeaders, NEW buf, HoldsVersion(buf, h), NEW g \in VersionHeaders,
         NEW idSize
  PROVE  \E r \in VersionHeaders :
           NegotiationRead(HeaderDecode(g, buf, idSize), h, Len(buf), r)
  <1> DEFINE d == Len(h.dst)
             s == Len(h.src)
             size == Len(buf)
             g2 == [g EXCEPT !.version = 0]
             dst == IF d = 0 THEN g2.dst ELSE h.dst
             g4 == [g2 EXCEPT !.dst = dst]
             src == IF s = 0 THEN g4.src ELSE h.src
             g5 == [g4 EXCEPT !.src = src]
             fields == <<"first", "version", "cil", "dst", "src">>
  <1>1. /\ Stands(buf, 6, h.dst) /\ Stands(buf, 6 + d, h.src)
        /\ VersionSize(h) = 6 + d + s /\ VersionSize(h) <= size
        /\ size \in Nat /\ d \in Nat /\ s \in Nat
        /\ h.dst \in Seq(0 .. Byte - 1) /\ h.src \in Seq(0 .. Byte - 1)
        /\ IdSize(buf[6].dst) = d /\ IdSize(buf[6].src) = s
        /\ (h.dst = <<>> <=> d = 0) /\ (h.src = <<>> <=> s = 0)
    BY VersionLayout
  <1>2. g.kind = "version" /\ h.dst \in ConnIds /\ h.src \in ConnIds
    BY DEF VersionHeaders
  <1>3. g2 \in VersionHeaders /\ g2.version = 0
    <2>1. 0 \in VersionNumbers
      <3>1. Power[4] \in Nat \ {0}
        BY PowerType
      <3> QED
        BY <3>1 DEF VersionNumbers
    <2> QED
      BY <2>1 DEF VersionHeaders
  <1> HIDE DEF g2, d
  <1>4. dst \in ConnIds
    BY <1>2, <1>3 DEF VersionHeaders
  <1> HIDE DEF dst
  <1>5. g4 \in VersionHeaders /\ g4.version = 0 /\ g4.dst = dst
    BY <1>3, <1>4 DEF VersionHeaders
  <1> HIDE DEF g4, s
  <1>6. src \in ConnIds
    BY <1>2, <1>5 DEF VersionHeaders
  <1> HIDE DEF src
  <1>7. g5 \in VersionHeaders /\ g5.version = 0 /\ g5.dst = dst /\ g5.src = src
    BY <1>5, <1>6 DEF VersionHeaders
  <1> HIDE DEF g5
  <1>8. g2.kind = "version" /\ g4.kind = "version" /\ g5.kind = "version"
    BY <1>3, <1>5, <1>7 DEF VersionHeaders
  <1>9. fields = Fields(g.kind, buf) /\ Len(fields) = 5 /\ ~ (g.kind = "long" /\ buf[1].form # "long")
    BY <1>2 DEF Fields
  <1>10. PICK f : /\ f[0] = [hdr |-> g, used |-> 0, refused |-> FALSE]
                  /\ \A k \in 1 .. 5 : f[k] = ReadField(f[k - 1], buf, fields[k], idSize)
                  /\ HeaderDecode(g, buf, idSize) = f[5]
    <2> DEFINE names == fields
               m == 5
    <2>1. names = Fields(g.kind, buf) /\ Len(names) = m /\ m \in Nat
      BY <1>9
    <2>3. ~ (g.kind = "long" /\ buf[1].form # "long")
      BY <1>9
    <2> HIDE DEF names, m, fields
    <2>2. ReadsInSteps(g, buf, idSize, names, m)
      BY <2>1, <2>3, DecodeSteps
    <2> QED
      BY <2>2 DEF names, m, ReadsInSteps
  <1>11. /\ f[0] = Sofar(g, 0)
         /\ f[1] = ReadField(f[0], buf, "first", idSize)
         /\ f[2] = ReadField(f[1], buf, "version", idSize)
         /\ f[3] = ReadField(f[2], buf, "cil", idSize)
         /\ f[4] = ReadField(f[3], buf, "dst", idSize)
         /\ f[5] = ReadField(f[4], buf, "src", idSize)
    <2>1. /\ f[1] = ReadField(f[1 - 1], buf, fields[1], idSize)
          /\ f[2] = ReadField(f[2 - 1], buf, fields[2], idSize)
          /\ f[3] = ReadField(f[3 - 1], buf, fields[3], idSize)
          /\ f[4] = ReadField(f[4 - 1], buf, fields[4], idSize)
          /\ f[5] = ReadField(f[5 - 1], buf, fields[5], idSize)
      BY <1>10
    <2> QED
      BY <1>10, <2>1 DEF Sofar
  <1>12. ASSUME NEW r, r.kind = "version", NEW field, NEW u, NEW w, NEW v,
                VersionField(r, buf, u, field) = <<w, v>>,
                ~ Rejects("version", field, u + w, size)
         PROVE  ReadField(Sofar(r, u), buf, field, idSize) = Sofar(v, u + w)
    <2> DEFINE read == <<w, v>>
    <2>1. HeaderField(r, buf, u, field, idSize) = read
      BY <1>12 DEF HeaderField
    <2>2. read[1] = w /\ read[2] = v
      OBVIOUS
    <2> HIDE DEF read
    <2> QED
      BY <1>12, <2>1, <2>2, ReadStep
  <1>13. /\ VersionField(g, buf, 0, "first") = <<1, g>>
         /\ VersionField(g, buf, 1, "version") = <<4, g2>>
         /\ VersionField(g2, buf, 5, "cil") = <<1, g2>>
    BY DEF VersionField, g2
  <1>14. 6 <= size /\ 6 + d <= size /\ (6 + d) + s <= size
    <2> HIDE DEF size
    <2> QED
      BY <1>1
  <1> HIDE DEF size
  <1>15. ~ Rejects("version", "first", 0 + 1, size) /\ ~ Rejects("version", "version", 1 + 4, size)
    BY <1>1, <1>14 DEF Rejects
  <1>16. f[1] = Sofar(g, 0 + 1)
    BY <1>2, <1>11, <1>12, <1>13, <1>15
  <1>17. f[2] = Sofar(g2, 1 + 4)
    <2>1. f[1] = Sofar(g, 1)
      BY <1>16
    <2> QED
      BY <1>2, <1>11, <1>12, <1>13, <1>15, <2>1
  <1>18. f[2] = Sofar(g2, 5)
    BY <1>17
  <1>19. CASE size = 6
    <2>1. f[3] = [hdr |-> g2, used |-> 6, refused |-> TRUE]
      <3> DEFINE r == Sofar(g2, 5)
                 read == <<1, g2>>
                 used == r.used + read[1]
                 refused == Rejects(r.hdr.kind, "cil", used, Len(buf))
      <3>1. r.hdr = g2 /\ r.used = 5 /\ r.refused = FALSE /\ read[1] = 1 /\ read[2] = g2
        BY DEF Sofar
      <3>2. HeaderField(g2, buf, 5, "cil", idSize) = read
        BY <1>8, <1>13 DEF HeaderField
      <3>3. ReadField(r, buf, "cil", idSize)
              = [hdr |-> IF refused /\ "cil" = "first" THEN r.hdr ELSE read[2],
                 used |-> used, refused |-> refused]
        BY <3>1, <3>2 DEF ReadField
      <3>4. used = 6
        BY <3>1
      <3>5. refused = TRUE
        BY <1>8, <1>19, <3>1, <3>4 DEF Rejects, size
      <3> QED
        BY <1>11, <1>18, <3>1, <3>3, <3>4, <3>5
    <2>2. f[3].refused
      BY <2>1
    <2>3. f[4] = f[3] /\ f[5] = f[3]
      BY <1>11, <2>2, ReadRefused
    <2> QED
      BY <1>3, <1>10, <1>19, <2>1, <2>3 DEF size, NegotiationRead
  <1>20. CASE size # 6
    <2>1. /\ ~ Rejects("version", "cil", 5 + 1, size) /\ ~ Rejects("version", "dst", 6 + d, size)
          /\ ~ Rejects("version", "src", (6 + d) + s, size)
      BY <1>1, <1>14, <1>20 DEF Rejects
    <2>2. f[3] = Sofar(g2, 5 + 1)
      BY <1>8, <1>11, <1>12, <1>13, <1>18, <2>1
    <2>3. VersionField(g2, buf, 6, "dst") = <<d, g4>>
      <3>1. SubSeq(buf, 6 + 1, 6 + d) = h.dst
        BY <1>1, StandsTaken DEF d
      <3> QED
        BY <1>1, <3>1 DEF VersionField, g4, dst
    <2>4. VersionField(g4, buf, 6 + d, "src") = <<s, g5>>
      <3>1. 6 + d \in Nat
        BY <1>1
      <3>2. SubSeq(buf, (6 + d) + 1, (6 + d) + s) = h.src
        BY <1>1, <3>1, StandsTaken DEF s
      <3> QED
        BY <1>1, <3>2 DEF VersionField, g5, src
    <2>5. f[4] = Sofar(g4, 6 + d)
      <3>1. f[3] = Sofar(g2, 6)
        BY <2>2
      <3> QED
        BY <1>8, <1>11, <1>12, <2>1, <2>3, <3>1
    <2>6. f[5] = Sofar(g5, (6 + d) + s)
      BY <1>8, <1>11, <1>12, <2>1, <2>4, <2>5
    <2>7. HeaderDecode(g, buf, idSize) = Sofar(g5, VersionSize(h))
      BY <1>1, <1>10, <2>6
    <2>8. /\ h.dst # <<>> => g5.dst = h.dst
          /\ h.src # <<>> => g5.src = h.src
      BY <1>1, <1>7 DEF dst, src
    <2> QED
      BY <1>7, <1>20, <2>7, <2>8 DEF size, NegotiationRead
  <1> QED
    BY <1>19, <1>20

-----------------------------------------------------------------------------
(* Packet numbers.                                                         *)

(* A number read over one of at most m bytes has at most m bytes, or as    *)
(* many as were read.                                                      *)
LEMMA OverwrittenBound ==
  ASSUME NEW n \in 0 .. 8, NEW m \in 0 .. 8, NEW old \in Nat, NEW new \in Nat,
         old < Power[m], new < Power[n]
  PROVE  /\ Overwritten(old, new, n) \in Nat /\ Overwritten(old, new, n) % Power[n] = new
         /\ m <= n => Overwritten(old, new, n) = new
         /\ n <= m => Overwritten(old, new, n) < Power[m]
  <1> DEFINE win == Power[n]
             top == Power[m]
             q == old \div win
  <1>1. win \in Nat \ {0} /\ top \in Nat \ {0}
    BY PowerType
  <1>2. q \in Nat /\ old = win * q + (old % win) /\ old % win \in Nat
    BY <1>1, Division
  <1>3. Overwritten(old, new, n) = win * q + new
    BY DEF Overwritten
  <1>4. win * q \in Nat
    BY <1>1, <1>2, ProductNatural
  <1>5. (win * q + new) % win = new
    <2> HIDE DEF q, win
    <2>1. new < win
      BY DEF win
    <2> QED
      BY <1>1, <1>2, <2>1, DivisionUnique
  <1>6. ASSUME m <= n PROVE win * q + new = new
    <2>1. top <= win
      BY <1>6, PowerGrows
    <2>2. old < win
      BY <1>1, <2>1
    <2>3. old = win * 0 + old
      BY <1>1
    <2>4. q = 0
      BY <1>1, <2>2
    <2> QED
      BY <1>1, <2>4
  <1>7. ASSUME n <= m PROVE win * q + new < top
    <2> DEFINE k == Power[m - n]
    <2>1. m - n \in 0 .. 8 /\ (m - n) + n = m
      BY <1>7
    <2>2. top = k * win /\ k \in Nat
      <3> DEFINE j == m - n
      <3>1. j \in 0 .. 8 /\ j + n = m
        BY <2>1
      <3> HIDE DEF j
      <3>2. Power[j + n] = Power[j] * Power[n]
        BY <3>1, PowerProduct
      <3>3. Power[m] = Power[j] * Power[n] /\ Power[j] \in Nat
        BY <3>1, <3>2, PowerType
      <3> QED
        BY <3>3 DEF j
    <2>3. q < k
      <3> SUFFICES ASSUME k <= q PROVE FALSE
        BY <1>2, <2>2
      <3> HIDE DEF q, k, win
      <3>1. k * win <= q * win
        BY <1>1, <1>2, <2>2, ProductGrows
      <3>2. q * win = win * q
        BY <1>1, <1>2
      <3> HIDE DEF top
      <3>3. old < top
        BY DEF top
      <3> QED
        BY <1>1, <1>2, <1>4, <2>2, <3>1, <3>2, <3>3
    <2>4. (q + 1) * win <= k * win
      <3> HIDE DEF q, k, win
      <3>1. q + 1 <= k /\ q + 1 \in Nat
        BY <1>2, <2>2, <2>3
      <3> QED
        BY <1>1, <2>2, <3>1, ProductGrows
    <2>5. (q + 1) * win = win * q + win
      <3> HIDE DEF q, k, win
      <3> QED
        BY <1>1, <1>2
    <2>6. new < win
      OBVIOUS
    <2> DEFINE a == win * q
    <2> HIDE DEF a, q, k, win, top
    <2>7. a + new < top
      <3>1. a + win <= top /\ a \in Nat
        BY <1>4, <2>2, <2>4, <2>5 DEF a
      <3> QED
        BY <1>1, <2>6, <3>1
    <2> QED
      BY <2>7 DEF a
  <1> QED
    BY <1>1, <1>3, <1>4, <1>5, <1>6, <1>7

(* packet_number_decode around a number the receiver knows.                *)
LEMMA NumberDecoded ==
  ASSUME NEW largest \in PacketNumbers, NEW number \in PacketNumbers, NEW n \in 1 .. 3
  PROVE  LET win == Power[n]
             expected == largest + 1
             decoded == PnumDecode(largest, number % win, n)
         IN /\ decoded % win = number % win
            /\ /\ expected \in win .. Power[4] - win
               /\ number > expected - win \div 2 /\ number <= expected + win \div 2
               /\ number < expected - (expected % win) + win
               => decoded = number
  <1> DEFINE win == Power[n]
             W == Power[4]
             m == Power[4 - n]
             e == (largest + 1) % W
             q == e \div win
             r == e % win
             b == number \div win
             t == number % win
             P == win * q
             B == win * b
             half == win \div 2
             candidate == (e - r) + t
             decoded == PnumDecode(largest, t, n)
             below == (e - win) % W
             above == (e + half) % W
  <1>1. win \in Nat \ {0} /\ W \in Nat \ {0} /\ m \in Nat \ {0} /\ W = m * win /\ win >= 4
        /\ m >= 2
    <2>1. n \in 0 .. 8 /\ 4 - n \in 0 .. 8 /\ (4 - n) + n = 4 /\ 0 \in 0 .. 8 /\ 0 < n /\ 0 < 4 - n
      OBVIOUS
    <2>2. W = m * win
      BY <2>1, PowerProduct
    <2>3. win >= Byte * 1 /\ m >= Byte * 1
      <3>1. Byte * Power[0] <= win /\ Byte * Power[0] <= m
        BY <2>1, PowerGrows
      <3>2. win \in Nat /\ m \in Nat
        BY <2>1, PowerType
      <3> QED
        BY <3>1, <3>2, PowerSteps, ByteType
    <2>4. win \in Nat \ {0} /\ W \in Nat \ {0} /\ m \in Nat \ {0}
      BY <2>1, PowerType
    <2> HIDE DEF win, W, m
    <2> QED
      BY <2>2, <2>3, <2>4, ByteType
  <1>2. largest \in Nat /\ largest < W /\ number \in Nat /\ number < W
    BY <1>1 DEF PacketNumbers
  <1> HIDE DEF win, W, m
  <1>3. e \in Nat /\ e < W
    BY <1>1, <1>2
  <1>4. largest + 1 < W => e = largest + 1
    BY <1>1, <1>2
  <1> HIDE DEF e
  <1>5. q \in Nat /\ r \in Nat /\ r < win /\ e = P + r
    BY <1>1, <1>3, Division
  <1>6. b \in Nat /\ t \in Nat /\ t < win /\ number = B + t
    BY <1>1, <1>2, Division
  <1> HIDE DEF q, r, b, t
  <1>7. P \in Nat /\ B \in Nat
    BY <1>1, <1>5, <1>6, ProductNatural
  <1>8. candidate = P + t
    BY <1>5, <1>6, <1>7
  <1>9. half \in Nat /\ 2 * half <= win /\ half < win /\ win <= 2 * half + 1 /\ half >= 2
    BY <1>1
  <1> HIDE DEF half
  <1>10. decoded = IF candidate <= below THEN (candidate + win) % W
                   ELSE IF candidate > above /\ candidate > win
                   THEN candidate - win ELSE candidate
    BY DEF PnumDecode, win, W, e, r, half, below, above
  <1> HIDE DEF below, above, decoded, candidate
  <1>11. decoded % win = t
    <2>1. (win * q + t) % win = t
      BY <1>1, <1>5, <1>6, DivisionUnique
    <2>2. candidate % win = t
      BY <1>8, <2>1 DEF P
    <2>3. CASE candidate <= below
      <3> DEFINE a == candidate + win
      <3>1. a = win * (q + 1) + t
        <4>1. win * (q + 1) = P + win
          BY <1>1, <1>5 DEF P
        <4> QED
          BY <1>1, <1>6, <1>7, <1>8, <4>1
      <3>2. a \in Nat
        BY <1>1, <1>6, <1>7, <1>8
      <3> HIDE DEF a
      <3>3. a % (win * m) = win * ((a \div win) % m) + (a % win)
        BY <1>1, <3>2, DivisionTwice
      <3>4. a % win = t
        BY <1>1, <1>5, <1>6, <3>1, DivisionUnique
      <3>5. W = win * m
        BY <1>1
      <3> DEFINE c == (a \div win) % m
      <3>6. c \in Nat
        BY <1>1, <3>2
      <3> HIDE DEF c
      <3>7. a % W = win * c + t
        BY <3>3, <3>4, <3>5 DEF c
      <3>8. (win * c + t) % win = t
        BY <1>1, <1>6, <3>6, DivisionUnique
      <3> QED
        BY <1>10, <2>3, <3>7, <3>8 DEF a
    <2>4. CASE ~ (candidate <= below) /\ candidate > above /\ candidate > win
      <3>1. q # 0
        <4> SUFFICES ASSUME q = 0 PROVE FALSE
          OBVIOUS
        <4>1. P = 0
          BY <1>1 DEF P
        <4> QED
          BY <1>1, <1>6, <1>8, <2>4, <4>1
      <3>2. q - 1 \in Nat
        BY <1>5, <3>1
      <3>3. win * (q - 1) = P - win
        BY <1>1, <1>5 DEF P
      <3>4. candidate - win = win * (q - 1) + t
        BY <1>1, <1>6, <1>7, <1>8, <3>3
      <3>5. (win * (q - 1) + t) % win = t
        BY <1>1, <1>6, <3>2, DivisionUnique
      <3> QED
        BY <1>10, <2>4, <3>4, <3>5
    <2> QED
      BY <1>10, <2>2, <2>3, <2>4
  <1>12. ASSUME largest + 1 \in win .. W - win,
                number > (largest + 1) - half, number <= (largest + 1) + half,
                number < (largest + 1) - ((largest + 1) % win) + win
         PROVE  decoded = number
    <2>1. e = largest + 1
      BY <1>1, <1>2, <1>4, <1>12
    <2>2. win <= e /\ e <= W - win /\ number > e - half /\ number <= e + half
      BY <1>1, <1>12, <2>1
    <2>3. number < (e - r) + win
      BY <1>12, <2>1 DEF r
    <2>4. number < P + win
      BY <1>1, <1>3, <1>5, <1>7, <2>3
    <2>5. below = e - win
      <3>1. e - win \in Nat /\ e - win < W
        BY <1>1, <1>3, <2>2
      <3> DEFINE x == e - win
      <3> HIDE DEF x
      <3>2. x % W = x
        BY <1>1, <3>1 DEF x
      <3> QED
        BY <3>2 DEF below, x
    <2>6. above = e + half
      <3>1. e + half \in Nat /\ e + half < W
        BY <1>1, <1>3, <1>9, <2>2
      <3> DEFINE x == e + half
      <3> HIDE DEF x
      <3>2. x % W = x
        BY <1>1, <3>1 DEF x
      <3> QED
        BY <3>2 DEF above, x
    <2>7. b <= q
      <3> SUFFICES ASSUME q + 1 <= b PROVE FALSE
        BY <1>5, <1>6
      <3>1. (q + 1) * win <= b * win
        BY <1>1, <1>5, <1>6, ProductGrows
      <3>2. (q + 1) * win = P + win /\ b * win = B
        BY <1>1, <1>5, <1>6 DEF P, B
      <3> HIDE DEF P, B
      <3> QED
        BY <1>1, <1>6, <1>7, <2>4, <3>1, <3>2
    <2>8. q <= b + 1
      <3> SUFFICES ASSUME b + 2 <= q PROVE FALSE
        BY <1>5, <1>6
      <3>1. (b + 2) * win <= q * win
        BY <1>1, <1>5, <1>6, ProductGrows
      <3>2. (b + 2) * win = B + 2 * win /\ q * win = P
        BY <1>1, <1>5, <1>6 DEF P, B
      <3> HIDE DEF P, B
      <3> QED
        BY <1>1, <1>5, <1>6, <1>7, <1>9, <2>2, <3>1, <3>2
    <2>9. CASE b = q
      <3>1. P = B
        BY <2>9 DEF P, B
      <3> HIDE DEF P, B
      <3>2. candidate = number
        BY <1>6, <1>8, <3>1
      <3>3. ~ (candidate <= below) /\ ~ (candidate > above)
        BY <1>1, <1>2, <1>3, <1>9, <2>2, <2>5, <2>6, <3>2
      <3> QED
        BY <1>10, <3>2, <3>3
    <2>10. CASE q = b + 1
      <3>1. P = B + win
        BY <1>1, <1>6, <2>10 DEF P, B
      <3> HIDE DEF P, B
      <3>2. candidate = number + win
        BY <1>1, <1>6, <1>7, <1>8, <3>1
      <3>3. ~ (candidate <= below) /\ candidate > above /\ candidate > win
        BY <1>1, <1>2, <1>3, <1>9, <2>2, <2>5, <2>6, <3>2
      <3>4. candidate - win = number
        BY <1>1, <1>2, <3>2
      <3> QED
        BY <1>10, <3>3, <3>4
    <2> QED
      BY <1>5, <1>6, <2>7, <2>8, <2>9, <2>10
  <1> QED
    BY <1>11, <1>12 DEF win, W, t, decoded, half

-----------------------------------------------------------------------------
(* Packets that are read.                                                  *)

LEMMA FiveFieldsType ==
  ASSUME NEW S, NEW first \in S, NEW version \in Seq(S), NEW ids \in S,
         NEW dst \in Seq(S), NEW src \in Seq(S), Len(version) = 4
  PROVE  /\ FiveFields(first, version, ids, dst, src) \in Seq(S)
         /\ Len(FiveFields(first, version, ids, dst, src)) = 6 + Len(dst) + Len(src)
  <1> DEFINE A == <<first>>
             I == <<ids>>
             B == A \o version
             C == B \o I
             D == C \o dst
             E == D \o src
  <1>1. A \in Seq(S) /\ Len(A) = 1 /\ I \in Seq(S) /\ Len(I) = 1
    BY Single
  <1>2. E = FiveFields(first, version, ids, dst, src)
    BY DEF FiveFields
  <1>3. B = A \o version /\ C = B \o I /\ D = C \o dst /\ E = D \o src
    OBVIOUS
  <1> HIDE DEF A, I, B, C, D, E
  <1>4. B \in Seq(S) /\ Len(B) = Len(A) + Len(version)
    BY <1>1, <1>3, Joined
  <1>5. C \in Seq(S) /\ Len(C) = Len(B) + Len(I)
    BY <1>1, <1>3, <1>4, Joined
  <1>6. D \in Seq(S) /\ Len(D) = Len(C) + Len(dst)
    BY <1>3, <1>5, Joined
  <1>7. E \in Seq(S) /\ Len(E) = Len(D) + Len(src)
    BY <1>3, <1>6, Joined
  <1>8. Len(dst) \in Nat /\ Len(src) \in Nat
    BY LenProperties
  <1>9. Len(E) = 6 + Len(dst) + Len(src)
    BY <1>1, <1>4, <1>5, <1>6, <1>7, <1>8
  <1> QED
    BY <1>2, <1>7, <1>9

LEMMA LongEncodeType ==
  ASSUME NEW h, LongSendable(h)
  PROVE  LongEncode(h) \in Seq(Cells(h)) /\ Len(LongEncode(h)) = LongSize(h)
  <1> DEFINE S == Cells(h)
             V == BigEndianEncode(h.version, 4)
             G == FiveFields(LongFirst(h), V, IdLengths(h), h.dst, h.src)
             T == TokenPart(h)
             R == Remainder(h)
  <1>1. LongEncode(h) = G \o T \o R
    BY DEF LongEncode, LongFirst, IdLengths, TokenPart, Remainder, FiveFields
  <1>2. h.dst \in ConnIds /\ h.src \in ConnIds /\ h.version \in VersionNumbers
    BY DEF LongSendable, LongHeaders
  <1>3. LongFirst(h) \in S /\ IdLengths(h) \in S /\ 0 .. Byte - 1 \subseteq S
    BY DEF Cells
  <1>4. /\ V \in Seq(S) /\ Len(V) = 4 /\ T \in Seq(S) /\ R \in Seq(S)
        /\ h.dst \in Seq(S) /\ h.src \in Seq(S)
    <2>1. V \in Seq(0 .. Byte - 1) /\ Len(V) = 4
      BY <1>2, VersionDigits
    <2>2. T \in Seq(0 .. Byte - 1) /\ R \in Seq(0 .. Byte - 1)
      BY PartTypes
    <2>3. h.dst \in Seq(0 .. Byte - 1) /\ h.src \in Seq(0 .. Byte - 1)
      BY <1>2, IdType
    <2> HIDE DEF S, V, T, R
    <2> QED
      BY <1>3, <2>1, <2>2, <2>3, WiderSeq
  <1>5. LongSize(h) = 6 + Len(h.dst) + Len(h.src) + Len(T) + Len(R)
    BY PartTypes DEF LongSize
  <1>6. G \in Seq(S) /\ Len(G) = 6 + Len(h.dst) + Len(h.src)
    <2> DEFINE first == LongFirst(h)
               ids == IdLengths(h)
               d == h.dst
               s == h.src
    <2>1. /\ first \in S /\ ids \in S /\ V \in Seq(S) /\ Len(V) = 4
          /\ d \in Seq(S) /\ s \in Seq(S)
      BY <1>3, <1>4
    <2> HIDE DEF first, ids, d, s, S, V
    <2>2. /\ FiveFields(first, V, ids, d, s) \in Seq(S)
          /\ Len(FiveFields(first, V, ids, d, s)) = 6 + Len(d) + Len(s)
      BY <2>1, FiveFieldsType
    <2> QED
      BY <2>2 DEF first, ids, d, s
  <1> HIDE DEF S, V, T, R, G
  <1>7. G \o T \in Seq(S) /\ Len(G \o T) = Len(G) + Len(T)
    BY <1>4, <1>6, Joined
  <1> DEFINE P == G \o T
  <1>8. P \in Seq(S) /\ Len(P) = Len(G) + Len(T)
    BY <1>7
  <1> HIDE DEF P
  <1>9. P \o R \in Seq(S) /\ Len(P \o R) = Len(P) + Len(R)
    BY <1>4, <1>8, Joined
  <1> QED
    BY <1>1, <1>5, <1>6, <1>8, <1>9 DEF P, S

LEMMA ShortEncodeType ==
  ASSUME NEW h \in ShortHeaders
  PROVE  ShortEncode(h) \in Seq(ShortCells(h)) /\ Len(ShortEncode(h)) = ShortSize(h)
  <1> DEFINE S == ShortCells(h)
             A == <<ShortFirst(h)>>
             D == h.dst
             n == PnumLength(h.pnum)
             t == BigEndianEncode(h.pnum, n)
             B == A \o D
  <1>1. h.dst \in ConnIds /\ h.pnum \in PacketNumbers
    BY DEF ShortHeaders
  <1>2. n \in 1 .. 4 /\ h.pnum \in Nat
    BY <1>1, PnumLengthType
  <1>3. t \in Seq(0 .. Byte - 1) /\ Len(t) = n
    <2> HIDE DEF n
    <2>1. n \in 0 .. 8
      BY <1>2
    <2> QED
      BY <1>2, <2>1, DigitsType DEF BigEndianEncode
  <1>4. D \in Seq(0 .. Byte - 1)
    BY <1>1, IdType
  <1>5. A \in Seq(S) /\ Len(A) = 1 /\ 0 .. Byte - 1 \subseteq S
    <2>1. ShortFirst(h) \in S /\ 0 .. Byte - 1 \subseteq S
      BY DEF ShortCells
    <2> HIDE DEF S
    <2> QED
      BY <2>1, Single
  <1>6. ShortEncode(h) = B \o t /\ ShortSize(h) = 1 + Len(D) + n
    BY DEF ShortEncode, ShortFirst, ShortSize
  <1> HIDE DEF S, A, D, t
  <1>7. D \in Seq(S) /\ t \in Seq(S)
    BY <1>3, <1>4, <1>5, WiderSeq
  <1>8. B \in Seq(S) /\ Len(B) = 1 + Len(D)
    BY <1>5, <1>7, Joined
  <1> HIDE DEF B
  <1>9. B \o t \in Seq(S) /\ Len(B \o t) = (1 + Len(D)) + n
    BY <1>3, <1>7, <1>8, Joined
  <1> QED
    BY <1>6, <1>9 DEF S

LEMMA VersionEncodeType ==
  ASSUME NEW h \in VersionHeaders
  PROVE  VersionEncode(h) \in Seq(VersionCells(h)) /\ Len(VersionEncode(h)) = VersionSize(h)
  <1> DEFINE S == VersionCells(h)
             V == BigEndianEncode(0, 4)
             E == FiveFields(VersionFirst, V, IdLengths(h), h.dst, h.src)
  <1>1. VersionEncode(h) = E /\ VersionSize(h) = 6 + Len(h.dst) + Len(h.src)
    BY DEF VersionEncode, FiveFields, VersionFirst, IdLengths, VersionSize
  <1>2. h.dst \in ConnIds /\ h.src \in ConnIds
    BY DEF VersionHeaders
  <1>3. V \in Seq(0 .. Byte - 1) /\ Len(V) = 4
    <2>1. 0 \in VersionNumbers
      <3>1. Power[4] \in Nat \ {0}
        BY PowerType
      <3> QED
        BY <3>1 DEF VersionNumbers
    <2> QED
      BY <2>1, VersionDigits
  <1>4. VersionFirst \in S /\ IdLengths(h) \in S /\ 0 .. Byte - 1 \subseteq S
    BY DEF VersionCells
  <1>5. h.dst \in Seq(0 .. Byte - 1) /\ h.src \in Seq(0 .. Byte - 1)
    BY <1>2, IdType
  <1> HIDE DEF S, V
  <1>6. V \in Seq(S) /\ h.dst \in Seq(S) /\ h.src \in Seq(S)
    BY <1>3, <1>4, <1>5, WiderSeq
  <1>7. E \in Seq(S) /\ Len(E) = 6 + Len(h.dst) + Len(h.src)
    <2> DEFINE first == VersionFirst
               ids == IdLengths(h)
               d == h.dst
               s == h.src
    <2>1. /\ first \in S /\ ids \in S /\ V \in Seq(S) /\ Len(V) = 4
          /\ d \in Seq(S) /\ s \in Seq(S)
      BY <1>3, <1>4, <1>6
    <2> HIDE DEF first, ids, d, s
    <2>2. /\ FiveFields(first, V, ids, d, s) \in Seq(S)
          /\ Len(FiveFields(first, V, ids, d, s)) = 6 + Len(d) + Len(s)
      BY <2>1, FiveFieldsType
    <2> QED
      BY <2>2 DEF first, ids, d, s
  <1> QED
    BY <1>1, <1>7 DEF S

(* A header with a payload behind it.                                      *)
Framed(buf, s, t) ==
  /\ Len(buf) = Len(s) + Len(t)
  /\ Len(s) \in Nat /\ Len(t) \in Nat /\ DOMAIN buf = 1 .. Len(buf)
  /\ Stands(buf, 0, s)
  /\ SubSeq(buf, Len(s) + 1, Len(buf)) = t

LEMMA Behind ==
  ASSUME NEW S, NEW s \in Seq(S), NEW T, T \subseteq S, NEW t \in Seq(T),
         NEW buf, buf = s \o t
  PROVE  Framed(buf, s, t)
  <1>1. t \in Seq(S)
    BY WiderSeq
  <1>2. buf \in Seq(S) /\ Len(buf) = Len(s) + Len(t)
    BY <1>1, Joined
  <1>3. Len(s) \in Nat /\ Len(t) \in Nat /\ Len(buf) \in Nat /\ DOMAIN buf = 1 .. Len(buf)
    BY <1>1, <1>2, LenProperties
  <1>4. Stands(buf, 0, s) /\ Stands(buf, 0 + Len(s), t)
    <2>1. Stands(buf, 0, s \o t)
      BY <1>2, StandsWhole
    <2> QED
      BY <1>1, <1>3, <2>1, StandsParts
  <1>5. SubSeq(buf, Len(s) + 1, Len(s) + Len(t)) = t
    <2>1. 0 + Len(s) = Len(s)
      BY <1>3
    <2> QED
      BY <1>1, <1>3, <1>4, <2>1, StandsTaken
  <1> QED
    BY <1>2, <1>3, <1>4, <1>5 DEF Framed

-----------------------------------------------------------------------------
(* The versions of a negotiation.                                          *)

(* The client reads the versions that were written, and no others.         *)
LEMMA VersionsRead ==
  ASSUME NEW s \in Seq(VersionNumbers)
  PROVE  VersionBytes(s) \in Octets /\ VersionsIn(VersionBytes(s)) = ToSet(s)
  <1> DEFINE n == Len(s)
             buf == VersionBytes(s)
             Four(k) == BigEndianEncode(s[k], 4)
             O == 0 .. Byte - 1
  <1>1. n \in Nat /\ DOMAIN s = 1 .. n /\ \A k \in 1 .. n : s[k] \in VersionNumbers
    BY LenProperties, ElementOfSeq
  <1>2. ASSUME NEW k \in 1 .. n
        PROVE  /\ Four(k) \in Seq(O) /\ Len(Four(k)) = 4
               /\ BigEndianDecode(0, Four(k)) = s[k]
               /\ \A j \in 1 .. 4 : Four(k)[j] \in O
    <2>1. s[k] \in VersionNumbers
      BY <1>1
    <2>2. Four(k) \in Seq(O) /\ Len(Four(k)) = 4 /\ BigEndianDecode(0, Four(k)) = s[k]
      BY <2>1, VersionDigits
    <2> HIDE DEF Four, O
    <2>3. \A j \in 1 .. 4 : Four(k)[j] \in O
      BY <2>2, ElementOfSeq
    <2> QED
      BY <2>2, <2>3
  <1>3. buf = [i \in 1 .. 4 * n |-> Four(((i - 1) \div 4) + 1)[((i - 1) % 4) + 1]]
    BY DEF VersionBytes
  <1> HIDE DEF buf, Four, O
  <1>4. buf \in Seq(O) /\ Len(buf) = 4 * n
    <2>1. ASSUME NEW i \in 1 .. 4 * n
          PROVE  Four(((i - 1) \div 4) + 1)[((i - 1) % 4) + 1] \in O
      <3>1. ((i - 1) \div 4) + 1 \in 1 .. n /\ ((i - 1) % 4) + 1 \in 1 .. 4
        BY <1>1
      <3> QED
        BY <1>2, <3>1
    <2>2. 4 * n \in Nat
      BY <1>1
    <2> HIDE DEF n
    <2> QED
      BY <1>3, <2>1, <2>2
  <1>5. ASSUME NEW k \in 1 .. n
        PROVE  SubSeq(buf, 4 * k - 3, 4 * k) = Four(k)
    <2> DEFINE used == 4 * k - 4
    <2>1. used \in Nat /\ used + 1 = 4 * k - 3 /\ used + 4 = 4 * k /\ used + 4 <= 4 * n
      BY <1>1
    <2>2. ASSUME NEW j \in 1 .. 4 PROVE buf[used + j] = Four(k)[j]
      <3> DEFINE i == used + j
      <3>1. i \in 1 .. 4 * n /\ ((i - 1) \div 4) + 1 = k /\ ((i - 1) % 4) + 1 = j
        BY <1>1
      <3> HIDE DEF i, n, used
      <3>2. buf[i] = Four(((i - 1) \div 4) + 1)[((i - 1) % 4) + 1]
        BY <1>3, <3>1
      <3> QED
        BY <3>1, <3>2 DEF i
    <2>3. Stands(buf, used, Four(k))
      <3> HIDE DEF used
      <3> QED
        BY <1>2, <1>4, <2>1, <2>2 DEF Stands
    <2> HIDE DEF used
    <2>4. SubSeq(buf, used + 1, used + Len(Four(k))) = Four(k)
      BY <1>2, <2>1, <2>3, StandsTaken
    <2> QED
      BY <1>2, <2>1, <2>4
  <1>6. Len(buf) \div 4 = n
    <2> HIDE DEF n
    <2> QED
      BY <1>1, <1>4
  <1>7. VersionsIn(buf) = {BigEndianDecode(0, SubSeq(buf, 4 * k - 3, 4 * k)) : k \in 1 .. n}
    BY <1>6 DEF VersionsIn
  <1>8. \A k \in 1 .. n : BigEndianDecode(0, SubSeq(buf, 4 * k - 3, 4 * k)) = s[k]
    BY <1>2, <1>5
  <1>9. VersionsIn(buf) = {s[k] : k \in 1 .. n}
    BY <1>7, <1>8
  <1>10. ToSet(s) = {s[k] : k \in 1 .. n}
    BY <1>1 DEF ToSet
  <1>11. buf \in Octets
    BY <1>4 DEF Octets, O
  <1> QED
    BY <1>9, <1>10, <1>11 DEF buf

(* What a section is.                                                      *)
SectionType(s) == s \in Seq(VersionNumbers) /\ Cardinality({i \in DOMAIN s : s[i] = 0}) = 1

(* Without the mark a section has the versions that are not 0.             *)
LEMMA MarkRemoved ==
  ASSUME SectionType(section)
  PROVE  /\ RemoveAt(section, Mark) \in Seq(VersionNumbers)
         /\ ToSet(RemoveAt(section, Mark)) = ToSet(section) \ {0}
  <1> DEFINE n == Len(section)
             Z == {i \in 1 .. n : section[i] = 0}
             r == RemoveAt(section, Mark)
  <1>1. /\ section \in Seq(VersionNumbers) /\ n \in Nat /\ DOMAIN section = 1 .. n
        /\ Cardinality(Z) = 1
    BY LenProperties DEF SectionType
  <1>2. PICK m : Z = {m}
    <2>1. IsFiniteSet(1 .. n) /\ Z \subseteq 1 .. n
      BY <1>1, FS_Interval
    <2>2. IsFiniteSet(Z)
      BY <2>1, FS_Subset
    <2> QED
      BY <1>1, <2>2, FS_Singleton
  <1>3. m \in 1 .. n /\ section[m] = 0 /\ \A i \in 1 .. n : section[i] = 0 => i = m
    BY <1>2
  <1>4. Mark = m
    <2> HIDE DEF n
    <2>1. Mark = CHOOSE i \in 1 .. n : section[i] = 0
      BY <1>1 DEF Mark
    <2> QED
      BY <1>3, <2>1
  <1>5. /\ r \in Seq(VersionNumbers) /\ Len(r) = n - 1
        /\ \A j \in 1 .. n - 1 : r[j] = IF j < m THEN section[j] ELSE section[j + 1]
    <2>1. section \in Seq(VersionNumbers) /\ m \in 1 .. Len(section)
      BY <1>1, <1>3
    <2>2. /\ RemoveAt(section, m) \in Seq(VersionNumbers)
          /\ Len(RemoveAt(section, m)) = Len(section) - 1
          /\ \A j \in 1 .. Len(section) - 1 :
               RemoveAt(section, m)[j] = IF j < m THEN section[j] ELSE section[j + 1]
      <3> HIDE <1>1, <1>3
      <3> QED
        BY <2>1, RemoveAtElements
    <2> QED
      BY <1>4, <2>2
  <1> HIDE DEF r
  <1>6. DOMAIN r = 1 .. n - 1
    BY <1>5, LenProperties
  <1> HIDE DEF n
  <1>7. ASSUME NEW j \in 1 .. n - 1 PROVE r[j] \in ToSet(section) \ {0}
    <2> DEFINE i == IF j < m THEN j ELSE j + 1
    <2>1. i \in 1 .. n /\ i # m /\ r[j] = section[i]
      BY <1>1, <1>3, <1>5
    <2> HIDE DEF i
    <2> QED
      BY <1>1, <1>3, <2>1 DEF ToSet
  <1>8. ASSUME NEW i \in 1 .. n, section[i] # 0 PROVE section[i] \in ToSet(r)
    <2> DEFINE j == IF i < m THEN i ELSE i - 1
    <2>1. i # m
      BY <1>3, <1>8
    <2>2. j \in 1 .. n - 1 /\ r[j] = section[i]
      BY <1>1, <1>3, <1>5, <2>1
    <2> HIDE DEF j
    <2> QED
      BY <1>6, <2>2 DEF ToSet
  <1>9. ToSet(r) = ToSet(section) \ {0}
    BY <1>1, <1>6, <1>7, <1>8 DEF ToSet
  <1> QED
    BY <1>5, <1>9 DEF r

LEMMA VersionCount ==
  ASSUME SectionType(section)
  PROVE  Cardinality({i \in DOMAIN section : section[i] # 0}) \in Nat
  <1> DEFINE S == {i \in DOMAIN section : section[i] # 0}
  <1>1. DOMAIN section = 1 .. Len(section) /\ Len(section) \in Nat
    BY LenProperties DEF SectionType
  <1>2. IsFiniteSet(1 .. Len(section)) /\ S \subseteq 1 .. Len(section)
    BY <1>1, FS_Interval
  <1>3. IsFiniteSet(S)
    BY <1>2, FS_Subset
  <1> QED
    BY <1>3, FS_CardinalityType

-----------------------------------------------------------------------------
(* Packets.                                                                *)

LongPacket(p) ==
  /\ LongSendable(p.hdr) /\ p.payload \in Octets
  /\ LongSize(p.hdr) + Len(p.payload) < Word

ShortPacket(p) == p.hdr \in ShortHeaders /\ p.payload \in Octets

AnswerPacket(p) ==
  p.hdr \in VersionHeaders /\ p.hdr.version = 0 /\ p.payload \in Octets

LEMMA VarintSizeType ==
  ASSUME NEW v \in Nat
  PROVE  VarintSize(v) \in Nat
  <1>1. CASE TooLarge(v)
    BY <1>1, TooLargeSize, WordType
  <1>2. CASE ~ TooLarge(v)
    <2>1. VarintSize(v) \in Lengths
      BY <1>2, ShortestType
    <2> QED
      BY <2>1 DEF Lengths
  <1> QED
    BY <1>1, <1>2

LEMMA LongSizeType ==
  ASSUME NEW h \in LongHeaders
  PROVE  LongSize(h) \in Nat
  <1>1. /\ h.len \in Nat /\ h.pnum \in PacketNumbers /\ h.token \in Seq(0 .. Byte - 1)
        /\ h.dst \in ConnIds /\ h.src \in ConnIds /\ h.ori \in ConnIds
    BY DEF LongHeaders, Octets
  <1>2. Len(h.token) \in Nat
    BY <1>1, LenProperties
  <1>3. Len(h.dst) \in Nat /\ Len(h.src) \in Nat /\ Len(h.ori) \in Nat
    BY <1>1, IdType
  <1>4. VarintSize(h.len) \in Nat /\ VarintSize(Len(h.token)) \in Nat
    BY <1>1, <1>2, VarintSizeType
  <1>5. PnumLength(h.pnum) \in Nat
    BY <1>1, PnumLengthType
  <1> DEFINE a == Len(h.dst)
             b == Len(h.src)
             c == IF h.type = "INITIAL" THEN Len(h.token) + VarintSize(Len(h.token)) ELSE 0
             d == IF h.type = "RETRY" THEN Len(h.ori)
                  ELSE VarintSize(h.len) + PnumLength(h.pnum)
  <1>6. LongSize(h) = 6 + a + b + c + d
    BY DEF LongSize
  <1>7. c \in Nat
    <2> DEFINE k == Len(h.token)
               l == VarintSize(k)
    <2>1. k \in Nat /\ l \in Nat
      BY <1>2, <1>4
    <2> HIDE DEF k, l
    <2>2. k + l \in Nat
      BY <2>1
    <2> QED
      BY <2>2 DEF k, l
  <1>8. d \in Nat
    <2> DEFINE k == VarintSize(h.len)
               l == PnumLength(h.pnum)
    <2>1. k \in Nat /\ l \in Nat
      BY <1>4, <1>5
    <2> HIDE DEF k, l
    <2>2. k + l \in Nat
      BY <2>1
    <2> QED
      BY <1>3, <2>2 DEF k, l
  <1>9. a \in Nat /\ b \in Nat
    BY <1>3
  <1> HIDE DEF a, b, c, d
  <1> QED
    BY <1>6, <1>7, <1>8, <1>9

LEMMA LongPacketsType ==
  ASSUME NEW p \in LongPackets
  PROVE  LongPacket(p) /\ p.hdr.kind = "long"
  <1>1. /\ p.hdr \in LongHeaders /\ p.payload \in Octets
        /\ p.hdr.type = "RETRY" => p.hdr.ori # <<>>
        /\ HeaderSize(p.hdr) + Len(p.payload) < Word
    BY LongAssumption
  <1>2. p.hdr.kind = "long"
    BY <1>1 DEF LongHeaders
  <1>3. HeaderSize(p.hdr) = LongSize(p.hdr)
    BY <1>2 DEF HeaderSize
  <1>4. LongSize(p.hdr) \in Nat /\ Len(p.payload) \in Nat /\ Word \in Nat
    BY <1>1, LongSizeType, LenProperties, WordType DEF Octets
  <1>5. LongSize(p.hdr) < Word
    BY <1>1, <1>3, <1>4
  <1> QED
    BY <1>1, <1>2, <1>3, <1>5 DEF LongPacket, LongSendable

(* Eight bytes hold more than the numbers up to 100.                       *)
LEMMA WordBound == Word > 100 /\ ~ TooLarge(0) /\ ~ TooLarge(1)
  <1> DEFINE P(k) == Power[k]
  <1>1. Byte \in Nat /\ Byte >= 4 /\ Low \in Nat /\ Low >= 1
    BY LowAssumption DEF Byte
  <1>2. P(0) = 1 /\ \A k \in 1 .. 8 : P(k) = Byte * P(k - 1)
    BY PowerSteps
  <1>3. \A k \in 0 .. 8 : P(k) \in Nat
    BY PowerType
  <1> HIDE DEF P
  <1>4. ASSUME NEW k \in 1 .. 8 PROVE P(k) >= 4 * P(k - 1)
    <2> DEFINE a == P(k - 1)
    <2>1. a \in Nat /\ P(k) = Byte * a
      BY <1>2, <1>3
    <2> HIDE DEF a
    <2>2. 4 * a <= Byte * a
      BY <1>1, <2>1, ProductGrows
    <2> QED
      BY <2>1, <2>2 DEF a
  <1>5. P(1) >= 4 * P(0) /\ P(2) >= 4 * P(1) /\ P(3) >= 4 * P(2) /\ P(4) >= 4 * P(3)
    <2>1. 1 \in 1 .. 8 /\ 2 \in 1 .. 8 /\ 3 \in 1 .. 8 /\ 4 \in 1 .. 8
      OBVIOUS
    <2>2. 1 - 1 = 0 /\ 2 - 1 = 1 /\ 3 - 1 = 2 /\ 4 - 1 = 3
      OBVIOUS
    <2> QED
      BY <1>4, <2>1, <2>2
  <1>6. P(0) \in Nat /\ P(1) \in Nat /\ P(2) \in Nat /\ P(3) \in Nat /\ P(4) \in Nat
    BY <1>3
  <1>7. P(4) >= 256
    BY <1>2, <1>5, <1>6
  <1>8. P(4) <= P(7) /\ P(4) <= P(8) /\ P(7) \in Nat /\ P(8) \in Nat
    BY <1>3, PowerGrows DEF P
  <1>9. Low * P(7) >= 1 * P(7)
    BY <1>1, <1>8, ProductGrows
  <1>10. Word > 100
    BY <1>7, <1>8, <1>6 DEF Word, P
  <1>11. Low * P(7) \in Nat /\ Low * P(7) > 100
    BY <1>1, <1>6, <1>7, <1>8, <1>9, ProductNatural
  <1>12. Limit(8) = Low * P(7)
    <2>1. 8 - 1 = 7
      OBVIOUS
    <2> QED
      BY <2>1 DEF Limit, P
  <1> QED
    BY <1>10, <1>11, <1>12 DEF TooLarge

LEMMA InitialPacket ==
  ASSUME NEW v \in VersionNumbers, NEW ids, ids.client \in ConnIds, ids.server \in ConnIds
  PROVE  LongPacket(Initial(v, ids)) /\ Initial(v, ids).hdr.kind = "long"
  <1> DEFINE p == Initial(v, ids)
             h == p.hdr
             dst == ids.server
             src == ids.client
  <1>1. h = [kind |-> "long", type |-> "INITIAL", version |-> v, dst |-> dst,
             src |-> src, len |-> 1, pnum |-> 0, token |-> <<>>, ori |-> <<>>]
        /\ p.payload = <<1>>
    BY DEF Initial
  <1>2. /\ h.kind = "long" /\ h.type = "INITIAL" /\ h.version = v /\ h.dst = dst
        /\ h.src = src /\ h.len = 1 /\ h.pnum = 0 /\ h.token = <<>> /\ h.ori = <<>>
    BY <1>1
  <1>3. 0 \in PacketNumbers
    BY PowerType DEF PacketNumbers
  <1>4. <<>> \in Octets /\ Len(<<>>) = 0 /\ <<>> \in ConnIds
    BY DEF Octets, ConnIds, IdSizes
  <1>5. h \in LongHeaders
    <2> HIDE DEF dst, src
    <2>1. dst \in ConnIds /\ src \in ConnIds
      BY DEF dst, src
    <2> QED
      BY <1>1, <1>3, <1>4, <2>1 DEF LongHeaders, LongTypes
  <1>6. p.payload \in Octets /\ Len(p.payload) = 1
    <2>1. 1 \in 0 .. Byte - 1
      BY LowAssumption DEF Byte
    <2> QED
      BY <1>1, <2>1 DEF Octets
  <1>7. VarintSize(0) \in 1 .. 8 /\ VarintSize(1) \in 1 .. 8
    BY WordBound, ShortestType DEF Lengths
  <1>8. PnumLength(0) \in 1 .. 4
    BY <1>3, PnumLengthType
  <1>9. Len(dst) \in Nat /\ Len(dst) <= 18 /\ Len(src) \in Nat /\ Len(src) <= 18
    BY IdType
  <1> HIDE DEF p, h, dst, src
  <1>10. LongSize(h) = 6 + Len(dst) + Len(src) + (0 + VarintSize(0))
                       + (VarintSize(1) + PnumLength(0))
    BY <1>2, <1>4 DEF LongSize
  <1>11. LongSize(h) \in Nat /\ LongSize(h) <= 62
    <2> DEFINE a == Len(dst)
               b == Len(src)
               c == VarintSize(0)
               d == VarintSize(1)
               e == PnumLength(0)
    <2>1. /\ a \in Nat /\ a <= 18 /\ b \in Nat /\ b <= 18
          /\ c \in 1 .. 8 /\ d \in 1 .. 8 /\ e \in 1 .. 4
          /\ LongSize(h) = 6 + a + b + (0 + c) + (d + e)
      BY <1>7, <1>8, <1>9, <1>10
    <2> HIDE DEF a, b, c, d, e
    <2> QED
      BY <2>1
  <1>12. Word \in Nat /\ Word > 100
    BY WordType, WordBound
  <1>13. LongSize(h) + Len(p.payload) < Word /\ LongSize(h) < Word
    BY <1>6, <1>11, <1>12
  <1>14. LongSendable(h)
    BY <1>2, <1>5, <1>13 DEF LongSendable
  <1> QED
    BY <1>2, <1>6, <1>13, <1>14 DEF LongPacket, h, p

(* What the receiver finds behind the header.                              *)
Rest(p, used) == SubSeq(Sent(p), used + 1, Len(Sent(p)))

LEMMA LongReceived ==
  ASSUME NEW p, LongPacket(p), structs.long \in LongHeaders
  PROVE  /\ \E r \in LongHeaders :
              Received(p) = Sofar(r, LongSize(p.hdr)) /\ Agree(r, p.hdr, Carried(p.hdr))
         /\ Rest(p, LongSize(p.hdr)) = p.payload
         /\ p.hdr.kind = "long"
         /\ Len(HeaderEncode(p.hdr)) = HeaderSize(p.hdr) /\ HeaderSize(p.hdr) = LongSize(p.hdr)
  <1> DEFINE h == p.hdr
             t == p.payload
             s == LongEncode(h)
             S == Cells(h)
             buf == s \o t
  <1>1. h.kind = "long" /\ t \in Seq(0 .. Byte - 1) /\ LongSendable(h)
        /\ LongSize(h) + Len(t) < Word
    BY DEF LongPacket, LongSendable, LongHeaders, Octets
  <1>2. s \in Seq(S) /\ Len(s) = LongSize(h)
    BY <1>1, LongEncodeType
  <1>3. HeaderEncode(h) = s /\ HeaderSize(h) = LongSize(h) /\ Sent(p) = buf
    BY <1>1 DEF HeaderEncode, HeaderSize, Sent
  <1>4. 0 .. Byte - 1 \subseteq S
    BY DEF Cells
  <1> HIDE DEF s, S, h, t
  <1>5. /\ Len(buf) = Len(s) + Len(t) /\ Len(s) \in Nat /\ Len(t) \in Nat
        /\ DOMAIN buf = 1 .. Len(buf) /\ Stands(buf, 0, s)
        /\ SubSeq(buf, Len(s) + 1, Len(buf)) = t
    <2> DEFINE O == 0 .. Byte - 1
    <2>1. s \in Seq(S) /\ t \in Seq(O) /\ O \subseteq S /\ buf = s \o t
      BY <1>1, <1>2, <1>4
    <2> HIDE DEF O, buf
    <2>2. Framed(buf, s, t)
      BY <2>1, Behind
    <2> QED
      BY <2>2 DEF Framed
  <1> HIDE DEF buf
  <1>6. Len(buf) \in Nat /\ Len(buf) < Word
    <2> DEFINE a == Len(s)
               b == Len(t)
    <2>1. a \in Nat /\ b \in Nat /\ Len(buf) = a + b /\ a + b < Word
      BY <1>1, <1>2, <1>5
    <2> HIDE DEF a, b
    <2> QED
      BY <2>1
  <1>7. HoldsLong(buf, h)
    BY <1>5, <1>6 DEF HoldsLong, s
  <1>8. \E r \in LongHeaders :
          /\ HeaderDecode(structs.long, buf, Len(h.dst)) = Sofar(r, LongSize(h))
          /\ Agree(r, h, Carried(h))
    BY <1>1, <1>7, LongRead
  <1>9. Received(p) = HeaderDecode(structs.long, buf, Len(h.dst))
    BY <1>1, <1>3 DEF Received, h
  <1>10. Rest(p, LongSize(h)) = t
    BY <1>2, <1>3, <1>5 DEF Rest
  <1> QED
    BY <1>1, <1>2, <1>3, <1>8, <1>9, <1>10 DEF h, t

LEMMA ShortReceived ==
  ASSUME NEW p, ShortPacket(p), structs.short \in ShortHeaders
  PROVE  /\ Received(p)
              = Sofar([kind |-> "short", spin |-> structs.short.spin \/ p.hdr.spin,
                       key_phase |-> structs.short.key_phase \/ p.hdr.key_phase,
                       dst |-> p.hdr.dst,
                       pnum |-> Overwritten(structs.short.pnum, p.hdr.pnum,
                                            PnumLength(p.hdr.pnum))],
                      ShortSize(p.hdr))
         /\ Rest(p, ShortSize(p.hdr)) = p.payload
         /\ p.hdr.kind = "short"
         /\ Len(HeaderEncode(p.hdr)) = HeaderSize(p.hdr) /\ HeaderSize(p.hdr) = ShortSize(p.hdr)
  <1> DEFINE h == p.hdr
             t == p.payload
             s == ShortEncode(h)
             S == ShortCells(h)
             g == structs.short
             buf == s \o t
             new == [kind |-> "short", spin |-> g.spin \/ h.spin,
                     key_phase |-> g.key_phase \/ h.key_phase, dst |-> h.dst,
                     pnum |-> Overwritten(g.pnum, h.pnum, PnumLength(h.pnum))]
  <1>1. h.kind = "short" /\ t \in Seq(0 .. Byte - 1) /\ h \in ShortHeaders
    BY DEF ShortPacket, ShortHeaders, Octets
  <1>2. s \in Seq(S) /\ Len(s) = ShortSize(h)
    BY <1>1, ShortEncodeType
  <1>3. HeaderEncode(h) = s /\ HeaderSize(h) = ShortSize(h) /\ Sent(p) = buf
    BY <1>1 DEF HeaderEncode, HeaderSize, Sent
  <1>4. 0 .. Byte - 1 \subseteq S
    BY DEF ShortCells
  <1>5. g \in ShortHeaders
    OBVIOUS
  <1> HIDE DEF s, S, h, t, g
  <1>6. /\ Len(buf) = Len(s) + Len(t) /\ Len(s) \in Nat /\ Len(t) \in Nat
        /\ DOMAIN buf = 1 .. Len(buf) /\ Stands(buf, 0, s)
        /\ SubSeq(buf, Len(s) + 1, Len(buf)) = t
    <2> DEFINE O == 0 .. Byte - 1
    <2>1. s \in Seq(S) /\ t \in Seq(O) /\ O \subseteq S /\ buf = s \o t
      BY <1>1, <1>2, <1>4
    <2> HIDE DEF O, buf
    <2>2. Framed(buf, s, t)
      BY <2>1, Behind
    <2> QED
      BY <2>2 DEF Framed
  <1> HIDE DEF buf, new
  <1>7. Len(buf) \in Nat
    BY <1>6
  <1>8. HoldsShort(buf, h)
    BY <1>6, <1>7 DEF HoldsShort, s
  <1>9. HeaderDecode(g, buf, Len(h.dst)) = Sofar(new, ShortSize(h))
    BY <1>1, <1>5, <1>8, ShortRead DEF new
  <1>10. Received(p) = HeaderDecode(g, buf, Len(h.dst))
    BY <1>1, <1>3 DEF Received, h, g
  <1>11. Rest(p, ShortSize(h)) = t
    BY <1>2, <1>3, <1>6 DEF Rest
  <1> QED
    BY <1>1, <1>2, <1>3, <1>9, <1>10, <1>11 DEF h, t, g, new

LEMMA AnswerReceived ==
  ASSUME NEW p, AnswerPacket(p), structs.version \in VersionHeaders
  PROVE  /\ \E r \in VersionHeaders :
              IF VersionSize(p.hdr) = 6 /\ p.payload = <<>>
              THEN Received(p) = [hdr |-> r, used |-> 6, refused |-> TRUE]
              ELSE /\ Received(p) = Sofar(r, VersionSize(p.hdr))
                   /\ Agree(r, p.hdr, Carried(p.hdr))
         /\ Rest(p, VersionSize(p.hdr)) = p.payload
         /\ p.hdr.kind = "version"
         /\ Len(HeaderEncode(p.hdr)) = HeaderSize(p.hdr)
         /\ HeaderSize(p.hdr) = VersionSize(p.hdr)
  <1> DEFINE h == p.hdr
             t == p.payload
             s == VersionEncode(h)
             S == VersionCells(h)
             g == structs.version
             buf == s \o t
             n == VersionSize(h)
  <1>1. /\ h.kind = "version" /\ t \in Seq(0 .. Byte - 1) /\ h \in VersionHeaders
        /\ h.version = 0
    BY DEF AnswerPacket, VersionHeaders, Octets
  <1>2. s \in Seq(S) /\ Len(s) = n
    BY <1>1, VersionEncodeType
  <1>3. HeaderEncode(h) = s /\ HeaderSize(h) = n /\ Sent(p) = buf
    BY <1>1 DEF HeaderEncode, HeaderSize, Sent
  <1>4. 0 .. Byte - 1 \subseteq S
    BY DEF VersionCells
  <1>5. g \in VersionHeaders
    OBVIOUS
  <1>6. n >= 6
    <2>1. h.dst \in ConnIds /\ h.src \in ConnIds
      BY <1>1 DEF VersionHeaders
    <2>2. Len(h.dst) \in Nat /\ Len(h.src) \in Nat
      BY <2>1, IdType
    <2> DEFINE d == Len(h.dst)
               e == Len(h.src)
    <2>3. d \in Nat /\ e \in Nat /\ n = 6 + d + e
      BY <2>2 DEF VersionSize
    <2> HIDE DEF d, e, n
    <2> QED
      BY <2>3
  <1> HIDE DEF s, S, h, t, g, n
  <1>7. /\ Len(buf) = Len(s) + Len(t) /\ Len(s) \in Nat /\ Len(t) \in Nat
        /\ DOMAIN buf = 1 .. Len(buf) /\ Stands(buf, 0, s)
        /\ SubSeq(buf, Len(s) + 1, Len(buf)) = t
    <2> DEFINE O == 0 .. Byte - 1
    <2>1. s \in Seq(S) /\ t \in Seq(O) /\ O \subseteq S /\ buf = s \o t
      BY <1>1, <1>2, <1>4
    <2> HIDE DEF O, buf
    <2>2. Framed(buf, s, t)
      BY <2>1, Behind
    <2> QED
      BY <2>2 DEF Framed
  <1> HIDE DEF buf
  <1>8. Len(buf) \in Nat /\ (Len(buf) = 6 <=> n = 6 /\ Len(t) = 0)
    BY <1>2, <1>6, <1>7
  <1>9. Len(t) = 0 <=> t = <<>>
    BY <1>1, EmptySeq
  <1>10. HoldsVersion(buf, h)
    BY <1>7, <1>8 DEF HoldsVersion, s
  <1>11. PICK r \in VersionHeaders :
           NegotiationRead(HeaderDecode(g, buf, Len(h.dst)), h, Len(buf), r)
    BY <1>1, <1>5, <1>10, VersionRead
  <1>12. Received(p) = HeaderDecode(g, buf, Len(h.dst))
    BY <1>1, <1>3 DEF Received, h, g
  <1>13. Rest(p, n) = t
    BY <1>2, <1>3, <1>7 DEF Rest
  <1>14. ASSUME Len(buf) # 6 PROVE Agree(r, h, Carried(h))
    BY <1>1, <1>11, <1>14 DEF Agree, Carried, NegotiationRead
  <1>15. IF n = 6 /\ t = <<>>
         THEN Received(p) = [hdr |-> r, used |-> 6, refused |-> TRUE]
         ELSE Received(p) = Sofar(r, n) /\ Agree(r, h, Carried(h))
    BY <1>8, <1>9, <1>11, <1>12, <1>14 DEF n, NegotiationRead
  <1> QED
    BY <1>1, <1>2, <1>3, <1>13, <1>15 DEF h, t, n

-----------------------------------------------------------------------------
(* The invariant.                                                          *)

RegistryType ==
  /\ role \in Roles
  /\ role = "version" => SectionType(section)
  /\ version_count \in Nat
  /\ started => versions = ToSet(section) \ {0}

StructsType ==
  /\ DOMAIN structs = {"long", "short", "version"}
  /\ structs.long \in LongHeaders
  /\ structs.short \in ShortHeaders
  /\ structs.version \in VersionHeaders

(* A packet that may be in flight.                                         *)
Sendable(p) ==
  \/ role \in {"long", "version"} /\ LongPacket(p)
  \/ role = "short" /\ ShortPacket(p)
  \/ role = "version" /\ started /\ AnswerPacket(p) /\ VersionsIn(p.payload) = versions

FlightType == \A p \in flight : Sendable(p)

OfferedType == offered # {} => role = "version" /\ started /\ offered = versions

(* The number in the struct is no longer than the longest one read.        *)
NumberBound == longest \in 0 .. 4 /\ structs.short.pnum < Power[longest]

(* What was read and what is in the structs.                               *)
ReadInv == StructsType /\ NumberBound /\ PayloadFound /\ HeadersRead

(* Inductive: what a decoder makes of a packet depends on what the struct  *)
(* held before and on what the sender could put into the packet; and the   *)
(* number that is left in a struct on the longest one it ever held.        *)
PathInv ==
  /\ StoreInv
  /\ RegistryType
  /\ FlightType
  /\ OfferedType
  /\ ReadInv

LEMMA PathInitInv == PathInit => PathInv
  <1> SUFFICES ASSUME PathInit PROVE PathInv
    OBVIOUS
  <1>1. StoreInv
    BY InitStore DEF PathInit
  <1>2. RegistryType
    BY SectionsAssumption DEF PathInit, RegistryInit, RegistryType, SectionType
  <1>3. FlightType /\ OfferedType
    BY DEF PathInit, FlightType, OfferedType
  <1>4. StructsType
    BY StructsAssumption DEF PathInit, StructsType
  <1>5. NumberBound
    BY PowerSteps, StructsAssumption DEF PathInit, NumberBound
  <1>6. got.result = "nothing"
    BY DEF PathInit, Nothing
  <1>7. PayloadFound
    BY <1>6 DEF PayloadFound
  <1>8. HeadersRead
    <2>1. FieldsAsSent /\ NumberRead
      BY <1>6 DEF FieldsAsSent, NumberRead, HasRead
    <2>2. FlagsGather
      <3>1. flags = {} /\ structs.short["spin"] = FALSE /\ structs.short["key_phase"] = FALSE
        BY <1>4, StructsAssumption DEF PathInit, StructsType, ShortHeaders
      <3> QED
        BY <3>1 DEF FlagsGather
    <2> QED
      BY <2>1, <2>2 DEF HeadersRead
  <1> QED
    BY <1>1, <1>2, <1>3, <1>4, <1>5, <1>7, <1>8 DEF PathInv, ReadInv

(* A step at the sender, or a loss, reads nothing.                         *)
LEMMA NothingRead ==
  ASSUME PathInv, UNCHANGED <<role, structs, got, longest, flags, offered, registryVars>>
  PROVE  RegistryType' /\ OfferedType' /\ ReadInv'
  <1>1. /\ UNCHANGED <<role, structs, got, longest, flags, offered>>
        /\ UNCHANGED <<section, started, versions, version_count>>
    BY DEF registryVars
  <1>2. RegistryType'
    BY <1>1 DEF PathInv, RegistryType, SectionType
  <1>3. OfferedType'
    BY <1>1 DEF PathInv, OfferedType
  <1>4. StructsType' /\ NumberBound' /\ PayloadFound'
    BY <1>1 DEF PathInv, ReadInv, StructsType, NumberBound, PayloadFound
  <1>5. HeadersRead'
    BY <1>1 DEF PathInv, ReadInv, HeadersRead, FieldsAsSent, NumberRead, FlagsGather, HasRead
  <1> QED
    BY <1>2, <1>3, <1>4, <1>5 DEF ReadInv

(* Packets in flight may be lost, and one may be added.                    *)
LEMMA FlightKept ==
  ASSUME FlightType, role' = role, started => started' /\ versions' = versions
  PROVE  /\ flight' \subseteq flight => FlightType'
         /\ \A p : flight' \subseteq flight \cup {p} /\ Sendable(p)' => FlightType'
  <1>1. ASSUME NEW p \in flight PROVE Sendable(p)'
    <2>1. Sendable(p)
      BY DEF FlightType
    <2> QED
      BY <2>1 DEF Sendable
  <1> QED
    BY <1>1 DEF FlightType

LEMMA ReserveType == \A kind \in {"long", "short", "version"} : Reserve(kind) \in Nat
  BY DEF Reserve, LONG_HEADER_MAX_SIZE, SHORT_HEADER_MAX_SIZE,
         VERSION_NEGOTIATION_HEADER_MAX_SIZE

LEMMA PutKeeps ==
  ASSUME StoreInv, NEW p, NEW others, Put(p, others), p.payload \in Octets,
         p.hdr.kind \in {"long", "short", "version"}
  PROVE  StoreInv' /\ flight' \subseteq others \cup {p}
  <1>1. PICK base \in Bases : PackMalloc(base, Reserve(p.hdr.kind), Len(p.payload))
    BY DEF Put
  <1>2. Reserve(p.hdr.kind) \in Nat /\ Len(p.payload) \in Nat
    BY ReserveType, LenProperties DEF Octets
  <1>3. StoreInv'
    <2> DEFINE room == Reserve(p.hdr.kind)
               size == Len(p.payload)
    <2>1. room \in Nat /\ size \in Nat /\ base \in Nat /\ PackMalloc(base, room, size)
      BY <1>1, <1>2, BasesAssumption
    <2> HIDE DEF room, size
    <2> QED
      BY <2>1, MallocKeeps
  <1> QED
    BY <1>3 DEF Put

LEMMA SendLongStep ==
  ASSUME PathInv, NEW p \in LongPackets, SendLong(p)
  PROVE  PathInv'
  <1>1. LongPacket(p) /\ p.hdr.kind = "long" /\ p.payload \in Octets
    BY LongPacketsType DEF LongPacket
  <1>2. StoreInv' /\ flight' \subseteq flight \cup {p}
    BY <1>1, PutKeeps DEF PathInv, SendLong
  <1>3. RegistryType' /\ OfferedType' /\ ReadInv'
    BY NothingRead DEF SendLong
  <1>4. role = "long" /\ role' = role /\ started' = started /\ versions' = versions
    BY DEF SendLong, registryVars
  <1>5. Sendable(p)'
    BY <1>1, <1>4 DEF Sendable
  <1>6. FlightType'
    <2>1. flight' \subseteq flight \cup {p}
      BY <1>2
    <2> QED
      BY <1>4, <1>5, <2>1, FlightKept DEF PathInv
  <1> QED
    BY <1>2, <1>3, <1>6 DEF PathInv

LEMMA SendShortStep ==
  ASSUME PathInv, NEW p \in ShortPackets, SendShort(p)
  PROVE  PathInv'
  <1>1. ShortPacket(p) /\ p.hdr.kind = "short" /\ p.payload \in Octets
    BY ShortAssumption DEF ShortPacket, ShortHeaders
  <1>2. StoreInv' /\ flight' \subseteq flight \cup {p}
    BY <1>1, PutKeeps DEF PathInv, SendShort
  <1>3. RegistryType' /\ OfferedType' /\ ReadInv'
    BY NothingRead DEF SendShort
  <1>4. role = "short" /\ role' = role /\ started' = started /\ versions' = versions
    BY DEF SendShort, registryVars
  <1>5. Sendable(p)'
    BY <1>1, <1>4 DEF Sendable
  <1>6. FlightType'
    <2>1. flight' \subseteq flight \cup {p}
      BY <1>2
    <2> QED
      BY <1>4, <1>5, <2>1, FlightKept DEF PathInv
  <1> QED
    BY <1>2, <1>3, <1>6 DEF PathInv

LEMMA AskForStep ==
  ASSUME PathInv, NEW v \in ClientVersions, NEW ids \in Ids, AskFor(v, ids)
  PROVE  PathInv'
  <1> DEFINE p == Initial(v, ids)
  <1>1. LongPacket(p) /\ p.hdr.kind = "long"
    <2>1. v \in VersionNumbers /\ ids.client \in ConnIds /\ ids.server \in ConnIds
      BY ClientsAssumption
    <2> QED
      BY <2>1, InitialPacket
  <1>2. Put(p, flight)
    BY DEF AskFor
  <1> HIDE DEF p
  <1>3. StoreInv' /\ flight' \subseteq flight \cup {p}
    BY <1>1, <1>2, PutKeeps DEF PathInv, LongPacket
  <1>4. RegistryType' /\ OfferedType' /\ ReadInv'
    BY NothingRead DEF AskFor
  <1>5. role = "version" /\ role' = role /\ started' = started /\ versions' = versions
    BY DEF AskFor, registryVars
  <1>6. Sendable(p)'
    BY <1>1, <1>5 DEF Sendable
  <1>7. FlightType'
    <2>1. flight' \subseteq flight \cup {p}
      BY <1>3
    <2> QED
      BY <1>5, <1>6, <2>1, FlightKept DEF PathInv
  <1> QED
    BY <1>3, <1>4, <1>7 DEF PathInv

LEMMA ReleaseStep ==
  ASSUME PathInv, NEW ptr \in Pointers, Release(ptr)
  PROVE  PathInv'
  <1>1. StoreInv'
    <2>1. PICK base \in Bases, kind \in Kinds : ptr = base + Reserve(kind)
      BY DEF Pointers
    <2>2. kind \in {"long", "short", "version"}
      BY RolesAssumption DEF PathInv, RegistryType, Kinds
    <2>3. ptr \in Nat
      BY <2>1, <2>2, ReserveType, BasesAssumption
    <2> QED
      BY <2>3, FreeKeeps DEF Release, PathInv
  <1>2. RegistryType' /\ OfferedType' /\ ReadInv'
    BY NothingRead DEF Release
  <1>3. flight' \subseteq flight /\ role' = role /\ started' = started /\ versions' = versions
    BY DEF Release, registryVars
  <1>4. FlightType'
    BY <1>3, FlightKept DEF PathInv
  <1> QED
    BY <1>1, <1>2, <1>4 DEF PathInv

LEMMA LoseStep ==
  ASSUME PathInv, NEW p \in flight, Lose(p)
  PROVE  PathInv'
  <1>1. StoreInv'
    BY DEF Lose, PathInv, storeVars, StoreInv, StoreTypes, InBlock, StoreMatchesHeap
  <1>2. RegistryType' /\ OfferedType' /\ ReadInv'
    BY NothingRead DEF Lose
  <1>3. flight' \subseteq flight /\ role' = role /\ started' = started /\ versions' = versions
    BY DEF Lose, registryVars
  <1>4. FlightType'
    BY <1>3, FlightKept DEF PathInv
  <1> QED
    BY <1>1, <1>2, <1>4 DEF PathInv

(* The receiver of a packet that is read.                                  *)
LEMMA ReadStruct ==
  ASSUME StructsType, NEW p, NEW r, NEW used, Received(p) = Sofar(r, used),
         Rest(p, used) = p.payload, Receive(p, Received(p)),
         NEW kind \in {"long", "short", "version"}, p.hdr.kind = kind
  PROVE  /\ got'.result = "read" /\ got'.packet = p /\ PayloadFound'
         /\ structs' = [structs EXCEPT ![kind] = r] /\ structs'[kind] = r
         /\ Received(p).hdr = r /\ ~ Received(p).refused
         /\ got'.payload = p.payload
  <1> DEFINE d == Received(p)
             g == got'
  <1>1. d.hdr = r /\ d.used = used /\ d.refused = FALSE
    BY DEF Sofar
  <1>2. structs' = [structs EXCEPT ![kind] = d.hdr]
    BY DEF Receive
  <1>3. g = [result |-> IF d.refused THEN "refused" ELSE "read", packet |-> p,
             payload |-> Rest(p, d.used)]
    BY DEF Receive, Rest
  <1> HIDE DEF d, g
  <1>4. g.result = "read" /\ g.packet = p /\ g.payload = p.payload
    BY <1>1, <1>3
  <1>5. PayloadFound'
    BY <1>4 DEF PayloadFound, g
  <1> QED
    BY <1>1, <1>2, <1>4, <1>5 DEF g, d, StructsType

LEMMA LongHeard ==
  ASSUME PathInv, NEW p, LongPacket(p), Receive(p, Received(p)), UNCHANGED <<longest, flags>>
  PROVE  ReadInv' /\ ~ Received(p).refused /\ Received(p).hdr \in LongHeaders
  <1> DEFINE h == p.hdr
             size == LongSize(h)
  <1>1. StructsType /\ NumberBound /\ FlagsGather
    BY DEF PathInv, ReadInv, HeadersRead
  <1>2. structs.long \in LongHeaders
    BY <1>1 DEF StructsType
  <1>3. PICK r \in LongHeaders : Received(p) = Sofar(r, size) /\ Agree(r, h, Carried(h))
    BY <1>2, LongReceived
  <1>4. Rest(p, size) = p.payload /\ h.kind = "long"
    BY <1>2, LongReceived
  <1> HIDE DEF size
  <1>5. /\ got'.result = "read" /\ got'.packet = p /\ PayloadFound'
        /\ structs' = [structs EXCEPT !["long"] = r] /\ structs'["long"] = r
        /\ Received(p).hdr = r /\ ~ Received(p).refused
    BY <1>1, <1>3, <1>4, ReadStruct
  <1>6. /\ DOMAIN structs' = {"long", "short", "version"}
        /\ structs'.short = structs.short /\ structs'.version = structs.version
    BY <1>1, <1>5 DEF StructsType
  <1>7. StructsType'
    BY <1>1, <1>3, <1>5, <1>6 DEF StructsType
  <1>8. NumberBound'
    BY <1>1, <1>6 DEF NumberBound
  <1>9. FieldsAsSent'
    BY <1>3, <1>4, <1>5 DEF FieldsAsSent, Agree
  <1>10. NumberRead'
    BY <1>4, <1>5 DEF NumberRead, HasRead
  <1>11. FlagsGather'
    BY <1>1, <1>6 DEF FlagsGather
  <1> QED
    BY <1>3, <1>5, <1>7, <1>8, <1>9, <1>10, <1>11 DEF ReadInv, HeadersRead

LEMMA ShortHeard ==
  ASSUME PathInv, NEW p, ShortPacket(p), Receive(p, Received(p)),
         longest' = IF PnumLength(p.hdr.pnum) > longest THEN PnumLength(p.hdr.pnum) ELSE longest,
         flags' = flags \cup {f \in {"spin", "key_phase"} : p.hdr[f]}
  PROVE  ReadInv'
  <1> DEFINE h == p.hdr
             size == ShortSize(h)
             n == PnumLength(h.pnum)
             g == structs.short
             new == Overwritten(g.pnum, h.pnum, n)
             r == [kind |-> "short", spin |-> g.spin \/ h.spin,
                   key_phase |-> g.key_phase \/ h.key_phase, dst |-> h.dst, pnum |-> new]
  <1>1. StructsType /\ NumberBound /\ FlagsGather
    BY DEF PathInv, ReadInv, HeadersRead
  <1>2. g \in ShortHeaders /\ h \in ShortHeaders
    BY <1>1 DEF StructsType, ShortPacket
  <1>3. /\ Received(p) = Sofar(r, size) /\ Rest(p, size) = p.payload /\ h.kind = "short"
    BY <1>2, ShortReceived
  <1>4. /\ g.pnum \in Nat /\ h.pnum \in Nat /\ h.pnum < Power[n] /\ n \in 1 .. 4
        /\ g.spin \in BOOLEAN /\ g.key_phase \in BOOLEAN
        /\ h.spin \in BOOLEAN /\ h.key_phase \in BOOLEAN /\ h.dst \in ConnIds
    <2>1. g.pnum \in PacketNumbers /\ h.pnum \in PacketNumbers
      BY <1>2 DEF ShortHeaders
    <2>2. g.pnum \in Nat /\ h.pnum \in Nat /\ h.pnum < Power[n] /\ n \in 1 .. 4
      BY <2>1, PnumLengthType
    <2> QED
      BY <1>2, <2>2 DEF ShortHeaders
  <1> HIDE DEF size, n
  <1>5. longest \in 0 .. 4 /\ g.pnum < Power[longest]
    BY <1>1 DEF NumberBound
  <1>6. /\ new \in Nat /\ new % Power[n] = h.pnum
        /\ longest <= n => new = h.pnum
        /\ n <= longest => new < Power[longest]
    <2> DEFINE old == g.pnum
               num == h.pnum
    <2>1. /\ n \in 0 .. 8 /\ longest \in 0 .. 8 /\ old \in Nat /\ num \in Nat
          /\ old < Power[longest] /\ num < Power[n]
      BY <1>4, <1>5
    <2> HIDE DEF old, num
    <2>2. /\ Overwritten(old, num, n) \in Nat /\ Overwritten(old, num, n) % Power[n] = num
          /\ longest <= n => Overwritten(old, num, n) = num
          /\ n <= longest => Overwritten(old, num, n) < Power[longest]
      BY <2>1, OverwrittenBound
    <2> QED
      BY <2>2 DEF old, num
  <1> HIDE DEF new
  <1>7. longest' = IF n > longest THEN n ELSE longest
    BY DEF n
  <1>8. longest' \in 0 .. 4 /\ new < Power[longest'] /\ longest' >= n
    <2>1. CASE n > longest
      BY <1>4, <1>5, <1>6, <1>7, <2>1
    <2>2. CASE ~ (n > longest)
      BY <1>4, <1>5, <1>6, <1>7, <2>2
    <2> QED
      BY <2>1, <2>2
  <1>9. new \in PacketNumbers
    <2>1. longest' \in 0 .. 8 /\ 4 \in 0 .. 8 /\ longest' <= 4
      BY <1>8
    <2>2. Power[longest'] <= Power[4] /\ Power[longest'] \in Nat /\ Power[4] \in Nat
      BY <2>1, PowerGrows, PowerType
    <2> QED
      BY <1>6, <1>8, <2>2 DEF PacketNumbers
  <1>10. r \in ShortHeaders /\ r.pnum = new
         /\ r.spin = (g.spin \/ h.spin) /\ r.key_phase = (g.key_phase \/ h.key_phase)
    <2> DEFINE spin == g.spin \/ h.spin
               key == g.key_phase \/ h.key_phase
               id == h.dst
    <2>1. spin \in BOOLEAN /\ key \in BOOLEAN /\ id \in ConnIds
      BY <1>4
    <2>2. r = [kind |-> "short", spin |-> spin, key_phase |-> key, dst |-> id, pnum |-> new]
      OBVIOUS
    <2> HIDE DEF spin, key, id, r
    <2>3. r \in ShortHeaders /\ r.pnum = new /\ r.spin = spin /\ r.key_phase = key
      BY <1>9, <2>1, <2>2 DEF ShortHeaders
    <2> QED
      BY <2>3 DEF spin, key
  <1> HIDE DEF r
  <1>11. /\ got'.result = "read" /\ got'.packet = p /\ PayloadFound'
         /\ structs' = [structs EXCEPT !["short"] = r] /\ structs'["short"] = r
    BY <1>1, <1>3, ReadStruct
  <1>12. StructsType'
    BY <1>1, <1>10, <1>11 DEF StructsType
  <1>13. NumberBound'
    BY <1>8, <1>10, <1>11 DEF NumberBound
  <1>14. FieldsAsSent'
    BY <1>3, <1>11 DEF FieldsAsSent, HasRead
  <1>15. NumberRead'
    <2>1. Power[n] \in Nat \ {0} /\ h.pnum % Power[n] = h.pnum
      <3>1. Power[n] \in Nat \ {0}
        BY <1>4, PowerType
      <3> QED
        BY <1>4, <3>1
    <2>2. n = longest' => new = h.pnum
      <3>1. n = longest' => longest <= n
        BY <1>4, <1>5, <1>7
      <3> QED
        BY <1>6, <3>1
    <2> QED
      BY <1>6, <1>10, <1>11, <2>1, <2>2 DEF NumberRead, n
  <1>16. FlagsGather'
    <2>1. structs'.short["spin"] = (g.spin \/ h.spin)
          /\ structs'.short["key_phase"] = (g.key_phase \/ h.key_phase)
      BY <1>10, <1>11
    <2>2. flags = {f \in {"spin", "key_phase"} : g[f]}
      BY <1>1 DEF FlagsGather
    <2>3. /\ "spin" \in flags <=> g.spin
          /\ "key_phase" \in flags <=> g.key_phase
          /\ flags \subseteq {"spin", "key_phase"}
      BY <2>2
    <2>4. /\ "spin" \in flags' <=> g.spin \/ h.spin
          /\ "key_phase" \in flags' <=> g.key_phase \/ h.key_phase
          /\ flags' \subseteq {"spin", "key_phase"}
      BY <2>3
    <2> QED
      BY <2>1, <2>4 DEF FlagsGather
  <1> QED
    BY <1>11, <1>12, <1>13, <1>14, <1>15, <1>16 DEF ReadInv, HeadersRead

LEMMA AnswerHeard ==
  ASSUME PathInv, NEW p, AnswerPacket(p), Receive(p, Received(p)), UNCHANGED <<longest, flags>>
  PROVE  ReadInv' /\ (~ Received(p).refused => got'.payload = p.payload)
  <1> DEFINE h == p.hdr
             size == VersionSize(h)
             bare == size = 6 /\ p.payload = <<>>
             d == Received(p)
             g == got'
  <1>1. StructsType /\ NumberBound /\ FlagsGather
    BY DEF PathInv, ReadInv, HeadersRead
  <1>2. structs.version \in VersionHeaders
    BY <1>1 DEF StructsType
  <1>3. PICK r \in VersionHeaders :
          IF bare THEN d = [hdr |-> r, used |-> 6, refused |-> TRUE]
          ELSE d = Sofar(r, size) /\ Agree(r, h, Carried(h))
    BY <1>2, AnswerReceived
  <1>4. Rest(p, size) = p.payload /\ h.kind = "version" /\ HeaderSize(h) = size
    BY <1>2, AnswerReceived
  <1> HIDE DEF size
  <1>5. structs' = [structs EXCEPT !["version"] = r] /\ structs'["version"] = r
    <2>1. d.hdr = r
      BY <1>3 DEF Sofar
    <2> QED
      BY <1>1, <1>4, <2>1 DEF Receive, StructsType
  <1>6. /\ DOMAIN structs' = {"long", "short", "version"}
        /\ structs'.short = structs.short /\ structs'.long = structs.long
    BY <1>1, <1>5 DEF StructsType
  <1>7. StructsType'
    BY <1>1, <1>3, <1>5, <1>6 DEF StructsType
  <1>8. NumberBound' /\ FlagsGather'
    BY <1>1, <1>6 DEF NumberBound, FlagsGather
  <1>9. CASE bare
    <2>1. d.refused
      BY <1>3, <1>9
    <2>2. g = [result |-> IF d.refused THEN "refused" ELSE "read", packet |-> p,
               payload |-> Rest(p, d.used)]
      BY DEF Receive, Rest
    <2> HIDE DEF g, d
    <2>3. g.result = "refused" /\ g.packet = p
      BY <2>1, <2>2
    <2>4. PayloadFound'
      BY <1>4, <1>9, <2>3 DEF PayloadFound, g
    <2>5. FieldsAsSent' /\ NumberRead'
      BY <2>3 DEF FieldsAsSent, NumberRead, HasRead, g
    <2> QED
      BY <1>7, <1>8, <2>1, <2>4, <2>5 DEF ReadInv, HeadersRead, d
  <1>10. CASE ~ bare
    <2>1. d = Sofar(r, size) /\ Agree(r, h, Carried(h))
      BY <1>3, <1>10
    <2>2. got'.result = "read" /\ got'.packet = p /\ PayloadFound' /\ got'.payload = p.payload
      BY <1>1, <1>4, <2>1, ReadStruct
    <2>3. FieldsAsSent'
      BY <1>4, <1>5, <2>1, <2>2 DEF FieldsAsSent, Agree
    <2>4. NumberRead'
      BY <1>4, <2>2 DEF NumberRead, HasRead
    <2> QED
      BY <1>7, <1>8, <2>2, <2>3, <2>4 DEF ReadInv, HeadersRead
  <1> QED
    BY <1>9, <1>10

LEMMA StoreKept == StoreInv /\ UNCHANGED storeVars => StoreInv'
  BY DEF StoreInv, StoreTypes, InBlock, StoreMatchesHeap, storeVars

LEMMA ReceiveLongStep ==
  ASSUME PathInv, NEW p \in flight, ReceiveLong(p)
  PROVE  PathInv'
  <1>1. LongPacket(p)
    BY DEF PathInv, FlightType, Sendable, ReceiveLong
  <1>2. ReadInv'
    BY <1>1, LongHeard DEF ReceiveLong
  <1>3. StoreInv'
    BY StoreKept DEF PathInv, ReceiveLong
  <1>4. /\ role' = role /\ flight' \subseteq flight /\ UNCHANGED offered
        /\ UNCHANGED <<section, started, versions, version_count>>
    BY DEF ReceiveLong, registryVars
  <1>5. RegistryType' /\ OfferedType'
    BY <1>4 DEF PathInv, RegistryType, SectionType, OfferedType
  <1>6. FlightType'
    BY <1>4, FlightKept DEF PathInv
  <1> QED
    BY <1>2, <1>3, <1>5, <1>6 DEF PathInv

LEMMA ReceiveShortStep ==
  ASSUME PathInv, NEW p \in flight, ReceiveShort(p)
  PROVE  PathInv'
  <1>1. ShortPacket(p)
    BY DEF PathInv, FlightType, Sendable, ReceiveShort
  <1>2. ReadInv'
    BY <1>1, ShortHeard DEF ReceiveShort
  <1>3. StoreInv'
    BY StoreKept DEF PathInv, ReceiveShort
  <1>4. /\ role' = role /\ flight' \subseteq flight /\ UNCHANGED offered
        /\ UNCHANGED <<section, started, versions, version_count>>
    BY DEF ReceiveShort, registryVars
  <1>5. RegistryType' /\ OfferedType'
    BY <1>4 DEF PathInv, RegistryType, SectionType, OfferedType
  <1>6. FlightType'
    BY <1>4, FlightKept DEF PathInv
  <1> QED
    BY <1>2, <1>3, <1>5, <1>6 DEF PathInv

(* The first call collects the versions of the section; later ones find    *)
(* them collected.                                                         *)
LEMMA RegistryStarted ==
  ASSUME RegistryType, role = "version", role' = role, SupportInit
  PROVE  /\ RegistryType' /\ started' /\ versions' = ToSet(section) \ {0}
         /\ section' = section /\ version_count' \in Nat
         /\ started => versions' = versions
  <1>1. SectionType(section) /\ section' = section /\ started'
    BY DEF RegistryType, SupportInit
  <1>2. versions' = ToSet(section) \ {0}
    BY DEF RegistryType, SupportInit
  <1>3. version_count' \in Nat
    <2>1. CASE started
      BY <2>1 DEF RegistryType, SupportInit
    <2>2. CASE ~ started
      BY <1>1, <2>2, VersionCount DEF SupportInit
    <2> QED
      BY <2>1, <2>2
  <1>4. RegistryType'
    BY <1>1, <1>2, <1>3 DEF RegistryType, SectionType
  <1> QED
    BY <1>1, <1>2, <1>3, <1>4 DEF RegistryType

LEMMA HearInitialStep ==
  ASSUME PathInv, NEW p \in flight, HearInitial(p)
  PROVE  PathInv'
  <1> DEFINE d == Received(p)
             payload == VersionFill(4 * version_count')
  <1>1. /\ role = "version" /\ role' = role /\ p.hdr.kind = "long" /\ Receive(p, d)
        /\ SupportInit /\ UNCHANGED <<longest, flags, offered>>
    BY DEF HearInitial
  <1>2. LongPacket(p)
    <2>1. ~ AnswerPacket(p)
      BY <1>1 DEF AnswerPacket, VersionHeaders
    <2> QED
      BY <1>1, <2>1 DEF PathInv, FlightType, Sendable
  <1>3. ReadInv' /\ d.hdr \in LongHeaders
    BY <1>1, <1>2, LongHeard
  <1>4. /\ RegistryType' /\ started' /\ versions' = ToSet(section) \ {0}
        /\ section' = section /\ version_count' \in Nat
        /\ started => versions' = versions
    BY <1>1, RegistryStarted DEF PathInv
  <1>5. OfferedType'
    BY <1>1, <1>4 DEF PathInv, OfferedType
  <1>6. SectionType(section)
    BY <1>1 DEF PathInv, RegistryType
  <1>7. payload \in Octets /\ VersionsIn(payload) = versions'
    <2>1. /\ RemoveAt(section, Mark) \in Seq(VersionNumbers)
          /\ ToSet(RemoveAt(section, Mark)) = ToSet(section) \ {0}
      BY <1>6, MarkRemoved
    <2> DEFINE k == version_count'
    <2>2. ~ (k * 4 > 4 * k)
      <3>1. k \in Nat
        BY <1>4
      <3> HIDE DEF k
      <3> QED
        BY <3>1
    <2>3. payload = VersionBytes(RemoveAt(section, Mark))
      BY <2>2 DEF VersionFill
    <2> DEFINE s == RemoveAt(section, Mark)
    <2>4. s \in Seq(VersionNumbers) /\ ToSet(s) = versions' /\ payload = VersionBytes(s)
      BY <1>4, <2>1, <2>3
    <2> HIDE DEF s, payload
    <2> QED
      BY <2>4, VersionsRead
  <1> HIDE DEF payload
  <1> PICK answer : answer = Answer(d.hdr, payload)
    OBVIOUS
  <1>8. AnswerPacket(answer) /\ answer.hdr.kind = "version" /\ answer.payload = payload
    <2> DEFINE src == d.hdr.src
               dst == d.hdr.dst
    <2>1. src \in ConnIds /\ dst \in ConnIds
      BY <1>3 DEF LongHeaders
    <2>2. answer = [hdr |-> [kind |-> "version", version |-> 0, dst |-> src, src |-> dst],
                    payload |-> payload]
      BY DEF Answer
    <2>3. 0 \in VersionNumbers
      BY PowerType DEF VersionNumbers
    <2> HIDE DEF src, dst
    <2> QED
      BY <1>7, <2>1, <2>2, <2>3 DEF AnswerPacket, VersionHeaders
  <1>9. Sendable(answer)'
    BY <1>1, <1>4, <1>7, <1>8 DEF Sendable
  <1>10. CASE flight' \subseteq flight /\ UNCHANGED storeVars
    <2>1. StoreInv'
      BY <1>10, StoreKept DEF PathInv
    <2>2. FlightType'
      BY <1>1, <1>4, <1>10, FlightKept DEF PathInv
    <2> QED
      BY <1>3, <1>4, <1>5, <2>1, <2>2 DEF PathInv
  <1>11. ASSUME NEW kept, kept \subseteq flight, Put(answer, kept)
         PROVE  PathInv'
    <2>1. StoreInv' /\ flight' \subseteq kept \cup {answer}
      BY <1>7, <1>8, <1>11, PutKeeps DEF PathInv
    <2>2. flight' \subseteq flight \cup {answer}
      BY <1>11, <2>1
    <2>3. FlightType'
      BY <1>1, <1>4, <1>9, <2>2, FlightKept DEF PathInv
    <2> QED
      BY <1>3, <1>4, <1>5, <2>1, <2>3 DEF PathInv
  <1>12. \/ flight' \subseteq flight /\ UNCHANGED storeVars
         \/ \E kept \in {flight, flight \ {p}} : Put(answer, kept)
    BY DEF HearInitial, payload
  <1> QED
    BY <1>10, <1>11, <1>12

LEMMA HearAnswerStep ==
  ASSUME PathInv, NEW p \in flight, HearAnswer(p)
  PROVE  PathInv'
  <1> DEFINE d == Received(p)
  <1>1. /\ role = "version" /\ role' = role /\ p.hdr.kind = "version" /\ Receive(p, d)
        /\ UNCHANGED <<longest, flags>> /\ UNCHANGED storeVars /\ flight' \subseteq flight
        /\ UNCHANGED <<section, started, versions, version_count>>
        /\ IF d.refused THEN UNCHANGED offered ELSE offered' = VersionsIn(got'.payload)
    BY DEF HearAnswer, registryVars
  <1>2. started /\ AnswerPacket(p) /\ VersionsIn(p.payload) = versions
    <2>1. ~ LongPacket(p)
      BY <1>1 DEF LongPacket, LongSendable, LongHeaders
    <2> QED
      BY <1>1, <2>1 DEF PathInv, FlightType, Sendable
  <1>3. ReadInv' /\ (~ d.refused => got'.payload = p.payload)
    BY <1>1, <1>2, AnswerHeard
  <1>4. StoreInv'
    BY <1>1, StoreKept DEF PathInv
  <1>5. RegistryType'
    BY <1>1 DEF PathInv, RegistryType, SectionType
  <1>6. OfferedType'
    BY <1>1, <1>2, <1>3 DEF PathInv, OfferedType
  <1>7. FlightType'
    BY <1>1, FlightKept DEF PathInv
  <1> QED
    BY <1>3, <1>4, <1>5, <1>6, <1>7 DEF PathInv

LEMMA PathStepInv == PathInv /\ [PathNext]_pathVars => PathInv'
  <1> SUFFICES ASSUME PathInv, [PathNext]_pathVars PROVE PathInv'
    OBVIOUS
  <1>1. ASSUME NEW p \in LongPackets, SendLong(p) PROVE PathInv'
    BY <1>1, SendLongStep
  <1>2. ASSUME NEW p \in ShortPackets, SendShort(p) PROVE PathInv'
    BY <1>2, SendShortStep
  <1>3. ASSUME NEW v \in ClientVersions, NEW ids \in Ids, AskFor(v, ids) PROVE PathInv'
    BY <1>3, AskForStep
  <1>4. ASSUME NEW ptr \in Pointers, Release(ptr) PROVE PathInv'
    BY <1>4, ReleaseStep
  <1>5. ASSUME NEW p \in flight, Lose(p) PROVE PathInv'
    BY <1>5, LoseStep
  <1>6. ASSUME NEW p \in flight, ReceiveLong(p) PROVE PathInv'
    BY <1>6, ReceiveLongStep
  <1>7. ASSUME NEW p \in flight, ReceiveShort(p) PROVE PathInv'
    BY <1>7, ReceiveShortStep
  <1>8. ASSUME NEW p \in flight, HearInitial(p) PROVE PathInv'
    BY <1>8, HearInitialStep
  <1>9. ASSUME NEW p \in flight, HearAnswer(p) PROVE PathInv'
    BY <1>9, HearAnswerStep
  <1>10. CASE UNCHANGED pathVars
    <2>1. /\ UNCHANGED <<role, structs, got, longest, flags, offered, registryVars>>
          /\ UNCHANGED flight /\ UNCHANGED storeVars
      BY <1>10 DEF pathVars, registryVars, storeVars
    <2>2. flight' \subseteq flight /\ role' = role /\ started' = started /\ versions' = versions
      BY <2>1 DEF registryVars
    <2>3. FlightType'
      BY <2>2, FlightKept DEF PathInv
    <2>4. StoreInv'
      BY <2>1, StoreKept DEF PathInv
    <2>5. RegistryType' /\ OfferedType' /\ ReadInv'
      BY <2>1, NothingRead
    <2> QED
      BY <2>3, <2>4, <2>5 DEF PathInv
  <1> QED
    BY <1>1, <1>2, <1>3, <1>4, <1>5, <1>6, <1>7, <1>8, <1>9, <1>10 DEF PathNext

LEMMA PathInvariant == PathSpec => []PathInv
  BY PathInitInv, PathStepInv, PTL DEF PathSpec

-----------------------------------------------------------------------------
(* What the invariant says.                                                *)

(* A header that is neither a Retry nor an Initial fits.                   *)
LEMMA LongRoom ==
  ASSUME NEW h, LongSendable(h), h.type \notin {"RETRY", "INITIAL"}
  PROVE  LongSize(h) <= LONG_HEADER_MAX_SIZE
  <1> DEFINE a == Len(h.dst)
             b == Len(h.src)
             c == VarintSize(h.len)
             d == PnumLength(h.pnum)
  <1>1. h.dst \in ConnIds /\ h.src \in ConnIds /\ h.pnum \in PacketNumbers
    BY DEF LongSendable, LongHeaders
  <1>2. a \in Nat /\ a <= 18 /\ b \in Nat /\ b <= 18
    BY <1>1, IdType
  <1>3. c \in 1 .. 8
    BY LongIntegers
  <1>4. d \in 1 .. 4
    BY <1>1, PnumLengthType
  <1>5. LongSize(h) = 6 + a + b + 0 + (c + d)
    BY DEF LongSize
  <1> HIDE DEF a, b, c, d
  <1>6. 6 + a + b + 0 + (c + d) <= 54
    BY <1>2, <1>3, <1>4
  <1> QED
    BY <1>5, <1>6 DEF LONG_HEADER_MAX_SIZE

LEMMA ShortRoom ==
  ASSUME NEW h \in ShortHeaders
  PROVE  ShortSize(h) <= SHORT_HEADER_MAX_SIZE
  <1> DEFINE a == Len(h.dst)
             d == PnumLength(h.pnum)
  <1>1. h.dst \in ConnIds /\ h.pnum \in PacketNumbers
    BY DEF ShortHeaders
  <1>2. a \in Nat /\ a <= 18 /\ d \in 1 .. 4
    BY <1>1, IdType, PnumLengthType
  <1>3. ShortSize(h) = 1 + a + d
    BY DEF ShortSize
  <1> HIDE DEF a, d
  <1> QED
    BY <1>2, <1>3 DEF SHORT_HEADER_MAX_SIZE

LEMMA AnswerRoom ==
  ASSUME NEW h \in VersionHeaders
  PROVE  VersionSize(h) <= VERSION_NEGOTIATION_HEADER_MAX_SIZE
  <1> DEFINE a == Len(h.dst)
             b == Len(h.src)
  <1>1. h.dst \in ConnIds /\ h.src \in ConnIds
    BY DEF VersionHeaders
  <1>2. a \in Nat /\ a <= 18 /\ b \in Nat /\ b <= 18
    BY <1>1, IdType
  <1>3. VersionSize(h) = 6 + a + b
    BY DEF VersionSize
  <1> HIDE DEF a, b
  <1> QED
    BY <1>2, <1>3 DEF VERSION_NEGOTIATION_HEADER_MAX_SIZE

LEMMA InvFits == PathInv => HeaderFits
  <1> SUFFICES ASSUME PathInv, NEW p \in flight
               PROVE  /\ Len(HeaderEncode(p.hdr)) = HeaderSize(p.hdr)
                      /\ \/ p.hdr.kind = "long" /\ p.hdr.type \in {"RETRY", "INITIAL"}
                         \/ HeaderSize(p.hdr) <= Reserve(p.hdr.kind)
    BY DEF HeaderFits
  <1>1. /\ structs.long \in LongHeaders /\ structs.short \in ShortHeaders
        /\ structs.version \in VersionHeaders
    BY DEF PathInv, ReadInv, StructsType
  <1>2. LongPacket(p) \/ ShortPacket(p) \/ AnswerPacket(p)
    BY DEF PathInv, FlightType, Sendable
  <1>3. CASE LongPacket(p)
    <2>1. /\ Len(HeaderEncode(p.hdr)) = HeaderSize(p.hdr) /\ HeaderSize(p.hdr) = LongSize(p.hdr)
          /\ p.hdr.kind = "long"
      BY <1>1, <1>3, LongReceived
    <2>2. p.hdr.type \notin {"RETRY", "INITIAL"} => LongSize(p.hdr) <= LONG_HEADER_MAX_SIZE
      BY <1>3, LongRoom DEF LongPacket
    <2> QED
      BY <2>1, <2>2 DEF Reserve
  <1>4. CASE ShortPacket(p)
    <2>1. /\ Len(HeaderEncode(p.hdr)) = HeaderSize(p.hdr) /\ HeaderSize(p.hdr) = ShortSize(p.hdr)
          /\ p.hdr.kind = "short"
      BY <1>1, <1>4, ShortReceived
    <2>2. ShortSize(p.hdr) <= SHORT_HEADER_MAX_SIZE
      BY <1>4, ShortRoom DEF ShortPacket
    <2> QED
      BY <2>1, <2>2 DEF Reserve
  <1>5. CASE AnswerPacket(p)
    <2>1. /\ Len(HeaderEncode(p.hdr)) = HeaderSize(p.hdr)
          /\ HeaderSize(p.hdr) = VersionSize(p.hdr) /\ p.hdr.kind = "version"
      BY <1>1, <1>5, AnswerReceived
    <2>2. VersionSize(p.hdr) <= VERSION_NEGOTIATION_HEADER_MAX_SIZE
      BY <1>5, AnswerRoom DEF AnswerPacket
    <2> QED
      BY <2>1, <2>2 DEF Reserve
  <1> QED
    BY <1>2, <1>3, <1>4, <1>5

LEMMA InvRecovered == PathInv => NumberRecovered
  <1> SUFFICES ASSUME PathInv, NEW p \in flight, NEW n \in 1 .. 3, p.hdr.kind = "short"
               PROVE  LET win == Power[n]
                          expected == structs.short.pnum + 1
                          number == p.hdr.pnum
                          decoded == PnumDecode(structs.short.pnum, number % win, n)
                      IN /\ decoded % win = number % win
                         /\ /\ expected \in win .. Power[4] - win
                            /\ number > expected - win \div 2
                            /\ number <= expected + win \div 2
                            /\ number < expected - (expected % win) + win
                            => decoded = number
    BY DEF NumberRecovered
  <1> DEFINE largest == structs.short.pnum
             number == p.hdr.pnum
  <1>1. largest \in PacketNumbers
    BY DEF PathInv, ReadInv, StructsType, ShortHeaders
  <1>2. number \in PacketNumbers
    <2>1. LongPacket(p) \/ ShortPacket(p) \/ AnswerPacket(p)
      BY DEF PathInv, FlightType, Sendable
    <2>2. ~ LongPacket(p) /\ ~ AnswerPacket(p)
      BY DEF LongPacket, LongSendable, LongHeaders, AnswerPacket, VersionHeaders
    <2> QED
      BY <2>1, <2>2 DEF ShortPacket, ShortHeaders
  <1> HIDE DEF largest, number
  <1>3. LET win == Power[n]
            expected == largest + 1
            decoded == PnumDecode(largest, number % win, n)
        IN /\ decoded % win = number % win
           /\ /\ expected \in win .. Power[4] - win
              /\ number > expected - win \div 2 /\ number <= expected + win \div 2
              /\ number < expected - (expected % win) + win
              => decoded = number
    BY <1>1, <1>2, NumberDecoded
  <1> QED
    BY <1>3 DEF largest, number

(* In any order of allocations and releases on the way of packets, with    *)
(* pointers that are stale: pack_free frees only what malloc gave, and     *)
(* nothing twice, until the tree of the store is worn and leads the        *)
(* process to a freed node.                                                *)
THEOREM StoreOnThePath == PathSpec => []StoreMatchesHeap
  <1>1. PathInv => StoreMatchesHeap
    BY DEF PathInv, StoreInv
  <1> QED
    BY <1>1, PathInvariant, PTL

(* The header functions write as many bytes as the size functions told,    *)
(* and only a Retry and an Initial may be longer than the room that is     *)
(* left in front of the payload.                                           *)
THEOREM RoomInFront == PathSpec => []HeaderFits
  <1> QED
    BY InvFits, PathInvariant, PTL

(* Whatever the receiver's struct held before, whatever was lost, repeated *)
(* or reordered: the payload is found where the sender put it, and only a  *)
(* negotiation of nothing but its fixed part is refused.                   *)
THEOREM PayloadOnThePath == PathSpec => []PayloadFound
  <1>1. PathInv => PayloadFound
    BY DEF PathInv, ReadInv
  <1> QED
    BY <1>1, PathInvariant, PTL

(* Every decoder inverts its encoder field by field; the struct of the     *)
(* packets before shows through only in the flags of a short header, in    *)
(* the bytes above those of its number, and where a negotiation sends no   *)
(* id.                                                                     *)
THEOREM HeadersOnThePath == PathSpec => []HeadersRead
  <1>1. PathInv => HeadersRead
    BY DEF PathInv, ReadInv
  <1> QED
    BY <1>1, PathInvariant, PTL

(* packet_number_decode around the number in the receiver's struct finds   *)
(* every number that is on the way within its half window.                 *)
THEOREM NumbersOnThePath == PathSpec => []NumberRecovered
  <1> QED
    BY InvRecovered, PathInvariant, PTL

(* A client is offered what the server supports, all of it and nothing     *)
(* else, for every section and every placement of the mark in it.          *)
THEOREM OffersOnThePath == PathSpec => []OfferedSupported
  <1>1. PathInv => OfferedSupported
    BY DEF PathInv, OfferedType, RegistryType, OfferedSupported
  <1> QED
    BY <1>1, PathInvariant, PTL

-----------------------------------------------------------------------------
(* The generator of the packet numbers: for every modulus, first number,   *)
(* period and sequence of draws, as long as the longest distance to a      *)
(* number that is left out is shorter than a round of all numbers (131077  *)
(* against 2^32 in the code).                                              *)

Short == LongestRun < Modulus

-----------------------------------------------------------------------------
(* Distances on the circle of numbers.                                     *)

LEMMA AheadType ==
  ASSUME NEW p \in Number, NEW q \in Number
  PROVE  Ahead(p, q) \in Nat /\ Ahead(p, q) < Modulus
BY ModulusAssumption DEF Ahead, Number

LEMMA AheadInjective ==
  ASSUME NEW p \in Number, NEW q \in Number, NEW r \in Number,
         Ahead(p, q) = Ahead(p, r)
  PROVE  q = r
BY ModulusAssumption DEF Ahead, Number

LEMMA SuccType ==
  ASSUME NEW p \in Number
  PROVE  Succ(p) \in Number
BY ModulusAssumption DEF Succ, Number

(* Going one on is one further away, short of a full round.                *)
LEMMA AheadOfSucc ==
  ASSUME NEW p \in Number, NEW q \in Number, Ahead(p, q) + 1 < Modulus
  PROVE  Ahead(p, Succ(q)) = Ahead(p, q) + 1
BY ModulusAssumption DEF Ahead, Succ, Number

(* Seen from one on, everything ahead is one nearer.                       *)
LEMMA AheadFromSucc ==
  ASSUME NEW p \in Number, NEW q \in Number, Ahead(p, q) >= 1
  PROVE  Ahead(Succ(p), q) = Ahead(p, q) - 1
BY ModulusAssumption DEF Ahead, Succ, Number

LEMMA AheadOne ==
  ASSUME NEW p \in Number, NEW q \in Number, Modulus > 1
  PROVE  Succ(p) = q <=> Ahead(p, q) = 1
BY ModulusAssumption DEF Ahead, Succ, Number

(* Distances from a common origin add up.                                  *)
LEMMA AheadBetween ==
  ASSUME NEW o \in Number, NEW p \in Number, NEW q \in Number,
         Ahead(o, p) <= Ahead(o, q)
  PROVE  Ahead(p, q) = Ahead(o, q) - Ahead(o, p)
BY ModulusAssumption DEF Ahead, Number

-----------------------------------------------------------------------------
(* The draw of __generate_skip.                                            *)

LEMMA QuotientMonotone ==
  ASSUME NEW a \in Nat, NEW b \in Nat, a <= b, NEW d \in Nat \ {0}
  PROVE  a \div d \in Nat /\ b \div d \in Nat /\ a \div d <= b \div d
<1> DEFINE x == a \div d
           y == b \div d
<1>1. /\ x \in Int /\ d * x <= a /\ a < d * (x + 1)
      /\ y \in Int /\ d * y <= b /\ b < d * (y + 1)
  OBVIOUS
<1> HIDE DEF x, y
<1>2. d * x < d * (y + 1) /\ d * 0 < d * (x + 1) /\ d * 0 < d * (y + 1)
  BY <1>1
<1>3. x < y + 1 /\ 0 < x + 1 /\ 0 < y + 1
  BY <1>1, <1>2
<1>4. x \in Nat /\ y \in Nat /\ x <= y
  BY <1>1, <1>3
<1> QED BY <1>4 DEF x, y

LEMMA PlusAhead ==
  ASSUME NEW p \in Number, NEW d \in Nat, d < Modulus
  PROVE  Plus(p, d) \in Number /\ Ahead(p, Plus(p, d)) = d
<1>1. p \in Nat /\ p < Modulus /\ Modulus \in Nat \ {0}
  BY ModulusAssumption DEF Number
<1>2. (p + d) % Modulus = IF p + d < Modulus THEN p + d ELSE p + d - Modulus
  BY <1>1
<1> QED BY <1>1, <1>2 DEF Plus, Ahead, Number

(* The number to leave out lies at least two and at most LongestRun ahead. *)
LEMMA SkipFromAhead ==
  ASSUME Short, NEW p \in Number, NEW num \in Rands
  PROVE  /\ SkipFrom(p, num) \in Number
         /\ Ahead(p, SkipFrom(p, num)) >= 2
         /\ Ahead(p, SkipFrom(p, num)) <= LongestRun
<1> DEFINE a == (num * (Period - 1)) % Modulus
           d == 2 + a \div Divisor
<1>1. /\ Modulus \in Nat \ {0} /\ Divisor \in Nat \ {0}
      /\ num * (Period - 1) \in Nat
  BY ModulusAssumption, DrawAssumption
<1>2. a \in Nat /\ a <= Modulus - 1
  BY <1>1
<1> HIDE DEF a
<1>3. /\ a \div Divisor \in Nat /\ (Modulus - 1) \div Divisor \in Nat
      /\ a \div Divisor <= (Modulus - 1) \div Divisor
  BY <1>1, <1>2, QuotientMonotone
<1>4. d \in Nat /\ 2 <= d /\ d <= LongestRun /\ d < Modulus
  BY <1>1, <1>3 DEF LongestRun, Short
<1> HIDE DEF d
<1>5. Plus(p, d) \in Number /\ Ahead(p, Plus(p, d)) = d
  BY <1>4, PlusAhead
<1>6. SkipFrom(p, num) = Plus(p, d)
  BY DEF SkipFrom, d, a
<1> QED BY <1>4, <1>5, <1>6

LEMMA ShortFacts ==
  ASSUME Short
  PROVE  LongestRun \in Nat /\ LongestRun >= 2 /\ Modulus \in Nat /\ Modulus > 2
<1>1. (Modulus - 1) \div Divisor \in Nat
  <2>1. Modulus - 1 \in Nat /\ Divisor \in Nat \ {0}
    BY ModulusAssumption, DrawAssumption
  <2> QED BY <2>1, QuotientMonotone
<1> QED BY <1>1, ModulusAssumption DEF LongestRun, Short

-----------------------------------------------------------------------------
(* Types, and the number to leave out is ahead and near.                   *)

Ready == TypeOK /\ SkipAhead

LEMMA ReadyInit ==
  ASSUME Short, Init
  PROVE  Ready
<1>1. PICK num \in Rands : skip = SkipFrom(First, num)
  BY DEF Init
<1>2. /\ skip \in Number
      /\ Ahead(First, skip) >= 2 /\ Ahead(First, skip) <= LongestRun
  BY <1>1, FirstAssumption, SkipFromAhead
<1>3. Ahead(First, skip) \in 1 .. LongestRun
  BY <1>2, FirstAssumption, AheadType, ShortFacts
<1> QED BY <1>2, <1>3, FirstAssumption DEF Init, Ready, TypeOK, SkipAhead

(* Either way a pop hands out next, and the number after it is handed out  *)
(* later or is the one left out.                                           *)
LEMMA ReadyStep ==
  ASSUME Short, Ready, [Next]_vars
  PROVE  Ready'
<1>1. /\ next \in Number /\ skip \in Number /\ Succ(next) \in Number
      /\ Ahead(next, skip) \in 1 .. LongestRun
      /\ LongestRun \in Nat /\ Modulus > 1
  BY SuccType, ShortFacts DEF Ready, TypeOK, SkipAhead
<1>2. ASSUME Pop, PopPlain
      PROVE  Ready'
  <2>1. TypeOK'
    BY <1>1, <1>2 DEF Ready, TypeOK, Pop, PopPlain
  <2>2. Ahead(next, skip) # 1
    BY <1>1, <1>2, AheadOne DEF PopPlain
  <2>3. Ahead(Succ(next), skip) = Ahead(next, skip) - 1
    BY <1>1, AheadFromSucc
  <2>4. next' = Succ(next) /\ skip' = skip
    BY <1>2 DEF PopPlain
  <2>5. SkipAhead'
    BY <1>1, <2>2, <2>3, <2>4 DEF SkipAhead, Ahead
  <2> QED BY <2>1, <2>5 DEF Ready
<1>3. ASSUME Pop, PopSkipping
      PROVE  Ready'
  <2>1. next' = Succ(skip) /\ next' \in Number
    BY <1>1, <1>3, SuccType DEF PopSkipping
  <2>2. PICK num \in Rands : skip' = SkipFrom(next', num)
    BY <1>3 DEF PopSkipping
  <2>3. /\ skip' \in Number
        /\ Ahead(next', skip') >= 2 /\ Ahead(next', skip') <= LongestRun
    BY <2>1, <2>2, SkipFromAhead
  <2>4. SkipAhead'
    BY <1>1, <2>1, <2>3, AheadType DEF SkipAhead, Ahead
  <2>5. TypeOK'
    BY <1>1, <1>3, <2>1, <2>3 DEF Ready, TypeOK, Pop, PopSkipping, AddHistory
  <2> QED BY <2>4, <2>5 DEF Ready
<1>4. CASE UNCHANGED vars
  BY <1>4 DEF vars, Ready, TypeOK, SkipAhead, Ahead
<1> QED BY <1>2, <1>3, <1>4 DEF Next, Pop

LEMMA ReadyInvariant == Short => (Spec => []Ready)
<1> SUFFICES ASSUME Short
             PROVE  Spec => []Ready
  OBVIOUS
<1>1. Init => Ready
  BY ReadyInit
<1>2. Ready /\ [Next]_vars => Ready'
  BY ReadyStep
<1> QED BY <1>1, <1>2, PTL DEF Spec

(* The generator's fields keep their types, the wrap included.             *)
THEOREM NumbersTyped == Short => (Spec => []TypeOK)
<1>1. Ready => TypeOK
  BY DEF Ready
<1> QED BY <1>1, ReadyInvariant, PTL

(* pnum_gener_pop never increments past the number it is to leave out.     *)
THEOREM SkipStaysAhead == Short => (Spec => []SkipAhead)
<1>1. Ready => SkipAhead
  BY DEF Ready
<1> QED BY <1>1, ReadyInvariant, PTL

-----------------------------------------------------------------------------
(* The first round.  What is handed out or left out is exactly the numbers *)
(* nearer to First than next is.                                           *)

Position == consumed < Modulus => Ahead(First, next) = consumed

FirstRound == Ready /\ Unbroken /\ Position

LEMMA FirstRoundInit ==
  ASSUME Init
  PROVE  Unbroken /\ Position
<1>1. \A p \in Number : ~ (Ahead(First, p) < 0)
  BY FirstAssumption, AheadType
<1>2. Ahead(First, First) = 0
  BY FirstAssumption DEF Ahead, Number
<1> QED BY <1>1, <1>2 DEF Init, Unbroken, Position

(* While the round lasts the number handed out next is a new one.          *)
LEMMA NextIsNew ==
  ASSUME FirstRound, consumed < Modulus
  PROVE  next \notin issued \cup skipped
BY ModulusAssumption DEF FirstRound, Ready, TypeOK, Unbroken, Position, Number

LEMMA PlainFacts ==
  ASSUME FirstRound, Pop, PopPlain, consumed' <= Modulus
  PROVE  /\ consumed' = consumed + 1 /\ consumed < Modulus
         /\ next' = Succ(next)
         /\ issued' = issued \cup {next} /\ skipped' = skipped
         /\ Ahead(First, next) = consumed
BY ModulusAssumption
   DEF FirstRound, Ready, TypeOK, Position, Pop, PopPlain

LEMMA SkippingFacts ==
  ASSUME FirstRound, Pop, PopSkipping, consumed' <= Modulus
  PROVE  /\ consumed' = consumed + 2 /\ consumed + 1 < Modulus
         /\ skip = Succ(next) /\ next' = Succ(skip)
         /\ issued' = issued \cup {next} /\ skipped' = skipped \cup {skip}
         /\ Ahead(First, next) = consumed
         /\ Ahead(First, skip) = consumed + 1
<1>1. /\ consumed' = consumed + 2 /\ consumed \in Nat /\ consumed + 1 < Modulus
      /\ skip = Succ(next) /\ next' = Succ(skip)
      /\ issued' = issued \cup {next} /\ skipped' = skipped \cup {skip}
      /\ Ahead(First, next) = consumed
  BY ModulusAssumption
     DEF FirstRound, Ready, TypeOK, Position, Pop, PopSkipping
<1>2. next \in Number
  BY DEF FirstRound, Ready, TypeOK
<1>3. Ahead(First, Succ(next)) = consumed + 1
  BY <1>1, <1>2, FirstAssumption, AheadOfSucc
<1> QED BY <1>1, <1>3

LEMMA FirstRoundStep ==
  ASSUME FirstRound, [Next]_vars
  PROVE  Unbroken' /\ Position'
<1>1. /\ next \in Number /\ skip \in Number
      /\ consumed \in Nat /\ Modulus \in Nat /\ First \in Number
  BY ModulusAssumption, FirstAssumption DEF FirstRound, Ready, TypeOK
<1>2. \A p \in Number : Ahead(First, p) \in Nat /\ Ahead(First, p) < Modulus
  BY <1>1, AheadType
<1>3. \A p, q \in Number : Ahead(First, p) = Ahead(First, q) => p = q
  BY <1>1, AheadInjective
<1>4. consumed < Modulus =>
        issued \cup skipped = {p \in Number : Ahead(First, p) < consumed}
  BY <1>1 DEF FirstRound, Unbroken
<1>5. ASSUME Pop, PopPlain, consumed' <= Modulus
      PROVE  Unbroken' /\ Position'
  <2>1. /\ consumed' = consumed + 1 /\ consumed < Modulus
        /\ next' = Succ(next)
        /\ issued' = issued \cup {next} /\ skipped' = skipped
        /\ Ahead(First, next) = consumed
    BY <1>5, PlainFacts
  <2>2. issued' \cup skipped' = {p \in Number : Ahead(First, p) < consumed'}
    <3>1. \A p \in Number : p = next <=> Ahead(First, p) = consumed
      BY <1>1, <1>3, <2>1
    <3>2. \A p \in Number :
            Ahead(First, p) < consumed' <=>
              Ahead(First, p) < consumed \/ Ahead(First, p) = consumed
      BY <1>1, <1>2, <2>1
    <3> QED BY <1>1, <1>4, <2>1, <3>1, <3>2
  <2>3. Position'
    <3>1. consumed' < Modulus => Ahead(First, Succ(next)) = consumed'
      BY <1>1, <2>1, AheadOfSucc
    <3> QED BY <2>1, <3>1 DEF Position, Ahead
  <2>4. Unbroken'
    BY <2>2 DEF Unbroken, Ahead
  <2> QED BY <2>3, <2>4
<1>6. ASSUME Pop, PopSkipping, consumed' <= Modulus
      PROVE  Unbroken' /\ Position'
  <2>1. /\ consumed' = consumed + 2 /\ consumed + 1 < Modulus
        /\ skip = Succ(next) /\ next' = Succ(skip)
        /\ issued' = issued \cup {next} /\ skipped' = skipped \cup {skip}
        /\ Ahead(First, next) = consumed
        /\ Ahead(First, skip) = consumed + 1
    BY <1>6, SkippingFacts
  <2>2. issued' \cup skipped' = {p \in Number : Ahead(First, p) < consumed'}
    <3>1. /\ \A p \in Number : (p = next) <=> (Ahead(First, p) = consumed)
          /\ \A p \in Number : (p = skip) <=> (Ahead(First, p) = consumed + 1)
      BY <1>1, <1>3, <2>1
    <3>2. \A p \in Number :
            Ahead(First, p) < consumed' <=>
              \/ Ahead(First, p) < consumed
              \/ Ahead(First, p) = consumed
              \/ Ahead(First, p) = consumed + 1
      BY <1>1, <1>2, <2>1
    <3>3. issued \cup skipped = {p \in Number : Ahead(First, p) < consumed}
      BY <1>1, <1>4, <2>1
    <3>4. next \in Number /\ skip \in Number
      BY <1>1
    <3>5. issued' \cup skipped' = (issued \cup skipped) \cup {next, skip}
      BY <2>1
    <3>6. \A p \in Number :
            p \in issued' \cup skipped' <=> Ahead(First, p) < consumed'
      <4> TAKE p \in Number
      <4>1. p \in issued \cup skipped <=> Ahead(First, p) < consumed
        BY <3>3
      <4>2. p \in {next, skip} <=>
              Ahead(First, p) = consumed \/ Ahead(First, p) = consumed + 1
        BY <3>1
      <4> QED BY <3>2, <3>5, <4>1, <4>2
    <3>7. issued' \cup skipped' \subseteq Number
      BY <3>3, <3>4, <3>5
    <3> QED BY <3>6, <3>7
  <2>3. Position'
    <3>1. consumed' < Modulus => Ahead(First, Succ(skip)) = consumed'
      BY <1>1, <2>1, AheadOfSucc
    <3> QED BY <2>1, <3>1 DEF Position, Ahead
  <2>4. Unbroken'
    BY <2>2 DEF Unbroken, Ahead
  <2> QED BY <2>3, <2>4
<1>7. CASE Pop /\ ~ (consumed' <= Modulus)
  <2>1. consumed' \in Nat
    BY <1>1, <1>7 DEF Pop, PopPlain, PopSkipping
  <2> QED BY <1>1, <1>7, <2>1 DEF Unbroken, Position
<1>8. CASE UNCHANGED vars
  BY <1>8 DEF vars, FirstRound, Unbroken, Position, Ahead
<1> QED BY <1>5, <1>6, <1>7, <1>8 DEF Next, Pop

LEMMA FirstRoundInvariant == Short => (Spec => []FirstRound)
<1> SUFFICES ASSUME Short
             PROVE  Spec => []FirstRound
  OBVIOUS
<1>1. Init => FirstRound
  BY ReadyInit, FirstRoundInit DEF FirstRound
<1>2. FirstRound /\ [Next]_vars => FirstRound'
  BY ReadyStep, FirstRoundStep DEF FirstRound
<1> QED BY <1>1, <1>2, PTL DEF Spec

(* The numbers handed out or left out are an unbroken run from First on.   *)
THEOREM RunUnbroken == Short => (Spec => []Unbroken)
<1>1. FirstRound => Unbroken
  BY DEF FirstRound
<1> QED BY <1>1, FirstRoundInvariant, PTL

(* Each pop of the first round hands out a number that was neither handed  *)
(* out nor left out before, and leaves out another one than that.          *)
THEOREM NumbersNeverReused == Short => (Spec => NeverReused)
<1> SUFFICES ASSUME Short
             PROVE  Spec => NeverReused
  OBVIOUS
<1> DEFINE New == consumed' <= Modulus =>
                    /\ (issued' \ issued) \cap skipped' = {}
                    /\ issued' # issued
<1>1. FirstRound /\ [Next]_vars => [New]_vars
  <2> SUFFICES ASSUME FirstRound, Pop, consumed' <= Modulus
               PROVE  (issued' \ issued) \cap skipped' = {} /\ issued' # issued
    BY DEF Next
  <2>1. consumed \in Nat /\ Modulus \in Nat
    BY ModulusAssumption DEF FirstRound, Ready, TypeOK
  <2>2. CASE PopPlain
    <3>1. consumed < Modulus /\ issued' = issued \cup {next} /\ skipped' = skipped
      BY <2>2, PlainFacts
    <3>2. next \notin issued \cup skipped
      BY <3>1, NextIsNew
    <3> QED BY <3>1, <3>2
  <2>3. CASE PopSkipping
    <3>1. /\ consumed + 1 < Modulus
          /\ issued' = issued \cup {next} /\ skipped' = skipped \cup {skip}
          /\ Ahead(First, next) = consumed /\ Ahead(First, skip) = consumed + 1
      BY <2>3, SkippingFacts
    <3>2. next \notin issued \cup skipped
      BY <2>1, <3>1, NextIsNew
    <3>3. next # skip
      BY <2>1, <3>1
    <3> QED BY <3>1, <3>2, <3>3
  <2> QED BY <2>2, <2>3 DEF Pop
<1> QED BY <1>1, FirstRoundInvariant, PTL DEF Spec, NeverReused

-----------------------------------------------------------------------------
(* Skipping never stops.  The invariant looks one step ahead: behind every *)
(* number of the round there is, near enough, one that was left out or the *)
(* one that will be.                                                       *)

Covers(p) ==
  \/ \E q \in skipped : Ahead(p, q) <= LongestRun
  \/ consumed + Ahead(next, skip) <= Ahead(First, p) + LongestRun

Lonely(p) ==
  p \in skipped /\ Ahead(First, p) + 1 < consumed => Succ(p) \notin skipped

Regular ==
  consumed <= Modulus =>
    \A p \in Number : (Ahead(First, p) < consumed => Covers(p)) /\ Lonely(p)

LEMMA RegularStep ==
  ASSUME Short, FirstRound, Regular, [Next]_vars
  PROVE  Regular'
<1>1. /\ next \in Number /\ skip \in Number /\ skipped \subseteq Number
      /\ consumed \in Nat /\ Modulus \in Nat /\ First \in Number
      /\ Ahead(next, skip) \in 1 .. LongestRun
      /\ LongestRun \in Nat /\ LongestRun >= 2 /\ Modulus > 2
  BY ShortFacts, FirstAssumption DEF FirstRound, Ready, TypeOK, SkipAhead
<1>2. \A p \in Number : Ahead(First, p) \in Nat /\ Ahead(First, p) < Modulus
  BY <1>1, AheadType
<1>3. consumed < Modulus =>
        issued \cup skipped = {p \in Number : Ahead(First, p) < consumed}
  BY <1>1 DEF FirstRound, Unbroken
<1>4. consumed < Modulus =>
        \A p \in Number : (Ahead(First, p) < consumed => Covers(p)) /\ Lonely(p)
  BY <1>1 DEF Regular
<1>5. ASSUME Pop, PopPlain, consumed' <= Modulus, NEW p \in Number
      PROVE  (Ahead(First, p) < consumed' => Covers(p)') /\ Lonely(p)'
  <2>1. /\ consumed' = consumed + 1 /\ consumed < Modulus
        /\ next' = Succ(next)
        /\ skipped' = skipped /\ skip' = skip
        /\ Ahead(First, next) = consumed
    BY <1>5, PlainFacts DEF PopPlain
  <2>2. Ahead(next', skip') = Ahead(next, skip) - 1
    BY <1>1, <2>1, AheadFromSucc
  <2>3. ASSUME Ahead(First, p) < consumed'
        PROVE  Covers(p)'
    <3>1. Covers(p) \/ Ahead(First, p) = consumed
      BY <1>1, <1>2, <1>4, <2>1, <2>3
    <3>2. \/ \E q \in skipped : Ahead(p, q) <= LongestRun
          \/ consumed + Ahead(next, skip) <= Ahead(First, p) + LongestRun
      BY <1>1, <1>2, <3>1 DEF Covers
    <3>3. consumed' + Ahead(next', skip') = consumed + Ahead(next, skip)
      BY <1>1, <2>1, <2>2
    <3> QED BY <2>1, <3>2, <3>3 DEF Covers, Ahead
  <2>4. Lonely(p)'
    <3>1. CASE p \in skipped
      <4>1. Ahead(First, p) < consumed
        BY <1>3, <2>1, <3>1
      <4>2. CASE Ahead(First, p) + 1 < consumed
        BY <1>4, <2>1, <3>1, <4>2 DEF Lonely, Succ, Ahead
      <4>3. CASE Ahead(First, p) + 1 = consumed
        <5>1. Ahead(First, Succ(p)) = consumed /\ Succ(p) \in Number
          BY <1>1, <2>1, <4>3, AheadOfSucc, SuccType
        <5>2. Succ(p) \notin skipped
          BY <1>1, <1>3, <2>1, <5>1
        <5> QED BY <2>1, <5>2 DEF Lonely, Succ
      <4> QED BY <1>1, <1>2, <4>1, <4>2, <4>3
    <3>2. CASE p \notin skipped
      BY <2>1, <3>2 DEF Lonely
    <3> QED BY <3>1, <3>2
  <2> QED BY <2>3, <2>4
<1>6. ASSUME Pop, PopSkipping, consumed' <= Modulus, NEW p \in Number
      PROVE  (Ahead(First, p) < consumed' => Covers(p)') /\ Lonely(p)'
  <2>1. /\ consumed' = consumed + 2 /\ consumed + 1 < Modulus
        /\ skip = Succ(next)
        /\ skipped' = skipped \cup {skip}
        /\ Ahead(First, next) = consumed
        /\ Ahead(First, skip) = consumed + 1
    BY <1>6, SkippingFacts
  <2>2. Ahead(next, skip) = 1
    BY <1>1, <2>1, AheadOne
  <2>3. ASSUME Ahead(First, p) < consumed'
        PROVE  \E q \in skipped' : Ahead(p, q) <= LongestRun
    <3>1. Ahead(p, skip) = (consumed + 1) - Ahead(First, p)
      <4>1. Ahead(First, p) <= Ahead(First, skip)
        BY <1>1, <1>2, <2>1, <2>3
      <4>2. Ahead(p, skip) = Ahead(First, skip) - Ahead(First, p)
        BY <1>1, <4>1, AheadBetween
      <4>3. Ahead(First, skip) = consumed + 1
        BY <2>1
      <4> QED BY <4>2, <4>3
    <3>2. CASE Ahead(First, p) >= consumed
      BY <1>1, <1>2, <2>1, <3>1, <3>2
    <3>3. CASE Ahead(First, p) < consumed
      <4>1. Covers(p)
        BY <1>1, <1>4, <2>1, <3>3
      <4>2. CASE \E q \in skipped : Ahead(p, q) <= LongestRun
        BY <2>1, <4>2
      <4>3. CASE consumed + Ahead(next, skip) <= Ahead(First, p) + LongestRun
        <5>1. Ahead(p, skip) <= LongestRun
          BY <1>1, <1>2, <2>2, <3>1, <4>3
        <5> QED BY <2>1, <5>1
      <4> QED BY <4>1, <4>2, <4>3 DEF Covers
    <3> QED BY <1>1, <1>2, <3>2, <3>3
  <2>4. Lonely(p)'
    <3> SUFFICES ASSUME p \in skipped', Ahead(First, p) + 1 < consumed'
                 PROVE  Succ(p) \notin skipped'
      BY DEF Lonely, Succ, Ahead
    <3>1. p \in skipped
      BY <1>1, <2>1
    <3>2. Ahead(First, p) < consumed
      BY <1>1, <1>3, <2>1, <3>1
    <3>3. Ahead(First, Succ(p)) = Ahead(First, p) + 1 /\ Succ(p) \in Number
      BY <1>1, <1>2, <2>1, <3>2, AheadOfSucc, SuccType
    <3>4. Succ(p) # skip
      BY <1>1, <1>2, <2>1, <3>2, <3>3
    <3>5. Succ(p) \notin skipped
      <4>1. CASE Ahead(First, p) + 1 < consumed
        BY <1>1, <1>4, <2>1, <3>1, <4>1 DEF Lonely
      <4>2. CASE ~ (Ahead(First, p) + 1 < consumed)
        BY <1>1, <1>2, <1>3, <2>1, <3>3, <4>2
      <4> QED BY <4>1, <4>2
    <3> QED BY <2>1, <3>4, <3>5
  <2> QED BY <2>3, <2>4 DEF Covers, Ahead, LongestRun
<1>7. CASE Pop /\ ~ (consumed' <= Modulus)
  BY <1>7 DEF Regular
<1>8. CASE UNCHANGED vars
  BY <1>8 DEF vars, Regular, Covers, Lonely, Ahead
<1>9. ASSUME Pop, consumed' <= Modulus
      PROVE  Regular'
  BY <1>5, <1>6, <1>9 DEF Pop, Regular, Ahead
<1> QED BY <1>7, <1>8, <1>9 DEF Next

(* One of any LongestRun + 1 numbers in a row is left out, and no two      *)
(* neighbours are: a peer that acknowledges what it did not get is told.   *)
THEOREM SkipsRegularly == Short => (Spec => []LeftOutRegularly)
<1> SUFFICES ASSUME Short
             PROVE  Spec => []LeftOutRegularly
  OBVIOUS
<1>1. Init => Regular
  <2> SUFFICES ASSUME Init
               PROVE  Regular
    OBVIOUS
  <2>1. \A p \in Number : ~ (Ahead(First, p) < 0)
    BY FirstAssumption, AheadType
  <2> QED BY <2>1 DEF Init, Regular, Lonely
<1>2. FirstRound /\ Regular /\ [Next]_vars => Regular'
  BY RegularStep
<1>3. FirstRound /\ Regular => LeftOutRegularly
  <2> SUFFICES ASSUME FirstRound, Regular, consumed <= Modulus, NEW p \in Number
               PROVE  /\ Ahead(First, p) + LongestRun < consumed =>
                           \E q \in skipped : Ahead(p, q) <= LongestRun
                      /\ Lonely(p)
    BY DEF LeftOutRegularly, Lonely
  <2>1. /\ consumed \in Nat /\ LongestRun \in Nat
        /\ Ahead(First, p) \in Nat
        /\ Ahead(next, skip) \in 1 .. LongestRun
    BY FirstAssumption, ShortFacts, AheadType
       DEF FirstRound, Ready, TypeOK, SkipAhead
  <2>2. Lonely(p) /\ (Ahead(First, p) < consumed => Covers(p))
    BY DEF Regular
  <2> QED BY <2>1, <2>2 DEF Covers
<1> QED BY <1>1, <1>2, <1>3, FirstRoundInvariant, PTL DEF Spec

(* The numbers that pnum_gener_existed finds were handed out just before a *)
(* number that was left out, whatever allocations failed.                  *)
THEOREM ExistedIsBeforeGap == Spec => []ExistedBeforeGap
<1>1. Init => ExistedBeforeGap
  BY DEF Init, ExistedBeforeGap, Existed
<1>2. ExistedBeforeGap /\ [Next]_vars => ExistedBeforeGap'
  <2> SUFFICES ASSUME ExistedBeforeGap, [Next]_vars
               PROVE  ExistedBeforeGap'
    OBVIOUS
  <2>1. CASE Pop /\ PopPlain
    BY <2>1 DEF Pop, PopPlain, ExistedBeforeGap, Existed, Succ
  <2>2. CASE Pop /\ PopSkipping
    BY <2>2 DEF Pop, PopSkipping, AddHistory, ExistedBeforeGap, Existed, Succ
  <2>3. CASE UNCHANGED vars
    BY <2>3 DEF vars, ExistedBeforeGap, Existed, Succ
  <2> QED BY <2>1, <2>2, <2>3 DEF Next, Pop
<1> QED BY <1>1, <1>2, PTL DEF Spec
=============================================================================
