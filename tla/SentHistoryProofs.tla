---------------------------- MODULE SentHistoryProofs ----------------------------
(***************************************************************************)
(* Theorems about SentHistory for every set of packets and every batch.    *)
(***************************************************************************)
EXTENDS SentHistory, SequenceLemmas, FiniteSetTheorems

-----------------------------------------------------------------------------
(* The recursion of Appended has a solution, which it therefore follows.   *)
LEMMA AppendedSteps ==
  ASSUME NEW l, NEW s, Len(s) \in Nat
  PROVE  \E f : /\ f[0] = l
                /\ \A n \in 1 .. Len(s) :
                     f[n] = LL!InsertBefore(f[n - 1], ListHead, s[n])
                /\ Appended(l, s) = f[Len(s)]
  <1> DEFINE Steps(f, m) ==
               [n \in 0 .. m |->
                  IF n = 0 THEN l ELSE LL!InsertBefore(f[n - 1], ListHead, s[n])]
             P == {m \in Nat : \E f : f = Steps(f, m)}
  <1>1. 0 \in P
    <2> DEFINE f == [n \in 0 .. 0 |-> l]
    <2>1. f = Steps(f, 0)
      OBVIOUS
    <2> QED
      BY <2>1
  <1>2. ASSUME NEW m \in Nat, m \in P PROVE m + 1 \in P
    <2>1. PICK f : f = Steps(f, m)
      BY <1>2
    <2> DEFINE g == [n \in 0 .. m + 1 |->
                       IF n <= m THEN f[n]
                       ELSE LL!InsertBefore(f[m], ListHead, s[m + 1])]
    <2>2. \A n \in 0 .. m : g[n] = f[n]
      OBVIOUS
    <2>3. ASSUME NEW n \in 0 .. m + 1
          PROVE  g[n] = IF n = 0 THEN l ELSE LL!InsertBefore(g[n - 1], ListHead, s[n])
      <3>1. CASE n <= m
        <4>1. n \in 0 .. m /\ g[n] = f[n] /\ (n # 0 => g[n - 1] = f[n - 1])
          BY <2>2, <3>1
        <4>2. f[n] = IF n = 0 THEN l ELSE LL!InsertBefore(f[n - 1], ListHead, s[n])
          BY <2>1, <4>1
        <4> QED
          BY <4>1, <4>2
      <3>2. CASE n = m + 1
        <4>1. n # 0 /\ n - 1 = m /\ g[m] = f[m] /\ ~ (n <= m)
          BY <2>2, <3>2
        <4> QED
          BY <3>2, <4>1
      <3> QED
        BY <3>1, <3>2
    <2>4. g = Steps(g, m + 1)
      <3>1. g = [n \in 0 .. m + 1 |-> g[n]]
        OBVIOUS
      <3> HIDE DEF g
      <3> QED
        BY <2>3, <3>1
    <2> HIDE DEF g
    <2> QED
      BY <2>4
  <1>3. Len(s) \in P
    <2> HIDE DEF P
    <2> QED
      BY <1>1, <1>2, SetInduction
  <1> DEFINE f == CHOOSE f : f = Steps(f, Len(s))
  <1>4. f = Steps(f, Len(s))
    BY <1>3
  <1>5. Appended(l, s) = f[Len(s)]
    BY DEF Appended
  <1> HIDE DEF f
  <1>6. \A n \in 0 .. Len(s) :
          f[n] = IF n = 0 THEN l ELSE LL!InsertBefore(f[n - 1], ListHead, s[n])
    BY <1>4
  <1> QED
    BY <1>5, <1>6

-----------------------------------------------------------------------------
(* The list, element by element.                                           *)

Place == Packets \cup {ListHead}
ListState == [next : [Place -> Place], prev : [Place -> Place]]

(* The i-th node of a list that holds o, the head before and after it.     *)
At(o, i) == IF i \in 1 .. Len(o) THEN o[i] ELSE ListHead

Distinct(o) == \A i, j \in 1 .. Len(o) : o[i] = o[j] => i = j

Threads(l, o) ==
  \A i \in 0 .. Len(o) : l.next[At(o, i)] = At(o, i + 1) /\ l.prev[At(o, i + 1)] = At(o, i)

LEMMA RingElements ==
  ASSUME NEW o \in Seq(Packets)
  PROVE  LET ring == <<ListHead>> \o o \o <<ListHead>>
         IN Len(ring) = Len(o) + 2 /\ \A i \in 1 .. Len(o) + 2 : ring[i] = At(o, i - 1)
  <1> DEFINE front == <<ListHead>> \o o
             ring == front \o <<ListHead>>
  <1>1. /\ <<ListHead>> \in Seq(Place) /\ o \in Seq(Place) /\ Len(o) \in Nat
        /\ Len(<<ListHead>>) = 1 /\ <<ListHead>>[1] = ListHead
    BY DEF Place
  <1>2. /\ front \in Seq(Place)
        /\ Len(front) = Len(o) + 1
        /\ \A i \in 1 .. Len(o) + 1 : front[i] = IF i = 1 THEN ListHead ELSE o[i - 1]
    BY <1>1, ConcatProperties
  <1> HIDE DEF front
  <1>3. /\ Len(ring) = Len(o) + 2
        /\ \A i \in 1 .. Len(o) + 2 :
             ring[i] = IF i <= Len(o) + 1 THEN front[i] ELSE ListHead
    BY <1>1, <1>2, ConcatProperties
  <1> HIDE DEF ring
  <1>4. \A i \in 1 .. Len(o) + 2 : ring[i] = At(o, i - 1)
    BY <1>1, <1>2, <1>3 DEF At
  <1> QED
    BY <1>3, <1>4 DEF ring, front

LEMMA HoldsThreads ==
  ASSUME NEW o \in Seq(Packets), NEW l
  PROVE  LL!Holds(l, o) <=> Threads(l, o)
  <1> DEFINE ring == <<ListHead>> \o o \o <<ListHead>>
             n == Len(o)
  <1>1. n \in Nat /\ Len(ring) = n + 2 /\ \A i \in 1 .. n + 2 : ring[i] = At(o, i - 1)
    BY RingElements
  <1>2. LL!Holds(l, o) <=>
          \A i \in 1 .. Len(ring) - 1 :
            l.next[ring[i]] = ring[i + 1] /\ l.prev[ring[i + 1]] = ring[i]
    BY DEF LL!Holds
  <1> HIDE DEF ring
  <1>3. LL!Holds(l, o) <=>
          \A i \in 1 .. n + 1 :
            l.next[At(o, i - 1)] = At(o, i) /\ l.prev[At(o, i)] = At(o, i - 1)
    <2>1. Len(ring) - 1 = n + 1
      BY <1>1
    <2>2. \A i \in 1 .. n + 1 : ring[i] = At(o, i - 1) /\ ring[i + 1] = At(o, i)
      BY <1>1
    <2> QED
      BY <1>2, <2>1, <2>2
  <1>4. Threads(l, o) <=>
          \A i \in 1 .. n + 1 :
            l.next[At(o, i - 1)] = At(o, i) /\ l.prev[At(o, i)] = At(o, i - 1)
    <2> DEFINE T(i) == l.next[At(o, i)] = At(o, i + 1) /\ l.prev[At(o, i + 1)] = At(o, i)
    <2>1. ASSUME \A i \in 0 .. n : T(i), NEW i \in 1 .. n + 1
          PROVE  l.next[At(o, i - 1)] = At(o, i) /\ l.prev[At(o, i)] = At(o, i - 1)
      <3>1. i - 1 \in 0 .. n /\ (i - 1) + 1 = i
        BY <1>1
      <3> QED
        BY <2>1, <3>1
    <2>2. ASSUME \A i \in 1 .. n + 1 :
                   l.next[At(o, i - 1)] = At(o, i) /\ l.prev[At(o, i)] = At(o, i - 1),
                 NEW i \in 0 .. n
          PROVE  T(i)
      <3>1. i + 1 \in 1 .. n + 1 /\ (i + 1) - 1 = i
        BY <1>1
      <3> QED
        BY <2>2, <3>1
    <2> QED
      BY <2>1, <2>2 DEF Threads
  <1> QED
    BY <1>3, <1>4

(* The head is at both ends and nowhere else.                              *)
LEMMA AtApart ==
  ASSUME NEW o \in Seq(Packets), Distinct(o)
  PROVE  /\ \A i \in Int : At(o, i) \in Place
         /\ \A i, j \in 0 .. Len(o) : At(o, i) = At(o, j) => i = j
         /\ \A i, j \in 1 .. Len(o) + 1 : At(o, i) = At(o, j) => i = j
  <1>1. Len(o) \in Nat /\ \A i \in 1 .. Len(o) : o[i] \in Packets /\ o[i] # ListHead
    BY NamesAssumption
  <1> QED
    BY <1>1 DEF At, Place, Distinct

(* ll_insert_before of the head: p is the last node from then on.          *)
LEMMA InsertThreads ==
  ASSUME NEW o \in Seq(Packets), Distinct(o), NEW p \in Packets,
         \A i \in 1 .. Len(o) : o[i] # p,
         NEW l \in ListState, Threads(l, o)
  PROVE  LET k == LL!InsertBefore(l, ListHead, p)
         IN k \in ListState /\ Threads(k, Append(o, p))
  <1> DEFINE n == Len(o)
             last == At(o, n)
             k == LL!InsertBefore(l, ListHead, p)
             o2 == Append(o, p)
  <1>1. n \in Nat /\ p # ListHead /\ p \in Place /\ ListHead \in Place
    BY NamesAssumption DEF Place
  <1>2. At(o, n + 1) = ListHead /\ l.prev[ListHead] = last
    BY <1>1 DEF At, Threads
  <1>3. last \in Place /\ last # p
    BY <1>1, AtApart DEF At
  <1>4. /\ k.next = [l.next EXCEPT ![p] = ListHead, ![last] = p]
        /\ k.prev = [l.prev EXCEPT ![p] = last, ![ListHead] = p]
        /\ k = [next |-> k.next, prev |-> k.prev]
    BY <1>2 DEF LL!InsertBefore
  <1>5. l.next \in [Place -> Place] /\ l.prev \in [Place -> Place]
    BY DEF ListState
  <1> HIDE DEF k
  <1>6. /\ k \in ListState
        /\ \A x \in Place : k.next[x] = IF x = last THEN p ELSE IF x = p THEN ListHead
                                        ELSE l.next[x]
        /\ \A x \in Place : k.prev[x] = IF x = ListHead THEN p ELSE IF x = p THEN last
                                        ELSE l.prev[x]
    BY <1>1, <1>3, <1>4, <1>5 DEF ListState
  <1>7. Len(o2) = n + 1 /\ \A i \in 1 .. n + 1 : o2[i] = IF i = n + 1 THEN p ELSE o[i]
    OBVIOUS
  <1>8. /\ \A i \in 0 .. n : At(o2, i) = At(o, i)
        /\ At(o2, n + 1) = p /\ At(o2, n + 2) = ListHead
    BY <1>1, <1>7 DEF At
  <1> HIDE DEF o2
  <1>9. ASSUME NEW i \in 0 .. n + 1
        PROVE  k.next[At(o2, i)] = At(o2, i + 1) /\ k.prev[At(o2, i + 1)] = At(o2, i)
    <2>1. CASE i < n
      <3>1. i \in 0 .. n /\ i + 1 \in 0 .. n /\ i + 1 \in 1 .. n + 1 /\ i + 1 # n + 1 /\ i # n
        BY <1>1, <2>1
      <3>2. At(o, i) \in Place /\ At(o, i) # last /\ At(o, i) # p
        BY <1>1, <3>1, AtApart DEF At
      <3>3. At(o, i + 1) \in Place /\ At(o, i + 1) # ListHead /\ At(o, i + 1) # p
        BY <1>1, <1>2, <3>1, AtApart DEF At
      <3>4. l.next[At(o, i)] = At(o, i + 1) /\ l.prev[At(o, i + 1)] = At(o, i)
        BY <3>1 DEF Threads
      <3> QED
        BY <1>6, <1>8, <3>1, <3>2, <3>3, <3>4
    <2>2. CASE i = n
      <3>1. At(o2, i) = last /\ At(o2, i + 1) = p
        BY <1>1, <1>8, <2>2
      <3> QED
        BY <1>1, <1>3, <1>6, <3>1
    <2>3. CASE i = n + 1
      <3>1. At(o2, i) = p /\ At(o2, i + 1) = ListHead
        BY <1>1, <1>8, <2>3
      <3> QED
        BY <1>1, <1>3, <1>6, <3>1
    <2> QED
      BY <1>1, <2>1, <2>2, <2>3
  <1> QED
    BY <1>6, <1>7, <1>9 DEF Threads, k, o2

(* ll_remove of the k-th node: its neighbours close up.                    *)
LEMMA RemoveThreads ==
  ASSUME NEW o \in Seq(Packets), Distinct(o), NEW k \in 1 .. Len(o),
         NEW l \in ListState, Threads(l, o)
  PROVE  LET r == LL!Remove(l, o[k])
         IN r \in ListState /\ Threads(r, RemoveAt(o, k))
  <1> DEFINE n == Len(o)
             r == LL!Remove(l, o[k])
             o2 == RemoveAt(o, k)
             before == At(o, k - 1)
             after == At(o, k + 1)
  <1>1. n \in Nat /\ k \in Nat /\ 1 <= k /\ k <= n
    OBVIOUS
  <1>2. o[k] = At(o, k) /\ l.prev[o[k]] = before /\ l.next[o[k]] = after
    <2>1. At(o, k) = o[k]
      BY DEF At
    <2>2. k - 1 \in 0 .. n /\ (k - 1) + 1 = k /\ k \in 0 .. n
      BY <1>1
    <2> QED
      BY <2>1, <2>2 DEF Threads
  <1>3. before \in Place /\ after \in Place
    BY <1>1, AtApart
  <1>4. /\ r.next = [l.next EXCEPT ![before] = after]
        /\ r.prev = [l.prev EXCEPT ![after] = before]
        /\ r = [next |-> r.next, prev |-> r.prev]
    BY <1>2 DEF LL!Remove
  <1>5. l.next \in [Place -> Place] /\ l.prev \in [Place -> Place]
    BY DEF ListState
  <1>6. /\ o2 \in Seq(Packets) /\ Len(o2) = n - 1
        /\ \A j \in 1 .. n - 1 : o2[j] = IF j < k THEN o[j] ELSE o[j + 1]
    BY RemoveAtElements
  <1> HIDE DEF r, o2
  <1>7. \A i \in 0 .. n : At(o2, i) = IF i < k THEN At(o, i) ELSE At(o, i + 1)
    BY <1>1, <1>6 DEF At
  <1> HIDE DEF before, after
  <1>8. /\ r \in ListState
        /\ \A x \in Place : r.next[x] = IF x = before THEN after ELSE l.next[x]
        /\ \A x \in Place : r.prev[x] = IF x = after THEN before ELSE l.prev[x]
    BY <1>3, <1>4, <1>5 DEF ListState
  <1>9. ASSUME NEW i \in 0 .. n - 1
        PROVE  r.next[At(o2, i)] = At(o2, i + 1) /\ r.prev[At(o2, i + 1)] = At(o2, i)
    <2>1. CASE i = k - 1
      <3>1. At(o2, i) = before /\ At(o2, i + 1) = after
        BY <1>1, <1>7, <2>1 DEF before, after
      <3> QED
        BY <1>3, <1>8, <3>1
    <2>2. ASSUME NEW j \in 0 .. n, j # k - 1, j # k,
                 At(o2, i) = At(o, j), At(o2, i + 1) = At(o, j + 1)
          PROVE  /\ r.next[At(o2, i)] = At(o2, i + 1)
                 /\ r.prev[At(o2, i + 1)] = At(o2, i)
      <3>1. /\ k - 1 \in 0 .. n /\ j + 1 \in 1 .. n + 1 /\ k + 1 \in 1 .. n + 1
            /\ j + 1 # k + 1 /\ j \in Int /\ j + 1 \in Int
        BY <1>1, <2>2
      <3>2. At(o, j) \in Place /\ At(o, j) # before
        BY <2>2, <3>1, AtApart DEF before
      <3>3. At(o, j + 1) \in Place /\ At(o, j + 1) # after
        BY <2>2, <3>1, AtApart DEF after
      <3>4. l.next[At(o, j)] = At(o, j + 1) /\ l.prev[At(o, j + 1)] = At(o, j)
        BY DEF Threads
      <3> QED
        BY <1>8, <2>2, <3>2, <3>3, <3>4
    <2>3. CASE i < k - 1
      <3>1. /\ i \in 0 .. n /\ i # k - 1 /\ i # k
            /\ At(o2, i) = At(o, i) /\ At(o2, i + 1) = At(o, i + 1)
        BY <1>1, <1>7, <2>3
      <3> QED
        BY <2>2, <3>1
    <2>4. CASE i >= k
      <3>1. /\ i + 1 \in 0 .. n /\ i + 1 # k - 1 /\ i + 1 # k
            /\ At(o2, i) = At(o, i + 1) /\ At(o2, i + 1) = At(o, (i + 1) + 1)
        BY <1>1, <1>7, <2>4
      <3> QED
        BY <2>2, <3>1
    <2> QED
      BY <1>1, <2>1, <2>3, <2>4
  <1> QED
    BY <1>6, <1>8, <1>9 DEF Threads, r, o2

(* The order after a removal.                                              *)
LEMMA RemovedOrder ==
  ASSUME NEW o \in Seq(Packets), Distinct(o), NEW p \in ToSet(o)
  PROVE  /\ RemoveFirst(o, p) \in Seq(Packets)
         /\ Distinct(RemoveFirst(o, p))
         /\ ToSet(RemoveFirst(o, p)) = ToSet(o) \ {p}
         /\ \E k \in 1 .. Len(o) : p = o[k] /\ RemoveFirst(o, p) = RemoveAt(o, k)
  <1>1. PICK k \in 1 .. Len(o) : p = o[k]
    BY DEF ToSet
  <1>2. RemoveFirst(o, p) = RemoveAt(o, k)
    BY <1>1, RemoveFirstElements DEF Distinct
  <1> DEFINE n == Len(o)
             o2 == RemoveAt(o, k)
  <1>3. n \in Nat /\ k \in 1 .. n
    OBVIOUS
  <1>4. /\ o2 \in Seq(Packets) /\ Len(o2) = n - 1
        /\ \A j \in 1 .. n - 1 : o2[j] = IF j < k THEN o[j] ELSE o[j + 1]
    BY RemoveAtElements
  <1> HIDE DEF o2
  <1>5. Distinct(o2)
    BY <1>3, <1>4 DEF Distinct
  <1>6. ToSet(o2) = ToSet(o) \ {p}
    <2>1. DOMAIN o2 = 1 .. n - 1 /\ DOMAIN o = 1 .. n
      BY <1>4
    <2>2. ASSUME NEW j \in 1 .. n - 1 PROVE o2[j] \in ToSet(o) \ {p}
      <3>1. PICK i \in 1 .. n : i # k /\ o2[j] = o[i]
        BY <1>3, <1>4
      <3> QED
        BY <1>1, <2>1, <3>1 DEF ToSet, Distinct
    <2>3. ASSUME NEW i \in 1 .. n, o[i] # p PROVE o[i] \in ToSet(o2)
      <3>1. i # k
        BY <1>1, <2>3
      <3>2. PICK j \in 1 .. n - 1 : o2[j] = o[i]
        <4>1. CASE i < k
          BY <1>3, <1>4, <4>1
        <4>2. CASE i > k
          <5>1. i - 1 \in 1 .. n - 1 /\ ~ (i - 1 < k) /\ (i - 1) + 1 = i
            BY <1>3, <4>2
          <5> QED
            BY <1>4, <5>1
        <4> QED
          BY <1>3, <3>1, <4>1, <4>2
      <3> QED
        BY <2>1, <3>2 DEF ToSet
    <2> QED
      BY <2>1, <2>2, <2>3 DEF ToSet
  <1> QED
    BY <1>1, <1>2, <1>4, <1>5, <1>6 DEF o2

(* The order after more packets were sent.                                 *)
LEMMA ExtendedOrder ==
  ASSUME NEW o \in Seq(Packets), Distinct(o), NEW s \in Seq(Packets), Distinct(s),
         ToSet(o) \cap ToSet(s) = {}
  PROVE  /\ o \o s \in Seq(Packets)
         /\ Distinct(o \o s)
         /\ ToSet(o \o s) = ToSet(o) \cup ToSet(s)
  <1> DEFINE n == Len(o)
             m == Len(s)
             os == o \o s
  <1>1. n \in Nat /\ m \in Nat /\ DOMAIN o = 1 .. n /\ DOMAIN s = 1 .. m
    OBVIOUS
  <1>2. /\ os \in Seq(Packets) /\ Len(os) = n + m
        /\ \A i \in 1 .. n + m : os[i] = IF i <= n THEN o[i] ELSE s[i - n]
    BY ConcatProperties
  <1> HIDE DEF os
  <1>3. DOMAIN os = 1 .. n + m
    BY <1>2
  <1>4. \A i \in 1 .. n, j \in 1 .. m : o[i] # s[j]
    BY <1>1 DEF ToSet
  <1>5. Distinct(os)
    <2>1. ASSUME NEW i \in 1 .. n + m, NEW j \in 1 .. n + m, os[i] = os[j]
          PROVE  i = j
      <3>1. CASE i <= n /\ j <= n
        BY <1>1, <1>2, <2>1, <3>1 DEF Distinct
      <3>2. CASE i <= n /\ j > n
        <4>1. i \in 1 .. n /\ j - n \in 1 .. m
          BY <1>1, <3>2
        <4>2. os[i] = o[i] /\ os[j] = s[j - n]
          BY <1>2, <3>2
        <4> QED
          BY <1>4, <2>1, <4>1, <4>2
      <3>3. CASE i > n /\ j <= n
        <4>1. i - n \in 1 .. m /\ j \in 1 .. n /\ s[i - n] = o[j]
          BY <1>1, <1>2, <2>1, <3>3
        <4> QED
          BY <1>4, <4>1
      <3>4. CASE i > n /\ j > n
        <4>0. /\ i - n \in 1 .. m /\ j - n \in 1 .. m
              /\ os[i] = s[i - n] /\ os[j] = s[j - n]
          BY <1>1, <1>2, <3>4
        <4>1. i - n \in 1 .. m /\ j - n \in 1 .. m /\ s[i - n] = s[j - n]
          BY <2>1, <4>0
        <4>2. i - n = j - n
          BY <4>1 DEF Distinct
        <4>3. i \in Int /\ j \in Int /\ n \in Int
          BY <1>1
        <4> HIDE DEF n
        <4> QED
          BY <4>2, <4>3
      <3> QED
        BY <1>1, <3>1, <3>2, <3>3, <3>4
    <2> QED
      BY <1>2, <2>1 DEF Distinct
  <1>6. ToSet(os) = ToSet(o) \cup ToSet(s)
    <2>1. ASSUME NEW i \in 1 .. n + m PROVE os[i] \in ToSet(o) \cup ToSet(s)
      <3>1. CASE i <= n
        <4>1. i \in DOMAIN o /\ os[i] = o[i]
          BY <1>1, <1>2, <3>1
        <4> QED
          BY <4>1, Zenon DEF ToSet
      <3>2. CASE i > n
        <4>1. i - n \in 1 .. m /\ os[i] = s[i - n]
          BY <1>1, <1>2, <3>2
        <4> QED
          BY <1>1, <4>1 DEF ToSet
      <3> QED
        BY <1>1, <3>1, <3>2
    <2>2. ASSUME NEW i \in 1 .. n PROVE o[i] \in ToSet(os)
      <3>1. i \in 1 .. n + m /\ os[i] = o[i]
        BY <1>1, <1>2
      <3> QED
        BY <1>3, <3>1 DEF ToSet
    <2>3. ASSUME NEW i \in 1 .. m PROVE s[i] \in ToSet(os)
      <3>1. n + i \in 1 .. n + m /\ ~ (n + i <= n) /\ (n + i) - n = i
        BY <1>1
      <3>2. os[n + i] = s[i]
        BY <1>2, <3>1
      <3> QED
        BY <1>3, <3>1, <3>2 DEF ToSet
    <2> QED
      BY <1>1, <1>3, <2>1, <2>2, <2>3 DEF ToSet
  <1> QED
    BY <1>2, <1>5, <1>6 DEF os

(* ll_insert_before of one packet after the other.                         *)
LEMMA AppendedThreads ==
  ASSUME NEW o \in Seq(Packets), Distinct(o), NEW s \in Seq(Packets), Distinct(s),
         ToSet(o) \cap ToSet(s) = {},
         NEW l \in ListState, Threads(l, o)
  PROVE  Appended(l, s) \in ListState /\ Threads(Appended(l, s), o \o s)
  <1> DEFINE n == Len(o)
             m == Len(s)
             sofar(k) == SubSeq(s, 1, k)
  <1>1. n \in Nat /\ m \in Nat /\ DOMAIN o = 1 .. n /\ DOMAIN s = 1 .. m
    OBVIOUS
  <1>2. PICK f : /\ f[0] = l
                 /\ \A k \in 1 .. m : f[k] = LL!InsertBefore(f[k - 1], ListHead, s[k])
                 /\ Appended(l, s) = f[m]
    BY <1>1, AppendedSteps
  <1> DEFINE P == {k \in Nat : k <= m =>
                     f[k] \in ListState /\ Threads(f[k], o \o sofar(k))}
  <1>3. 0 \in P
    <2>1. sofar(0) = <<>>
      BY SubSeqEmpty
    <2>2. o \o sofar(0) = o
      BY <2>1, ConcatEmptySeq
    <2> QED
      BY <1>2, <2>2
  <1>4. ASSUME NEW k \in Nat, k \in P PROVE k + 1 \in P
    <2> SUFFICES ASSUME k + 1 <= m
                 PROVE  /\ f[k + 1] \in ListState
                        /\ Threads(f[k + 1], o \o sofar(k + 1))
      OBVIOUS
    <2> DEFINE os == o \o sofar(k)
               p == s[k + 1]
    <2>1. k + 1 \in 1 .. m /\ (k + 1) - 1 = k /\ k <= m
      BY <1>1
    <2>2. /\ sofar(k) \in Seq(Packets) /\ Len(sofar(k)) = k
          /\ \A i \in 1 .. k : sofar(k)[i] = s[i]
      BY <2>1
    <2>3. sofar(k + 1) = Append(sofar(k), p)
      <3>1. sofar(k + 1) \in Seq(Packets) /\ Len(sofar(k + 1)) = k + 1
        BY <2>1
      <3>2. \A i \in 1 .. k + 1 : sofar(k + 1)[i] = s[i]
        BY <2>1
      <3> QED
        BY <2>1, <2>2, <3>1, <3>2
    <2> HIDE DEF sofar
    <2>4. p \in Packets /\ p \notin ToSet(o)
      BY <1>1, <2>1 DEF ToSet
    <2>5. Distinct(sofar(k)) /\ ToSet(sofar(k)) \subseteq ToSet(s) /\ p \notin ToSet(sofar(k))
      <3>1. DOMAIN sofar(k) = 1 .. k
        BY <2>2
      <3>2. \A i \in 1 .. k : i \in 1 .. m /\ sofar(k)[i] = s[i] /\ i # k + 1
        BY <2>1, <2>2
      <3>3. \A i \in 1 .. k, j \in 1 .. k : sofar(k)[i] = sofar(k)[j] => i = j
        BY <3>2 DEF Distinct
      <3>4. \A i \in 1 .. k : sofar(k)[i] # p
        BY <2>1, <3>2 DEF Distinct
      <3> QED
        BY <1>1, <2>2, <3>1, <3>2, <3>3, <3>4 DEF Distinct, ToSet
    <2>6. /\ os \in Seq(Packets) /\ Distinct(os)
          /\ ToSet(os) = ToSet(o) \cup ToSet(sofar(k))
      BY <2>2, <2>5, ExtendedOrder
    <2>7. f[k] \in ListState /\ Threads(f[k], os)
      BY <1>4, <2>1
    <2>8. o \o sofar(k + 1) = Append(os, p)
      <3> HIDE DEF p
      <3> DEFINE t == sofar(k)
      <3> HIDE DEF t
      <3>1. t \in Seq(Packets) /\ p \in Packets
        BY <2>2, <2>4 DEF t
      <3>2. o \o Append(t, p) = Append(o \o t, p)
        BY <3>1, AppendConcat
      <3> QED
        BY <2>3, <3>2 DEF t
    <2> HIDE DEF os, p
    <2>9. \A i \in 1 .. Len(os) : os[i] # p
      <3>1. p \notin ToSet(os) /\ DOMAIN os = 1 .. Len(os)
        BY <2>4, <2>5, <2>6
      <3> QED
        BY <3>1 DEF ToSet
    <2>10. f[k + 1] = LL!InsertBefore(f[k], ListHead, p)
      BY <1>2, <2>1 DEF p
    <2> QED
      BY <2>4, <2>6, <2>7, <2>8, <2>9, <2>10, InsertThreads
  <1>5. m \in P
    <2> HIDE DEF P
    <2> QED
      BY <1>1, <1>3, <1>4, SetInduction
  <1>6. sofar(m) = s
    BY SubSeqFull
  <1> HIDE DEF sofar
  <1>7. f[m] \in ListState /\ Threads(f[m], o \o sofar(m))
    BY <1>1, <1>5
  <1> HIDE DEF P
  <1> QED
    BY <1>2, <1>6, <1>7

-----------------------------------------------------------------------------
(* The sequences of packets that are handed over.                          *)

LEMMA BatchSequence ==
  ASSUME NEW batch \in Batches
  PROVE  batch \in Seq(Packets) /\ Distinct(batch)
  <1>1. PICK m \in 0 .. MaxBatch : batch \in [1 .. m -> Packets]
    BY DEF Batches, SeqOf
  <1>2. m \in Nat
    BY BatchAssumption
  <1>3. batch \in Seq(Packets) /\ DOMAIN batch = 1 .. m /\ Len(batch) = m
    BY <1>1, <1>2
  <1>4. Distinct(batch)
    BY <1>3 DEF Batches, IsInjective, Distinct
  <1> QED
    BY <1>3, <1>4

LEMMA PrefixSequence ==
  ASSUME NEW s \in Seq(Packets), Distinct(s), NEW k \in 0 .. Len(s)
  PROVE  /\ SubSeq(s, 1, k) \in Seq(Packets)
         /\ Distinct(SubSeq(s, 1, k))
         /\ ToSet(SubSeq(s, 1, k)) \subseteq ToSet(s)
  <1> DEFINE t == SubSeq(s, 1, k)
  <1>1. k \in Nat /\ k <= Len(s) /\ Len(s) \in Nat /\ DOMAIN s = 1 .. Len(s)
    OBVIOUS
  <1>2. t \in Seq(Packets) /\ Len(t) = k /\ \A i \in 1 .. k : t[i] = s[i]
    OBVIOUS
  <1> HIDE DEF t
  <1>3. DOMAIN t = 1 .. k /\ \A i \in 1 .. k : i \in 1 .. Len(s) /\ t[i] = s[i]
    BY <1>1, <1>2
  <1>4. Distinct(t)
    BY <1>2, <1>3 DEF Distinct
  <1>5. ToSet(t) \subseteq ToSet(s)
    BY <1>1, <1>3 DEF ToSet
  <1> QED
    BY <1>2, <1>4, <1>5 DEF t

LEMMA PickedSequence ==
  ASSUME NEW s \in Seq(Packets), Distinct(s), NEW n \in 0 .. Len(s),
         NEW f \in Picks(n, Len(s))
  PROVE  LET t == [i \in 1 .. n |-> s[f[i]]]
         IN t \in Seq(Packets) /\ Distinct(t) /\ ToSet(t) \subseteq ToSet(s)
  <1> DEFINE t == [i \in 1 .. n |-> s[f[i]]]
  <1>1. n \in Nat /\ DOMAIN s = 1 .. Len(s) /\ Len(s) \in Nat
    OBVIOUS
  <1>2. /\ f \in [1 .. n -> 1 .. Len(s)]
        /\ \A i, j \in 1 .. n : i < j => f[i] < f[j]
    BY DEF Picks
  <1>3. \A i \in 1 .. n : f[i] \in 1 .. Len(s) /\ s[f[i]] \in Packets
    BY <1>2
  <1>4. t \in Seq(Packets) /\ Len(t) = n /\ DOMAIN t = 1 .. n
    <2>1. t \in [1 .. n -> Packets]
      BY <1>3
    <2> QED
      BY <1>1, <2>1
  <1>5. \A i \in 1 .. n : t[i] = s[f[i]]
    OBVIOUS
  <1> HIDE DEF t
  <1>6. ASSUME NEW i \in 1 .. n, NEW j \in 1 .. n, t[i] = t[j] PROVE i = j
    <2>1. f[i] = f[j]
      BY <1>3, <1>5, <1>6 DEF Distinct
    <2>2. ~ (i < j) /\ ~ (j < i)
      BY <1>2, <1>3, <2>1
    <2> QED
      BY <1>1, <2>2
  <1>7. Distinct(t)
    BY <1>4, <1>6 DEF Distinct
  <1>8. ToSet(t) \subseteq ToSet(s)
    BY <1>1, <1>3, <1>4, <1>5 DEF ToSet
  <1> QED
    BY <1>4, <1>7, <1>8 DEF t

(* An element of a sequence without repetitions has one place in it.       *)
LEMMA OnePlace ==
  ASSUME NEW s \in Seq(Packets), Distinct(s), NEW q
  PROVE  Cardinality({i \in DOMAIN s : s[i] = q}) = IF q \in ToSet(s) THEN 1 ELSE 0
  <1> DEFINE I == {i \in DOMAIN s : s[i] = q}
  <1>1. DOMAIN s = 1 .. Len(s)
    OBVIOUS
  <1>2. CASE q \in ToSet(s)
    <2>1. PICK k \in 1 .. Len(s) : s[k] = q
      BY <1>1, <1>2 DEF ToSet
    <2>2. I = {k}
      BY <1>1, <2>1 DEF Distinct
    <2> HIDE DEF I
    <2>3. Cardinality(I) = 1
      BY <2>2, FS_Singleton
    <2> QED
      BY <1>2, <2>3 DEF I
  <1>3. CASE q \notin ToSet(s)
    <2>1. I = {}
      BY <1>3 DEF ToSet
    <2> HIDE DEF I
    <2>2. Cardinality(I) = 0
      BY <2>1, FS_EmptySet
    <2> QED
      BY <1>3, <2>2 DEF I
  <1> QED
    BY <1>2, <1>3

-----------------------------------------------------------------------------
(* The invariant.  Until the tree has misled a call, a counter is only     *)
(* known to stay at or above zero because it is a number of packets, and   *)
(* the list is only known to be threaded because a packet is handed over   *)
(* once and so is in it once.  The links say which packets a               *)
(* retransmission may not mark again.                                      *)

Links ==
  /\ \A p \in Packets :
       /\ Distinct(retransAs[p])
       /\ ToSet(retransAs[p]) = {q \in Packets : retransOf[q] = p}
  /\ \A q \in Packets : retransOf[q] # NULL => q \in used

OrderInv == Distinct(order) /\ Tracked \subseteq used

ListInv == ~ misled => list \in ListState /\ Threads(list, order)

DictInv == wear # Worn => dict = Tracked

CountInv ==
  /\ packetsCount <= Cardinality(Counted(Tracked))
  /\ cryptoCount <= Cardinality(Counted(Tracked) \ OneRTT)
  /\ ~ misled => /\ packetsCount = Cardinality(Counted(Tracked))
                 /\ cryptoCount = Cardinality(Counted(Tracked) \ OneRTT)

HistoryInv == TypeOK /\ OrderInv /\ ListInv /\ DictInv /\ CountInv /\ Links

(* The three parts that speak of the list and of the packets in it.        *)
LEMMA SameRecords ==
  ASSUME HistoryInv, UNCHANGED <<list, dict, order, used, removed, wear>>,
         ~ misled' => ~ misled
  PROVE  Tracked' = Tracked /\ OrderInv' /\ ListInv' /\ DictInv'
  <1>1. Tracked' = Tracked
    BY DEF Tracked, ToSet
  <1>2. Distinct(order)' <=> Distinct(order)
    BY DEF Distinct
  <1>3. Threads(list, order)' <=> Threads(list, order)
    BY DEF Threads, At
  <1>4. OrderInv'
    BY <1>1, <1>2 DEF HistoryInv, OrderInv
  <1>5. ListInv'
    BY <1>3 DEF HistoryInv, ListInv
  <1>6. DictInv'
    BY <1>1 DEF HistoryInv, DictInv
  <1> QED
    BY <1>1, <1>4, <1>5, <1>6

LEMMA CountedFinite ==
  ASSUME NEW S
  PROVE  S \subseteq Packets =>
           /\ IsFiniteSet(Counted(S)) /\ IsFiniteSet(Counted(S) \ OneRTT)
           /\ Cardinality(Counted(S)) \in Nat
           /\ Cardinality(Counted(S) \ OneRTT) \in Nat
  <1> SUFFICES ASSUME S \subseteq Packets
               PROVE  /\ IsFiniteSet(Counted(S)) /\ IsFiniteSet(Counted(S) \ OneRTT)
                      /\ Cardinality(Counted(S)) \in Nat
                      /\ Cardinality(Counted(S) \ OneRTT) \in Nat
    OBVIOUS
  <1>1. Counted(S) \in SUBSET Packets /\ Counted(S) \ OneRTT \in SUBSET Packets
    BY DEF Counted
  <1>2. IsFiniteSet(Counted(S)) /\ IsFiniteSet(Counted(S) \ OneRTT)
    BY <1>1, PacketsAssumption, FS_Subset
  <1> QED
    BY <1>2, FS_CardinalityType

LEMMA InitHistory == Init => HistoryInv
  <1> SUFFICES ASSUME Init PROVE HistoryInv
    OBVIOUS
  <1>1. order = <<>> /\ Tracked = {} /\ Len(order) = 0
    BY DEF Init, Tracked, ToSet
  <1>2. TypeOK
    <2>1. allow \in [Packets -> BOOLEAN]
      <3>1. allow = [p \in Packets |-> p \in Retransmittable]
        BY Zenon DEF Init
      <3>2. \A p \in Packets : (p \in Retransmittable) \in BOOLEAN
        OBVIOUS
      <3> QED
        BY <3>1, <3>2, Zenon
    <2>2. retransAs \in [Packets -> Seq(Packets)]
      <3>1. <<>> \in Seq(Packets)
        OBVIOUS
      <3> QED
        BY <3>1, Zenon DEF Init
    <2>3. retransOf \in [Packets -> Packets \cup {NULL}]
      BY DEF Init
    <2>4. order \in Seq(Packets)
      BY <1>1
    <2>5. packetsCount \in Int /\ cryptoCount \in Int
      BY DEF Init
    <2>6. wear \in Wear
      <3>1. wear = 0
        BY Zenon DEF Init
      <3> QED
        BY <3>1 DEF Wear, Worn
    <2>7. /\ dict = {} /\ first = NULL /\ crashed = FALSE /\ used = {} /\ removed = {}
          /\ misled = FALSE
      BY Zenon DEF Init
    <2>8. /\ dict \subseteq Tracked \cup removed /\ used \subseteq Packets
          /\ removed \subseteq used /\ first \in Packets \cup {ListHead, NULL}
      BY <2>7
    <2>9. crashed \in BOOLEAN /\ misled \in BOOLEAN
      BY <2>7, Zenon
    <2> QED
      BY <2>1, <2>2, <2>3, <2>4, <2>5, <2>6, <2>8, <2>9, Zenon DEF TypeOK
  <1>3. OrderInv /\ ListInv
    <2>1. list \in ListState
      BY DEF Init, LL!HeadInit, ListState, Place
    <2>2. Threads(list, order)
      BY <1>1 DEF Init, LL!HeadInit, Threads, At
    <2> QED
      BY <1>1, <2>1, <2>2 DEF ListInv, OrderInv, Distinct
  <1>4. DictInv
    BY <1>1 DEF Init, DictInv
  <1>5. CountInv
    <2>1. Counted(Tracked) = {} /\ Counted(Tracked) \ OneRTT = {}
      BY <1>1 DEF Counted
    <2>2. Cardinality(Counted(Tracked)) = 0 /\ Cardinality(Counted(Tracked) \ OneRTT) = 0
      BY <2>1, FS_EmptySet
    <2>3. packetsCount = 0 /\ cryptoCount = 0
      BY DEF Init
    <2> QED
      BY <2>2, <2>3 DEF CountInv
  <1>6. Links
    <2>1. ASSUME NEW p \in Packets
          PROVE  /\ Distinct(retransAs[p])
                 /\ ToSet(retransAs[p]) = {q \in Packets : retransOf[q] = p}
      <3>1. retransAs[p] = <<>> /\ \A q \in Packets : retransOf[q] = NULL
        BY DEF Init
      <3>2. p # NULL
        BY NamesAssumption
      <3> QED
        BY <3>1, <3>2 DEF Distinct, ToSet
    <2>2. \A q \in Packets : retransOf[q] = NULL
      BY DEF Init
    <2> QED
      BY <2>1, <2>2 DEF Links
  <1> QED
    BY <1>2, <1>3, <1>4, <1>5, <1>6 DEF HistoryInv

-----------------------------------------------------------------------------
(* sent_packet_sent of packets that were handed over just now.             *)
LEMMA SendAllStep ==
  ASSUME HistoryInv, NEW s \in Seq(Packets), Distinct(s), SendAll(s),
         NEW S \in SUBSET Packets, ToSet(s) \subseteq S, HandOver(S),
         UNCHANGED <<allow, retransAs, retransOf, crashed, removed, misled>>
  PROVE  HistoryInv'
  <1>1. /\ order \in Seq(Packets) /\ Distinct(order) /\ Tracked \subseteq used
        /\ ToSet(order) \cap ToSet(s) = {} /\ used \subseteq Packets
        /\ ToSet(s) \subseteq Packets
    BY DEF HistoryInv, OrderInv, TypeOK, HandOver, Tracked
  <1>2. order' = order \o s /\ used' = used \cup S
    BY DEF SendAll, HandOver
  <1>3. /\ order' \in Seq(Packets) /\ Distinct(order)'
        /\ Tracked' = Tracked \cup ToSet(s)
    BY <1>1, <1>2, ExtendedOrder DEF Tracked, Distinct
  <1>4. OrderInv' /\ ListInv'
    <2>1. ASSUME ~ misled'
          PROVE  list' \in ListState /\ Threads(list', order')
      <3>1. list \in ListState /\ Threads(list, order)
        BY <2>1 DEF HistoryInv, ListInv
      <3>2. Appended(list, s) \in ListState /\ Threads(Appended(list, s), order \o s)
        BY <1>1, <3>1, AppendedThreads
      <3>3. list' = Appended(list, s)
        BY DEF SendAll
      <3> QED
        BY <1>2, <3>2, <3>3
    <2>2. Threads(list, order)' <=> Threads(list', order')
      BY DEF Threads, At
    <2>3. OrderInv'
      BY <1>1, <1>2, <1>3 DEF OrderInv
    <2>4. ListInv'
      BY <2>1, <2>2 DEF ListInv
    <2> QED
      BY <2>3, <2>4
  <1>5. /\ wear' \in Wear /\ DictInv'
        /\ dict' \subseteq Tracked \cup ToSet(s) \cup removed
    <2>1. dict \subseteq Tracked \cup removed /\ wear \in Wear
      BY DEF HistoryInv, TypeOK
    <2>2. wear # Worn => dict = Tracked
      BY DEF HistoryInv, DictInv
    <2>3. CASE s = <<>>
      <3>1. wear' = wear /\ dict' = dict /\ ToSet(s) = {}
        BY <2>3 DEF SendAll, ToSet
      <3> QED
        BY <1>3, <2>1, <2>2, <3>1 DEF DictInv
    <2>4. CASE s # <<>>
      <3>1. DictAfter(dict \cup ToSet(s), AfterInsert(wear))
        BY <2>4 DEF SendAll
      <3>2. /\ wear' = AfterInsert(wear)
            /\ wear' # Worn => dict' = dict \cup ToSet(s)
            /\ dict' \subseteq dict \cup ToSet(s) \cup Tracked \cup removed
        BY <3>1 DEF DictAfter
      <3>3. wear' \in Wear /\ (wear' # Worn => wear # Worn)
        BY <3>2 DEF AfterInsert, Wear, Worn
      <3> QED
        BY <1>3, <2>1, <2>2, <3>2, <3>3 DEF DictInv
    <2> QED
      BY <2>3, <2>4
  <1>6. CountInv'
    <2> DEFINE A == Counted(Tracked)
               B == Counted(ToSet(s))
    <2>1. /\ Counted(Tracked)' = A \cup B /\ A \cap B = {}
          /\ (Counted(Tracked) \ OneRTT)' = (A \ OneRTT) \cup (B \ OneRTT)
          /\ (A \ OneRTT) \cap (B \ OneRTT) = {}
      BY <1>1, <1>3 DEF Counted, Tracked
    <2>2. /\ IsFiniteSet(A) /\ IsFiniteSet(B)
          /\ IsFiniteSet(A \ OneRTT) /\ IsFiniteSet(B \ OneRTT)
          /\ Cardinality(A) \in Nat /\ Cardinality(B) \in Nat
          /\ Cardinality(A \ OneRTT) \in Nat /\ Cardinality(B \ OneRTT) \in Nat
      BY <1>1, CountedFinite
    <2>3. /\ packetsCount <= Cardinality(A) /\ cryptoCount <= Cardinality(A \ OneRTT)
          /\ packetsCount \in Int /\ cryptoCount \in Int
          /\ packetsCount' = packetsCount + Cardinality(B)
          /\ cryptoCount' = cryptoCount + Cardinality(B \ OneRTT)
      BY DEF HistoryInv, TypeOK, CountInv, SendAll
    <2>0. ~ misled' => packetsCount = Cardinality(A) /\ cryptoCount = Cardinality(A \ OneRTT)
      BY DEF HistoryInv, CountInv
    <2> HIDE DEF A, B
    <2>4. Cardinality(A \cup B) = Cardinality(A) + Cardinality(B)
      <3>1. Cardinality(A \cap B) = 0
        BY <2>1, FS_EmptySet
      <3>2. Cardinality(A \cup B) = Cardinality(A) + Cardinality(B) - Cardinality(A \cap B)
        BY <2>2, FS_Union
      <3> QED
        BY <2>2, <3>1, <3>2
    <2>5. Cardinality((A \ OneRTT) \cup (B \ OneRTT)) =
            Cardinality(A \ OneRTT) + Cardinality(B \ OneRTT)
      <3> DEFINE C == A \ OneRTT
                 D == B \ OneRTT
      <3> HIDE DEF C, D
      <3>1. IsFiniteSet(C) /\ IsFiniteSet(D) /\ C \cap D = {}
        BY <2>1, <2>2 DEF C, D
      <3>2. Cardinality(C) \in Nat /\ Cardinality(D) \in Nat
        BY <2>2 DEF C, D
      <3>3. Cardinality(C \cap D) = 0
        BY <3>1, FS_EmptySet
      <3>4. Cardinality(C \cup D) = Cardinality(C) + Cardinality(D) - Cardinality(C \cap D)
        BY <3>1, FS_Union
      <3>5. Cardinality(C \cup D) = Cardinality(C) + Cardinality(D)
        BY <3>2, <3>3, <3>4
      <3> QED
        BY <3>5 DEF C, D
    <2>6. /\ Cardinality(Counted(Tracked)') = Cardinality(A) + Cardinality(B)
          /\ Cardinality((Counted(Tracked) \ OneRTT)') =
               Cardinality(A \ OneRTT) + Cardinality(B \ OneRTT)
      BY <2>1, <2>4, <2>5
    <2>7. /\ packetsCount' <= Cardinality(Counted(Tracked)')
          /\ cryptoCount' <= Cardinality((Counted(Tracked) \ OneRTT)')
      BY <2>2, <2>3, <2>6
    <2>8. ~ misled' => /\ packetsCount' = Cardinality(Counted(Tracked)')
                      /\ cryptoCount' = Cardinality((Counted(Tracked) \ OneRTT)')
      BY <2>0, <2>3, <2>6
    <2> QED
      BY <2>7, <2>8 DEF CountInv
  <1>7. TypeOK'
    <2>1. dict' \subseteq Tracked' \cup removed'
      BY <1>3, <1>5
    <2>2. first' \in Packets \cup {ListHead, NULL}
      <3>1. s # <<>> => s[1] \in Packets
        OBVIOUS
      <3> QED
        BY <3>1 DEF SendAll, HistoryInv, TypeOK
    <2>3. packetsCount' \in Int /\ cryptoCount' \in Int
      <3>1. Cardinality(Counted(ToSet(s))) \in Nat
            /\ Cardinality(Counted(ToSet(s)) \ OneRTT) \in Nat
        BY <1>1, CountedFinite
      <3>2. /\ packetsCount' = packetsCount + Cardinality(Counted(ToSet(s)))
            /\ cryptoCount' = cryptoCount + Cardinality(Counted(ToSet(s)) \ OneRTT)
        BY Zenon DEF SendAll
      <3>3. packetsCount \in Int /\ cryptoCount \in Int
        BY Zenon DEF HistoryInv, TypeOK
      <3> QED
        BY <3>1, <3>2, <3>3
    <2>4. used' \subseteq Packets /\ removed' \subseteq used'
      BY <1>1, <1>2 DEF HistoryInv, TypeOK
    <2> QED
      BY <1>3, <1>5, <2>1, <2>2, <2>3, <2>4 DEF HistoryInv, TypeOK
  <1>8. Links'
    BY <1>2 DEF HistoryInv, Links, Distinct, ToSet
  <1> QED
    BY <1>4, <1>5, <1>6, <1>7, <1>8 DEF HistoryInv

(* sent_packet_retransmission that links its packets to the one they       *)
(* replace.                                                                *)
LEMMA LinkStep ==
  ASSUME HistoryInv, NEW p \in Packets, NEW batch \in Seq(Packets), Distinct(batch),
         HandOver(ToSet(batch)), RetransmissionKnown(batch, p)
  PROVE  HistoryInv'
  <1>1. PICK done \in 0 .. Len(batch) :
          /\ retransAs' = [retransAs EXCEPT ![p] = @ \o SubSeq(batch, 1, done)]
          /\ retransOf' = [q \in Packets |->
                             IF q \in ToSet(SubSeq(batch, 1, done)) THEN p ELSE retransOf[q]]
    BY DEF RetransmissionKnown, Marked
  <1> DEFINE b == SubSeq(batch, 1, done)
  <1>2. /\ b \in Seq(Packets) /\ Distinct(b)
        /\ ToSet(b) \subseteq ToSet(batch) /\ ToSet(batch) \subseteq Packets
    BY PrefixSequence DEF ToSet
  <1> HIDE DEF b
  <1>3. /\ UNCHANGED <<list, dict, first, packetsCount, cryptoCount, order, allow,
                       crashed, removed, wear, misled>>
        /\ ToSet(batch) \cap used = {} /\ used' = used \cup ToSet(batch)
    BY DEF RetransmissionKnown, HandOver
  <1>4. /\ retransAs \in [Packets -> Seq(Packets)]
        /\ retransOf \in [Packets -> Packets \cup {NULL}]
        /\ used \subseteq Packets /\ removed \subseteq used
    BY DEF HistoryInv, TypeOK
  <1>5. /\ \A q \in ToSet(b) : q \in Packets /\ retransOf[q] = NULL
        /\ p # NULL
    BY <1>2, <1>3, NamesAssumption DEF HistoryInv, Links
  <1>6. /\ retransAs' \in [Packets -> Seq(Packets)]
        /\ retransAs'[p] = retransAs[p] \o b
        /\ \A x \in Packets : x # p => retransAs'[x] = retransAs[x]
    <2>1. retransAs[p] \o b \in Seq(Packets)
      BY <1>2, <1>4, ConcatProperties
    <2> DEFINE c == retransAs[p] \o b
    <2> HIDE DEF c
    <2>2. retransAs' = [retransAs EXCEPT ![p] = c]
      BY <1>1 DEF b, c
    <2>3. /\ retransAs' \in [Packets -> Seq(Packets)] /\ retransAs'[p] = c
          /\ \A x \in Packets : x # p => retransAs'[x] = retransAs[x]
      BY <1>4, <2>1, <2>2 DEF c
    <2> QED
      BY <2>3 DEF c
  <1>7. /\ retransOf' \in [Packets -> Packets \cup {NULL}]
        /\ \A q \in Packets : retransOf'[q] = IF q \in ToSet(b) THEN p ELSE retransOf[q]
    BY <1>1, <1>4 DEF b
  <1>8. Links'
    <2>1. ASSUME NEW x \in Packets
          PROVE  /\ Distinct(retransAs'[x])
                 /\ ToSet(retransAs'[x]) = {q \in Packets : retransOf'[q] = x}
      <3>1. /\ retransAs[x] \in Seq(Packets) /\ Distinct(retransAs[x])
            /\ ToSet(retransAs[x]) = {q \in Packets : retransOf[q] = x}
        BY <1>4 DEF HistoryInv, Links
      <3>2. CASE x = p
        <4>1. ToSet(retransAs[p]) \cap ToSet(b) = {}
          BY <1>5, <3>1, <3>2
        <4>2. /\ Distinct(retransAs[p] \o b)
              /\ ToSet(retransAs[p] \o b) = ToSet(retransAs[p]) \cup ToSet(b)
          BY <1>2, <3>1, <3>2, <4>1, ExtendedOrder
        <4>3. {q \in Packets : retransOf'[q] = p} =
                {q \in Packets : retransOf[q] = p} \cup ToSet(b)
          BY <1>5, <1>7
        <4> QED
          BY <1>6, <3>1, <3>2, <4>2, <4>3
      <3>3. CASE x # p
        <4>1. x # NULL
          BY NamesAssumption
        <4>2. \A q \in Packets : retransOf'[q] = x <=> retransOf[q] = x
          BY <1>5, <1>7, <3>3, <4>1
        <4> QED
          BY <1>6, <3>1, <3>3, <4>2
      <3> QED
        BY <3>2, <3>3
    <2>2. \A q \in Packets : retransOf'[q] # NULL => q \in used'
      BY <1>2, <1>3, <1>7 DEF HistoryInv, Links
    <2>3. \A x \in Packets : Distinct(retransAs[x])' <=> Distinct(retransAs'[x])
      BY DEF Distinct
    <2>4. \A x \in Packets : ToSet(retransAs[x])' = ToSet(retransAs'[x])
      BY DEF ToSet
    <2> QED
      BY <2>1, <2>2, <2>3, <2>4 DEF Links
  <1>9. Tracked' = Tracked /\ Counted(Tracked)' = Counted(Tracked)
    BY <1>3 DEF Tracked, Counted, ToSet
  <1>10. TypeOK'
    BY <1>2, <1>3, <1>4, <1>6, <1>7, <1>9 DEF HistoryInv, TypeOK
  <1>11. OrderInv' /\ ListInv' /\ DictInv' /\ CountInv'
    <2>1. Distinct(order)' <=> Distinct(order)
      BY <1>3 DEF Distinct
    <2>2. Threads(list, order)' <=> Threads(list, order)
      BY <1>3 DEF Threads, At
    <2>3. OrderInv'
      BY <1>3, <1>9, <2>1 DEF HistoryInv, OrderInv
    <2>4. ListInv'
      BY <1>3, <2>2 DEF HistoryInv, ListInv
    <2>5. DictInv' /\ CountInv'
      BY <1>3, <1>9 DEF HistoryInv, DictInv, CountInv
    <2> QED
      BY <2>3, <2>4, <2>5
  <1> QED
    BY <1>8, <1>10, <1>11 DEF HistoryInv

-----------------------------------------------------------------------------
(* What is counted out: a counter falls with the packets it counts, and    *)
(* while the tree has not led a call to a removed packet it never runs out *)
(* under one that is still recorded.                                       *)
LEMMA UncountSteps ==
  ASSUME HistoryInv, NEW p \in dict, Uncount(p), Reaches(p)
  PROVE  LET R == IF allow[p] THEN {p} ELSE {}
             A == Counted(Tracked) \ R
             C == (Counted(Tracked) \ OneRTT) \ R
         IN /\ packetsCount' \in Int /\ cryptoCount' \in Int
            /\ packetsCount' <= Cardinality(A)
            /\ packetsCount' >= 0 => cryptoCount' <= Cardinality(C)
            /\ ~ misled' => /\ packetsCount' = Cardinality(A) /\ cryptoCount' = Cardinality(C)
                            /\ ~ Underflows /\ ~ misled /\ p \in Tracked
  <1> DEFINE A == Counted(Tracked)
             C == A \ OneRTT
             R == IF allow[p] THEN {p} ELSE {}
  <1>1. /\ Tracked \subseteq Packets /\ p \in Tracked \cup removed
        /\ packetsCount \in Int /\ cryptoCount \in Int
    BY DEF HistoryInv, OrderInv, TypeOK
  <1>2. /\ IsFiniteSet(A) /\ IsFiniteSet(C)
        /\ Cardinality(A) \in Nat /\ Cardinality(C) \in Nat
    BY <1>1, CountedFinite
  <1>3. packetsCount <= Cardinality(A) /\ cryptoCount <= Cardinality(C)
    BY DEF HistoryInv, CountInv
  <1>4. /\ p \in A => allow[p]
        /\ p \in C => allow[p] /\ p \notin OneRTT
        /\ p \in Tracked => (p \in A <=> allow[p]) /\ (p \in C <=> allow[p] /\ p \notin OneRTT)
    BY <1>1 DEF Counted
  <1>5. ~ misled' => /\ ~ misled /\ p \in Tracked
                     /\ packetsCount = Cardinality(A) /\ cryptoCount = Cardinality(C)
    <2>1. ~ misled' => ~ misled /\ p \notin removed
      BY DEF Reaches
    <2> QED
      BY <1>1, <2>1 DEF HistoryInv, CountInv
  <1> HIDE DEF A, C
  <1>6. /\ Cardinality(A \ {p}) = IF p \in A THEN Cardinality(A) - 1 ELSE Cardinality(A)
        /\ Cardinality(C \ {p}) = IF p \in C THEN Cardinality(C) - 1 ELSE Cardinality(C)
        /\ IsFiniteSet(A \ {p}) /\ IsFiniteSet(C \ {p})
    BY <1>2, FS_RemoveElement
  <1>7. Cardinality(A \ {p}) \in Nat /\ Cardinality(C \ {p}) \in Nat
    BY <1>6, FS_CardinalityType
  <1>8. CASE allow[p]
    <2>1. R = {p}
      BY <1>8
    <2>2. /\ packetsCount' = packetsCount - 1
          /\ cryptoCount' = IF p \notin OneRTT /\ packetsCount' >= 0
                            THEN cryptoCount - 1 ELSE cryptoCount
      BY <1>8 DEF Uncount
    <2>3. packetsCount' \in Int /\ cryptoCount' \in Int
      BY <1>1, <2>2
    <2>4. packetsCount' <= Cardinality(A \ {p})
      BY <1>1, <1>2, <1>3, <1>6, <2>2
    <2>5. packetsCount' >= 0 => cryptoCount' <= Cardinality(C \ {p})
      BY <1>1, <1>2, <1>3, <1>4, <1>6, <2>2
    <2>6. ASSUME ~ misled'
          PROVE  /\ packetsCount' = Cardinality(A \ {p}) /\ cryptoCount' = Cardinality(C \ {p})
                 /\ ~ Underflows
      <3>1. packetsCount' = Cardinality(A \ {p})
        BY <1>4, <1>5, <1>6, <1>8, <2>2, <2>6
      <3>2. packetsCount' >= 0
        BY <1>7, <3>1
      <3>3. cryptoCount' = Cardinality(C \ {p})
        BY <1>4, <1>5, <1>6, <1>8, <2>2, <2>6, <3>2
      <3>4. ~ Underflows
        BY <1>7, <3>1, <3>3 DEF Underflows
      <3> QED
        BY <3>1, <3>3, <3>4
    <2> QED
      BY <1>5, <2>1, <2>3, <2>4, <2>5, <2>6 DEF A, C
  <1>9. CASE ~ allow[p]
    <2>1. A \ R = A /\ C \ R = C
      BY <1>9
    <2>2. packetsCount' = packetsCount /\ cryptoCount' = cryptoCount
      BY <1>9 DEF Uncount
    <2>3. ~ misled' => ~ Underflows
      BY <1>2, <1>5, <2>2 DEF Underflows
    <2> QED
      BY <1>1, <1>3, <1>5, <2>1, <2>2, <2>3 DEF A, C
  <1> QED
    BY <1>8, <1>9

(* A call that returns early has at most counted too much out.             *)
LEMMA UnderflowKeeps ==
  ASSUME HistoryInv, NEW p \in dict, Uncount(p), Reaches(p), Underflows,
         UNCHANGED <<list, dict, allow, retransAs, retransOf, order, used, removed, wear>>,
         first' \in Packets \cup {ListHead, NULL}, crashed' \in BOOLEAN
  PROVE  HistoryInv'
  <1>1. /\ packetsCount' \in Int /\ cryptoCount' \in Int
        /\ misled'
    BY UncountSteps
  <1>2. misled' \in BOOLEAN
    BY DEF Reaches
  <1>3. Tracked' = Tracked /\ OrderInv' /\ ListInv' /\ DictInv'
    BY <1>1, SameRecords
  <1>4. TypeOK'
    BY <1>1, <1>2, <1>3 DEF HistoryInv, TypeOK
  <1>5. Links'
    <2>1. Links' <=> Links
      BY DEF Links, Distinct, ToSet
    <2> QED
      BY <2>1 DEF HistoryInv
  <1>6. CountInv'
    <2> DEFINE A == Counted(Tracked)
               C == A \ OneRTT
    <2>1. Counted(Tracked)' = A /\ (Counted(Tracked) \ OneRTT)' = C
      BY <1>3 DEF Counted
    <2>2. /\ packetsCount \in Int /\ cryptoCount \in Int /\ Tracked \subseteq Packets
          /\ packetsCount <= Cardinality(A) /\ cryptoCount <= Cardinality(C)
      BY DEF HistoryInv, TypeOK, OrderInv, CountInv
    <2>3. Cardinality(A) \in Nat /\ Cardinality(C) \in Nat
      BY <2>2, CountedFinite
    <2>4. packetsCount' <= packetsCount /\ cryptoCount' <= cryptoCount
      BY <2>2 DEF Uncount
    <2> HIDE DEF A, C
    <2>5. packetsCount' <= Cardinality(A) /\ cryptoCount' <= Cardinality(C)
      BY <1>1, <2>2, <2>3, <2>4
    <2> QED
      BY <1>1, <2>1, <2>5 DEF CountInv, A, C
  <1> QED
    BY <1>3, <1>4, <1>5, <1>6 DEF HistoryInv

LEMMA ReadjustTypes ==
  ASSUME HistoryInv, PerhapsReadjust
  PROVE  first' \in Packets \cup {ListHead, NULL} /\ crashed' \in BOOLEAN
  <1>1. /\ Tracked \subseteq Packets /\ removed \subseteq Packets
        /\ first \in Packets \cup {ListHead, NULL} /\ crashed \in BOOLEAN
    BY DEF HistoryInv, OrderInv, TypeOK
  <1>2. CASE UNCHANGED <<first, crashed>>
    BY <1>1, <1>2
  <1>3. CASE ReadjustFirst
    <2>1. CASE list.next[first] = ListHead
      BY <1>1, <1>3, <2>1 DEF ReadjustFirst
    <2>2. CASE list.next[first] # ListHead
      <3>1. crashed' \in BOOLEAN
        BY <1>3, <2>2 DEF ReadjustFirst
      <3>2. first' \in {first} \cup (Tracked \cup removed \cup {ListHead})
        BY <1>3, <2>2 DEF ReadjustFirst
      <3> QED
        BY <1>1, <3>1, <3>2
    <2> QED
      BY <2>1, <2>2
  <1> QED
    BY <1>2, <1>3 DEF PerhapsReadjust

LEMMA MarkStep ==
  ASSUME HistoryInv, NEW p \in Packets, MarkCannotRetrans(p)
  PROVE  HistoryInv'
  <1> DEFINE R == IF allow[p] THEN {p} ELSE {}
             A == Counted(Tracked) \ R
             C == (Counted(Tracked) \ OneRTT) \ R
  <1>1. /\ p \in dict /\ Uncount(p) /\ Reaches(p)
        /\ UNCHANGED <<list, dict, retransAs, retransOf, order, used, removed, wear>>
    BY DEF MarkCannotRetrans
  <1>2. CASE Underflows
    <2>1. UNCHANGED <<allow, first, crashed>>
      BY <1>2 DEF MarkCannotRetrans
    <2>2. first \in Packets \cup {ListHead, NULL} /\ crashed \in BOOLEAN
      BY DEF HistoryInv, TypeOK
    <2> QED
      BY <1>1, <1>2, <2>1, <2>2, UnderflowKeeps
  <1>3. CASE ~ Underflows
    <2>1. allow' = [allow EXCEPT ![p] = FALSE] /\ PerhapsReadjust
      BY <1>3 DEF MarkCannotRetrans
    <2>2. /\ packetsCount' \in Int /\ cryptoCount' \in Int
          /\ packetsCount' <= Cardinality(A)
          /\ packetsCount' >= 0 => cryptoCount' <= Cardinality(C)
          /\ ~ misled' => /\ packetsCount' = Cardinality(A) /\ cryptoCount' = Cardinality(C)
                          /\ ~ misled
      BY <1>1, UncountSteps
    <2>3. Tracked' = Tracked /\ OrderInv' /\ ListInv' /\ DictInv'
      BY <1>1, <2>2, SameRecords
    <2>4. /\ allow' \in [Packets -> BOOLEAN]
          /\ \A q \in Packets : allow'[q] <=> allow[q] /\ q # p
      <3>1. allow \in [Packets -> BOOLEAN]
        BY DEF HistoryInv, TypeOK
      <3> QED
        BY <2>1, <3>1
    <2>5. Counted(Tracked)' = A /\ (Counted(Tracked) \ OneRTT)' = C
      <3>1. Tracked \subseteq Packets
        BY DEF HistoryInv, OrderInv, TypeOK
      <3>2. Counted(Tracked)' = {q \in Tracked : allow'[q]}
        BY <2>3 DEF Counted
      <3>3. A = {q \in Tracked : allow'[q]}
        BY <2>4, <3>1 DEF Counted
      <3> QED
        BY <3>2, <3>3
    <2> HIDE DEF A, C
    <2>6. packetsCount' >= 0
      BY <1>3, <2>2 DEF Underflows
    <2>7. CountInv'
      BY <2>2, <2>5, <2>6 DEF CountInv
    <2>8. TypeOK'
      BY <1>1, <2>1, <2>2, <2>3, <2>4, ReadjustTypes DEF HistoryInv, TypeOK, Reaches
    <2>9. Links' <=> Links
      BY <1>1 DEF Links, Distinct, ToSet
    <2> QED
      BY <2>3, <2>7, <2>8, <2>9 DEF HistoryInv
  <1> QED
    BY <1>2, <1>3

LEMMA UnlinkStep ==
  ASSUME HistoryInv, NEW p \in dict, Uncount(p), Reaches(p), ~ Underflows, Unlink(p),
         UNCHANGED <<allow, retransAs, retransOf, used>>,
         first' \in Packets \cup {ListHead, NULL}, crashed' \in BOOLEAN
  PROVE  HistoryInv'
  <1> DEFINE R == IF allow[p] THEN {p} ELSE {}
             A == Counted(Tracked) \ R
             C == (Counted(Tracked) \ OneRTT) \ R
  <1>1. /\ packetsCount' \in Int /\ cryptoCount' \in Int
        /\ packetsCount' <= Cardinality(A)
        /\ packetsCount' >= 0 => cryptoCount' <= Cardinality(C)
        /\ ~ misled' => /\ packetsCount' = Cardinality(A) /\ cryptoCount' = Cardinality(C)
                        /\ ~ misled /\ p \in Tracked
    BY UncountSteps
  <1>2. /\ list' = LL!Remove(list, p) /\ order' = RemoveFirst(order, p)
        /\ removed' = removed \cup {p} /\ wear' = AfterDelete(wear)
        /\ wear' # Worn => dict' = dict \ {p}
        /\ dict' \subseteq dict \cup Tracked \cup removed
    BY DEF Unlink, DictAfter
  <1>3. /\ order \in Seq(Packets) /\ Distinct(order) /\ Tracked = ToSet(order)
        /\ Tracked \subseteq used /\ used \subseteq Packets /\ removed \subseteq used
        /\ dict \subseteq Tracked \cup removed /\ wear \in Wear
        /\ Tracked' = ToSet(order')
    BY DEF HistoryInv, OrderInv, TypeOK, Tracked, ToSet
  <1>4. /\ order' \in Seq(Packets) /\ Distinct(order') /\ ToSet(order') = ToSet(order) \ {p}
        /\ p \in ToSet(order) => \E k \in 1 .. Len(order) : p = order[k] /\ order' = RemoveAt(order, k)
    <2>1. CASE p \in ToSet(order)
      BY <1>2, <1>3, <2>1, RemovedOrder
    <2>2. CASE p \notin ToSet(order)
      <3>1. \A i \in 1 .. Len(order) : order[i] # p
        BY <1>3, <2>2 DEF ToSet
      <3>2. order' = order
        BY <1>2, <3>1 DEF RemoveFirst
      <3> QED
        BY <1>3, <2>2, <3>2
    <2> QED
      BY <2>1, <2>2
  <1>5. Tracked' = Tracked \ {p} /\ p \in used
    BY <1>3, <1>4
  <1>6. OrderInv'
    <2>1. Distinct(order)' <=> Distinct(order')
      BY DEF Distinct
    <2> QED
      BY <1>3, <1>4, <1>5, <2>1 DEF OrderInv
  <1>7. ListInv'
    <2>1. ASSUME ~ misled'
          PROVE  list' \in ListState /\ Threads(list', order')
      <3>1. list \in ListState /\ Threads(list, order) /\ p \in ToSet(order)
        BY <1>1, <1>3, <2>1 DEF HistoryInv, ListInv
      <3> QED
        BY <1>2, <1>3, <1>4, <3>1, RemoveThreads
    <2>2. Threads(list, order)' <=> Threads(list', order')
      BY DEF Threads, At
    <2> QED
      BY <2>1, <2>2 DEF ListInv
  <1>8. wear' \in Wear /\ DictInv'
    <2>1. wear' \in Wear /\ (wear' # Worn => wear # Worn)
      BY <1>2, <1>3 DEF AfterDelete, Wear, Worn
    <2> QED
      BY <1>2, <1>5, <2>1 DEF HistoryInv, DictInv
  <1>9. CountInv'
    <2>1. Counted(Tracked)' = Counted(Tracked) \ {p}
      BY <1>5 DEF Counted
    <2>2. Counted(Tracked)' = A /\ (Counted(Tracked) \ OneRTT)' = C
      BY <2>1 DEF Counted
    <2> HIDE DEF A, C
    <2>3. packetsCount' >= 0
      BY <1>1 DEF Underflows
    <2> QED
      BY <1>1, <2>2, <2>3 DEF CountInv
  <1>10. TypeOK'
    <2>1. dict' \subseteq Tracked' \cup removed'
      BY <1>2, <1>3, <1>5
    <2>2. removed' \subseteq used' /\ used' \subseteq Packets
      BY <1>2, <1>3, <1>5
    <2>3. misled' \in BOOLEAN
      BY DEF Reaches
    <2> QED
      BY <1>1, <1>4, <1>8, <2>1, <2>2, <2>3 DEF HistoryInv, TypeOK
  <1>11. Links' <=> Links
    BY DEF Links, Distinct, ToSet
  <1> QED
    BY <1>6, <1>7, <1>8, <1>9, <1>10, <1>11 DEF HistoryInv

LEMMA RemoveStep ==
  ASSUME HistoryInv, NEW p \in Packets, SentPacketRemove(p)
  PROVE  HistoryInv'
  <1>1. p \in dict /\ PerhapsReadjust /\ UNCHANGED <<allow, retransAs, retransOf, used>>
    BY DEF SentPacketRemove
  <1>2. first' \in Packets \cup {ListHead, NULL} /\ crashed' \in BOOLEAN
    BY <1>1, ReadjustTypes
  <1>3. CASE crashed'
    <2>1. UNCHANGED <<list, dict, packetsCount, cryptoCount, order, removed, wear, misled>>
      BY <1>3 DEF SentPacketRemove
    <2>2. Tracked' = Tracked /\ OrderInv' /\ ListInv' /\ DictInv'
      BY <1>1, <2>1, SameRecords
    <2>3. Counted(Tracked)' = Counted(Tracked)
      BY <1>1, <2>2 DEF Counted
    <2>4. CountInv'
      BY <2>1, <2>3 DEF HistoryInv, CountInv
    <2>5. TypeOK'
      BY <1>1, <1>2, <2>1, <2>2 DEF HistoryInv, TypeOK
    <2>6. Links' <=> Links
      BY <1>1 DEF Links, Distinct, ToSet
    <2> QED
      BY <2>2, <2>4, <2>5, <2>6 DEF HistoryInv
  <1>4. CASE ~ crashed'
    <2>1. Uncount(p) /\ Reaches(p)
      BY <1>4 DEF SentPacketRemove
    <2>2. CASE Underflows
      <3>1. UNCHANGED <<list, dict, order, removed, wear>>
        BY <1>4, <2>2 DEF SentPacketRemove
      <3> QED
        BY <1>1, <1>2, <2>1, <2>2, <3>1, UnderflowKeeps
    <2>3. CASE ~ Underflows
      <3>1. Unlink(p)
        BY <1>4, <2>3 DEF SentPacketRemove
      <3> QED
        BY <1>1, <1>2, <2>1, <2>3, <3>1, UnlinkStep
    <2> QED
      BY <2>2, <2>3
  <1> QED
    BY <1>3, <1>4

LEMMA StutterHistory ==
  ASSUME HistoryInv, UNCHANGED vars
  PROVE  HistoryInv'
  <1>1. /\ Tracked' = Tracked /\ Counted(Tracked)' = Counted(Tracked)
        /\ (Distinct(order)' <=> Distinct(order))
        /\ (Threads(list, order)' <=> Threads(list, order))
        /\ (Links' <=> Links) /\ (TypeOK' <=> TypeOK)
    BY DEF vars, Tracked, Counted, ToSet, Distinct, Threads, At, Links, TypeOK
  <1> QED
    BY <1>1 DEF vars, HistoryInv, OrderInv, ListInv, DictInv, CountInv

LEMMA HistoryStep == HistoryInv /\ [Next]_vars => HistoryInv'
  <1> SUFFICES ASSUME HistoryInv, [Next]_vars PROVE HistoryInv'
    OBVIOUS
  <1>1. ASSUME NEW p \in Packets, SentPacketSent(p) PROVE HistoryInv'
    <2>1. PICK s \in {<<p>>, <<>>} : SendAll(s)
      BY <1>1 DEF SentPacketSent
    <2>2. s \in Seq(Packets) /\ Distinct(s) /\ ToSet(s) \subseteq {p}
      <3>1. CASE s = <<p>>
        BY <3>1 DEF Distinct, ToSet
      <3>2. CASE s = <<>>
        BY <3>2 DEF Distinct, ToSet
      <3> QED
        BY <2>1, <3>1, <3>2
    <2> QED
      BY <1>1, <2>1, <2>2, SendAllStep DEF SentPacketSent
  <1>2. ASSUME NEW p \in Packets, NEW batch \in Batches, SentPacketRetransmission(batch, p)
        PROVE  HistoryInv'
    <2>1. /\ batch \in Seq(Packets) /\ Distinct(batch) /\ HandOver(ToSet(batch))
          /\ ToSet(batch) \in SUBSET Packets /\ Len(batch) \in Nat
      BY <1>2, BatchSequence DEF SentPacketRetransmission, ToSet
    <2>2. CASE RetransmissionUnknown(batch, p)
      <3>0. PICK n \in 0 .. Len(batch) : \E f \in Picks(n, Len(batch)) :
              SendAll([i \in 1 .. n |-> batch[f[i]]])
        BY <2>2 DEF RetransmissionUnknown
      <3>1. PICK f \in Picks(n, Len(batch)) : SendAll([i \in 1 .. n |-> batch[f[i]]])
        BY <3>0
      <3> DEFINE s == [i \in 1 .. n |-> batch[f[i]]]
      <3>2. s \in Seq(Packets) /\ Distinct(s) /\ ToSet(s) \subseteq ToSet(batch)
        BY <2>1, PickedSequence
      <3>3. SendAll(s)
        BY <3>1
      <3> HIDE DEF s
      <3> QED
        BY <2>1, <2>2, <3>2, <3>3, SendAllStep DEF RetransmissionUnknown
    <2>3. CASE RetransmissionKnown(batch, p)
      BY <2>1, <2>3, LinkStep
    <2> QED
      BY <1>2, <2>2, <2>3 DEF SentPacketRetransmission
  <1>3. ASSUME NEW p \in Packets, UnknownNumber(p) PROVE HistoryInv'
    BY <1>3, StutterHistory DEF UnknownNumber
  <1> QED
    BY <1>1, <1>2, <1>3, MarkStep, RemoveStep, StutterHistory DEF Next

THEOREM HistoryHolds == Spec => []HistoryInv
  BY InitHistory, HistoryStep, PTL DEF Spec

-----------------------------------------------------------------------------
(* The properties.                                                         *)

(* packets_count and crypto_packets_count are the numbers of recorded      *)
(* packets that may still be retransmitted, whatever is sent, linked,      *)
(* marked and removed in whatever order, and whatever allocations fail,    *)
(* until the tree leads a call to a packet that was removed; after that    *)
(* they never exceed those numbers.                                        *)
THEOREM CountersStayExact == Spec => []CountsExact
  <1>1. HistoryInv => CountsExact
    BY DEF HistoryInv, CountInv, CountsExact
  <1> QED
    BY <1>1, HistoryHolds, PTL

(* The dictionary finds exactly the packets in the list until its tree is  *)
(* worn, which takes a third removal or a packet sent after a removal.     *)
(* Whatever the worn tree then misses, the list threads the packets in the *)
(* order they were sent, both ways, until the tree leads a call to a       *)
(* packet that was removed.                                                *)
THEOREM RecordsStayTogether == Spec => []RecordsAgree
  <1>1. HistoryInv => RecordsAgree
    <2> SUFFICES ASSUME HistoryInv PROVE RecordsAgree
      OBVIOUS
    <2>1. order \in Seq(Packets)
      BY DEF HistoryInv, TypeOK
    <2>2. ~ misled => LL!Holds(list, order)
      BY <2>1, HoldsThreads DEF HistoryInv, ListInv, OrderInv
    <2> QED
      BY <2>2 DEF HistoryInv, DictInv, RecordsAgree, ListInSendOrder
  <1> QED
    BY <1>1, HistoryHolds, PTL

(* A packet is linked from the packet it retransmits exactly when it is    *)
(* marked as its retransmission.                                           *)
THEOREM LinksBothWays == Spec => []RetransLinked
  <1>1. HistoryInv => RetransLinked
    <2> SUFFICES ASSUME HistoryInv, NEW p \in Packets, NEW q \in Packets
                 PROVE  Cardinality({i \in DOMAIN retransAs[p] : retransAs[p][i] = q}) =
                          IF retransOf[q] = p THEN 1 ELSE 0
      BY DEF RetransLinked
    <2>1. /\ retransAs[p] \in Seq(Packets) /\ Distinct(retransAs[p])
          /\ q \in ToSet(retransAs[p]) <=> retransOf[q] = p
      BY DEF HistoryInv, TypeOK, Links
    <2> QED
      BY <2>1, OnePlace
  <1> QED
    BY <1>1, HistoryHolds, PTL
=============================================================================
