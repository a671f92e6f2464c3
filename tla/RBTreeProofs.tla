----------------------------- MODULE RBTreeProofs -----------------------------
(***************************************************************************)
(* What RBTree keeps while a tree is filled, and through the first two     *)
(* deletions after that: every key is found, links agree, the tree is      *)
(* balanced until the first deletion, and calls are short, for any set of  *)
(* keys inserted in any order.                                             *)
(***************************************************************************)
EXTENDS RBTree, SequenceLemmas, FiniteSetTheorems

(* The keys of S that a search at n looks for on side s.                   *)
Half(S, n, s) == {k \in S : k # n /\ Before(k, n) = s}

Colors == {"red", "black"}

Trees == [root : Nodes, color : [Nodes -> Colors],
          parent : [Nodes -> Nodes], child : [Nodes -> [Side -> Nodes]]]

(* r gives for each node the keys whose search passes it.                  *)
RootPassed(t, L, r) ==
  /\ t.root = Nil <=> L = {}
  /\ t.root # Nil => t.root \in L /\ L \subseteq r[t.root] /\ t.parent[t.root] = Nil

ChildrenLinked(t, L, r) ==
  \A n \in L, s \in Side :
    LET c == t.child[n][s]
    IN c # Nil => c \in L /\ t.parent[c] = n /\ r[c] = Half(r[n], n, s)

Reached(t, L, r) ==
  \A n, k \in L : k \in r[n] /\ k # n => t.child[n][Before(k, n)] # Nil

ParentsLinked(t, L) ==
  \A n \in L : n # t.root =>
    /\ t.parent[n] \in L
    /\ t.child[t.parent[n]][Before(n, t.parent[n])] = n

Nested(L, r) ==
  \A m, n \in L : m # n /\ m \in r[n] => r[m] \subseteq Half(r[n], n, Before(m, n))

Apart(L, r) ==
  \A m, n \in L : m \notin r[n] /\ n \notin r[m] => r[m] \cap r[n] = {}

Passing(L, r) ==
  /\ L \subseteq Keys
  /\ r \in [Keys -> SUBSET Keys]
  /\ \A n \in L : n \in r[n]
  /\ Nested(L, r)
  /\ Apart(L, r)

(* Nodes that are not linked, the sentinel among them, are as they were.   *)
Fresh(t, L) ==
  \A n \in Nodes \ L :
    /\ t.parent[n] = Nil
    /\ \A s \in Side : t.child[n][s] = Nil
    /\ t.color[n] = IF n = Nil THEN "black" ELSE "red"

Sentinel(t) == \A s \in Side : t.child[Nil][s] = Nil

Wired(t, L, r) ==
  /\ t \in Trees
  /\ Passing(L, r)
  /\ RootPassed(t, L, r)
  /\ ChildrenLinked(t, L, r)
  /\ Reached(t, L, r)
  /\ ParentsLinked(t, L)
  /\ Sentinel(t)

(* While nothing was deleted, a search for any key passes the root.        *)
Shape(t, L, r) ==
  /\ Wired(t, L, r)
  /\ Fresh(t, L)
  /\ t.root # Nil => r[t.root] = Keys

(* h counts the black nodes below each node.                               *)
Blackness(t, n) == IF t.color[n] = "black" THEN 1 ELSE 0

Even(t, L, h) ==
  /\ h \in [Nodes -> Nat]
  /\ h[Nil] = 0
  /\ \A n \in L, s \in Side : h[n] = h[t.child[n][s]] + Blackness(t, t.child[n][s])

(* No red node but odd is the root or has a red parent.                    *)
RedApart(t, L, odd) ==
  \A n \in L : t.color[n] = "red" /\ n # odd =>
    n # t.root /\ t.color[t.parent[n]] = "black"

Linked == IF pc = "descend" THEN inserted \ {node} ELSE inserted

Above(L, r, n) == {m \in L : n \in r[m]}
Under(L, r, n) == L \cap r[n]

FillTyped ==
  /\ pc \in {"idle", "descend", "insert"}
  /\ node \in Nodes /\ place \in Nodes /\ side = "left"
  /\ work \in Nat
  /\ inserted \subseteq Keys

Progress(r) ==
  /\ pc = "idle" => work = 0
  /\ pc = "descend" =>
       /\ node \in inserted /\ place \in Linked /\ node \in r[place]
       /\ work + Cardinality(Under(Linked, r, place)) <= Cardinality(Linked)
  /\ pc = "insert" =>
       /\ node \in inserted /\ tree.color[node] = "red"
       /\ IF tree.color[tree.parent[node]] = "red"
          THEN work + Cardinality(Above(inserted, r, node)) <= 2 * Cardinality(inserted)
          ELSE work <= 2 * Cardinality(inserted)

Odd == IF pc = "insert" THEN node ELSE Nil

Filling(r, h) ==
  /\ Shape(tree, Linked, r)
  /\ Even(tree, Linked, h)
  /\ RedApart(tree, Linked, Odd)
  /\ Progress(r)

FillInv == deleted = {} => FillTyped /\ \E r, h : Filling(r, h)

-----------------------------------------------------------------------------
(* Sides.                                                                  *)

LEMMA Sides ==
  /\ \A s \in Side : Other(s) \in Side /\ Other(s) # s /\ Other(Other(s)) = s
  /\ \A s, d \in Side : d # s => d = Other(s)
  /\ \A k, n \in Keys : Before(k, n) \in Side
  BY DEF Side, Other, Before

LEMMA OrderSwaps ==
  ASSUME NEW a \in Keys, NEW b \in Keys, a # b
  PROVE  Before(b, a) = Other(Before(a, b))
  BY KeysAssumption DEF Before, Other

LEMMA OrderTransitive ==
  ASSUME NEW a \in Keys, NEW b \in Keys, NEW c \in Keys, NEW s \in Side,
         a # b, b # c, Before(a, b) = s, Before(b, c) = s
  PROVE  a # c /\ Before(a, c) = s
  BY KeysAssumption DEF Before, Side

LEMMA KeysAreNodes ==
  /\ Nil \notin Keys /\ Keys \subseteq Nodes /\ Nil \in Nodes
  /\ \A n \in Nodes : n # Nil => n \in Keys
  BY KeysAssumption DEF Nodes

LEMMA TreeParts ==
  ASSUME NEW t \in Trees
  PROVE  /\ t.root \in Nodes
         /\ \A n \in Nodes : /\ t.color[n] \in Colors
                             /\ t.parent[n] \in Nodes
                             /\ \A s \in Side : t.child[n][s] \in Nodes
  BY DEF Trees

LEMMA HalfMember ==
  ASSUME NEW S, NEW n, NEW s
  PROVE  /\ Half(S, n, s) \subseteq S
         /\ \A k : k \in Half(S, n, s) <=> k \in S /\ k # n /\ Before(k, n) = s
  BY DEF Half

-----------------------------------------------------------------------------
(* What the assignments to one field do.                                   *)

LEMMA ColorNames == "red" \in Colors /\ "black" \in Colors /\ "red" # "black"
  BY DEF Colors

LEMMA PaintEffect ==
  ASSUME NEW t \in Trees, NEW n \in Nodes, NEW c \in Colors
  PROVE  /\ Paint(t, n, c) \in Trees
         /\ Paint(t, n, c).root = t.root /\ Paint(t, n, c).parent = t.parent
         /\ Paint(t, n, c).child = t.child
         /\ \A m \in Nodes : Paint(t, n, c).color[m] = IF m = n THEN c ELSE t.color[m]
  BY DEF Paint, Trees

LEMMA SetChildEffect ==
  ASSUME NEW t \in Trees, NEW n \in Nodes, NEW s \in Side, NEW c \in Nodes
  PROVE  /\ SetChild(t, n, s, c) \in Trees
         /\ SetChild(t, n, s, c).root = t.root
         /\ SetChild(t, n, s, c).color = t.color
         /\ SetChild(t, n, s, c).parent = t.parent
         /\ \A m \in Nodes, d \in Side :
              SetChild(t, n, s, c).child[m][d] =
                IF m = n /\ d = s THEN c ELSE t.child[m][d]
  BY DEF SetChild, Trees

LEMMA SetParentEffect ==
  ASSUME NEW t \in Trees, NEW n \in Nodes, NEW p \in Nodes
  PROVE  /\ SetParent(t, n, p) \in Trees
         /\ SetParent(t, n, p).root = t.root
         /\ SetParent(t, n, p).color = t.color
         /\ SetParent(t, n, p).child = t.child
         /\ \A m \in Nodes : SetParent(t, n, p).parent[m] = IF m = n THEN p ELSE t.parent[m]
  BY DEF SetParent, Trees

LEMMA SetRootEffect ==
  ASSUME NEW t \in Trees, NEW v \in Nodes
  PROVE  /\ [t EXCEPT !.root = v] \in Trees
         /\ [t EXCEPT !.root = v].root = v
         /\ [t EXCEPT !.root = v].color = t.color
         /\ [t EXCEPT !.root = v].child = t.child
         /\ [t EXCEPT !.root = v].parent = t.parent
  BY DEF Trees

LEMMA RotateEffect ==
  ASSUME NEW t \in Trees, NEW s \in Side, NEW n \in Keys,
         NEW up \in Keys, t.child[n][Other(s)] = up,
         NEW mid \in Nodes, t.child[up][s] = mid,
         NEW p \in Nodes, t.parent[n] = p,
         up # n, p # n, p # up, mid # n, mid # up,
         NEW u, Rotate(t, s, n) = u
  PROVE  /\ u \in Trees
         /\ u.color = t.color
         /\ u.root = IF p = Nil THEN up ELSE t.root
         /\ \A x \in Nodes : u.parent[x] =
              IF x = n THEN up ELSE IF x = up THEN p
              ELSE IF x = mid /\ mid # Nil THEN n ELSE t.parent[x]
         /\ \A x \in Nodes, d \in Side : u.child[x][d] =
              IF x = n THEN IF d = s THEN t.child[n][d] ELSE mid
              ELSE IF x = up THEN IF d = s THEN n ELSE t.child[up][d]
              ELSE IF x = p /\ p # Nil /\ d = SideOf(t, n) THEN up
              ELSE t.child[x][d]
  <1> DEFINE o == Other(s)
             t1 == SetChild(t, n, o, mid)
             t2 == IF mid # Nil THEN SetParent(t1, mid, n) ELSE t1
             t3 == SetParent(t2, up, p)
             t4 == Replace(t3, n, up)
             t5 == SetChild(t4, up, s, n)
  <1>0. n \in Nodes /\ up \in Nodes /\ o \in Side /\ o # s /\ Nil \in Nodes
    BY KeysAreNodes, Sides
  <1>o. \A d \in Side : d # s => d = o
    BY Sides
  <1> HIDE DEF o
  <1>1. /\ t1 \in Trees /\ t1.root = t.root /\ t1.color = t.color /\ t1.parent = t.parent
        /\ \A m \in Nodes, d \in Side :
             t1.child[m][d] = IF m = n /\ d = o THEN mid ELSE t.child[m][d]
    BY <1>0, SetChildEffect
  <1>2. t1.child[up][s] = mid
    BY <1>0, <1>1
  <1> HIDE DEF t1
  <1>3. /\ t2 \in Trees /\ t2.root = t.root /\ t2.color = t.color /\ t2.child = t1.child
        /\ \A m \in Nodes : t2.parent[m] = IF m = mid /\ mid # Nil THEN n ELSE t.parent[m]
    <2>1. CASE mid # Nil
      <3> DEFINE v == SetParent(t1, mid, n)
      <3>1. t1 \in Trees /\ mid \in Nodes /\ n \in Nodes
        BY <1>0, <1>1
      <3>2. /\ v \in Trees /\ v.root = t1.root /\ v.color = t1.color /\ v.child = t1.child
            /\ \A m \in Nodes : v.parent[m] = IF m = mid THEN n ELSE t1.parent[m]
        BY <3>1, SetParentEffect
      <3>3. t2 = v
        BY <2>1
      <3> HIDE DEF t2, v
      <3> QED
        BY <1>1, <2>1, <3>2, <3>3
    <2>2. CASE mid = Nil
      BY <1>1, <2>2
    <2> QED
      BY <2>1, <2>2
  <1> HIDE DEF t2
  <1>4. t2.parent[n] = p
    BY <1>0, <1>3
  <1>5. /\ t3 \in Trees /\ t3.root = t.root /\ t3.color = t.color /\ t3.child = t1.child
        /\ \A m \in Nodes : t3.parent[m] =
             IF m = up THEN p ELSE IF m = mid /\ mid # Nil THEN n ELSE t.parent[m]
    <2>1. t2 \in Trees /\ up \in Nodes /\ p \in Nodes
      BY <1>0, <1>3
    <2>2. /\ t3 \in Trees /\ t3.root = t2.root /\ t3.color = t2.color /\ t3.child = t2.child
          /\ \A m \in Nodes : t3.parent[m] = IF m = up THEN p ELSE t2.parent[m]
      BY <2>1, SetParentEffect
    <2> QED
      BY <1>3, <2>2
  <1> HIDE DEF t3
  <1>6. t3.parent[n] = p
    BY <1>0, <1>5
  <1>7. SideOf(t3, n) = SideOf(t, n)
    <2>1. t3.child[p]["left"] = t.child[p]["left"]
      BY <1>1, <1>5 DEF Side
    <2> QED
      BY <1>6, <2>1 DEF SideOf
  <1>8. SideOf(t, n) \in Side
    BY DEF SideOf, Side
  <1>9. /\ t4 \in Trees /\ t4.root = (IF p = Nil THEN up ELSE t.root) /\ t4.color = t.color
        /\ t4.parent = t3.parent
        /\ \A m \in Nodes, d \in Side :
             t4.child[m][d] = IF m = p /\ p # Nil /\ d = SideOf(t, n) THEN up
                              ELSE t1.child[m][d]
    <2>1. CASE p = Nil
      <3>1. t4 = [t3 EXCEPT !.root = up]
        BY <1>6, <2>1 DEF Replace
      <3> HIDE DEF t4
      <3> QED
        BY <1>0, <1>5, <2>1, <3>1, SetRootEffect
    <2>2. CASE p # Nil
      <3> DEFINE v == SetChild(t3, p, SideOf(t, n), up)
      <3>1. t3 \in Trees /\ p \in Nodes /\ SideOf(t, n) \in Side /\ up \in Nodes
        BY <1>0, <1>5, <1>8
      <3>2. /\ v \in Trees /\ v.root = t3.root /\ v.color = t3.color
            /\ v.parent = t3.parent
            /\ \A m \in Nodes, d \in Side : v.child[m][d] =
                 IF m = p /\ d = SideOf(t, n) THEN up ELSE t3.child[m][d]
        BY <3>1, SetChildEffect
      <3>3. t4 = v
        BY <1>6, <1>7, <2>2 DEF Replace
      <3> HIDE DEF t4, v
      <3> QED
        BY <1>5, <2>2, <3>2, <3>3
    <2> QED
      BY <2>1, <2>2
  <1> HIDE DEF t4
  <1>10. /\ t5 \in Trees /\ t5.root = t4.root /\ t5.color = t4.color /\ t5.parent = t4.parent
         /\ \A m \in Nodes, d \in Side :
              t5.child[m][d] = IF m = up /\ d = s THEN n ELSE t4.child[m][d]
    BY <1>0, <1>9, SetChildEffect
  <1> HIDE DEF t5
  <1>11. /\ SetParent(t5, n, up) \in Trees
         /\ SetParent(t5, n, up).root = t5.root
         /\ SetParent(t5, n, up).color = t5.color
         /\ SetParent(t5, n, up).child = t5.child
         /\ \A m \in Nodes : SetParent(t5, n, up).parent[m] = IF m = n THEN up ELSE t5.parent[m]
    <2>1. t5 \in Trees /\ n \in Nodes /\ up \in Nodes
      BY <1>0, <1>10
    <2> QED
      BY <2>1, SetParentEffect
  <1>12. u = SetParent(t5, n, up)
    BY <1>2, <1>4 DEF Rotate, t1, t2, t3, t4, t5, o
  <1> QED
    <2>1. /\ u \in Trees /\ u.color = t.color /\ u.root = IF p = Nil THEN up ELSE t.root
      BY <1>9, <1>10, <1>11, <1>12
    <2>2. ASSUME NEW x \in Nodes
          PROVE  u.parent[x] = IF x = n THEN up ELSE IF x = up THEN p
                               ELSE IF x = mid /\ mid # Nil THEN n ELSE t.parent[x]
      BY <1>5, <1>9, <1>10, <1>11, <1>12
    <2>3. ASSUME NEW x \in Nodes, NEW d \in Side
          PROVE  u.child[x][d] =
                   IF x = n THEN IF d = s THEN t.child[n][d] ELSE mid
                   ELSE IF x = up THEN IF d = s THEN n ELSE t.child[up][d]
                   ELSE IF x = p /\ p # Nil /\ d = SideOf(t, n) THEN up
                   ELSE t.child[x][d]
      BY <1>0, <1>o, <1>1, <1>9, <1>10, <1>11, <1>12
    <2> QED
      BY <2>1, <2>2, <2>3

-----------------------------------------------------------------------------
(* A rotation hands the keys that pass n to the node that comes up, and    *)
(* leaves n those on its side of it.                                       *)
Rotated(r, s, n, up) ==
  [k \in Keys |-> IF k = n THEN Half(r[n], up, s) ELSE IF k = up THEN r[n] ELSE r[k]]

LEMMA RotateNested ==
  ASSUME NEW L, NEW r, Passing(L, r), NEW s \in Side, NEW n \in L, NEW up \in L,
         up # n, Before(up, n) = Other(s), up \in r[n], r[up] = Half(r[n], n, Other(s))
  PROVE  Nested(L, Rotated(r, s, n, up))
  <1> DEFINE o == Other(s)
             R == r[n]
             rr == Rotated(r, s, n, up)
  <1>1. /\ n \in Keys /\ up \in Keys /\ o \in Side /\ o # s
        /\ \A d \in Side : d # s => d = o
        /\ Before(n, up) = s
    <2>1. n \in Keys /\ up \in Keys /\ o \in Side /\ o # s /\ Other(o) = s
      BY Sides DEF Passing
    <2>2. \A d \in Side : d # s => d = o
      BY Sides
    <2>3. Before(n, up) = Other(Before(up, n))
      BY <2>1, OrderSwaps
    <2> QED
      BY <2>1, <2>2, <2>3
  <1>2. /\ rr[n] = Half(R, up, s) /\ rr[up] = R
        /\ \A k \in L : k # n /\ k # up => rr[k] = r[k]
    BY <1>1 DEF Rotated, Passing
  <1>3. \A k \in L : r[k] \subseteq Keys
    BY DEF Passing
  <1>4. \A m, x \in L : m # x /\ m \in r[x] => r[m] \subseteq Half(r[x], x, Before(m, x))
    BY DEF Passing, Nested
  <1>5. \A m, x \in L : m \notin r[x] /\ x \notin r[m] => r[m] \cap r[x] = {}
    BY DEF Passing, Apart
  <1>6. L \subseteq Keys
    BY DEF Passing
  <1> HIDE DEF rr, o
  (* A node on the side of n that up is not on.                            *)
  <1>7. ASSUME NEW m \in L, m \in R, m # n, Before(m, n) = s
        PROVE  \A k \in r[m] : /\ k \in R /\ k # n /\ Before(k, n) = s
                               /\ k # up /\ Before(k, up) = s
    <2> SUFFICES ASSUME NEW k \in r[m]
                 PROVE  /\ k \in R /\ k # n /\ Before(k, n) = s
                        /\ k # up /\ Before(k, up) = s
      OBVIOUS
    <2>1. k \in Keys /\ k \in R /\ k # n /\ Before(k, n) = s
      BY <1>3, <1>4, <1>7, HalfMember
    <2> QED
      BY <1>1, <2>1, OrderTransitive
  (* A node on up's side of n, up itself apart.                            *)
  <1>8. ASSUME NEW m \in L, m \in R, m # n, m # up, Before(m, n) = o
        PROVE  \A k \in r[m] : /\ k \in R /\ k # n /\ Before(k, n) = o
                               /\ k # up /\ Before(k, up) = Before(m, up)
    <2>1. m \in r[up]
      BY <1>8, HalfMember DEF o
    <2>2. r[m] \subseteq Half(r[up], up, Before(m, up))
      BY <1>4, <1>8, <2>1
    <2> QED
      BY <2>2, HalfMember DEF o
  <1>9. ASSUME NEW m \in L, m \in R, m # n, m # up
        PROVE  Before(m, n) = s \/ Before(m, n) = o
    BY <1>1, <1>6, Sides
  <1> SUFFICES ASSUME NEW m \in L, NEW x \in L, m # x, m \in rr[x]
               PROVE  rr[m] \subseteq Half(rr[x], x, Before(m, x))
    BY DEF Nested, rr
  <1>10. m \in r[m]
    BY DEF Passing
  <1>11. CASE x = n
    <2>1. m \in R /\ m # up /\ Before(m, up) = s /\ m # n /\ rr[m] = r[m]
      BY <1>2, <1>11, HalfMember
    <2> QED
      BY <1>2, <1>7, <1>8, <1>9, <1>11, <2>1, HalfMember
  <1>12. CASE x = up
    <2>1. m \in R /\ m # up
      BY <1>2, <1>12
    <2>2. CASE m = n
      BY <1>1, <1>2, <1>12, <2>2
    <2>3. CASE m # n
      <3>1. rr[m] = r[m]
        BY <1>2, <2>1, <2>3
      <3>2. CASE Before(m, n) = s
        BY <1>2, <1>7, <1>10, <1>12, <2>1, <2>3, <3>1, <3>2, HalfMember
      <3>3. CASE Before(m, n) = o
        BY <1>2, <1>8, <1>12, <2>1, <2>3, <3>1, <3>3, HalfMember
      <3> QED
        BY <1>9, <2>1, <2>3, <3>2, <3>3
    <2> QED
      BY <2>2, <2>3
  <1>13. CASE x # n /\ x # up
    <2>1. rr[x] = r[x] /\ m \in r[x]
      BY <1>2, <1>13
    <2>2. CASE m = n
      BY <1>2, <1>4, <2>1, <2>2, HalfMember
    <2>3. CASE m = up
      <3>1. n \in r[x]
        <4> SUFFICES ASSUME n \notin r[x] PROVE FALSE
          OBVIOUS
        <4>1. up \in r[x] /\ up \in R
          BY <2>1, <2>3
        <4>2. x \in R
          BY <1>5, <4>1
        <4>3. Before(x, n) = s \/ Before(x, n) = o
          BY <1>9, <1>13, <4>2
        <4> QED
          BY <1>7, <1>8, <1>13, <4>1, <4>2, <4>3
      <3>2. R \subseteq Half(r[x], x, Before(n, x))
        BY <1>4, <1>13, <3>1
      <3>3. Before(up, x) = Before(n, x)
        BY <3>2, HalfMember
      <3> QED
        BY <1>2, <2>1, <2>3, <3>2, <3>3
    <2>4. CASE m # n /\ m # up
      BY <1>2, <1>4, <2>1, <2>4
    <2> QED
      BY <2>2, <2>3, <2>4
  <1> QED
    BY <1>11, <1>12, <1>13

LEMMA RotateApart ==
  ASSUME NEW L, NEW r, Passing(L, r), NEW s \in Side, NEW n \in L, NEW up \in L,
         up # n, Before(up, n) = Other(s), up \in r[n], r[up] = Half(r[n], n, Other(s))
  PROVE  Apart(L, Rotated(r, s, n, up))
  <1> DEFINE o == Other(s)
             R == r[n]
             rr == Rotated(r, s, n, up)
  <1>1. /\ n \in Keys /\ up \in Keys /\ o \in Side /\ o # s /\ L \subseteq Keys
        /\ \A d \in Side : d # s => d = o
        /\ Before(n, up) = s
    <2>1. n \in Keys /\ up \in Keys /\ o \in Side /\ o # s /\ Other(o) = s /\ L \subseteq Keys
      BY Sides DEF Passing
    <2>2. \A d \in Side : d # s => d = o
      BY Sides
    <2>3. Before(n, up) = Other(Before(up, n))
      BY <2>1, OrderSwaps
    <2> QED
      BY <2>1, <2>2, <2>3
  <1>2. /\ rr[n] = Half(R, up, s) /\ rr[up] = R
        /\ \A k \in L : k # n /\ k # up => rr[k] = r[k]
    BY <1>1 DEF Rotated, Passing
  <1>4. \A m, x \in L : m # x /\ m \in r[x] => r[m] \subseteq Half(r[x], x, Before(m, x))
    BY DEF Passing, Nested
  <1>5. \A m, x \in L : m \notin r[x] /\ x \notin r[m] => r[m] \cap r[x] = {}
    BY DEF Passing, Apart
  <1>6. n \in rr[up]
    BY <1>2 DEF Passing
  <1> HIDE DEF rr, o
  <1>7. ASSUME NEW m \in L, m # n, m # up, m \notin rr[n], n \notin r[m]
        PROVE  r[m] \cap rr[n] = {}
    <2>1. CASE m \notin R
      BY <1>2, <1>5, <1>7, <2>1, HalfMember
    <2>2. CASE m \in R
      <3>1. Before(m, up) = o
        BY <1>1, <1>2, <1>7, <2>2, HalfMember, Sides
      <3>2. Before(m, n) = o
        BY <1>1, <1>7, <3>1, OrderTransitive DEF o
      <3>3. m \in r[up]
        BY <1>7, <2>2, <3>2, HalfMember DEF o
      <3>4. r[m] \subseteq Half(r[up], up, o)
        BY <1>4, <1>7, <3>1, <3>3
      <3> QED
        BY <1>1, <1>2, <3>4, HalfMember
    <2> QED
      BY <2>1, <2>2
  <1>8. ASSUME NEW m \in L, m # n, m # up, m \notin rr[up], up \notin r[m]
        PROVE  r[m] \cap rr[up] = {}
    <2>1. m \notin R
      BY <1>2, <1>8
    <2>2. n \notin r[m]
      BY <1>4, <1>8, HalfMember
    <2> QED
      BY <1>2, <1>5, <2>1, <2>2
  <1> SUFFICES ASSUME NEW m \in L, NEW x \in L, m \notin rr[x], x \notin rr[m]
               PROVE  rr[m] \cap rr[x] = {}
    BY DEF Apart, rr
  <1>9. m # x
    <2>1. \A k \in L : k \in rr[k]
      BY <1>1, <1>2, HalfMember DEF Passing
    <2> QED
      BY <2>1
  <1>10. CASE m # n /\ m # up /\ x # n /\ x # up
    BY <1>2, <1>5, <1>10
  <1>11. CASE x \in {n, up} /\ m # n /\ m # up
    BY <1>2, <1>7, <1>8, <1>11
  <1>12. CASE m \in {n, up} /\ x # n /\ x # up
    BY <1>2, <1>7, <1>8, <1>12
  <1> QED
    BY <1>6, <1>9, <1>10, <1>11, <1>12

LEMMA RotatePassing ==
  ASSUME NEW L, NEW r, Passing(L, r), NEW s \in Side, NEW n \in L, NEW up \in L,
         up # n, Before(up, n) = Other(s), up \in r[n], r[up] = Half(r[n], n, Other(s))
  PROVE  Passing(L, Rotated(r, s, n, up))
  <1> DEFINE rr == Rotated(r, s, n, up)
  <1>1. n \in Keys /\ up \in Keys /\ L \subseteq Keys /\ r \in [Keys -> SUBSET Keys]
    BY DEF Passing
  <1>2. rr \in [Keys -> SUBSET Keys]
    <2>1. Half(r[n], up, s) \subseteq Keys
      BY <1>1, HalfMember
    <2> QED
      BY <1>1, <2>1 DEF Rotated
  <1>3. Before(n, up) = s
    BY <1>1, OrderSwaps, Sides
  <1>4. \A k \in L : k \in rr[k]
    BY <1>1, <1>3, HalfMember DEF Rotated, Passing
  <1>5. Nested(L, rr) /\ Apart(L, rr)
    BY RotateNested, RotateApart
  <1> QED
    BY <1>1, <1>2, <1>4, <1>5 DEF Passing

-----------------------------------------------------------------------------
LEMMA ShapeWired == \A t, L, r : Shape(t, L, r) => Wired(t, L, r)
  BY DEF Shape

LEMMA FreshSentinel == \A t, L : L \subseteq Keys /\ Fresh(t, L) => Sentinel(t)
  BY KeysAreNodes DEF Fresh, Sentinel

(* Children and parents.                                                   *)

LEMMA ChildFacts ==
  ASSUME NEW t, NEW L, NEW r, Wired(t, L, r), NEW n \in L, NEW s \in Side,
         NEW c, t.child[n][s] = c, c # Nil
  PROVE  /\ c \in L /\ c \in Keys /\ t.parent[c] = n /\ c # n
         /\ r[c] = Half(r[n], n, s) /\ Before(c, n) = s /\ c \in r[n] /\ n \notin r[c]
         /\ c # t.root
  <1>1. c \in L /\ t.parent[c] = n /\ r[c] = Half(r[n], n, s)
    BY DEF Wired, ChildrenLinked
  <1>2. c \in r[c] /\ c \in Keys /\ n \in Keys
    BY <1>1 DEF Wired, Passing
  <1>3. t.root # Nil => t.parent[t.root] = Nil
    BY DEF Wired, RootPassed
  <1> QED
    BY <1>1, <1>2, <1>3, HalfMember, KeysAreNodes

LEMMA ParentFacts ==
  ASSUME NEW t, NEW L, NEW r, Wired(t, L, r), NEW n \in L, NEW p, t.parent[n] = p
  PROVE  /\ p = Nil <=> n = t.root
         /\ p # Nil => /\ p \in L /\ p \in Keys /\ p # n
                       /\ t.child[p][Before(n, p)] = n
                       /\ SideOf(t, n) = Before(n, p) /\ Before(n, p) \in Side
                       /\ r[n] = Half(r[p], p, Before(n, p)) /\ p \notin r[n]
  <1>1. L \subseteq Keys /\ n \in Keys /\ n # Nil
    BY KeysAreNodes DEF Wired, Passing
  <1>2. n = t.root => p = Nil
    BY <1>1 DEF Wired, RootPassed
  <1>3. n # t.root => p \in L /\ t.child[p][Before(n, p)] = n
    BY DEF Wired, ParentsLinked
  <1>4. ASSUME n # t.root
        PROVE  /\ p \in Keys /\ p # Nil /\ Before(n, p) \in Side /\ p # n
               /\ r[n] = Half(r[p], p, Before(n, p)) /\ p \notin r[n]
               /\ SideOf(t, n) = Before(n, p)
    <2>1. p \in Keys /\ p # Nil /\ Before(n, p) \in Side
      BY <1>1, <1>3, <1>4, KeysAreNodes, Sides
    <2>2. /\ p # n /\ r[n] = Half(r[p], p, Before(n, p)) /\ p \notin r[n]
      BY <1>1, <1>3, <1>4, <2>1, ChildFacts
    <2>3. t.child[p].left = n => Before(n, p) = "left"
      <3>1. "left" \in Side
        BY DEF Side
      <3> QED
        BY <1>1, <1>3, <1>4, <3>1, ChildFacts
    <2>4. Before(n, p) # "left" => Before(n, p) = "right"
      BY DEF Before
    <2>5. Before(n, p) = "left" => t.child[p].left = n
      BY <1>3, <1>4
    <2> QED
      BY <2>1, <2>2, <2>3, <2>4, <2>5 DEF SideOf
  <1> QED
    BY <1>1, <1>2, <1>3, <1>4

LEMMA ReachedChild ==
  ASSUME NEW t, NEW L, NEW r, Wired(t, L, r), NEW n \in L, NEW k \in L, k # n, k \in r[n]
  PROVE  t.child[n][Before(k, n)] # Nil
  BY DEF Wired, Reached

(* u is t with the child up of n turned into n's parent.                   *)
Turned(t, u, s, n, up, mid, p) ==
  /\ u \in Trees
  /\ u.color = t.color
  /\ u.root = IF p = Nil THEN up ELSE t.root
  /\ \A x \in Nodes : u.parent[x] =
       IF x = n THEN up ELSE IF x = up THEN p
       ELSE IF x = mid /\ mid # Nil THEN n ELSE t.parent[x]
  /\ \A x \in Nodes, d \in Side : u.child[x][d] =
       IF x = n THEN IF d = s THEN t.child[n][d] ELSE mid
       ELSE IF x = up THEN IF d = s THEN n ELSE t.child[up][d]
       ELSE IF x = p /\ p # Nil /\ d = SideOf(t, n) THEN up
       ELSE t.child[x][d]

(* Who is who when n is turned down to side s.                             *)
Turns(t, L, r, s, n, up, mid, p) ==
  /\ s \in Side /\ n \in L /\ up \in L /\ mid \in L \cup {Nil} /\ p \in L \cup {Nil}
  /\ t.child[n][Other(s)] = up /\ t.child[up][s] = mid /\ t.parent[n] = p
  /\ up # n /\ p # n /\ p # up /\ mid # n /\ mid # up /\ (mid # Nil => mid # p)
  /\ t.parent[up] = n
  /\ Before(up, n) = Other(s) /\ Before(n, up) = s
  /\ up \in r[n] /\ r[up] = Half(r[n], n, Other(s))
  /\ mid # Nil => t.parent[mid] = up /\ r[mid] = Half(r[up], up, s) /\ Before(mid, n) = Other(s)
  /\ p = Nil <=> n = t.root
  /\ p # Nil => /\ SideOf(t, n) = Before(n, p) /\ r[n] = Half(r[p], p, Before(n, p))
                /\ t.child[p][Before(n, p)] = n
                /\ Before(up, p) = Before(n, p)

LEMMA TurnParts ==
  ASSUME NEW t, NEW L, NEW r, Wired(t, L, r), NEW s \in Side, NEW n \in L,
         t.child[n][Other(s)] # Nil
  PROVE  Turns(t, L, r, s, n, t.child[n][Other(s)], t.child[t.child[n][Other(s)]][s],
               t.parent[n])
  <1> DEFINE up == t.child[n][Other(s)]
             mid == t.child[up][s]
             p == t.parent[n]
  <1>1. Other(s) \in Side /\ Other(s) # s /\ Other(Other(s)) = s /\ L \subseteq Keys /\ n \in Keys
    BY Sides DEF Wired, Passing
  <1>2. /\ up \in L /\ up \in Keys /\ t.parent[up] = n /\ up # n
        /\ r[up] = Half(r[n], n, Other(s)) /\ Before(up, n) = Other(s)
        /\ up \in r[n] /\ n \notin r[up]
    BY <1>1, ChildFacts
  <1>3. Before(n, up) = s
    BY <1>1, <1>2, OrderSwaps
  <1>4. mid # Nil => /\ mid \in L /\ t.parent[mid] = up /\ mid # up
                     /\ r[mid] = Half(r[up], up, s) /\ mid \in r[up]
    <2> HIDE DEF up
    <2> QED
      BY <1>2, ChildFacts
  <1>5. /\ p = Nil <=> n = t.root
        /\ p # Nil => /\ p \in L /\ p \in Keys /\ p # n
                      /\ t.child[p][Before(n, p)] = n
                      /\ SideOf(t, n) = Before(n, p)
                      /\ r[n] = Half(r[p], p, Before(n, p)) /\ p \notin r[n]
    BY ParentFacts
  <1> HIDE DEF up, mid, p
  <1>6. n # Nil /\ up # Nil
    BY <1>1, <1>2, KeysAreNodes
  <1>7. mid # Nil => mid # n /\ Before(mid, n) = Other(s) /\ mid \in r[n]
    BY <1>2, <1>4, HalfMember
  <1>8. p # up
    BY <1>2, <1>5, <1>6
  <1>9. p # Nil => Before(up, p) = Before(n, p)
    BY <1>2, <1>5, HalfMember
  <1>10. mid # Nil => mid # p
    BY <1>5, <1>7
  <1> QED
    BY <1>1, <1>2, <1>3, <1>4, <1>5, <1>6, <1>7, <1>8, <1>9, <1>10 DEF Turns, up, mid, p

LEMMA RotateTurns ==
  ASSUME NEW t, NEW L, NEW r, Wired(t, L, r), NEW s, NEW n, NEW up, NEW mid, NEW p,
         Turns(t, L, r, s, n, up, mid, p)
  PROVE  Turned(t, Rotate(t, s, n), s, n, up, mid, p)
  <1>1. /\ t \in Trees /\ s \in Side /\ n \in Keys /\ up \in Keys /\ mid \in Nodes /\ p \in Nodes
        /\ t.child[n][Other(s)] = up /\ t.child[up][s] = mid /\ t.parent[n] = p
        /\ up # n /\ p # n /\ p # up /\ mid # n /\ mid # up
    BY KeysAreNodes DEF Wired, Passing, Turns
  <1> DEFINE u == Rotate(t, s, n)
  <1> HIDE DEF u
  <1>2. Rotate(t, s, n) = u
    BY DEF u
  <1>3. /\ u \in Trees
        /\ u.color = t.color
        /\ u.root = IF p = Nil THEN up ELSE t.root
        /\ \A x \in Nodes : u.parent[x] =
             IF x = n THEN up ELSE IF x = up THEN p
             ELSE IF x = mid /\ mid # Nil THEN n ELSE t.parent[x]
        /\ \A x \in Nodes, d \in Side : u.child[x][d] =
             IF x = n THEN IF d = s THEN t.child[n][d] ELSE mid
             ELSE IF x = up THEN IF d = s THEN n ELSE t.child[up][d]
             ELSE IF x = p /\ p # Nil /\ d = SideOf(t, n) THEN up
             ELSE t.child[x][d]
    BY <1>1, <1>2, RotateEffect
  <1> QED
    BY <1>2, <1>3 DEF Turned

-----------------------------------------------------------------------------
(* A rotation keeps the shape.                                             *)

LEMMA HalvesSwap ==
  ASSUME NEW S, S \subseteq Keys, NEW n \in Keys, NEW up \in Keys, NEW s \in Side,
         up # n, Before(up, n) = Other(s), Before(n, up) = s
  PROVE  /\ Half(S, n, s) = Half(Half(S, up, s), n, s)
         /\ Half(Half(S, n, Other(s)), up, s) = Half(Half(S, up, s), n, Other(s))
         /\ Half(Half(S, n, Other(s)), up, Other(s)) = Half(S, up, Other(s))
  <1> DEFINE o == Other(s)
  <1>1. o \in Side /\ o # s
    BY Sides
  <1> HIDE DEF o
  <1>2. \A k \in S : k # n /\ Before(k, n) = s => k # up /\ Before(k, up) = s
    BY OrderTransitive
  <1>3. \A k \in S : k # up /\ Before(k, up) = o => k # n /\ Before(k, n) = o
    BY <1>1, OrderTransitive DEF o
  <1>4. Half(S, n, s) = Half(Half(S, up, s), n, s)
    BY <1>2 DEF Half
  <1>5. Half(Half(S, n, o), up, s) = Half(Half(S, up, s), n, o)
    BY DEF Half
  <1>6. Half(Half(S, n, o), up, o) = Half(S, up, o)
    BY <1>3 DEF Half
  <1> QED
    BY <1>4, <1>5, <1>6 DEF o

LEMMA RotatedValues ==
  ASSUME NEW L, NEW r, L \subseteq Keys, NEW s, NEW n \in L, NEW up \in L, up # n
  PROVE  /\ Rotated(r, s, n, up)[n] = Half(r[n], up, s)
         /\ Rotated(r, s, n, up)[up] = r[n]
         /\ \A k \in L : k # n /\ k # up => Rotated(r, s, n, up)[k] = r[k]
  BY DEF Rotated

LEMMA RotateRoot ==
  ASSUME NEW t, NEW L, NEW r, Wired(t, L, r), NEW s, NEW n, NEW up, NEW mid, NEW p,
         Turns(t, L, r, s, n, up, mid, p), NEW u, Turned(t, u, s, n, up, mid, p)
  PROVE  RootPassed(u, L, Rotated(r, s, n, up))
  <1> DEFINE rr == Rotated(r, s, n, up)
  <1>1. L \subseteq Keys /\ n \in L /\ up \in L /\ up # n /\ n \in Nodes /\ up \in Nodes
        /\ up # Nil /\ n # Nil
    BY KeysAreNodes DEF Turns, Wired, Passing
  <1>2. rr[up] = r[n] /\ \A k \in L : k # n /\ k # up => rr[k] = r[k]
    BY <1>1, RotatedValues
  <1>3. t.root # Nil /\ t.root \in L /\ L \subseteq r[t.root] /\ t.parent[t.root] = Nil
    BY <1>1 DEF Wired, RootPassed
  <1> HIDE DEF rr
  <1>4. CASE p = Nil
    <2>1. u.root = up /\ n = t.root
      BY <1>4 DEF Turned, Turns
    <2>2. u.parent[up] = Nil
      BY <1>1, <1>4 DEF Turned
    <2> QED
      BY <1>1, <1>2, <1>3, <2>1, <2>2 DEF RootPassed, rr
  <1>5. CASE p # Nil
    <2>1. u.root = t.root /\ t.root # n /\ t.root # up
      BY <1>1, <1>3, <1>5 DEF Turned, Turns
    <2>2. t.root = mid => mid = Nil
      BY <1>1, <1>3 DEF Turns
    <2>3. u.parent[t.root] = Nil
      BY <1>1, <1>3, <2>1, <2>2, KeysAreNodes DEF Turned
    <2> QED
      BY <1>1, <1>2, <1>3, <2>1, <2>3 DEF RootPassed, rr
  <1> QED
    BY <1>4, <1>5

LEMMA RotateChildren ==
  ASSUME NEW t, NEW L, NEW r, Wired(t, L, r), NEW s, NEW n, NEW up, NEW mid, NEW p,
         Turns(t, L, r, s, n, up, mid, p), NEW u, Turned(t, u, s, n, up, mid, p)
  PROVE  ChildrenLinked(u, L, Rotated(r, s, n, up))
  <1> DEFINE rr == Rotated(r, s, n, up)
             o == Other(s)
  <1>1. /\ L \subseteq Keys /\ n \in L /\ up \in L /\ up # n /\ s \in Side
        /\ n \in Keys /\ up \in Keys /\ up # Nil /\ n # Nil
        /\ o \in Side /\ o # s /\ Other(o) = s
    BY KeysAreNodes, Sides DEF Turns, Wired, Passing
  <1>2. rr[n] = Half(r[n], up, s) /\ rr[up] = r[n]
        /\ \A k \in L : k # n /\ k # up => rr[k] = r[k]
    BY <1>1, RotatedValues
  <1>3. \A d \in Side : d # s => d = o
    BY <1>1, Sides
  <1>4. r[n] \subseteq Keys
    BY <1>1 DEF Wired, Passing
  <1>5. /\ Half(r[n], n, s) = Half(rr[n], n, s)
        /\ Half(r[up], up, s) = Half(rr[n], n, o)
        /\ Half(r[up], up, o) = Half(rr[up], up, o)
    BY <1>1, <1>2, <1>4, HalvesSwap DEF Turns
  <1>6. /\ \A x \in L : u.parent[x] =
             IF x = n THEN up ELSE IF x = up THEN p
             ELSE IF x = mid /\ mid # Nil THEN n ELSE t.parent[x]
        /\ \A x \in L, d \in Side : u.child[x][d] =
             IF x = n THEN IF d = s THEN t.child[n][d] ELSE mid
             ELSE IF x = up THEN IF d = s THEN n ELSE t.child[up][d]
             ELSE IF x = p /\ p # Nil /\ d = SideOf(t, n) THEN up
             ELSE t.child[x][d]
    BY <1>1, KeysAreNodes DEF Turned
  <1> HIDE DEF rr, o
  <1> SUFFICES ASSUME NEW x \in L, NEW d \in Side, NEW c, c = u.child[x][d], c # Nil
               PROVE  c \in L /\ u.parent[c] = x /\ rr[c] = Half(rr[x], x, d)
    BY DEF ChildrenLinked, rr
  (* A node whose parent is not n, up or p keeps its place.                *)
  <1>7. ASSUME NEW e \in L, t.parent[e] # n \/ e # up, t.parent[e] # p \/ e # n,
               mid # Nil => e # mid
        PROVE  e # n => (e # up => u.parent[e] = t.parent[e] /\ rr[e] = r[e])
    BY <1>2, <1>6, <1>7
  <1>8. CASE x = n
    <2>1. CASE d = s
      <3>1. c = t.child[n][s]
        BY <1>6, <1>8, <2>1
      <3>2. c \in L /\ t.parent[c] = n /\ c # n /\ r[c] = Half(r[n], n, s) /\ Before(c, n) = s
        BY <1>1, <3>1, ChildFacts
      <3>3. c # up /\ (mid # Nil => c # mid)
        BY <1>1, <3>2 DEF Turns, o
      <3> QED
        BY <1>2, <1>5, <1>6, <1>8, <2>1, <3>2, <3>3
    <2>2. CASE d = o
      <3>1. c = mid
        BY <1>1, <1>6, <1>8, <2>2
      <3>2. c \in L /\ c # n /\ c # up /\ r[c] = Half(r[up], up, s)
        BY <3>1 DEF Turns
      <3> QED
        BY <1>2, <1>5, <1>6, <1>8, <2>2, <3>1, <3>2
    <2> QED
      BY <1>3, <2>1, <2>2
  <1>9. CASE x = up
    <2>1. CASE d = s
      <3>1. c = n
        BY <1>1, <1>6, <1>9, <2>1
      <3> QED
        BY <1>1, <1>2, <1>6, <1>9, <2>1, <3>1
    <2>2. CASE d = o
      <3>1. c = t.child[up][o]
        BY <1>1, <1>6, <1>9, <2>2
      <3>2. c \in L /\ t.parent[c] = up /\ c # up /\ r[c] = Half(r[up], up, o)
            /\ Before(c, up) = o
        BY <1>1, <3>1, ChildFacts
      <3>3. c # n
        BY <3>2 DEF Turns
      <3>4. mid # Nil => Before(mid, up) = s
        BY <1>1, ChildFacts DEF Turns
      <3> QED
        BY <1>1, <1>2, <1>5, <1>6, <1>9, <2>2, <3>2, <3>3, <3>4
    <2> QED
      BY <1>3, <2>1, <2>2
  <1>10. CASE x # n /\ x # up /\ x = p /\ p # Nil /\ d = SideOf(t, n)
    <2>1. c = up
      BY <1>6, <1>10
    <2>2. rr[p] = r[p] /\ r[n] = Half(r[p], p, d)
      BY <1>2, <1>10 DEF Turns
    <2> QED
      BY <1>1, <1>2, <1>6, <1>10, <2>1, <2>2
  <1>11. CASE x # n /\ x # up /\ ~ (x = p /\ p # Nil /\ d = SideOf(t, n))
    <2>1. c = t.child[x][d]
      BY <1>6, <1>11
    <2>2. c \in L /\ t.parent[c] = x /\ r[c] = Half(r[x], x, d) /\ Before(c, x) = d
      BY <2>1, ChildFacts
    <2>3. c # up
      BY <1>11, <2>2 DEF Turns
    <2>4. mid # Nil => c # mid
      BY <1>11, <2>2 DEF Turns
    <2>5. c # n
      <3> SUFFICES ASSUME c = n PROVE FALSE
        OBVIOUS
      <3>1. x = p /\ p # Nil
        BY <1>1, <2>2, KeysAreNodes DEF Turns
      <3> QED
        BY <1>11, <2>2, <3>1 DEF Turns
    <2> QED
      BY <1>2, <1>6, <1>11, <2>2, <2>3, <2>4, <2>5
  <1> QED
    BY <1>8, <1>9, <1>10, <1>11

LEMMA RotateReached ==
  ASSUME NEW t, NEW L, NEW r, Wired(t, L, r), NEW s, NEW n, NEW up, NEW mid, NEW p,
         Turns(t, L, r, s, n, up, mid, p), NEW u, Turned(t, u, s, n, up, mid, p)
  PROVE  Reached(u, L, Rotated(r, s, n, up))
  <1> DEFINE rr == Rotated(r, s, n, up)
             o == Other(s)
  <1>1. /\ L \subseteq Keys /\ n \in L /\ up \in L /\ up # n /\ s \in Side
        /\ n \in Keys /\ up \in Keys /\ up # Nil /\ n # Nil
        /\ o \in Side /\ o # s /\ Other(o) = s
    BY KeysAreNodes, Sides DEF Turns, Wired, Passing
  <1>2. rr[n] = Half(r[n], up, s) /\ rr[up] = r[n]
        /\ \A k \in L : k # n /\ k # up => rr[k] = r[k]
    BY <1>1, RotatedValues
  <1>3. \A d \in Side : d # s => d = o
    BY <1>1, Sides
  <1>4. /\ Before(up, n) = o /\ r[up] = Half(r[n], n, o) /\ mid = t.child[up][s]
    BY DEF Turns
  <1>5. \A x \in L, d \in Side : u.child[x][d] =
             IF x = n THEN IF d = s THEN t.child[n][d] ELSE mid
             ELSE IF x = up THEN IF d = s THEN n ELSE t.child[up][d]
             ELSE IF x = p /\ p # Nil /\ d = SideOf(t, n) THEN up
             ELSE t.child[x][d]
    BY <1>1, KeysAreNodes DEF Turned
  <1>6. \A x, k \in L : k # x /\ k \in r[x] => t.child[x][Before(k, x)] # Nil
    BY ReachedChild
  <1> HIDE DEF rr, o
  <1> SUFFICES ASSUME NEW x \in L, NEW k \in L, k # x, k \in rr[x]
               PROVE  u.child[x][Before(k, x)] # Nil
    BY DEF Reached, rr
  <1>7. x \in Keys /\ k \in Keys /\ Before(k, x) \in Side
    BY <1>1, Sides
  <1>8. CASE x = n
    <2>1. k \in r[n] /\ k # up /\ Before(k, up) = s
      BY <1>2, <1>8, HalfMember
    <2>2. CASE Before(k, n) = s
      BY <1>5, <1>6, <1>7, <1>8, <2>1, <2>2
    <2>3. CASE Before(k, n) = o
      <3>1. k \in r[up]
        BY <1>4, <1>8, <2>1, <2>3, HalfMember
      <3>2. mid # Nil
        BY <1>1, <1>4, <1>6, <2>1, <3>1
      <3> QED
        BY <1>1, <1>5, <1>7, <1>8, <2>3, <3>2
    <2> QED
      BY <1>3, <1>7, <1>8, <2>2, <2>3
  <1>9. CASE x = up
    <2>1. k \in r[n] /\ k # up
      BY <1>2, <1>9
    <2>2. CASE Before(k, up) = s
      BY <1>1, <1>5, <1>7, <1>9, <2>2
    <2>3. CASE Before(k, up) = o
      <3>1. k # n /\ Before(k, n) = o
        BY <1>1, <1>4, <1>7, <2>1, <2>3, OrderTransitive
      <3>2. k \in r[up]
        BY <1>4, <2>1, <3>1, HalfMember
      <3> QED
        BY <1>1, <1>5, <1>6, <1>7, <1>9, <2>1, <2>3, <3>2
    <2> QED
      BY <1>3, <1>7, <1>9, <2>2, <2>3
  <1>10. CASE x # n /\ x # up
    BY <1>1, <1>2, <1>5, <1>6, <1>7, <1>10
  <1> QED
    BY <1>8, <1>9, <1>10

LEMMA RotateParents ==
  ASSUME NEW t, NEW L, NEW r, Wired(t, L, r), NEW s, NEW n, NEW up, NEW mid, NEW p,
         Turns(t, L, r, s, n, up, mid, p), NEW u, Turned(t, u, s, n, up, mid, p)
  PROVE  ParentsLinked(u, L)
  <1> DEFINE o == Other(s)
  <1>1. /\ L \subseteq Keys /\ n \in L /\ up \in L /\ up # n /\ s \in Side
        /\ n \in Keys /\ up \in Keys /\ up # Nil /\ n # Nil
        /\ o \in Side /\ o # s /\ Other(o) = s
    BY KeysAreNodes, Sides DEF Turns, Wired, Passing
  <1>3. \A d \in Side : d # s => d = o
    BY <1>1, Sides
  <1>4. /\ Before(up, n) = o /\ Before(n, up) = s /\ mid = t.child[up][s] /\ up = t.child[n][o]
        /\ mid # Nil => Before(mid, n) = o
        /\ p # Nil => p \in L /\ SideOf(t, n) = Before(n, p) /\ Before(up, p) = Before(n, p)
                      /\ t.child[p][Before(n, p)] = n
        /\ p # n /\ p # up
    BY DEF Turns
  <1>5. \A x \in L, d \in Side : u.child[x][d] =
             IF x = n THEN IF d = s THEN t.child[n][d] ELSE mid
             ELSE IF x = up THEN IF d = s THEN n ELSE t.child[up][d]
             ELSE IF x = p /\ p # Nil /\ d = SideOf(t, n) THEN up
             ELSE t.child[x][d]
    BY <1>1, KeysAreNodes DEF Turned
  <1>6. \A x \in L : u.parent[x] =
             IF x = n THEN up ELSE IF x = up THEN p
             ELSE IF x = mid /\ mid # Nil THEN n ELSE t.parent[x]
    BY <1>1, KeysAreNodes DEF Turned
  <1>7. u.root = (IF p = Nil THEN up ELSE t.root) /\ (p = Nil <=> n = t.root)
    BY DEF Turned, Turns
  <1>8. \A x \in L : x # t.root => t.parent[x] \in L /\ t.child[t.parent[x]][Before(x, t.parent[x])] = x
    BY DEF Wired, ParentsLinked
  <1> HIDE DEF o
  <1> SUFFICES ASSUME NEW x \in L, x # u.root
               PROVE  u.parent[x] \in L /\ u.child[u.parent[x]][Before(x, u.parent[x])] = x
    BY DEF ParentsLinked
  <1>9. CASE x = n
    BY <1>1, <1>4, <1>5, <1>6, <1>9
  <1>10. CASE x = up
    <2>1. p # Nil /\ p \in L
      BY <1>4, <1>7, <1>10
    <2>2. u.parent[x] = p /\ Before(x, p) = SideOf(t, n)
      BY <1>1, <1>4, <1>6, <1>10, <2>1
    <2>3. SideOf(t, n) \in Side
      BY DEF SideOf, Side
    <2> QED
      BY <1>4, <1>5, <1>10, <2>1, <2>2, <2>3
  <1>11. CASE x # n /\ x # up /\ x = mid /\ mid # Nil
    <2>1. u.parent[x] = n /\ Before(x, n) = o
      BY <1>4, <1>6, <1>11
    <2>2. u.child[n][o] = mid
      BY <1>1, <1>5
    <2> QED
      BY <1>1, <1>11, <2>1, <2>2
  <1>12. CASE x # n /\ x # up /\ ~ (x = mid /\ mid # Nil)
    <2> DEFINE q == t.parent[x]
    <2>1. u.parent[x] = q /\ q \in L /\ t.child[q][Before(x, q)] = x
      BY <1>4, <1>6, <1>7, <1>8, <1>12
    <2>2. Before(x, q) \in Side /\ x # Nil
      BY <1>1, <2>1, Sides, KeysAreNodes
    <2> HIDE DEF q
    <2>3. CASE q = n
      BY <1>3, <1>4, <1>5, <1>12, <2>1, <2>2, <2>3
    <2>4. CASE q = up
      BY <1>1, <1>3, <1>4, <1>5, <1>12, <2>1, <2>2, <2>4
    <2>5. CASE q # n /\ q # up
      BY <1>4, <1>5, <1>12, <2>1, <2>2, <2>5
    <2> QED
      BY <2>3, <2>4, <2>5
  <1> QED
    BY <1>9, <1>10, <1>11, <1>12

LEMMA RotateWired ==
  ASSUME NEW t, NEW L, NEW r, Wired(t, L, r), NEW s, NEW n, NEW up, NEW mid, NEW p,
         Turns(t, L, r, s, n, up, mid, p), NEW u, Turned(t, u, s, n, up, mid, p)
  PROVE  Wired(u, L, Rotated(r, s, n, up))
  <1>1. Passing(L, Rotated(r, s, n, up))
    BY RotatePassing DEF Wired, Turns
  <1>2. u \in Trees
    BY DEF Turned
  <1>3. Sentinel(u)
    <2>1. Nil # n /\ Nil # up /\ Nil \in Nodes
      BY KeysAreNodes DEF Turns, Wired, Passing
    <2> QED
      BY <2>1 DEF Sentinel, Wired, Turned
  <1> QED
    BY <1>1, <1>2, <1>3, RotateRoot, RotateChildren, RotateReached, RotateParents DEF Wired

LEMMA RotateShape ==
  ASSUME NEW t, NEW L, NEW r, Shape(t, L, r), NEW s, NEW n, NEW up, NEW mid, NEW p,
         Turns(t, L, r, s, n, up, mid, p), NEW u, Turned(t, u, s, n, up, mid, p)
  PROVE  Shape(u, L, Rotated(r, s, n, up))
  <1>1. Wired(t, L, r) /\ Wired(u, L, Rotated(r, s, n, up))
    BY RotateWired, ShapeWired
  <1>2. Fresh(u, L)
    <2>1. ASSUME NEW x \in Nodes \ L
          PROVE  /\ x # n /\ x # up /\ (mid # Nil => x # mid) /\ (p # Nil => x # p)
      BY DEF Turns
    <2>2. ASSUME NEW x \in Nodes \ L
          PROVE  /\ u.parent[x] = t.parent[x] /\ u.color[x] = t.color[x]
                 /\ \A d \in Side : u.child[x][d] = t.child[x][d]
      BY <2>1 DEF Turned
    <2> QED
      BY <2>2 DEF Fresh, Shape
  <1>3. u.root # Nil => Rotated(r, s, n, up)[u.root] = Keys
    <2>1. /\ L \subseteq Keys /\ n \in L /\ up \in L /\ up # n
          /\ Rotated(r, s, n, up)[up] = r[n]
          /\ \A k \in L : k # n /\ k # up => Rotated(r, s, n, up)[k] = r[k]
      BY <1>1, RotatedValues DEF Wired, Passing, Turns
    <2>2. t.root \in L /\ r[t.root] = Keys /\ t.parent[t.root] = Nil
      BY <1>1, <2>1, KeysAreNodes DEF Wired, RootPassed, Shape
    <2>3. /\ u.root = IF p = Nil THEN up ELSE t.root
          /\ p = Nil <=> n = t.root
          /\ t.parent[up] = n /\ n # Nil
      BY <2>1, KeysAreNodes DEF Turned, Turns
    <2> QED
      BY <2>1, <2>2, <2>3
  <1> QED
    BY <1>1, <1>2, <1>3 DEF Shape

-----------------------------------------------------------------------------
(* Painting, the first node, and linking a node below another.             *)

LEMMA PaintWired ==
  ASSUME NEW t, NEW L, NEW r, Wired(t, L, r), NEW n \in Nodes, NEW c \in Colors
  PROVE  /\ Wired(Paint(t, n, c), L, r)
         /\ \A m \in Nodes : Paint(t, n, c).color[m] = IF m = n THEN c ELSE t.color[m]
         /\ Paint(t, n, c).root = t.root
         /\ Paint(t, n, c).parent = t.parent
         /\ Paint(t, n, c).child = t.child
  <1> DEFINE u == Paint(t, n, c)
  <1>1. t \in Trees
    BY DEF Wired
  <1>2. /\ u \in Trees /\ u.root = t.root /\ u.parent = t.parent /\ u.child = t.child
        /\ \A m \in Nodes : u.color[m] = IF m = n THEN c ELSE t.color[m]
    BY <1>1, PaintEffect
  <1> HIDE DEF u
  <1>3. /\ RootPassed(u, L, r) /\ ChildrenLinked(u, L, r) /\ Reached(u, L, r)
        /\ ParentsLinked(u, L) /\ Sentinel(u)
    BY <1>2 DEF Wired, RootPassed, ChildrenLinked, Reached, ParentsLinked, Sentinel
  <1> QED
    BY <1>2, <1>3 DEF Wired, u

LEMMA PaintShape ==
  ASSUME NEW t, NEW L, NEW r, Shape(t, L, r), NEW n \in L, NEW c \in Colors
  PROVE  /\ Shape(Paint(t, n, c), L, r)
         /\ \A m \in Nodes : Paint(t, n, c).color[m] = IF m = n THEN c ELSE t.color[m]
         /\ Paint(t, n, c).root = t.root
         /\ Paint(t, n, c).parent = t.parent
         /\ Paint(t, n, c).child = t.child
  <1> DEFINE u == Paint(t, n, c)
  <1>1. Wired(t, L, r) /\ n \in Nodes
    BY KeysAreNodes, ShapeWired DEF Wired, Passing
  <1>2. /\ Wired(u, L, r) /\ u.root = t.root /\ u.parent = t.parent /\ u.child = t.child
        /\ \A m \in Nodes : u.color[m] = IF m = n THEN c ELSE t.color[m]
    BY <1>1, PaintWired
  <1> HIDE DEF u
  <1>3. Fresh(u, L)
    BY <1>1, <1>2 DEF Fresh, Shape
  <1> QED
    BY <1>2, <1>3 DEF Shape, u

LEMMA EmptyShape == Shape(Empty, {}, [k \in Keys |-> {}])
  <1>1. Empty \in Trees
    BY KeysAreNodes DEF Empty, Trees, Colors
  <1>2. Fresh(Empty, {})
    BY DEF Fresh, Empty
  <1>3. RootPassed(Empty, {}, [k \in Keys |-> {}]) /\ Empty.root = Nil /\ Sentinel(Empty)
    BY KeysAreNodes DEF RootPassed, Empty, Sentinel
  <1>4. Passing({}, [k \in Keys |-> {}])
    BY DEF Passing, Nested, Apart
  <1> QED
    BY <1>1, <1>2, <1>3, <1>4 DEF Shape, Wired, ChildrenLinked, Reached, ParentsLinked

LEMMA RootShape ==
  ASSUME NEW t, NEW r, Shape(t, {}, r), NEW k \in Keys, NEW u, u = [t EXCEPT !.root = k],
         NEW rr, rr = [n \in Keys |-> Keys]
  PROVE  /\ Shape(u, {k}, rr)
         /\ u.root = k /\ u.color = t.color /\ u.child = t.child /\ u.parent = t.parent
  <1>1. k \in Nodes /\ t \in Trees /\ k # Nil
    BY KeysAreNodes DEF Shape, Wired
  <1>2. /\ u \in Trees /\ u.root = k /\ u.color = t.color /\ u.child = t.child
        /\ u.parent = t.parent
    BY <1>1, SetRootEffect
  <1>3. t.parent[k] = Nil /\ \A s \in Side : t.child[k][s] = Nil
    BY <1>1 DEF Shape, Wired, Fresh
  <1>4. Fresh(u, {k})
    BY <1>2 DEF Shape, Wired, Fresh
  <1>5. Passing({k}, rr)
    BY DEF Passing, Nested, Apart
  <1>6. RootPassed(u, {k}, rr) /\ rr[k] = Keys /\ Sentinel(u)
    BY <1>1, <1>2, <1>3, <1>4, FreshSentinel DEF RootPassed
  <1>7. ChildrenLinked(u, {k}, rr) /\ Reached(u, {k}, rr) /\ ParentsLinked(u, {k})
    BY <1>2, <1>3 DEF ChildrenLinked, Reached, ParentsLinked
  <1> QED
    BY <1>1, <1>2, <1>4, <1>5, <1>6, <1>7 DEF Shape, Wired

(* The place a search for k ends at is the only one that can take it: of   *)
(* the nodes it passes, that one lies below every other.                   *)
LEMMA PlaceIsLast ==
  ASSUME NEW t, NEW L, NEW r, Shape(t, L, r), NEW k \in Keys \ L, NEW spot \in L,
         k \in r[spot], t.child[spot][Before(k, spot)] = Nil,
         NEW m \in L, m # spot, k \in r[m]
  PROVE  spot \in r[m] /\ m \notin r[spot] /\ Before(k, m) = Before(spot, m)
  <1>1. \A x, n \in L : x # n /\ x \in r[n] => r[x] \subseteq Half(r[n], n, Before(x, n))
    BY DEF Shape, Wired, Passing, Nested
  <1>2. \A x, n \in L : x \notin r[n] /\ n \notin r[x] => r[x] \cap r[n] = {}
    BY DEF Shape, Wired, Passing, Apart
  <1>3. m \notin r[spot]
    <2> SUFFICES ASSUME m \in r[spot] PROVE FALSE
      OBVIOUS
    <2>1. Before(k, spot) = Before(m, spot)
      BY <1>1, HalfMember
    <2> QED
      BY <2>1, ReachedChild, ShapeWired
  <1>4. spot \in r[m]
    BY <1>2, <1>3
  <1> QED
    BY <1>1, <1>3, <1>4, HalfMember

(* The keys that pass a new node are those that were on their way there.   *)
Grown(r, k, spot, s) ==
  [n \in Keys |-> IF n = k THEN Half(r[spot], spot, s) ELSE r[n]]

LEMMA LinkPassing ==
  ASSUME NEW t, NEW L, NEW r, Shape(t, L, r), NEW k \in Keys \ L, NEW spot \in L,
         k \in r[spot], NEW s \in Side, Before(k, spot) = s, t.child[spot][s] = Nil
  PROVE  Passing(L \cup {k}, Grown(r, k, spot, s))
  <1> DEFINE rr == Grown(r, k, spot, s)
  <1>0. rr = [n \in Keys |-> IF n = k THEN Half(r[spot], spot, s) ELSE r[n]]
    BY DEF Grown
  <1> HIDE DEF rr
  <1>1. /\ L \subseteq Keys /\ r \in [Keys -> SUBSET Keys] /\ spot \in Keys
        /\ \A n \in L : n \in r[n]
    BY DEF Shape, Wired, Passing
  <1>2. rr[k] = Half(r[spot], spot, s) /\ \A n \in L : rr[n] = r[n]
    BY <1>0, <1>1
  <1>3. rr \in [Keys -> SUBSET Keys]
    <2>1. Half(r[spot], spot, s) \subseteq Keys
      BY <1>1, HalfMember
    <2> QED
      BY <1>0, <1>1, <2>1
  <1>4. \A x, n \in L : x # n /\ x \in r[n] => r[x] \subseteq Half(r[n], n, Before(x, n))
    BY DEF Shape, Wired, Passing, Nested
  <1>5. \A x, n \in L : x \notin r[n] /\ n \notin r[x] => r[x] \cap r[n] = {}
    BY DEF Shape, Wired, Passing, Apart
  (* Nothing is linked yet where k goes.                                   *)
  <1>6. \A m \in L : m \notin rr[k]
    BY <1>2, ReachedChild, ShapeWired, HalfMember
  <1>7. rr[k] \subseteq r[spot] /\ k \in rr[k]
    BY <1>1, <1>2, HalfMember
  <1>8. ASSUME NEW m \in L, k \in r[m]
        PROVE  rr[k] \subseteq Half(r[m], m, Before(k, m))
    <2>1. CASE m = spot
      BY <1>2, <2>1
    <2>2. CASE m # spot
      <3>1. spot \in r[m] /\ Before(k, m) = Before(spot, m)
        BY <1>8, <2>2, PlaceIsLast
      <3> QED
        BY <1>4, <1>7, <2>2, <3>1
    <2> QED
      BY <2>1, <2>2
  <1>9. ASSUME NEW m \in L, k \notin r[m]
        PROVE  rr[k] \cap r[m] = {}
    <2>1. m # spot
      BY <1>9
    <2>2. spot \notin r[m]
      BY <1>4, <1>9, <2>1, HalfMember
    <2>3. CASE m \in r[spot]
      <3>1. Before(m, spot) # s
        BY <2>1, <2>3, ReachedChild, ShapeWired
      <3> QED
        BY <1>2, <1>4, <2>1, <2>3, <3>1, HalfMember
    <2>4. CASE m \notin r[spot]
      BY <1>5, <1>7, <2>2, <2>4
    <2> QED
      BY <2>3, <2>4
  <1>10. Nested(L \cup {k}, rr)
    <2> SUFFICES ASSUME NEW x \in L \cup {k}, NEW n \in L \cup {k}, x # n, x \in rr[n]
                 PROVE  rr[x] \subseteq Half(rr[n], n, Before(x, n))
      BY DEF Nested
    <2>1. n \in L
      BY <1>6
    <2> QED
      BY <1>2, <1>4, <1>8, <2>1
  <1>11. Apart(L \cup {k}, rr)
    <2> SUFFICES ASSUME NEW x \in L \cup {k}, NEW n \in L \cup {k}, x \notin rr[n], n \notin rr[x]
                 PROVE  rr[x] \cap rr[n] = {}
      BY DEF Apart
    <2>1. CASE x = k
      BY <1>2, <1>7, <1>9, <2>1
    <2>2. CASE n = k
      BY <1>2, <1>7, <1>9, <2>2
    <2>3. CASE x # k /\ n # k
      BY <1>2, <1>5, <2>3
    <2> QED
      BY <2>1, <2>2, <2>3
  <1> QED
    BY <1>1, <1>2, <1>3, <1>7, <1>10, <1>11 DEF Passing, rr

LEMMA LinkEffect ==
  ASSUME NEW t \in Trees, NEW k \in Nodes, NEW spot \in Nodes, NEW s \in Side
  PROVE  LET u == SetChild(SetParent(t, k, spot), spot, s, k)
         IN /\ u \in Trees /\ u.root = t.root /\ u.color = t.color
            /\ \A x \in Nodes : u.parent[x] = IF x = k THEN spot ELSE t.parent[x]
            /\ \A x \in Nodes, d \in Side :
                 u.child[x][d] = IF x = spot /\ d = s THEN k ELSE t.child[x][d]
  <1> DEFINE v == SetParent(t, k, spot)
             w == SetChild(v, spot, s, k)
  <1>1. /\ v \in Trees /\ v.root = t.root /\ v.color = t.color /\ v.child = t.child
        /\ \A x \in Nodes : v.parent[x] = IF x = k THEN spot ELSE t.parent[x]
    BY SetParentEffect
  <1> HIDE DEF v
  <1>2. /\ w \in Trees /\ w.root = v.root /\ w.color = v.color /\ w.parent = v.parent
        /\ \A x \in Nodes, d \in Side :
             w.child[x][d] = IF x = spot /\ d = s THEN k ELSE v.child[x][d]
    <2>1. v \in Trees /\ spot \in Nodes /\ s \in Side /\ k \in Nodes
      BY <1>1
    <2> QED
      BY <2>1, SetChildEffect
  <1> HIDE DEF w
  <1>3. /\ w \in Trees /\ w.root = t.root /\ w.color = t.color
        /\ \A x \in Nodes : w.parent[x] = IF x = k THEN spot ELSE t.parent[x]
        /\ \A x \in Nodes, d \in Side :
             w.child[x][d] = IF x = spot /\ d = s THEN k ELSE t.child[x][d]
    BY <1>1, <1>2
  <1> QED
    BY <1>3 DEF w, v

(* u is t with k linked below spot.                                        *)
LinkedTo(t, u, L, r, k, spot, s) ==
  /\ Shape(u, L \cup {k}, Grown(r, k, spot, s))
  /\ u.color = t.color /\ u.root = t.root
  /\ \A x \in Nodes : u.parent[x] = IF x = k THEN spot ELSE t.parent[x]
  /\ \A x \in Nodes, d \in Side :
       u.child[x][d] = IF x = spot /\ d = s THEN k ELSE t.child[x][d]

LEMMA LinkShape ==
  ASSUME NEW t, NEW L, NEW r, Shape(t, L, r), NEW k \in Keys \ L, NEW spot \in L,
         k \in r[spot], NEW s \in Side, Before(k, spot) = s, t.child[spot][s] = Nil
  PROVE  LinkedTo(t, SetChild(SetParent(t, k, spot), spot, s, k), L, r, k, spot, s)
  <1> DEFINE u == SetChild(SetParent(t, k, spot), spot, s, k)
             rr == Grown(r, k, spot, s)
  <1>0. rr = [n \in Keys |-> IF n = k THEN Half(r[spot], spot, s) ELSE r[n]]
    BY DEF Grown
  <1>1. /\ L \subseteq Keys /\ spot \in Keys /\ spot \in Nodes /\ k \in Nodes /\ t \in Trees
        /\ s \in Side /\ k # Nil /\ spot # Nil /\ k # spot
    BY Sides, KeysAreNodes DEF Shape, Wired, Passing
  <1>5. /\ u \in Trees /\ u.root = t.root /\ u.color = t.color
        /\ \A x \in Nodes : u.parent[x] = IF x = k THEN spot ELSE t.parent[x]
        /\ \A x \in Nodes, d \in Side :
             u.child[x][d] = IF x = spot /\ d = s THEN k ELSE t.child[x][d]
    <2>1. t \in Trees /\ k \in Nodes /\ spot \in Nodes /\ s \in Side
      BY <1>1
    <2> QED
      BY <2>1, LinkEffect
  <1> HIDE DEF u
  <1>6. Passing(L \cup {k}, rr)
    BY LinkPassing
  <1> HIDE DEF rr
  <1>7. /\ rr[k] = Half(r[spot], spot, s) /\ \A n \in L : rr[n] = r[n]
        /\ k \notin L /\ \A n \in L : n \in Nodes /\ n # k
    BY <1>0, <1>1, KeysAreNodes
  <1>8. /\ t.parent[k] = Nil /\ \A d \in Side : t.child[k][d] = Nil
    BY <1>1 DEF Shape, Wired, Fresh
  <1>9. RootPassed(u, L \cup {k}, rr) /\ (u.root # Nil => rr[u.root] = Keys)
    <2>1. t.root \in L /\ t.root # Nil /\ r[t.root] = Keys /\ t.parent[t.root] = Nil
      BY <1>1 DEF Shape, Wired, RootPassed
    <2> QED
      BY <1>1, <1>5, <1>7, <2>1 DEF RootPassed
  <1>10. ChildrenLinked(u, L \cup {k}, rr)
    <2> SUFFICES ASSUME NEW x \in L \cup {k}, NEW d \in Side, NEW c, c = u.child[x][d], c # Nil
                 PROVE  c \in L \cup {k} /\ u.parent[c] = x /\ rr[c] = Half(rr[x], x, d)
      BY DEF ChildrenLinked
    <2>1. CASE x = spot /\ d = s
      BY <1>1, <1>5, <1>7, <2>1
    <2>2. CASE ~ (x = spot /\ d = s)
      <3>1. x \in L /\ c = t.child[x][d]
        BY <1>1, <1>5, <1>7, <1>8, <2>2
      <3>2. c \in L /\ t.parent[c] = x /\ r[c] = Half(r[x], x, d)
        BY <3>1, ChildFacts, ShapeWired
      <3> QED
        BY <1>5, <1>7, <3>1, <3>2
    <2> QED
      BY <2>1, <2>2
  <1>11. Reached(u, L \cup {k}, rr)
    <2> SUFFICES ASSUME NEW x \in L \cup {k}, NEW m \in L \cup {k}, m \in rr[x], m # x
                 PROVE  u.child[x][Before(m, x)] # Nil
      BY DEF Reached
    <2>1. CASE x = k
      BY <1>7, <2>1, ReachedChild, ShapeWired, HalfMember
    <2>2. CASE x \in L
      <3>1. x \in Keys /\ m \in Keys /\ Before(m, x) \in Side /\ x \in Nodes
        BY <1>1, <1>7, <2>2, Sides
      <3>2. CASE m \in L
        BY <1>1, <1>5, <1>7, <2>2, <3>1, <3>2, ReachedChild, ShapeWired
      <3>3. CASE m = k /\ x = spot
        BY <1>1, <1>5, <3>1, <3>3
      <3>4. CASE m = k /\ x # spot
        <4>1. spot \in r[x] /\ Before(k, x) = Before(spot, x)
          BY <1>7, <2>2, <3>4, PlaceIsLast
        <4>2. t.child[x][Before(k, x)] # Nil
          BY <2>2, <3>4, <4>1, ReachedChild, ShapeWired
        <4> QED
          BY <1>1, <1>5, <3>1, <3>4, <4>2
      <3> QED
        BY <3>2, <3>3, <3>4
    <2> QED
      BY <2>1, <2>2
  <1>12. ParentsLinked(u, L \cup {k})
    <2> SUFFICES ASSUME NEW x \in L \cup {k}, x # u.root
                 PROVE  /\ u.parent[x] \in L \cup {k}
                        /\ u.child[u.parent[x]][Before(x, u.parent[x])] = x
      BY DEF ParentsLinked
    <2>1. CASE x = k
      BY <1>1, <1>5, <2>1
    <2>2. CASE x \in L
      <3> DEFINE q == t.parent[x]
      <3>1. q \in L /\ t.child[q][Before(x, q)] = x
        BY <1>5, <2>2 DEF Shape, Wired, ParentsLinked
      <3>2. u.parent[x] = q /\ q \in Nodes /\ x # Nil /\ Before(x, q) \in Side
        BY <1>1, <1>5, <1>7, <2>2, <3>1, KeysAreNodes, Sides
      <3> HIDE DEF q
      <3> QED
        BY <1>5, <3>1, <3>2
    <2> QED
      BY <2>1, <2>2
  <1>13. Fresh(u, L \cup {k})
    BY <1>1, <1>5 DEF Shape, Wired, Fresh
  <1> QED
    BY <1>1, <1>5, <1>6, <1>9, <1>10, <1>11, <1>12, <1>13, FreshSentinel
       DEF Shape, Wired, LinkedTo, u, rr

-----------------------------------------------------------------------------
(* What a search passes: the nodes above its key.                          *)

LEMMA AboveRoot ==
  ASSUME NEW t, NEW L, NEW r, Wired(t, L, r), t.root # Nil
  PROVE  t.root \in L /\ Above(L, r, t.root) = {t.root}
  <1>1. t.root \in L /\ L \subseteq r[t.root] /\ L \subseteq Keys
    BY DEF Wired, RootPassed, Passing
  <1>2. ASSUME NEW m \in L, t.root \in r[m], m # t.root PROVE FALSE
    <2>1. r[m] \subseteq Half(r[t.root], t.root, Before(m, t.root))
      BY <1>1, <1>2 DEF Wired, Passing, Nested
    <2> QED
      BY <1>2, <2>1, HalfMember
  <1> QED
    BY <1>1, <1>2 DEF Above

LEMMA AboveParent ==
  ASSUME NEW t, NEW L, NEW r, Wired(t, L, r), NEW n \in L, n # t.root
  PROVE  LET p == t.parent[n]
         IN /\ p \in L /\ p # n /\ n \in r[p] /\ t.child[p][Before(n, p)] = n
            /\ r[n] = Half(r[p], p, Before(n, p))
            /\ Above(L, r, n) = Above(L, r, p) \cup {n}
            /\ n \notin Above(L, r, p)
  <1> DEFINE p == t.parent[n]
  <1>1. /\ p \in L /\ p # n /\ r[n] = Half(r[p], p, Before(n, p)) /\ p \notin r[n]
        /\ t.child[p][Before(n, p)] = n
    BY ParentFacts
  <1> HIDE DEF p
  <1>2. n \in r[n] /\ p \in r[p] /\ L \subseteq Keys
    BY <1>1 DEF Wired, Passing
  <1>3. n \in r[p]
    BY <1>1, <1>2, HalfMember
  <1>4. ASSUME NEW x \in L, p \in r[x] PROVE n \in r[x]
    <2>1. x # p => r[p] \subseteq Half(r[x], x, Before(p, x))
      BY <1>1, <1>4 DEF Wired, Passing, Nested
    <2> QED
      BY <1>3, <1>4, <2>1, HalfMember
  <1>5. ASSUME NEW x \in L, n \in r[x], x # n PROVE p \in r[x]
    <2>1. SUFFICES ASSUME p \notin r[x] PROVE FALSE
      OBVIOUS
    <2>2. x # p
      BY <1>2, <2>1
    <2>3. x \in r[p]
      BY <1>1, <1>3, <1>5, <2>1 DEF Wired, Passing, Apart
    <2>4. r[x] \subseteq Half(r[p], p, Before(x, p))
      BY <1>1, <2>2, <2>3 DEF Wired, Passing, Nested
    <2>5. Before(x, p) = Before(n, p)
      BY <1>5, <2>4, HalfMember
    <2>6. x \in r[n]
      BY <1>1, <2>2, <2>3, <2>5, HalfMember
    <2>7. r[x] \subseteq Half(r[n], n, Before(x, n))
      BY <1>5, <2>6 DEF Wired, Passing, Nested
    <2> QED
      BY <1>5, <2>7, HalfMember
  <1>6. Above(L, r, n) = Above(L, r, p) \cup {n}
    BY <1>2, <1>4, <1>5 DEF Above
  <1>7. n \notin Above(L, r, p)
    BY <1>1 DEF Above
  <1> QED
    BY <1>1, <1>3, <1>6, <1>7 DEF p

LEMMA AboveFinite ==
  ASSUME NEW L, L \subseteq Keys, NEW r, NEW n
  PROVE  /\ IsFiniteSet(Above(L, r, n))
         /\ Cardinality(Above(L, r, n)) \in Nat
         /\ Cardinality(Above(L, r, n)) <= Cardinality(L)
         /\ Cardinality(L) \in Nat /\ Cardinality(L) <= Cardinality(Keys)
         /\ Cardinality(Keys) \in Nat /\ IsFiniteSet(L)
  <1>1. IsFiniteSet(Keys)
    BY KeysAssumption
  <1>2. L \in SUBSET Keys
    OBVIOUS
  <1>3. IsFiniteSet(L) /\ Cardinality(L) <= Cardinality(Keys)
    BY <1>1, <1>2, FS_Subset
  <1>4. Above(L, r, n) \in SUBSET L
    BY DEF Above
  <1>5. IsFiniteSet(Above(L, r, n)) /\ Cardinality(Above(L, r, n)) <= Cardinality(L)
    BY <1>3, <1>4, FS_Subset
  <1> QED
    BY <1>1, <1>3, <1>5, FS_CardinalityType

(* What is nearer to the root has fewer nodes above it.                    *)
LEMMA AboveShrinks ==
  ASSUME NEW t, NEW L, NEW r, Wired(t, L, r), NEW n \in L, n # t.root
  PROVE  Cardinality(Above(L, r, n)) = Cardinality(Above(L, r, t.parent[n])) + 1
  <1>1. /\ Above(L, r, n) = Above(L, r, t.parent[n]) \cup {n}
        /\ n \notin Above(L, r, t.parent[n])
    BY AboveParent
  <1>2. IsFiniteSet(Above(L, r, t.parent[n]))
    BY AboveFinite DEF Wired, Passing
  <1> QED
    BY <1>1, <1>2, FS_AddElement

Onward(t, k, n) == IF n \in {Nil, k} THEN n ELSE t.child[n][Before(k, n)]

PassesInSteps(f, t, k, n) ==
  /\ f[0] = {t.root}
  /\ \A i \in 1 .. n : f[i] = UNION {{m, Onward(t, k, m)} : m \in f[i - 1]}
  /\ Passed(t, k) = f[n]

LEMMA PassedSteps ==
  ASSUME NEW t, NEW k, NEW n \in Nat, Cardinality(Keys) = n
  PROVE  \E f : PassesInSteps(f, t, k, n)
  <1> DEFINE On(S) == UNION {{m, Onward(t, k, m)} : m \in S}
             Steps(f, m) == [i \in 0 .. m |-> IF i = 0 THEN {t.root} ELSE On(f[i - 1])]
             P == {m \in Nat : \E f : f = Steps(f, m)}
  <1>1. Passed(t, k) = (CHOOSE f : f = Steps(f, n))[n]
    BY DEF Passed, Onward
  <1> HIDE DEF On
  <1>2. 0 \in P
    <2> DEFINE f == [i \in 0 .. 0 |-> {t.root}]
    <2>1. f = Steps(f, 0)
      OBVIOUS
    <2> QED
      BY <2>1
  <1>3. ASSUME NEW m \in Nat, m \in P PROVE m + 1 \in P
    <2>1. PICK f : f = Steps(f, m)
      BY <1>3
    <2> DEFINE g == [i \in 0 .. m + 1 |-> IF i <= m THEN f[i] ELSE On(f[m])]
    <2>2. \A i \in 0 .. m : g[i] = f[i]
      OBVIOUS
    <2>3. ASSUME NEW i \in 0 .. m + 1
          PROVE  g[i] = IF i = 0 THEN {t.root} ELSE On(g[i - 1])
      <3>1. CASE i <= m
        <4>1. i \in 0 .. m /\ g[i] = f[i] /\ (i # 0 => g[i - 1] = f[i - 1])
          BY <2>2, <3>1
        <4>2. f[i] = IF i = 0 THEN {t.root} ELSE On(f[i - 1])
          BY <2>1, <4>1
        <4> QED
          BY <4>1, <4>2
      <3>2. CASE i = m + 1
        <4>1. i # 0 /\ i - 1 = m /\ g[m] = f[m] /\ ~ (i <= m)
          BY <2>2, <3>2
        <4> QED
          BY <3>2, <4>1
      <3> QED
        BY <3>1, <3>2
    <2>4. g = Steps(g, m + 1)
      <3>1. g = [i \in 0 .. m + 1 |-> g[i]]
        OBVIOUS
      <3> HIDE DEF g
      <3> QED
        BY <2>3, <3>1
    <2> HIDE DEF g
    <2> QED
      BY <2>4
  <1>4. n \in P
    <2> HIDE DEF P
    <2> QED
      BY <1>2, <1>3, SetInduction
  <1> DEFINE f == CHOOSE f : f = Steps(f, n)
  <1>5. f = Steps(f, n)
    BY <1>4
  <1>6. Passed(t, k) = f[n]
    BY <1>1
  <1> HIDE DEF f
  <1>7. \A i \in 0 .. n : f[i] = IF i = 0 THEN {t.root} ELSE On(f[i - 1])
    BY <1>5
  <1>8. f[0] = {t.root} /\ \A i \in 1 .. n : f[i] = On(f[i - 1])
    BY <1>7
  <1> QED
    BY <1>6, <1>8 DEF PassesInSteps, On

(* No search leaves the nodes above its key, but for the sentinel.         *)
LEMMA PassedStay ==
  ASSUME NEW t, NEW L, NEW r, Wired(t, L, r), NEW k \in L, NEW n \in Nat,
         NEW f, PassesInSteps(f, t, k, n)
  PROVE  \A i \in 0 .. n : f[i] \subseteq Above(L, r, k) \cup {Nil}
  <1> DEFINE A == Above(L, r, k) \cup {Nil}
             P == {i \in Nat : i <= n => f[i] \subseteq A}
  <1>1. 0 \in P
    <2>1. t.root # Nil => t.root \in L /\ k \in r[t.root]
      BY DEF Wired, RootPassed
    <2> QED
      BY <2>1 DEF PassesInSteps, Above
  <1>2. ASSUME NEW m \in A PROVE Onward(t, k, m) \in A
    <2>1. CASE m \in {Nil, k}
      BY <2>1 DEF Onward
    <2>2. CASE m \notin {Nil, k}
      <3> DEFINE s == Before(k, m)
                 c == t.child[m][s]
      <3>1. m \in L /\ k \in r[m] /\ m \in Keys /\ s \in Side /\ k # m
        BY <2>2, Sides DEF Above, Wired, Passing
      <3>2. Onward(t, k, m) = c
        BY <2>2 DEF Onward
      <3>3. c # Nil => c \in L /\ r[c] = Half(r[m], m, s)
        BY <3>1, ChildFacts
      <3> HIDE DEF c, s
      <3>4. c # Nil => k \in r[c]
        BY <3>1, <3>3, HalfMember DEF s
      <3> QED
        BY <3>2, <3>3, <3>4 DEF Above
    <2> QED
      BY <2>1, <2>2
  <1> HIDE DEF A
  <1>3. ASSUME NEW i \in Nat, i \in P PROVE i + 1 \in P
    <2> SUFFICES ASSUME i + 1 <= n PROVE f[i + 1] \subseteq A
      OBVIOUS
    <2>1. f[i] \subseteq A
      BY <1>3
    <2>2. i + 1 \in 1 .. n /\ (i + 1) - 1 = i
      OBVIOUS
    <2>3. f[i + 1] = UNION {{m, Onward(t, k, m)} : m \in f[i]}
      BY <2>2 DEF PassesInSteps
    <2> QED
      BY <1>2, <2>1, <2>3
  <1>4. Nat \subseteq P
    <2> HIDE DEF P
    <2> QED
      BY <1>1, <1>3, SetInduction
  <1> QED
    BY <1>4 DEF A

(* No search passes a node that is not linked.                             *)
LEMMA PassedLinked ==
  ASSUME NEW t, NEW L, NEW r, Wired(t, L, r), NEW k \in Keys
  PROVE  Passed(t, k) \subseteq L \cup {Nil}
  <1> DEFINE n == Cardinality(Keys)
             A == L \cup {Nil}
  <1>1. n \in Nat /\ L \subseteq Keys
    BY AboveFinite DEF Wired, Passing
  <1>2. PICK f : PassesInSteps(f, t, k, n)
    BY <1>1, PassedSteps
  <1> HIDE DEF n
  <1> DEFINE P == {i \in Nat : i <= n => f[i] \subseteq A}
  <1>3. 0 \in P
    BY <1>2 DEF PassesInSteps, Wired, RootPassed
  <1>4. ASSUME NEW m \in A PROVE Onward(t, k, m) \in A
    <2>1. CASE m \in {Nil, k}
      BY <2>1 DEF Onward
    <2>2. CASE m \notin {Nil, k}
      <3>1. m \in L /\ m \in Keys /\ Before(k, m) \in Side
        BY <1>1, <2>2, Sides
      <3> QED
        BY <2>2, <3>1, ChildFacts DEF Onward
    <2> QED
      BY <2>1, <2>2
  <1> HIDE DEF A
  <1>5. ASSUME NEW i \in Nat, i \in P PROVE i + 1 \in P
    <2> SUFFICES ASSUME i + 1 <= n PROVE f[i + 1] \subseteq A
      OBVIOUS
    <2>1. f[i] \subseteq A
      BY <1>1, <1>5
    <2>2. i + 1 \in 1 .. n /\ (i + 1) - 1 = i
      BY <1>1
    <2>3. f[i + 1] = UNION {{m, Onward(t, k, m)} : m \in f[i]}
      BY <1>2, <2>2 DEF PassesInSteps
    <2> QED
      BY <1>4, <2>1, <2>3
  <1>6. Nat \subseteq P
    <2> HIDE DEF P
    <2> QED
      BY <1>3, <1>5, SetInduction
  <1> QED
    BY <1>1, <1>2, <1>6 DEF A, PassesInSteps

(* A search passes a node above its key once it has gone as far.           *)
LEMMA PassedReach ==
  ASSUME NEW t, NEW L, NEW r, Wired(t, L, r), NEW k \in Keys, NEW n \in Nat,
         NEW f, PassesInSteps(f, t, k, n)
  PROVE  \A i \in 0 .. n : \A m \in Above(L, r, k) :
           Cardinality(Above(L, r, m)) <= i + 1 => m \in f[i]
  <1> DEFINE C(m) == Cardinality(Above(L, r, m))
             A == Above(L, r, k)
             P == {i \in Nat : i <= n => \A m \in A : C(m) <= i + 1 => m \in f[i]}
  <1>0. L \subseteq Keys
    BY DEF Wired, Passing
  <1>n. \A m : C(m) \in Nat
    BY <1>0, AboveFinite
  <1>1. \A m \in L : m # t.root => C(m) = C(t.parent[m]) + 1
    BY AboveShrinks
  <1>2. \A m \in L : C(m) >= 1
    <2> SUFFICES ASSUME NEW m \in L PROVE C(m) # 0
      BY <1>n
    <2>1. m \in Above(L, r, m)
      BY DEF Above, Wired, Passing
    <2>2. IsFiniteSet(Above(L, r, m))
      BY <1>0, AboveFinite
    <2> QED
      BY <2>1, <2>2, FS_EmptySet
  <1>3. ASSUME NEW m \in A, m # t.root
        PROVE  LET p == t.parent[m]
               IN p \in A /\ Onward(t, k, p) = m
    <2> DEFINE p == t.parent[m]
    <2>1. m \in L /\ k \in r[m] /\ k \in Keys
      BY DEF Above
    <2>2. /\ p \in L /\ t.child[p][Before(m, p)] = m /\ r[m] = Half(r[p], p, Before(m, p))
      BY <1>3, <2>1, AboveParent
    <2> HIDE DEF p
    <2>3. k \in r[p] /\ k # p /\ Before(k, p) = Before(m, p)
      BY <2>1, <2>2, HalfMember
    <2>4. p # Nil
      BY <1>0, <2>2, KeysAreNodes
    <2>5. p \in A /\ Onward(t, k, p) = m
      BY <2>2, <2>3, <2>4 DEF Above, Onward
    <2> QED
      BY <2>5 DEF p
  <1>4. \A m \in A : m \in L
    BY DEF Above
  <1> HIDE DEF C, A
  <1>5. 0 \in P
    <2> SUFFICES ASSUME NEW m \in A, C(m) <= 1 PROVE m = t.root
      BY DEF PassesInSteps
    <2> SUFFICES ASSUME m # t.root PROVE FALSE
      OBVIOUS
    <2>1. C(m) = C(t.parent[m]) + 1 /\ t.parent[m] \in L
      BY <1>1, <1>3, <1>4
    <2> QED
      BY <1>2, <1>n, <2>1
  <1>6. ASSUME NEW i \in Nat, i \in P PROVE i + 1 \in P
    <2> SUFFICES ASSUME i + 1 <= n, NEW m \in A, C(m) <= i + 1 + 1 PROVE m \in f[i + 1]
      OBVIOUS
    <2>2. i + 1 \in 1 .. n /\ (i + 1) - 1 = i /\ i <= n
      OBVIOUS
    <2>3. f[i + 1] = UNION {{x, Onward(t, k, x)} : x \in f[i]}
      BY <2>2 DEF PassesInSteps
    <2>4. CASE C(m) <= i + 1
      <3>1. m \in f[i]
        BY <1>6, <2>2, <2>4
      <3> QED
        BY <2>3, <3>1
    <2>5. CASE ~ (C(m) <= i + 1)
      <3>1. m # t.root
        <4> SUFFICES ASSUME m = t.root PROVE FALSE
          OBVIOUS
        <4>1. t.root # Nil
          BY <1>0, <1>4, KeysAreNodes
        <4>2. Above(L, r, m) = {m}
          BY <4>1, AboveRoot
        <4>3. C(m) = 1
          BY <4>2, FS_Singleton DEF C
        <4> QED
          BY <2>5, <4>3
      <3> DEFINE p == t.parent[m]
      <3>2. p \in A /\ Onward(t, k, p) = m /\ C(m) = C(p) + 1
        BY <1>1, <1>3, <1>4, <3>1
      <3>3. C(p) <= i + 1
        BY <1>n, <3>2
      <3>4. p \in f[i]
        BY <1>6, <2>2, <3>2, <3>3
      <3> QED
        BY <2>3, <3>2, <3>4
    <2> QED
      BY <2>4, <2>5
  <1>7. Nat \subseteq P
    <2> HIDE DEF P
    <2> QED
      BY <1>5, <1>6, SetInduction
  <1> QED
    BY <1>7 DEF A, C

LEMMA PassedAbove ==
  ASSUME NEW t, NEW L, NEW r, Wired(t, L, r), NEW k \in L
  PROVE  Passed(t, k) \ {Nil} = Above(L, r, k)
  <1> DEFINE n == Cardinality(Keys)
  <1>1. n \in Nat /\ L \subseteq Keys
    BY AboveFinite DEF Wired, Passing
  <1>2. PICK f : PassesInSteps(f, t, k, n)
    BY <1>1, PassedSteps
  <1>3. Passed(t, k) = f[n]
    BY <1>2 DEF PassesInSteps
  <1>4. f[n] \subseteq Above(L, r, k) \cup {Nil}
    BY <1>1, <1>2, PassedStay
  <1>5. Above(L, r, k) \subseteq f[n]
    <2> SUFFICES ASSUME NEW m \in Above(L, r, k) PROVE m \in f[n]
      OBVIOUS
    <2>1. /\ Cardinality(Above(L, r, m)) <= Cardinality(L)
          /\ Cardinality(L) <= n /\ Cardinality(Above(L, r, m)) \in Nat /\ Cardinality(L) \in Nat
      BY <1>1, AboveFinite
    <2> HIDE DEF n
    <2>2. Cardinality(Above(L, r, m)) <= n + 1
      BY <1>1, <2>1
    <2> QED
      BY <1>1, <1>2, <2>2, PassedReach
  <1>6. Nil \notin Above(L, r, k)
    BY <1>1, KeysAreNodes DEF Above
  <1> QED
    BY <1>3, <1>4, <1>5, <1>6

(* A search finds the linked keys and no other.                            *)
LEMMA FoundLinked ==
  ASSUME NEW t, NEW L, NEW r, Wired(t, L, r)
  PROVE  Found(t) = L
  <1>1. L \subseteq Keys /\ \A k \in L : k \in r[k]
    BY DEF Wired, Passing
  <1>2. ASSUME NEW k \in Keys PROVE k \in Passed(t, k) <=> k \in L
    <2>1. k \notin L => k \notin Passed(t, k)
      BY PassedLinked, KeysAreNodes
    <2>2. k \in L => k \in Above(L, r, k)
      BY <1>1 DEF Above
    <2>3. k \in L => Passed(t, k) \ {Nil} = Above(L, r, k)
      BY PassedAbove
    <2> QED
      BY <2>1, <2>2, <2>3
  <1> QED
    BY <1>1, <1>2 DEF Found

-----------------------------------------------------------------------------
(* Black nodes above and below a node add up to the same number.           *)

BlackAbove(t, L, r, n) == {m \in Above(L, r, n) : t.color[m] = "black"}

LEMMA BlacksAddUp ==
  ASSUME NEW t, NEW L, NEW r, Wired(t, L, r), NEW h, Even(t, L, h)
  PROVE  \A n \in L : Cardinality(BlackAbove(t, L, r, n)) + h[n]
                      = Blackness(t, t.root) + h[t.root]
  <1> DEFINE B(n) == Cardinality(BlackAbove(t, L, r, n))
             C(n) == Cardinality(Above(L, r, n))
             sum == Blackness(t, t.root) + h[t.root]
             P == {i \in Nat : \A n \in L : C(n) <= i => B(n) + h[n] = sum}
  <1>0. L \subseteq Keys /\ (\A n \in L : n \in Nodes /\ n # Nil) /\ t.root \in Nodes /\ h \in [Nodes -> Nat]
    BY KeysAreNodes DEF Wired, Passing, Trees, Even
  <1>n. \A n : C(n) \in Nat /\ IsFiniteSet(Above(L, r, n))
    BY <1>0, AboveFinite
  <1>f. \A n : BlackAbove(t, L, r, n) \in SUBSET Above(L, r, n)
    BY DEF BlackAbove
  <1>b. \A n : IsFiniteSet(BlackAbove(t, L, r, n)) /\ B(n) \in Nat
    <2> SUFFICES ASSUME NEW n PROVE IsFiniteSet(BlackAbove(t, L, r, n)) /\ B(n) \in Nat
      OBVIOUS
    <2>1. IsFiniteSet(BlackAbove(t, L, r, n))
      BY <1>n, <1>f, FS_Subset
    <2> QED
      BY <2>1, FS_CardinalityType
  <1>p. \A n \in L : C(n) # 0
    BY <1>n, FS_EmptySet DEF Above, Wired, Passing
  <1>1. 0 \in P
    BY <1>n, <1>p
  <1>2. ASSUME NEW n \in L, n # t.root
        PROVE  LET p == t.parent[n]
               IN p \in L /\ C(n) = C(p) + 1 /\ B(n) + h[n] = B(p) + h[p]
    <2> DEFINE p == t.parent[n]
    <2>1. /\ p \in L /\ n \notin Above(L, r, p)
          /\ t.child[p][Before(n, p)] = n
          /\ Above(L, r, n) = Above(L, r, p) \cup {n}
      BY <1>2, AboveParent
    <2>2. C(n) = C(p) + 1
      BY <1>2, AboveShrinks
    <2> HIDE DEF p
    <2>3. Before(n, p) \in Side
      BY <1>0, <2>1, Sides
    <2>4. h[p] = h[n] + Blackness(t, n)
      BY <2>1, <2>3 DEF Even
    <2>5. n \notin BlackAbove(t, L, r, p)
      BY <2>1 DEF BlackAbove
    <2>6. B(n) = B(p) + Blackness(t, n)
      <3>1. CASE t.color[n] = "black"
        <4>1. BlackAbove(t, L, r, n) = BlackAbove(t, L, r, p) \cup {n}
          BY <2>1, <3>1 DEF BlackAbove
        <4> QED
          BY <1>b, <2>5, <3>1, <4>1, FS_AddElement DEF Blackness
      <3>2. CASE t.color[n] # "black"
        <4>1. BlackAbove(t, L, r, n) = BlackAbove(t, L, r, p)
          BY <2>1, <3>2 DEF BlackAbove
        <4> QED
          BY <1>b, <3>2, <4>1 DEF Blackness
      <3> QED
        BY <3>1, <3>2
    <2>7. Blackness(t, n) \in Nat /\ h[n] \in Nat /\ h[p] \in Nat /\ B(p) \in Nat
      BY <1>0, <1>b, <2>1 DEF Blackness
    <2>8. B(n) + h[n] = B(p) + h[p]
      <3> HIDE DEF B
      <3> QED
        BY <2>4, <2>6, <2>7
    <2> QED
      BY <2>1, <2>2, <2>8 DEF p
  <1>3. t.root # Nil => B(t.root) + h[t.root] = sum
    <2> SUFFICES ASSUME t.root # Nil PROVE B(t.root) = Blackness(t, t.root)
      OBVIOUS
    <2>1. Above(L, r, t.root) = {t.root}
      BY AboveRoot
    <2>2. CASE t.color[t.root] = "black"
      <3>1. BlackAbove(t, L, r, t.root) = {t.root}
        BY <2>1, <2>2 DEF BlackAbove
      <3> QED
        BY <2>2, <3>1, FS_Singleton DEF Blackness
    <2>3. CASE t.color[t.root] # "black"
      <3>1. BlackAbove(t, L, r, t.root) = {}
        BY <2>1, <2>3 DEF BlackAbove
      <3> QED
        BY <2>3, <3>1, FS_EmptySet DEF Blackness
    <2> QED
      BY <2>2, <2>3
  <1> HIDE DEF B, C, sum
  <1>4. ASSUME NEW i \in Nat, i \in P PROVE i + 1 \in P
    <2> SUFFICES ASSUME NEW n \in L, C(n) <= i + 1 PROVE B(n) + h[n] = sum
      OBVIOUS
    <2>1. CASE n = t.root
      BY <1>0, <1>3, <2>1
    <2>2. CASE n # t.root
      <3> DEFINE p == t.parent[n]
      <3>1. p \in L /\ C(n) = C(p) + 1 /\ B(n) + h[n] = B(p) + h[p]
        BY <1>2, <2>2
      <3> HIDE DEF p
      <3>2. C(p) <= i
        BY <1>n, <3>1
      <3> QED
        BY <1>4, <3>1, <3>2
    <2> QED
      BY <2>1, <2>2
  <1>5. Nat \subseteq P
    <2> HIDE DEF P
    <2> QED
      BY <1>1, <1>4, SetInduction
  <1>6. ASSUME NEW n \in L PROVE B(n) + h[n] = sum
    <2>1. C(n) \in Nat /\ C(n) <= C(n)
      BY <1>n
    <2> QED
      BY <1>5, <2>1
  <1> QED
    BY <1>6 DEF B, sum

-----------------------------------------------------------------------------
(* What the invariant is for.                                              *)

LEMMA FillBalanced ==
  ASSUME NEW r, NEW h, Shape(tree, inserted, r), Even(tree, inserted, h)
  PROVE  Cardinality({BlackTo(n) : n \in {m \in inserted : Open(m)}}) <= 1
  <1> DEFINE sum == Blackness(tree, tree.root) + h[tree.root]
             S == {BlackTo(n) : n \in {m \in inserted : Open(m)}}
  <1>1. inserted \subseteq Keys /\ Nil \notin inserted /\ tree.root \in Nodes
        /\ h \in [Nodes -> Nat] /\ h[Nil] = 0 /\ tree.color[Nil] = "black"
    BY KeysAreNodes DEF Shape, Wired, Passing, Trees, Even, Fresh
  <1>2. ASSUME NEW n \in inserted, Open(n) PROVE BlackTo(n) = sum - 1
    <2>1. BlackTo(n) = Cardinality(BlackAbove(tree, inserted, r, n))
      <3>1. Passed(tree, n) \ {Nil} = Above(inserted, r, n)
        BY <1>1, PassedAbove, ShapeWired
      <3> QED
        BY <3>1 DEF BlackTo, BlackAbove
    <2>2. Cardinality(BlackAbove(tree, inserted, r, n)) + h[n] = sum
      BY BlacksAddUp, ShapeWired
    <2>3. h[n] = 1
      <3>1. PICK s \in Side : tree.child[n][s] = Nil
        BY <1>2 DEF Open
      <3>2. h[n] = h[Nil] + Blackness(tree, Nil)
        BY <3>1 DEF Even
      <3> QED
        BY <1>1, <3>2 DEF Blackness
    <2>4. Cardinality(BlackAbove(tree, inserted, r, n)) \in Nat
      <3>1. IsFiniteSet(Above(inserted, r, n))
        BY <1>1, AboveFinite
      <3>2. BlackAbove(tree, inserted, r, n) \in SUBSET Above(inserted, r, n)
        BY DEF BlackAbove
      <3> QED
        BY <3>1, <3>2, FS_Subset, FS_CardinalityType
    <2>5. sum \in Nat
      BY <1>1 DEF Blackness
    <2> HIDE DEF sum
    <2> QED
      BY <2>1, <2>2, <2>3, <2>4, <2>5
  <1> HIDE DEF sum
  <1>3. S \in SUBSET {sum - 1}
    BY <1>2
  <1> HIDE DEF S
  <1>4. IsFiniteSet({sum - 1}) /\ Cardinality({sum - 1}) = 1
    BY FS_Singleton
  <1>5. Cardinality(S) <= 1
    BY <1>3, <1>4, FS_Subset
  <1> QED
    BY <1>5 DEF S

LEMMA FillMeaning ==
  ASSUME deleted = {}, FillTyped, NEW r, NEW h, Filling(r, h)
  PROVE  NothingLost /\ WellFormed /\ WorkBounded
  <1> DEFINE L == Linked
  <1>1. Found(tree) = L
    BY FoundLinked, ShapeWired DEF Filling
  <1>2. L \subseteq Keys /\ L \subseteq inserted /\ (pc # "descend" => L = inserted)
        /\ inserted \subseteq Keys
    BY DEF Linked, FillTyped
  <1>3. NothingLost
    BY <1>1, <1>2 DEF NothingLost
  <1> HIDE DEF L
  <1>4. TypeOK
    <2>1. tree \in Trees
      BY DEF Filling, Shape, Wired
    <2>2. /\ tree.root \in Nodes /\ tree.parent \in [Nodes -> Nodes]
          /\ tree.color \in [Nodes -> {"red", "black"}]
          /\ tree.child \in [Nodes -> [Side -> Nodes]]
      BY <2>1 DEF Trees, Colors
    <2> QED
      BY <2>2 DEF TypeOK, FillTyped, Side
  <1>5. ParentLinks
    <2>1. RootPassed(tree, L, r) /\ ChildrenLinked(tree, L, r)
      BY DEF Filling, Shape, Wired, L
    <2> QED
      BY <1>1, <2>1 DEF ParentLinks, RootPassed, ChildrenLinked
  <1>6. RedBlack
    <2> SUFFICES ASSUME pc = "idle"
                 PROVE  /\ tree.color[tree.root] = "black"
                        /\ \A n \in inserted, s \in Side :
                             tree.color[n] = "red" => tree.color[tree.child[n][s]] = "black"
                        /\ Cardinality({BlackTo(n) : n \in {m \in inserted : Open(m)}}) <= 1
      BY <1>1, <1>2 DEF RedBlack
    <2>1. Shape(tree, inserted, r) /\ Even(tree, inserted, h) /\ RedApart(tree, inserted, Nil)
      BY <1>2 DEF Filling, L, Odd
    <2>2. /\ Nil \notin inserted /\ tree.color[Nil] = "black"
          /\ \A n \in Nodes : tree.color[n] = "red" \/ tree.color[n] = "black"
          /\ inserted \subseteq Nodes
      BY <1>2, <2>1, KeysAreNodes, TreeParts DEF Shape, Wired, Fresh, Colors
    <2>3. tree.color[tree.root] = "black"
      <3>1. tree.root # Nil => tree.root \in inserted
        BY <2>1 DEF Shape, Wired, RootPassed
      <3> QED
        BY <2>1, <2>2, <3>1 DEF RedApart
    <2>4. ASSUME NEW n \in inserted, NEW s \in Side, tree.color[n] = "red"
          PROVE  tree.color[tree.child[n][s]] = "black"
      <3> DEFINE c == tree.child[n][s]
      <3>1. c # Nil => c \in inserted /\ tree.parent[c] = n
        BY <2>1, ChildFacts, ShapeWired
      <3> HIDE DEF c
      <3>2. tree.color[c] = "black"
        BY <2>1, <2>2, <2>4, <3>1 DEF RedApart
      <3> QED
        BY <3>2 DEF c
    <2>5. Cardinality({BlackTo(n) : n \in {m \in inserted : Open(m)}}) <= 1
      BY <2>1, FillBalanced
    <2> QED
      BY <2>3, <2>4, <2>5
  <1>7. WorkBounded
    <2>1. /\ IsFiniteSet(inserted) /\ L \in SUBSET inserted /\ work \in Nat
          /\ Cardinality(inserted) \in Nat /\ Cardinality(L) \in Nat
      BY <1>2, AboveFinite DEF FillTyped
    <2>2. Cardinality(L) <= Cardinality(inserted)
      BY <2>1, FS_Subset
    <2>3. Cardinality(Under(L, r, place)) \in Nat
      <3>1. Under(L, r, place) \in SUBSET inserted
        BY <1>2 DEF Under
      <3> QED
        BY <2>1, <3>1, FS_Subset, FS_CardinalityType
    <2>4. Cardinality(Above(inserted, r, node)) \in Nat
      BY <1>2, AboveFinite
    <2>5. Progress(r)
      BY DEF Filling
    <2>6. work <= 2 * Cardinality(inserted) + 2
      BY <2>1, <2>2, <2>3, <2>4, <2>5 DEF Progress, FillTyped, L
    <2>7. inserted \ deleted = inserted
      OBVIOUS
    <2> QED
      BY <2>6, <2>7 DEF WorkBounded
  <1> QED
    BY <1>3, <1>4, <1>5, <1>6, <1>7 DEF WellFormed

-----------------------------------------------------------------------------
(* The steps of an insertion.                                              *)

LEMMA WorksOnce ==
  ASSUME work \in Nat, Works
  PROVE  work' \in Nat /\ work' <= work + 1
  BY DEF Works

LEMMA FillSizes ==
  ASSUME NEW L, L \subseteq inserted, inserted \subseteq Keys, NEW r
  PROVE  /\ Cardinality(inserted) \in Nat /\ Cardinality(L) \in Nat
         /\ Cardinality(L) <= Cardinality(inserted)
         /\ \A n : /\ Cardinality(Under(L, r, n)) \in Nat
                   /\ Cardinality(Under(L, r, n)) <= Cardinality(L)
                   /\ IsFiniteSet(Under(L, r, n))
                   /\ Cardinality(Above(L, r, n)) \in Nat
                   /\ Cardinality(Above(L, r, n)) <= Cardinality(L)
  <1>1. IsFiniteSet(inserted) /\ IsFiniteSet(L) /\ L \in SUBSET inserted
        /\ Cardinality(inserted) \in Nat /\ Cardinality(L) \in Nat
    BY AboveFinite
  <1>2. Cardinality(L) <= Cardinality(inserted)
    BY <1>1, FS_Subset
  <1>3. ASSUME NEW n
        PROVE  /\ Cardinality(Under(L, r, n)) \in Nat
               /\ Cardinality(Under(L, r, n)) <= Cardinality(L)
               /\ IsFiniteSet(Under(L, r, n))
    <2>1. Under(L, r, n) \in SUBSET L
      BY DEF Under
    <2> QED
      BY <1>1, <2>1, FS_Subset, FS_CardinalityType
  <1>4. ASSUME NEW n
        PROVE  /\ Cardinality(Above(L, r, n)) \in Nat
               /\ Cardinality(Above(L, r, n)) <= Cardinality(L)
    BY AboveFinite
  <1> QED
    BY <1>1, <1>2, <1>3, <1>4

(* The first node becomes the root.                                        *)
LEMMA FillFirst ==
  ASSUME FillTyped, NEW r, NEW h, Filling(r, h), NEW k \in Keys, BeginInsert(k),
         tree.root = Nil
  PROVE  FillTyped' /\ \E rr, hh : Filling(rr, hh)'
  <1>1. /\ pc = "idle" /\ inserted' = inserted \cup {k} /\ node' = k
        /\ tree' = [tree EXCEPT !.root = k] /\ pc' = "insert" /\ place' = Nil
        /\ side' = side /\ work' = work
    BY DEF BeginInsert
  <1>2. Shape(tree, inserted, r) /\ Even(tree, inserted, h) /\ work = 0
    BY <1>1 DEF Filling, Linked, Progress
  <1>3. inserted = {} /\ k \in Nodes /\ k # Nil /\ Nil \in Nodes
    BY <1>2, KeysAreNodes DEF Shape, Wired, RootPassed
  <1>4. inserted' = {k}
    BY <1>1, <1>3
  <1> DEFINE u == [tree EXCEPT !.root = k]
             rr == [n \in Keys |-> Keys]
             hh == [h EXCEPT ![k] = 1]
  <1>5. /\ Shape(u, {k}, rr)
        /\ u.root = k /\ u.color = tree.color /\ u.child = tree.child
        /\ u.parent = tree.parent
    BY <1>2, <1>3, RootShape
  <1>6. u = tree'
    BY <1>1
  <1> HIDE DEF u
  <1>7. /\ tree.color[k] = "red" /\ tree.parent[k] = Nil /\ tree.color[Nil] = "black"
        /\ \A s \in Side : tree.child[k][s] = Nil
    BY <1>2, <1>3 DEF Shape, Wired, Fresh
  <1>8. /\ hh \in [Nodes -> Nat] /\ hh[Nil] = 0 /\ hh[k] = 1
    BY <1>2, <1>3 DEF Even
  <1>9. Even(u, {k}, hh)
    BY <1>5, <1>7, <1>8 DEF Even, Blackness
  <1>10. Linked' = {k}
    BY <1>1, <1>4 DEF Linked
  <1>11. Odd' = k
    BY <1>1 DEF Odd
  <1>12. RedApart(u, {k}, k)
    BY DEF RedApart
  <1> HIDE DEF rr, hh
  <1>13. Progress(rr)'
    <2>1. u.color[k] = "red" /\ u.color[u.parent[k]] = "black"
      BY <1>5, <1>7
    <2>2. Cardinality({k}) = 1
      BY FS_Singleton
    <2> QED
      BY <1>1, <1>2, <1>4, <1>6, <2>1, <2>2 DEF Progress
  <1>14. Filling(rr, hh)'
    BY <1>5, <1>6, <1>9, <1>10, <1>11, <1>12, <1>13 DEF Filling
  <1>15. FillTyped'
    BY <1>1, <1>3, <1>4, <1>2 DEF FillTyped
  <1> QED
    BY <1>14, <1>15

(* A search starts at the root, which every key passes.                    *)
LEMMA FillBegin ==
  ASSUME FillTyped, NEW r, NEW h, Filling(r, h), NEW k \in Keys, BeginInsert(k),
         tree.root # Nil
  PROVE  FillTyped' /\ Filling(r, h)'
  <1>1. /\ pc = "idle" /\ inserted' = inserted \cup {k} /\ node' = k /\ k \notin inserted
        /\ tree' = tree /\ pc' = "descend" /\ place' = tree.root
        /\ side' = side /\ work' = work
    BY DEF BeginInsert
  <1>2. /\ Shape(tree, inserted, r) /\ Even(tree, inserted, h)
        /\ RedApart(tree, inserted, Nil) /\ work = 0
    BY <1>1 DEF Filling, Linked, Progress, Odd
  <1>3. Linked' = inserted /\ Odd' = Nil
    BY <1>1 DEF Linked, Odd
  <1>4. tree.root \in inserted /\ r[tree.root] = Keys
    BY <1>2 DEF Shape, Wired, RootPassed
  <1>5. k \in Nodes /\ tree.root \in Nodes
    BY <1>4, KeysAreNodes DEF FillTyped
  <1>6. Progress(r)'
    <2>1. /\ Cardinality(Under(inserted, r, tree.root)) \in Nat
          /\ Cardinality(Under(inserted, r, tree.root)) <= Cardinality(inserted)
      BY FillSizes DEF FillTyped
    <2>2. 0 + Cardinality(Under(inserted, r, tree.root)) <= Cardinality(inserted)
      BY <2>1
    <2>3. Under(Linked, r, place)' = Under(inserted, r, tree.root)
      BY <1>1, <1>3 DEF Under
    <2> QED
      BY <1>1, <1>2, <1>3, <1>4, <2>2, <2>3 DEF Progress
  <1>7. Filling(r, h)'
    BY <1>1, <1>2, <1>3, <1>6 DEF Filling
  <1>8. FillTyped'
    BY <1>1, <1>5 DEF FillTyped
  <1> QED
    BY <1>7, <1>8

(* A comparison leaves fewer nodes below the place.                        *)
LEMMA FillDescend ==
  ASSUME FillTyped, NEW r, NEW h, Filling(r, h), Descend,
         tree.child[place][Before(node, place)] # Nil
  PROVE  FillTyped' /\ Filling(r, h)'
  <1> DEFINE s == Before(node, place)
             next == tree.child[place][s]
             L == Linked
  <1>1. /\ pc = "descend" /\ place' = next /\ tree' = tree /\ pc' = pc /\ Works
        /\ node' = node /\ side' = side /\ inserted' = inserted
    BY DEF Descend
  <1>2. /\ Shape(tree, L, r) /\ Even(tree, L, h) /\ RedApart(tree, L, Nil)
        /\ node \in inserted /\ place \in L /\ node \in r[place]
        /\ work + Cardinality(Under(L, r, place)) <= Cardinality(L)
    BY <1>1 DEF Filling, Odd, Progress
  <1>3. Linked' = L /\ Odd' = Nil /\ L = inserted \ {node}
    BY <1>1 DEF Linked, Odd
  <1> HIDE DEF L
  <1>4. L \subseteq Keys /\ node \in Keys /\ node # place /\ place \in r[place] /\ s \in Side
    BY <1>2, <1>3, Sides DEF Shape, Wired, Passing, FillTyped
  <1>5. next \in L /\ r[next] = Half(r[place], place, s)
    BY <1>2, <1>4, ChildFacts, ShapeWired
  <1> HIDE DEF next, s
  <1>6. node \in r[next]
    BY <1>2, <1>4, <1>5, HalfMember DEF s
  <1>7. Cardinality(Under(L, r, next)) + 1 <= Cardinality(Under(L, r, place))
    <2>1. Under(L, r, next) \in SUBSET (Under(L, r, place) \ {place})
      BY <1>5, HalfMember DEF Under
    <2>2. place \in Under(L, r, place)
      BY <1>2, <1>4 DEF Under
    <2>3. /\ IsFiniteSet(Under(L, r, place)) /\ Cardinality(Under(L, r, place)) \in Nat
          /\ Cardinality(Under(L, r, next)) \in Nat
      BY <1>3, FillSizes DEF FillTyped
    <2>4. /\ IsFiniteSet(Under(L, r, place) \ {place})
          /\ Cardinality(Under(L, r, place) \ {place}) = Cardinality(Under(L, r, place)) - 1
      BY <2>2, <2>3, FS_RemoveElement
    <2>5. Cardinality(Under(L, r, next)) <= Cardinality(Under(L, r, place) \ {place})
      BY <2>1, <2>4, FS_Subset
    <2> QED
      BY <2>3, <2>4, <2>5
  <1>8. work' \in Nat /\ work' <= work + 1 /\ work \in Nat
    BY <1>1, WorksOnce DEF FillTyped
  <1>9. work' + Cardinality(Under(L, r, next)) <= Cardinality(L)
    <2>1. /\ Cardinality(Under(L, r, next)) \in Nat /\ Cardinality(Under(L, r, place)) \in Nat
          /\ Cardinality(L) \in Nat
      BY <1>3, FillSizes DEF FillTyped
    <2> QED
      BY <1>2, <1>7, <1>8, <2>1
  <1>10. Under(Linked, r, place)' = Under(L, r, next)
    BY <1>1, <1>3 DEF Under
  <1>11. Progress(r)'
    BY <1>1, <1>2, <1>3, <1>5, <1>6, <1>9, <1>10 DEF Progress
  <1>12. Filling(r, h)'
    BY <1>1, <1>2, <1>3, <1>11 DEF Filling
  <1>13. FillTyped'
    BY <1>1, <1>4, <1>5, <1>8, KeysAreNodes DEF FillTyped
  <1> QED
    BY <1>12, <1>13

(* A new node is red and hangs below a node that had a free side.          *)
LEMMA LinkEven ==
  ASSUME NEW t, NEW L, NEW r, Shape(t, L, r), NEW h, Even(t, L, h),
         NEW k \in Keys \ L, NEW spot \in L, NEW s \in Side, t.child[spot][s] = Nil,
         NEW u, u.color = t.color,
         \A x \in Nodes, d \in Side :
           u.child[x][d] = IF x = spot /\ d = s THEN k ELSE t.child[x][d]
  PROVE  Even(u, L \cup {k}, [h EXCEPT ![k] = 1])
  <1> DEFINE hh == [h EXCEPT ![k] = 1]
  <1>1. /\ L \subseteq Nodes /\ k \in Nodes /\ k # Nil /\ Nil \notin L /\ k # spot
        /\ \A n \in L : n # k
    BY KeysAreNodes DEF Shape, Wired, Passing
  <1>2. /\ t.color[k] = "red" /\ t.color[Nil] = "black"
        /\ \A d \in Side : t.child[k][d] = Nil
    BY <1>1, KeysAreNodes DEF Shape, Wired, Fresh
  <1>3. /\ h \in [Nodes -> Nat] /\ h[Nil] = 0
        /\ \A n \in L, d \in Side : h[n] = h[t.child[n][d]] + Blackness(t, t.child[n][d])
    BY DEF Even
  <1>4. /\ hh \in [Nodes -> Nat] /\ hh[Nil] = 0 /\ hh[k] = 1
        /\ \A n \in Nodes : n # k => hh[n] = h[n]
    BY <1>1, <1>3
  <1> HIDE DEF hh
  <1>5. \A n : Blackness(u, n) = Blackness(t, n)
    BY DEF Blackness
  <1>6. Blackness(t, k) = 0 /\ Blackness(t, Nil) = 1
    BY <1>2 DEF Blackness
  <1>7. ASSUME NEW n \in L \cup {k}, NEW d \in Side
        PROVE  hh[n] = hh[u.child[n][d]] + Blackness(u, u.child[n][d])
    <2>1. CASE n = k
      <3>1. u.child[n][d] = Nil
        BY <1>1, <1>2, <2>1
      <3> QED
        BY <1>4, <1>5, <1>6, <2>1, <3>1
    <2>2. CASE n = spot /\ d = s
      <3>1. u.child[n][d] = k
        BY <1>1, <2>2
      <3>2. h[spot] = 1
        BY <1>3, <1>6
      <3> QED
        BY <1>1, <1>4, <1>5, <1>6, <2>2, <3>1, <3>2
    <2>3. CASE n # k /\ ~ (n = spot /\ d = s)
      <3> DEFINE c == t.child[n][d]
      <3>1. u.child[n][d] = c /\ n \in L
        BY <1>1, <2>3
      <3>2. c # Nil => c \in L
        BY <3>1, ChildFacts, ShapeWired
      <3>3. c \in Nodes /\ c # k
        BY <1>1, <3>2, KeysAreNodes
      <3>4. h[n] = h[c] + Blackness(t, c)
        BY <1>3, <3>1
      <3> HIDE DEF c
      <3> QED
        BY <1>1, <1>4, <1>5, <3>1, <3>3, <3>4
    <2> QED
      BY <2>1, <2>2, <2>3
  <1> QED
    BY <1>4, <1>7 DEF Even, hh

(* What is known of a tree to which a node was linked.                     *)
GrownTo(t, u, L, k, spot) ==
  /\ u.color = t.color /\ u.color[k] = "red" /\ u.parent[k] = spot
  /\ \E rr, hh : /\ Shape(u, L \cup {k}, rr)
                 /\ Even(u, L \cup {k}, hh)
                 /\ RedApart(u, L \cup {k}, k)

LEMMA LinkGrows ==
  ASSUME NEW t, NEW L, NEW r, Shape(t, L, r), NEW h, Even(t, L, h), RedApart(t, L, Nil),
         NEW k \in Keys \ L, NEW spot \in L, k \in r[spot],
         NEW s \in Side, Before(k, spot) = s, t.child[spot][s] = Nil
  PROVE  GrownTo(t, SetChild(SetParent(t, k, spot), spot, s, k), L, k, spot)
  <1> DEFINE u == SetChild(SetParent(t, k, spot), spot, s, k)
             rr == Grown(r, k, spot, s)
             hh == [h EXCEPT ![k] = 1]
  <1>1. /\ Shape(u, L \cup {k}, rr)
        /\ u.color = t.color /\ u.root = t.root
        /\ \A x \in Nodes : u.parent[x] = IF x = k THEN spot ELSE t.parent[x]
        /\ \A x \in Nodes, d \in Side :
             u.child[x][d] = IF x = spot /\ d = s THEN k ELSE t.child[x][d]
    <2>1. LinkedTo(t, u, L, r, k, spot, s)
      BY LinkShape
    <2> HIDE DEF u
    <2> QED
      BY <2>1 DEF LinkedTo
  <1> HIDE DEF u, rr
  <1>2. Even(u, L \cup {k}, hh)
    BY <1>1, LinkEven
  <1>3. L \subseteq Nodes /\ Nil \notin L /\ k \in Nodes
    BY KeysAreNodes DEF Shape, Wired, Passing
  <1>4. RedApart(u, L \cup {k}, k)
    <2> SUFFICES ASSUME NEW n \in L, u.color[n] = "red"
                 PROVE  n # u.root /\ u.color[u.parent[n]] = "black"
      BY DEF RedApart
    <2>1. n # Nil /\ n # k /\ n \in Nodes
      BY <1>3
    <2>2. n # t.root /\ t.color[t.parent[n]] = "black"
      BY <1>1, <2>1 DEF RedApart
    <2> QED
      BY <1>1, <2>1, <2>2
  <1>5. t.color[k] = "red"
    BY <1>3, KeysAreNodes DEF Shape, Wired, Fresh
  <1> HIDE DEF hh
  <1>6. u.color[k] = "red" /\ u.parent[k] = spot
    BY <1>1, <1>3, <1>5
  <1>7. GrownTo(t, u, L, k, spot)
    BY <1>1, <1>2, <1>4, <1>6 DEF GrownTo
  <1> QED
    BY <1>7 DEF u

LEMMA FillLink ==
  ASSUME FillTyped, NEW r, NEW h, Filling(r, h), Descend,
         tree.child[place][Before(node, place)] = Nil
  PROVE  FillTyped' /\ \E rr, hh : Filling(rr, hh)'
  <1> PICK s : Before(node, place) = s
    OBVIOUS
  <1> DEFINE L == Linked
             u == SetChild(SetParent(tree, node, place), place, s, node)
  <1>1. /\ pc = "descend" /\ tree' = u /\ pc' = "insert" /\ place' = Nil /\ Works
        /\ node' = node /\ side' = side /\ inserted' = inserted
    BY DEF Descend
  <1>2. /\ Shape(tree, L, r) /\ Even(tree, L, h) /\ RedApart(tree, L, Nil)
        /\ node \in inserted /\ place \in L /\ node \in r[place]
        /\ work + Cardinality(Under(L, r, place)) <= Cardinality(L)
    BY <1>1 DEF Filling, Odd, Progress
  <1>3. /\ Linked' = inserted /\ Odd' = node /\ L = inserted \ {node}
        /\ L \cup {node} = inserted
    BY <1>1, <1>2 DEF Linked, Odd
  <1> HIDE DEF L
  <1>4. /\ L \subseteq Keys /\ node \in Keys \ L /\ place \in r[place] /\ s \in Side
        /\ node \in Nodes /\ place \in Nodes /\ Nil \in Nodes
    BY <1>2, <1>3, Sides, KeysAreNodes DEF Shape, Wired, Passing, FillTyped
  <1>5. GrownTo(tree, u, L, node, place)
    <2>1. /\ Shape(tree, L, r) /\ Even(tree, L, h) /\ RedApart(tree, L, Nil)
          /\ node \in Keys \ L /\ place \in L /\ node \in r[place]
          /\ s \in Side /\ Before(node, place) = s /\ tree.child[place][s] = Nil
      BY <1>2, <1>4
    <2> QED
      BY <2>1, LinkGrows
  <1> HIDE DEF u
  <1>6. PICK rr, hh : /\ Shape(u, inserted, rr) /\ Even(u, inserted, hh)
                      /\ RedApart(u, inserted, node)
    BY <1>3, <1>5 DEF GrownTo
  <1>7. u.color[node] = "red" /\ u.parent[node] = place
    BY <1>5 DEF GrownTo
  <1>9. work' \in Nat /\ work' <= work + 1 /\ work \in Nat
    BY <1>1, WorksOnce DEF FillTyped
  <1>10. work' + Cardinality(Above(inserted, rr, node)) <= 2 * Cardinality(inserted)
         /\ work' <= 2 * Cardinality(inserted)
    <2>1. /\ Cardinality(Under(L, r, place)) \in Nat /\ IsFiniteSet(Under(L, r, place))
          /\ Cardinality(L) \in Nat /\ Cardinality(inserted) \in Nat
          /\ Cardinality(L) <= Cardinality(inserted)
      BY <1>3, FillSizes DEF FillTyped
    <2>2. /\ Cardinality(Above(inserted, rr, node)) \in Nat
          /\ Cardinality(Above(inserted, rr, node)) <= Cardinality(inserted)
      BY FillSizes DEF FillTyped
    <2>3. place \in Under(L, r, place)
      BY <1>2, <1>4 DEF Under
    <2>4. Cardinality(Under(L, r, place)) # 0
      BY <2>1, <2>3, FS_EmptySet
    <2> QED
      BY <1>2, <1>9, <2>1, <2>2, <2>4
  <1>11. Progress(rr)'
    BY <1>1, <1>2, <1>7, <1>10 DEF Progress, Above
  <1>12. Filling(rr, hh)'
    BY <1>1, <1>3, <1>6, <1>11 DEF Filling
  <1>13. FillTyped'
    BY <1>1, <1>4, <1>9 DEF FillTyped
  <1> QED
    BY <1>12, <1>13

-----------------------------------------------------------------------------
(* The fixup of an insertion.                                              *)

(* What holds while the parent of the node is red, in a tree of L.         *)
Disturbed(t, L, r, h, n) ==
  /\ Shape(t, L, r) /\ Even(t, L, h) /\ RedApart(t, L, n)
  /\ n \in L /\ t.color[n] = "red" /\ t.color[t.parent[n]] = "red"

(* n, its parent p and its grandparent g, and p's side of it.              *)
Family(t, L, r, n, p, g, s) ==
  /\ n \in L /\ p \in L /\ g \in L /\ n # p /\ p # g /\ n # g
  /\ t.parent[n] = p /\ t.parent[p] = g /\ s \in Side /\ SideOf(t, p) = s
  /\ t.child[g][s] = p /\ Before(p, g) = s /\ Before(n, p) \in Side
  /\ t.child[p][Before(n, p)] = n
  /\ t.color[n] = "red" /\ t.color[p] = "red" /\ t.color[g] = "black"
  /\ n # t.root /\ p # t.root

LEMMA FamilyOf ==
  ASSUME NEW t, NEW L, NEW r, NEW h, NEW n, Disturbed(t, L, r, h, n)
  PROVE  Family(t, L, r, n, t.parent[n], t.parent[t.parent[n]], SideOf(t, t.parent[n]))
  <1> DEFINE p == t.parent[n]
             g == t.parent[p]
             s == SideOf(t, p)
  <1>1. /\ Shape(t, L, r) /\ RedApart(t, L, n) /\ n \in L
        /\ t.color[n] = "red" /\ t.color[p] = "red"
        /\ t.color[Nil] = "black" /\ L \subseteq Keys /\ Nil \notin L
    BY KeysAreNodes DEF Disturbed, Shape, Wired, Fresh, Passing
  <1>2. /\ p # Nil => p \in L /\ p # n /\ t.child[p][Before(n, p)] = n /\ Before(n, p) \in Side
        /\ p = Nil <=> n = t.root
    BY <1>1, ParentFacts, ShapeWired
  <1> HIDE DEF p
  <1>3. p # Nil /\ p \in L /\ n # t.root
    BY <1>1, <1>2
  <1>4. p # t.root /\ t.color[g] = "black"
    BY <1>1, <1>2, <1>3 DEF RedApart
  <1>5. /\ g # Nil => /\ g \in L /\ g # p /\ t.child[g][Before(p, g)] = p
                      /\ SideOf(t, p) = Before(p, g) /\ Before(p, g) \in Side
        /\ g = Nil <=> p = t.root
    BY <1>1, <1>3, ParentFacts, ShapeWired
  <1> HIDE DEF g
  <1>6. n # g
    BY <1>1, <1>4
  <1> QED
    BY <1>1, <1>2, <1>3, <1>4, <1>5, <1>6 DEF Family, p, g

(* No child of a red node but the odd one is red.                          *)
LEMMA RedBelow ==
  ASSUME NEW t, NEW L, NEW r, NEW odd, Wired(t, L, r), t.color[Nil] = "black",
         RedApart(t, L, odd),
         NEW n \in L, t.color[n] = "red", NEW s \in Side, t.child[n][s] # odd
  PROVE  t.color[t.child[n][s]] = "black"
  <1> DEFINE c == t.child[n][s]
  <1>1. c # Nil => c \in L /\ t.parent[c] = n
    BY ChildFacts
  <1>2. t.color[Nil] = "black" /\ Nil \in Nodes /\ L \subseteq Nodes
    BY KeysAreNodes DEF Wired, Passing
  <1>3. \A m \in Nodes : t.color[m] = "red" \/ t.color[m] = "black"
    BY TreeParts DEF Wired, Colors
  <1> HIDE DEF c
  <1>4. c # odd => t.color[c] = "black"
    BY <1>1, <1>2, <1>3 DEF RedApart
  <1> QED
    BY <1>4 DEF c

(* u is t with g red, its children black, and as many black nodes as    *)
(* before on every path.                                                   *)
Raised(t, u, L, r, h, g) ==
  /\ Shape(u, L, r) /\ RedApart(u, L, g)
  /\ Even(u, L, [h EXCEPT ![g] = h[g] + 1])
  /\ u.color[g] = "red" /\ u.parent = t.parent

(* A red uncle: the red moves up to the grandparent.                       *)
LEMMA Recolored ==
  ASSUME NEW t, NEW L, NEW r, NEW h, NEW n, Disturbed(t, L, r, h, n),
         NEW p, NEW g, NEW s, Family(t, L, r, n, p, g, s),
         NEW unc, t.child[g][Other(s)] = unc, t.color[unc] = "red",
         NEW u, Paint(Paint(Paint(t, p, "black"), unc, "black"), g, "red") = u
  PROVE  Raised(t, u, L, r, h, g)
  <1> DEFINE v == Paint(t, p, "black")
             w == Paint(v, unc, "black")
  <1>1. /\ Shape(t, L, r) /\ Even(t, L, h) /\ RedApart(t, L, n) /\ L \subseteq Keys
        /\ L \subseteq Nodes /\ Nil \notin L /\ Nil \in Nodes /\ t.color[Nil] = "black"
    BY KeysAreNodes DEF Disturbed, Shape, Wired, Fresh, Passing
  <1>2. /\ n \in L /\ p \in L /\ g \in L /\ n # p /\ p # g /\ n # g
        /\ t.parent[n] = p /\ t.parent[p] = g /\ s \in Side
        /\ t.child[g][s] = p /\ t.color[p] = "red" /\ t.color[g] = "black"
        /\ n # t.root /\ p # t.root /\ Other(s) \in Side /\ Other(s) # s
    BY Sides DEF Family
  <1>3. unc \in L /\ t.parent[unc] = g /\ unc # g /\ unc # t.root /\ unc # p
    <2>1. unc # Nil
      BY <1>1
    <2>2. unc \in L /\ t.parent[unc] = g /\ unc # g /\ unc # t.root /\ Before(unc, g) = Other(s)
      BY <1>1, <1>2, <2>1, ChildFacts, ShapeWired
    <2> QED
      BY <1>2, <2>2 DEF Family
  <1>4. /\ Shape(v, L, r) /\ v.root = t.root /\ v.parent = t.parent /\ v.child = t.child
        /\ \A m \in Nodes : v.color[m] = IF m = p THEN "black" ELSE t.color[m]
    BY <1>1, <1>2, ColorNames, PaintShape
  <1> HIDE DEF v
  <1>5. /\ Shape(w, L, r) /\ w.root = t.root /\ w.parent = t.parent /\ w.child = t.child
        /\ \A m \in Nodes : w.color[m] = IF m = unc THEN "black" ELSE v.color[m]
    BY <1>3, <1>4, ColorNames, PaintShape
  <1> HIDE DEF w
  <1>6. /\ Shape(u, L, r) /\ u.root = t.root /\ u.parent = t.parent /\ u.child = t.child
        /\ \A m \in Nodes : u.color[m] = IF m = g THEN "red" ELSE w.color[m]
    <2> DEFINE x == Paint(w, g, "red")
    <2>1. /\ Shape(x, L, r) /\ x.root = t.root /\ x.parent = t.parent /\ x.child = t.child
          /\ \A m \in Nodes : x.color[m] = IF m = g THEN "red" ELSE w.color[m]
      BY <1>2, <1>5, ColorNames, PaintShape
    <2>2. x = u
      BY DEF w, v
    <2> HIDE DEF x
    <2> QED
      BY <2>1, <2>2
  <1>7. \A m \in Nodes : u.color[m] = IF m = g THEN "red"
                                      ELSE IF m = unc \/ m = p THEN "black" ELSE t.color[m]
    BY <1>4, <1>5, <1>6
  <1> DEFINE hh == [h EXCEPT ![g] = h[g] + 1]
  <1>8. /\ h \in [Nodes -> Nat] /\ h[Nil] = 0
        /\ \A m \in L, d \in Side : h[m] = h[t.child[m][d]] + Blackness(t, t.child[m][d])
    BY <1>1 DEF Even
  <1>9. /\ hh \in [Nodes -> Nat] /\ hh[Nil] = 0 /\ hh[g] = h[g] + 1
        /\ \A m \in Nodes : m # g => hh[m] = h[m]
    BY <1>1, <1>2, <1>8
  <1> HIDE DEF hh
  <1>10. Blackness(u, g) = 0 /\ Blackness(t, g) = 1
         /\ Blackness(t, p) = 0 /\ Blackness(t, unc) = 0
         /\ Blackness(u, p) = 1 /\ Blackness(u, unc) = 1
         /\ \A m \in Nodes : m \notin {g, p, unc} => Blackness(u, m) = Blackness(t, m)
    BY <1>1, <1>2, <1>3, <1>7, ColorNames DEF Blackness
  <1>11. ASSUME NEW m \in L, NEW d \in Side
         PROVE  hh[m] = hh[u.child[m][d]] + Blackness(u, u.child[m][d])
    <2> DEFINE c == t.child[m][d]
    <2>1. u.child[m][d] = c /\ h[m] = h[c] + Blackness(t, c) /\ c \in Nodes
      BY <1>1, <1>6, <1>8, TreeParts DEF Shape, Wired
    <2>2. c # Nil => c \in L /\ t.parent[c] = m /\ c # m
      BY <1>1, ChildFacts, ShapeWired
    <2>c. m = g => c = p \/ c = unc
      BY <1>2, Sides
    <2> HIDE DEF c
    <2>3. CASE m = g
      <3>1. c \in Nodes /\ c # g /\ (c = p \/ c = unc)
        BY <1>2, <1>3, <2>c, <2>1, <2>3
      <3> QED
        BY <1>9, <1>10, <2>1, <2>3, <3>1
    <2>4. CASE m # g
      <3>1. c # p /\ c # unc
        BY <1>1, <1>2, <1>3, <2>2, <2>4
      <3>2. CASE c = g
        <4>1. h[g] \in Nat
          BY <1>1, <1>2, <1>8
        <4> QED
          BY <1>1, <1>9, <1>10, <2>1, <2>4, <3>2, <4>1
      <3>3. CASE c # g
        BY <1>1, <1>9, <1>10, <2>1, <2>4, <3>1, <3>3
      <3> QED
        BY <3>2, <3>3
    <2> QED
      BY <2>3, <2>4
  <1>12. Even(u, L, hh)
    BY <1>9, <1>11 DEF Even
  <1>13. RedApart(u, L, g)
    <2> SUFFICES ASSUME NEW m \in L, u.color[m] = "red", m # g
                 PROVE  m # u.root /\ u.color[u.parent[m]] = "black"
      BY DEF RedApart
    <2>1. m # p /\ m # unc /\ t.color[m] = "red" /\ m \in Nodes
      BY <1>1, <1>7, ColorNames
    <2>2. CASE m = n
      BY <1>1, <1>2, <1>6, <1>7, <2>2
    <2>3. CASE m # n
      <3>1. m # t.root /\ t.color[t.parent[m]] = "black"
        BY <1>1, <2>1, <2>3 DEF RedApart
      <3>2. t.parent[m] # g
        <4>1. t.parent[m] = g => t.child[g][Before(m, g)] = m /\ Before(m, g) \in Side
          BY <1>1, <1>2, ParentFacts, ShapeWired
        <4> QED
          BY <1>2, <2>1, <4>1, Sides
      <3>3. t.parent[m] \in Nodes
        BY <1>1, <2>1, TreeParts DEF Shape, Wired
      <3> QED
        BY <1>6, <1>7, <3>1, <3>2, <3>3
    <2> QED
      BY <2>2, <2>3
  <1>14. u.color[g] = "red"
    BY <1>1, <1>2, <1>7
  <1> QED
    BY <1>6, <1>12, <1>13, <1>14 DEF hh, Raised

(* A rotation keeps the count of black nodes if the two nodes it turns     *)
(* have as many below them, and the upper one takes the other's colour.    *)
LEMMA TurnEven ==
  ASSUME NEW v, NEW L, NEW r, Wired(v, L, r), NEW s, NEW n, NEW up, NEW mid, NEW p,
         Turns(v, L, r, s, n, up, mid, p), NEW u, Turned(v, u, s, n, up, mid, p),
         NEW h \in [Nodes -> Nat], h[Nil] = 0, NEW b \in [Nodes -> Nat],
         \A m \in L, d \in Side : h[m] = h[v.child[m][d]] + b[v.child[m][d]],
         b[n] = Blackness(u, up), Blackness(u, n) = 0, h[up] = h[n],
         h[n] = h[mid] + Blackness(u, mid),
         \A m \in Nodes : m # n /\ m # up => Blackness(u, m) = b[m]
  PROVE  Even(u, L, h)
  <1> DEFINE o == Other(s)
  <1>1. /\ s \in Side /\ n \in L /\ up \in L /\ up # n /\ p # n /\ p # up /\ L \subseteq Keys
        /\ o \in Side /\ o # s /\ \A d \in Side : d # s => d = o
        /\ v.parent[n] = p /\ v.parent[up] = n /\ v.child[n][o] = up /\ v.child[up][s] = mid
        /\ (p # Nil => SideOf(v, n) = Before(n, p) /\ v.child[p][Before(n, p)] = n)
        /\ Before(up, n) = o /\ L \subseteq Nodes /\ Nil \notin L /\ Nil \in Nodes
    BY Sides, KeysAreNodes DEF Turns, Wired, Passing
  <1> HIDE DEF o
  <1>2. \A x \in Nodes, d \in Side : u.child[x][d] =
          IF x = n THEN IF d = s THEN v.child[n][d] ELSE mid
          ELSE IF x = up THEN IF d = s THEN n ELSE v.child[up][d]
          ELSE IF x = p /\ p # Nil /\ d = SideOf(v, n) THEN up
          ELSE v.child[x][d]
    BY DEF Turned
  <1>3. ASSUME NEW x \in L, NEW d \in Side
        PROVE  h[x] = h[u.child[x][d]] + Blackness(u, u.child[x][d])
    <2> DEFINE c == v.child[x][d]
    <2>1. h[x] = h[c] + b[c] /\ c \in Nodes
      BY TreeParts, <1>1 DEF Wired
    <2>2. c # Nil => c \in L /\ v.parent[c] = x /\ c # x /\ Before(c, x) = d
      BY ChildFacts
    <2> HIDE DEF c
    <2>3. CASE x = n /\ d = s
      <3>1. u.child[x][d] = c
        BY <1>1, <1>2, <2>3 DEF c
      <3>2. c # n /\ c # up
        BY <1>1, <2>2, <2>3
      <3> QED
        BY <2>1, <3>1, <3>2
    <2>4. CASE x = n /\ d # s
      <3>1. u.child[x][d] = mid
        BY <1>1, <1>2, <2>4
      <3> QED
        BY <2>4, <3>1
    <2>5. CASE x = up /\ d = s
      <3>1. u.child[x][d] = n
        BY <1>1, <1>2, <2>5
      <3>2. h[n] \in Nat
        BY <1>1
      <3> QED
        BY <2>5, <3>1, <3>2
    <2>6. CASE x = up /\ d # s
      <3>1. u.child[x][d] = c
        BY <1>1, <1>2, <2>6 DEF c
      <3>2. c # n /\ c # up
        BY <1>1, <2>2, <2>6
      <3> QED
        BY <2>1, <3>1, <3>2
    <2>7. CASE x # n /\ x # up /\ x = p /\ d = SideOf(v, n)
      <3>1. u.child[x][d] = up /\ p # Nil
        BY <1>1, <1>2, <2>7
      <3>2. c = n
        BY <1>1, <2>7, <3>1 DEF c
      <3> QED
        BY <2>1, <3>1, <3>2
    <2>8. CASE x # n /\ x # up /\ ~ (x = p /\ d = SideOf(v, n))
      <3>1. u.child[x][d] = c
        BY <1>1, <1>2, <2>8 DEF c
      <3>2. c # n
        <4> SUFFICES ASSUME c = n PROVE FALSE
          OBVIOUS
        <4>1. x = p /\ Before(n, p) = d /\ p # Nil
          BY <1>1, <2>2
        <4> QED
          BY <1>1, <2>8, <4>1
      <3>3. c # up
        BY <1>1, <2>2, <2>8
      <3> QED
        BY <2>1, <3>1, <3>2, <3>3
    <2> QED
      BY <2>3, <2>4, <2>5, <2>6, <2>7, <2>8
  <1> QED
    BY <1>3 DEF Even

(* The last rotation: n is on the far side of p.                           *)
LEMMA OuterTurned ==
  ASSUME NEW t, NEW L, NEW r, NEW h, NEW n, Disturbed(t, L, r, h, n),
         NEW p, NEW g, NEW s, Family(t, L, r, n, p, g, s), t.child[p][s] = n,
         t.color[t.child[g][Other(s)]] # "red",
         NEW u, Rotate(Paint(Paint(t, p, "black"), g, "red"), Other(s), g) = u
  PROVE  /\ \E rr : Shape(u, L, rr)
         /\ Even(u, L, h) /\ RedApart(u, L, n)
         /\ u.color[n] = "red" /\ u.color[u.parent[n]] = "black"
  <1> DEFINE v1 == Paint(t, p, "black")
             v == Paint(v1, g, "red")
             o == Other(s)
             unc == t.child[g][o]
             mid == t.child[p][o]
             gg == t.parent[g]
  <1>1. /\ Shape(t, L, r) /\ Even(t, L, h) /\ RedApart(t, L, n) /\ L \subseteq Keys
        /\ L \subseteq Nodes /\ Nil \notin L /\ Nil \in Nodes /\ t.color[Nil] = "black"
    BY KeysAreNodes DEF Disturbed, Shape, Wired, Fresh, Passing
  <1>2. /\ n \in L /\ p \in L /\ g \in L /\ n # p /\ p # g /\ n # g
        /\ t.parent[n] = p /\ t.parent[p] = g /\ s \in Side
        /\ t.child[g][s] = p /\ t.color[n] = "red" /\ t.color[p] = "red" /\ t.color[g] = "black"
        /\ n # t.root /\ p # t.root /\ o \in Side /\ o # s /\ Other(o) = s
        /\ \A d \in Side : d = s \/ d = o
    BY Sides DEF Family
  <1>3. unc \in Nodes /\ t.color[unc] = "black"
    <2>1. unc \in Nodes
      BY <1>1, <1>2, TreeParts DEF Shape, Wired
    <2> QED
      BY <1>1, <2>1, TreeParts DEF Shape, Wired, Colors
  <1>4. mid # n /\ t.color[mid] = "black" /\ mid \in Nodes /\ mid # p
        /\ (mid # Nil => mid \in L /\ t.parent[mid] = p)
    <2>1. mid # Nil => mid \in L /\ t.parent[mid] = p /\ mid # p /\ Before(mid, p) = o
      BY <1>1, <1>2, ChildFacts, ShapeWired
    <2>2. n # Nil /\ Before(n, p) = s
      BY <1>1, <1>2, ChildFacts, ShapeWired
    <2>3. mid # n
      BY <1>1, <1>2, <2>1, <2>2
    <2>4. t.color[mid] = "black"
      BY <1>1, <1>2, <2>3, RedBelow, ShapeWired
    <2>5. p # Nil
      BY <1>1, <1>2
    <2> QED
      BY <1>1, <2>1, <2>3, <2>4, <2>5
  <1>5. /\ Shape(v1, L, r) /\ v1.root = t.root /\ v1.parent = t.parent /\ v1.child = t.child
        /\ \A m \in Nodes : v1.color[m] = IF m = p THEN "black" ELSE t.color[m]
    BY <1>1, <1>2, ColorNames, PaintShape
  <1> HIDE DEF v1
  <1>6. /\ Shape(v, L, r) /\ v.root = t.root /\ v.parent = t.parent /\ v.child = t.child
        /\ \A m \in Nodes : v.color[m] = IF m = g THEN "red" ELSE v1.color[m]
    BY <1>2, <1>5, ColorNames, PaintShape
  <1>7. \A m \in Nodes : v.color[m] =
          IF m = g THEN "red" ELSE IF m = p THEN "black" ELSE t.color[m]
    BY <1>5, <1>6
  <1>8. Rotate(v, o, g) = u
    BY DEF v, v1, o
  <1> HIDE DEF v
  <1>9. Turns(v, L, r, o, g, p, mid, gg)
    <2>1. v.child[g][Other(o)] = p /\ p # Nil
      BY <1>1, <1>2, <1>6
    <2>2. Turns(v, L, r, o, g, v.child[g][Other(o)], v.child[v.child[g][Other(o)]][o], v.parent[g])
      BY <1>2, <1>6, <2>1, TurnParts, ShapeWired
    <2>3. v.child[p][o] = mid /\ v.parent[g] = gg
      BY <1>6
    <2> QED
      BY <2>1, <2>2, <2>3
  <1> HIDE DEF mid, gg, o
  <1>10. Turned(v, u, o, g, p, mid, gg)
    <2>1. Turned(v, Rotate(v, o, g), o, g, p, mid, gg)
      BY <1>6, <1>9, RotateTurns, ShapeWired
    <2> QED
      BY <1>8, <2>1
  <1>11. Shape(u, L, Rotated(r, o, g, p))
    BY <1>6, <1>9, <1>10, RotateShape
  <1>12. u.color = v.color /\ u.root = (IF gg = Nil THEN p ELSE t.root)
         /\ \A x \in Nodes : u.parent[x] =
              IF x = g THEN p ELSE IF x = p THEN gg
              ELSE IF x = mid /\ mid # Nil THEN g ELSE t.parent[x]
    BY <1>6, <1>10 DEF Turned
  <1>13. \A m \in Nodes : u.color[m] =
          IF m = g THEN "red" ELSE IF m = p THEN "black" ELSE t.color[m]
    BY <1>7, <1>12
  <1>14. gg = Nil <=> g = t.root
    BY <1>1, <1>2, ParentFacts, ShapeWired DEF gg
  <1>15. Even(u, L, h)
    <2> DEFINE b == [m \in Nodes |-> Blackness(t, m)]
    <2>1. /\ h \in [Nodes -> Nat] /\ h[Nil] = 0
          /\ \A m \in L, d \in Side : h[m] = h[t.child[m][d]] + Blackness(t, t.child[m][d])
      BY <1>1 DEF Even
    <2>2. b \in [Nodes -> Nat] /\ \A m \in Nodes : b[m] = Blackness(t, m)
      BY DEF Blackness
    <2> HIDE DEF b
    <2>3. \A m \in L, d \in Side : v.child[m][d] \in Nodes /\ v.child[m][d] = t.child[m][d]
      BY <1>1, <1>6, TreeParts DEF Shape, Wired
    <2>4. \A m \in L, d \in Side : h[m] = h[v.child[m][d]] + b[v.child[m][d]]
      BY <2>1, <2>2, <2>3
    <2>5. b[g] = Blackness(u, p) /\ Blackness(u, g) = 0
      BY <1>1, <1>2, <1>13, <2>2, ColorNames DEF Blackness
    <2>6. h[p] = h[g] /\ h[p] \in Nat
      <3>1. h[g] = h[p] + Blackness(t, p)
        BY <1>2, <2>1
      <3>2. Blackness(t, p) = 0 /\ h[p] \in Nat
        BY <1>1, <1>2, <2>1 DEF Blackness
      <3> QED
        BY <3>1, <3>2
    <2>7. h[g] = h[mid] + Blackness(u, mid)
      <3>1. h[p] = h[mid] + Blackness(t, mid)
        BY <1>2, <2>1 DEF mid
      <3>2. mid # g
        BY <1>4, <1>9 DEF Turns
      <3>3. u.color[mid] = "black"
        BY <1>4, <1>13, <3>2
      <3> QED
        BY <1>4, <2>6, <3>1, <3>3 DEF Blackness
    <2>8. \A m \in Nodes : m # g /\ m # p => Blackness(u, m) = b[m]
      BY <1>13, <2>2 DEF Blackness
    <2> QED
      BY <1>6, <1>9, <1>10, <2>1, <2>2, <2>4, <2>5, <2>6, <2>7, <2>8, TurnEven, ShapeWired
  <1>16. RedApart(u, L, n)
    <2> SUFFICES ASSUME NEW m \in L, u.color[m] = "red", m # n
                 PROVE  m # u.root /\ u.color[u.parent[m]] = "black"
      BY DEF RedApart
    <2>1. m # p /\ m \in Nodes
      BY <1>1, <1>2, <1>13, ColorNames
    <2>2. CASE m = g
      <3>1. m # u.root
        BY <1>2, <1>12, <1>14, <2>2
      <3>2. u.parent[m] = p
        BY <1>12, <2>1, <2>2
      <3> QED
        BY <1>1, <1>2, <1>13, <3>1, <3>2
    <2>3. CASE m # g
      <3>1. t.color[m] = "red"
        BY <1>13, <2>1, <2>3
      <3>2. m # t.root /\ t.color[t.parent[m]] = "black"
        BY <1>1, <3>1 DEF RedApart
      <3>3. m # mid
        BY <1>4, <3>1, ColorNames
      <3>4. u.parent[m] = t.parent[m]
        BY <1>12, <2>1, <2>3, <3>3
      <3>5. t.parent[m] # g
        <4>1. t.parent[m] = g => t.child[g][Before(m, g)] = m /\ Before(m, g) \in Side
          BY <1>1, <1>2, ParentFacts, ShapeWired
        <4>2. t.parent[m] = g => m = p \/ m = unc
          BY <1>2, <4>1
        <4> QED
          BY <1>3, <2>1, <3>1, <4>2, ColorNames
      <3>6. t.parent[m] \in Nodes
        BY <1>1, <2>1, TreeParts DEF Shape, Wired
      <3>7. u.color[t.parent[m]] = "black"
        BY <1>13, <3>2, <3>5, <3>6
      <3>8. m # u.root
        BY <1>12, <2>1, <3>2
      <3> QED
        BY <3>4, <3>7, <3>8
    <2> QED
      BY <2>2, <2>3
  <1>17. u.color[n] = "red" /\ u.color[u.parent[n]] = "black"
    <2>1. n \in Nodes /\ p \in Nodes /\ u.parent[n] = p
      BY <1>1, <1>2, <1>4, <1>12
    <2> QED
      BY <1>2, <1>13, <2>1
  <1> QED
    BY <1>11, <1>15, <1>16, <1>17

(* The first rotation: n is on the near side of p and takes its place.     *)
LEMMA InnerTurned ==
  ASSUME NEW t, NEW L, NEW r, NEW h, NEW n, Disturbed(t, L, r, h, n),
         NEW p, NEW g, NEW s, Family(t, L, r, n, p, g, s), t.child[p][Other(s)] = n,
         NEW u, Rotate(t, s, p) = u
  PROVE  \E rr : /\ Disturbed(u, L, rr, h, p) /\ Family(u, L, rr, p, n, g, s)
                 /\ u.child[n][s] = p /\ u.child[g][Other(s)] = t.child[g][Other(s)]
                 /\ u.color = t.color
  <1> DEFINE mid == t.child[n][s]
             o == Other(s)
             rr == Rotated(r, s, p, n)
  <1>1. /\ Shape(t, L, r) /\ Even(t, L, h) /\ RedApart(t, L, n) /\ L \subseteq Keys
        /\ L \subseteq Nodes /\ Nil \notin L /\ Nil \in Nodes /\ t.color[Nil] = "black"
    BY KeysAreNodes DEF Disturbed, Shape, Wired, Fresh, Passing
  <1>2. /\ n \in L /\ p \in L /\ g \in L /\ n # p /\ p # g /\ n # g
        /\ t.parent[n] = p /\ t.parent[p] = g /\ s \in Side
        /\ t.child[g][s] = p /\ t.color[n] = "red" /\ t.color[p] = "red" /\ t.color[g] = "black"
        /\ n # t.root /\ p # t.root /\ o \in Side /\ o # s /\ Before(p, g) = s
        /\ g # Nil
    BY <1>1, Sides DEF Family
  <1>3. Turns(t, L, r, s, p, n, mid, g)
    <2>1. t.child[p][Other(s)] # Nil
      BY <1>1, <1>2
    <2>2. Turns(t, L, r, s, p, t.child[p][Other(s)], t.child[t.child[p][Other(s)]][s], t.parent[p])
      BY <1>1, <1>2, <2>1, TurnParts, ShapeWired
    <2> QED
      BY <1>2, <2>2
  <1>4. /\ mid # n /\ mid \in Nodes
        /\ (mid # Nil => mid \in L /\ t.parent[mid] = n)
    BY <1>1, <1>2, <1>3, ChildFacts, ShapeWired DEF Turns
  <1> HIDE DEF mid, o
  <1>5. Turned(t, u, s, p, n, mid, g)
    <2>1. Turned(t, Rotate(t, s, p), s, p, n, mid, g)
      BY <1>1, <1>3, RotateTurns, ShapeWired
    <2> QED
      BY <2>1
  <1>6. Shape(u, L, rr)
    BY <1>1, <1>3, <1>5, RotateShape
  <1> HIDE DEF rr
  <1>7. /\ u.color = t.color /\ u.root = t.root
        /\ \A x \in Nodes : u.parent[x] =
             IF x = p THEN n ELSE IF x = n THEN g
             ELSE IF x = mid /\ mid # Nil THEN p ELSE t.parent[x]
        /\ \A x \in Nodes, d \in Side : u.child[x][d] =
             IF x = p THEN IF d = s THEN t.child[p][d] ELSE mid
             ELSE IF x = n THEN IF d = s THEN p ELSE t.child[n][d]
             ELSE IF x = g /\ g # Nil /\ d = SideOf(t, p) THEN n
             ELSE t.child[x][d]
    BY <1>2, <1>5 DEF Turned
  <1>8. Even(u, L, h)
    <2> DEFINE b == [m \in Nodes |-> Blackness(t, m)]
    <2>1. /\ h \in [Nodes -> Nat] /\ h[Nil] = 0
          /\ \A m \in L, d \in Side : h[m] = h[t.child[m][d]] + Blackness(t, t.child[m][d])
      BY <1>1 DEF Even
    <2>2. b \in [Nodes -> Nat] /\ \A m \in Nodes : b[m] = Blackness(t, m)
      BY DEF Blackness
    <2> HIDE DEF b
    <2>3. \A m \in L, d \in Side : t.child[m][d] \in Nodes
      BY <1>1, TreeParts DEF Shape, Wired
    <2>4. \A m \in L, d \in Side : h[m] = h[t.child[m][d]] + b[t.child[m][d]]
      BY <2>1, <2>2, <2>3
    <2>5. \A m : Blackness(u, m) = Blackness(t, m)
      BY <1>7 DEF Blackness
    <2>6. Blackness(t, p) = 0 /\ Blackness(t, n) = 0
      BY <1>2, ColorNames DEF Blackness
    <2>7. h[n] = h[p]
      <3>1. h[p] = h[n] + Blackness(t, n)
        BY <1>2, <2>1 DEF o
      <3>2. h[n] \in Nat
        BY <1>1, <1>2, <2>1
      <3> QED
        BY <2>6, <3>1, <3>2
    <2>8. h[p] = h[mid] + Blackness(u, mid)
      BY <1>2, <2>1, <2>5, <2>7 DEF mid
    <2>9. b[p] = Blackness(u, n) /\ Blackness(u, p) = 0
      BY <1>1, <1>2, <2>2, <2>5, <2>6
    <2>10. \A m \in Nodes : m # p /\ m # n => Blackness(u, m) = b[m]
      BY <2>2, <2>5
    <2> QED
      BY <1>1, <1>3, <1>5, <2>1, <2>2, <2>4, <2>7, <2>8, <2>9, <2>10, TurnEven, ShapeWired
  <1>9. RedApart(u, L, p)
    <2> SUFFICES ASSUME NEW m \in L, u.color[m] = "red", m # p
                 PROVE  m # u.root /\ u.color[u.parent[m]] = "black"
      BY DEF RedApart
    <2>1. m \in Nodes /\ t.color[m] = "red"
      BY <1>1, <1>7
    <2>2. CASE m = n
      BY <1>2, <1>7, <2>1, <2>2
    <2>3. CASE m # n
      <3>1. m # t.root /\ t.color[t.parent[m]] = "black"
        BY <1>1, <2>1, <2>3 DEF RedApart
      <3>2. m = mid /\ mid # Nil => t.parent[m] = n
        BY <1>4
      <3>3. ~ (m = mid /\ mid # Nil)
        BY <1>2, <3>1, <3>2, ColorNames
      <3> QED
        BY <1>7, <2>1, <2>3, <3>1, <3>3
    <2> QED
      BY <2>2, <2>3
  <1>10. u.parent[p] = n /\ u.parent[n] = g
    BY <1>1, <1>2, <1>7
  <1>11. Disturbed(u, L, rr, h, p)
    BY <1>2, <1>6, <1>7, <1>8, <1>9, <1>10 DEF Disturbed
  <1>12. SideOf(u, n) = s
    <2>1. SideOf(u, n) = Before(n, g)
      BY <1>2, <1>6, <1>10, ParentFacts, ShapeWired
    <2>2. Before(n, g) = Before(p, g)
      BY <1>2, <1>3 DEF Turns
    <2> QED
      BY <1>2, <2>1, <2>2
  <1>13. Family(u, L, rr, p, n, g, s)
    <2>1. Family(u, L, rr, p, u.parent[p], u.parent[u.parent[p]], SideOf(u, u.parent[p]))
      BY <1>11, FamilyOf
    <2> QED
      BY <1>10, <1>12, <2>1
  <1>14. u.child[n][s] = p
    BY <1>1, <1>2, <1>7
  <1>15. SideOf(t, p) = s
    BY DEF Family
  <1>16. u.child[g][o] = t.child[g][o]
    BY <1>1, <1>2, <1>7, <1>15
  <1> QED
    BY <1>7, <1>11, <1>13, <1>14, <1>16 DEF o

(* The rotating half of the fixup, whichever side n is on.                 *)
LEMMA Rerooted ==
  ASSUME NEW t, NEW L, NEW r, NEW h, NEW n, Disturbed(t, L, r, h, n),
         ~ UncleRed(t, n), NEW u, NEW m, FixupRotate(t, n) = [t |-> u, n |-> m]
  PROVE  /\ m \in L /\ \E rr : Shape(u, L, rr)
         /\ Even(u, L, h) /\ RedApart(u, L, m)
         /\ u.color[m] = "red" /\ u.color[u.parent[m]] = "black"
  <1> DEFINE p == t.parent[n]
             g == t.parent[p]
             s == SideOf(t, p)
             inner == n = t.child[p][Other(s)]
             t2 == IF inner THEN Rotate(t, s, p) ELSE t
             p2 == t2.parent[m]
             g2 == t2.parent[p2]
  <1>1. Family(t, L, r, n, p, g, s)
    BY FamilyOf
  <1>2. t.color[t.child[g][Other(s)]] # "red"
    BY DEF UncleRed
  <1>3. m = (IF inner THEN p ELSE n)
        /\ u = Rotate(Paint(Paint(t2, p2, "black"), g2, "red"), Other(s), g2)
    BY DEF FixupRotate
  <1>i. inner <=> n = t.child[p][Other(s)]
    OBVIOUS
  <1>t. t2 = IF inner THEN Rotate(t, s, p) ELSE t
    OBVIOUS
  <1>p. p2 = t2.parent[m] /\ g2 = t2.parent[p2]
    OBVIOUS
  <1> HIDE DEF inner, t2, p2, g2, p, g, s
  <1>4. CASE inner
    <2>1. t2 = Rotate(t, s, p) /\ m = p /\ t.child[p][Other(s)] = n
      BY <1>3, <1>4, <1>i, <1>t
    <2>2. PICK rr : /\ Disturbed(t2, L, rr, h, p) /\ Family(t2, L, rr, p, n, g, s)
                    /\ t2.child[n][s] = p /\ t2.child[g][Other(s)] = t.child[g][Other(s)]
                    /\ t2.color = t.color
      BY <1>1, <2>1, InnerTurned
    <2>3. p2 = n /\ g2 = g /\ p \in L
      BY <1>p, <2>1, <2>2 DEF Family
    <2>4. t2.color[t2.child[g][Other(s)]] # "red"
      BY <1>2, <2>2
    <2>5. u = Rotate(Paint(Paint(t2, n, "black"), g, "red"), Other(s), g)
      BY <1>3, <2>3
    <2>6. /\ \E q : Shape(u, L, q)
          /\ Even(u, L, h) /\ RedApart(u, L, p)
          /\ u.color[p] = "red" /\ u.color[u.parent[p]] = "black"
      BY <2>2, <2>4, <2>5, OuterTurned
    <2> QED
      BY <2>1, <2>3, <2>6
  <1>5. CASE ~ inner
    <2>1. t2 = t /\ m = n /\ t.child[p][Other(s)] # n
      BY <1>3, <1>5, <1>i, <1>t
    <2>2. /\ n \in L /\ s \in Side /\ Before(n, p) \in Side /\ t.child[p][Before(n, p)] = n
          /\ t.parent[n] = p /\ t.parent[p] = g
      BY <1>1 DEF Family
    <2>3. t.child[p][s] = n
      BY <2>1, <2>2, Sides
    <2>4. p2 = p /\ g2 = g
      BY <1>p, <2>1, <2>2
    <2>5. u = Rotate(Paint(Paint(t, p, "black"), g, "red"), Other(s), g)
      BY <1>3, <2>1, <2>4
    <2>6. /\ \E q : Shape(u, L, q)
          /\ Even(u, L, h) /\ RedApart(u, L, n)
          /\ u.color[n] = "red" /\ u.color[u.parent[n]] = "black"
      BY <1>1, <1>2, <2>3, <2>5, OuterTurned
    <2> QED
      BY <2>1, <2>2, <2>6
  <1> QED
    BY <1>4, <1>5

LEMMA FillFixup ==
  ASSUME FillTyped, NEW r, NEW h, Filling(r, h), InsertFixup
  PROVE  FillTyped' /\ \E rr, hh : Filling(rr, hh)'
  <1> DEFINE L == inserted
             p == tree.parent[node]
             g == tree.parent[p]
             s == SideOf(tree, p)
             unc == tree.child[g][Other(s)]
  <1>1. /\ pc = "insert" /\ tree.color[p] = "red" /\ pc' = pc /\ place' = place
        /\ side' = side /\ inserted' = inserted /\ Works
        /\ tree' = FixupStep(tree, node).t /\ node' = FixupStep(tree, node).n
    BY DEF InsertFixup
  <1>2. /\ Shape(tree, L, r) /\ Even(tree, L, h) /\ RedApart(tree, L, node)
        /\ node \in L /\ tree.color[node] = "red"
        /\ work + Cardinality(Above(L, r, node)) <= 2 * Cardinality(L)
    BY <1>1 DEF Filling, Linked, Odd, Progress
  <1>3. Disturbed(tree, L, r, h, node)
    BY <1>1, <1>2 DEF Disturbed
  <1>4. Family(tree, L, r, node, p, g, s)
    BY <1>3, FamilyOf
  <1>5. work' \in Nat /\ work' <= work + 1 /\ work \in Nat
    BY <1>1, WorksOnce DEF FillTyped
  <1>6. L \subseteq Keys /\ L \subseteq Nodes /\ L = inserted
    BY KeysAreNodes DEF FillTyped
  <1>7. /\ node # tree.root /\ p # tree.root /\ p \in L /\ g \in L /\ node \in L
        /\ s \in Side
    BY <1>4 DEF Family
  <1>8. Linked' = L /\ Odd' = node'
    BY <1>1 DEF Linked, Odd
  <1>9. Cardinality(Above(L, r, node)) = Cardinality(Above(L, r, g)) + 2
        /\ Cardinality(Above(L, r, g)) \in Nat /\ Cardinality(L) \in Nat
    <2>1. Cardinality(Above(L, r, node)) = Cardinality(Above(L, r, p)) + 1
      BY <1>2, <1>7, AboveShrinks, ShapeWired
    <2>2. Cardinality(Above(L, r, p)) = Cardinality(Above(L, r, g)) + 1
      BY <1>2, <1>7, AboveShrinks, ShapeWired
    <2>3. Cardinality(Above(L, r, g)) \in Nat /\ Cardinality(L) \in Nat
      BY <1>6, AboveFinite
    <2> QED
      BY <2>1, <2>2, <2>3
  <1>10. work' + Cardinality(Above(L, r, g)) <= 2 * Cardinality(L)
         /\ work' <= 2 * Cardinality(L)
    BY <1>2, <1>5, <1>9
  <1>11. CASE UncleRed(tree, node)
    <2> PICK u : Paint(Paint(Paint(tree, p, "black"), unc, "black"), g, "red") = u
      OBVIOUS
    <2>1. tree' = u /\ node' = g
      BY <1>1, <1>11 DEF FixupStep, FixupRecolor
    <2>2. tree.color[unc] = "red"
      BY <1>11 DEF UncleRed
    <2> HIDE DEF unc, p, g, s
    <2>3. tree.child[g][Other(s)] = unc
      BY DEF unc
    <2>r. Raised(tree, u, L, r, h, g)
      BY <1>3, <1>4, <2>2, <2>3, Recolored
    <2>4. /\ Shape(u, L, r) /\ RedApart(u, L, g)
          /\ Even(u, L, [h EXCEPT ![g] = h[g] + 1])
          /\ u.color[g] = "red"
      BY <2>r DEF Raised
    <2> PICK e, hh : g = e /\ [h EXCEPT ![e] = h[e] + 1] = hh
      OBVIOUS
    <2>5. /\ Shape(u, L, r) /\ RedApart(u, L, e) /\ Even(u, L, hh) /\ u.color[e] = "red"
          /\ tree' = u /\ node' = e /\ e \in L
          /\ work' + Cardinality(Above(L, r, e)) <= 2 * Cardinality(L)
      BY <1>7, <1>10, <2>1, <2>4
    <2>6. Progress(r)'
      BY <1>1, <1>10, <2>5 DEF Progress, Above
    <2>7. Filling(r, hh)'
      BY <1>1, <1>8, <2>5, <2>6 DEF Filling
    <2>8. FillTyped'
      BY <1>1, <1>5, <1>6, <2>5 DEF FillTyped
    <2> QED
      BY <2>7, <2>8
  <1>12. CASE ~ UncleRed(tree, node)
    <2> PICK u, m : [t |-> u, n |-> m] = FixupRotate(tree, node)
      BY DEF FixupRotate
    <2>1. tree' = u /\ node' = m
      BY <1>1, <1>12 DEF FixupStep
    <2>2. /\ m \in L /\ \E rr : Shape(u, L, rr)
          /\ Even(u, L, h) /\ RedApart(u, L, m)
          /\ u.color[m] = "red" /\ u.color[u.parent[m]] = "black"
      BY <1>3, <1>12, Rerooted
    <2>3. PICK rr : Shape(u, L, rr)
      BY <2>2
    <2>4. Progress(rr)'
      BY <1>1, <1>10, <2>1, <2>2, ColorNames DEF Progress
    <2>5. Filling(rr, h)'
      BY <1>1, <1>8, <2>1, <2>2, <2>3, <2>4 DEF Filling
    <2>6. FillTyped'
      BY <1>1, <1>5, <1>6, <2>1, <2>2 DEF FillTyped
    <2> QED
      BY <2>5, <2>6
  <1> QED
    BY <1>11, <1>12

(* The root is painted black, whatever it was.                             *)
LEMMA FillDone ==
  ASSUME FillTyped, NEW r, NEW h, Filling(r, h), InsertDone
  PROVE  FillTyped' /\ Filling(r, h)'
  <1> DEFINE L == inserted
             root == tree.root
             u == Paint(tree, root, "black")
  <1>1. /\ pc = "insert" /\ tree.color[tree.parent[node]] # "red" /\ pc' = "idle"
        /\ tree' = u /\ node' = Nil /\ work' = 0 /\ place' = place /\ side' = side
        /\ inserted' = inserted
    BY DEF InsertDone
  <1>2. /\ Shape(tree, L, r) /\ Even(tree, L, h) /\ RedApart(tree, L, node) /\ node \in L
    BY <1>1 DEF Filling, Linked, Odd, Progress
  <1>3. L \subseteq Nodes /\ L \subseteq Keys /\ Nil \notin L /\ Nil \in Nodes
    BY KeysAreNodes DEF FillTyped
  <1>4. root \in L
    BY <1>2 DEF Shape, Wired, RootPassed
  <1> HIDE DEF root
  <1>5. /\ Shape(u, L, r) /\ u.root = tree.root /\ u.parent = tree.parent
        /\ u.child = tree.child
        /\ \A m \in Nodes : u.color[m] = IF m = root THEN "black" ELSE tree.color[m]
    BY <1>2, <1>4, ColorNames, PaintShape
  <1> HIDE DEF u
  <1>6. Even(u, L, h)
    <2> SUFFICES ASSUME NEW n \in L, NEW d \in Side
                 PROVE  h[n] = h[u.child[n][d]] + Blackness(u, u.child[n][d])
      BY <1>2 DEF Even
    <2> DEFINE c == tree.child[n][d]
    <2>1. h[n] = h[c] + Blackness(tree, c) /\ c \in Nodes
      BY <1>2, <1>3, TreeParts DEF Even, Shape, Wired
    <2>2. c # root
      <3>1. c # Nil => c # tree.root
        BY <1>2, ChildFacts, ShapeWired
      <3> QED
        BY <1>3, <1>4, <3>1 DEF root
    <2>3. u.child[n][d] = c
      BY <1>5
    <2> HIDE DEF c
    <2> QED
      BY <1>5, <2>1, <2>2, <2>3 DEF Blackness
  <1>7. RedApart(u, L, Nil)
    <2> SUFFICES ASSUME NEW m \in L, u.color[m] = "red"
                 PROVE  m # u.root /\ u.color[u.parent[m]] = "black"
      BY DEF RedApart
    <2>1. m # root /\ tree.color[m] = "red" /\ m \in Nodes
      BY <1>3, <1>5, ColorNames
    <2>2. tree.parent[m] \in Nodes
      BY <1>2, <2>1, TreeParts DEF Shape, Wired
    <2>3. tree.color[tree.parent[m]] = "black"
      <3>1. CASE m = node
        BY <1>1, <1>2, <2>2, <3>1, TreeParts DEF Shape, Wired, Colors
      <3>2. CASE m # node
        BY <1>2, <2>1, <3>2 DEF RedApart
      <3> QED
        BY <3>1, <3>2
    <2> QED
      BY <1>5, <2>1, <2>2, <2>3 DEF root
  <1>8. Linked' = L /\ Odd' = Nil
    BY <1>1 DEF Linked, Odd
  <1>9. Progress(r)'
    BY <1>1 DEF Progress
  <1>10. Filling(r, h)'
    BY <1>1, <1>5, <1>6, <1>7, <1>8, <1>9 DEF Filling
  <1>11. FillTyped'
    BY <1>1, <1>3 DEF FillTyped
  <1> QED
    BY <1>10, <1>11

-----------------------------------------------------------------------------
(* The invariant, and what follows from it.                                *)

LEMMA FillInit == Init => FillInv
  <1> SUFFICES ASSUME Init PROVE FillTyped /\ \E r, h : Filling(r, h)
    BY DEF FillInv
  <1> PICK r, h : [k \in Keys |-> {}] = r /\ [n \in Nodes |-> 0] = h
    OBVIOUS
  <1>1. /\ tree = Empty /\ pc = "idle" /\ node = Nil /\ place = Nil /\ side = "left"
        /\ work = 0 /\ inserted = {} /\ Linked = {}
    BY DEF Init, Linked
  <1>2. Shape(Empty, {}, [k \in Keys |-> {}])
    BY EmptyShape
  <1>3. Even(tree, {}, h)
    BY KeysAreNodes DEF Even
  <1>4. RedApart(tree, {}, Odd)
    BY DEF RedApart
  <1>5. Progress(r)
    BY <1>1 DEF Progress
  <1>6. Filling(r, h)
    BY <1>1, <1>2, <1>3, <1>4, <1>5 DEF Filling
  <1>7. FillTyped
    BY <1>1, KeysAreNodes DEF FillTyped
  <1> QED
    BY <1>6, <1>7

LEMMA FillNext ==
  ASSUME FillInv, Next
  PROVE  FillInv'
  <1> SUFFICES ASSUME deleted' = {} PROVE FillTyped' /\ \E r, h : Filling(r, h)'
    BY DEF FillInv
  <1>1. deleted \subseteq deleted'
    BY DEF Next, Running, Descend, InsertFixup, InsertDone, DeleteFixup, DeleteRepair,
           DeleteDone, BeginInsert, Delete
  <1>2. deleted = {}
    BY <1>1
  <1>3. FillTyped
    BY <1>2 DEF FillInv
  <1>4. PICK r, h : Filling(r, h)
    BY <1>2 DEF FillInv
  <1>5. CASE Descend
    <2>1. CASE tree.child[place][Before(node, place)] # Nil
      BY <1>3, <1>4, <1>5, <2>1, FillDescend
    <2>2. CASE tree.child[place][Before(node, place)] = Nil
      BY <1>3, <1>4, <1>5, <2>2, FillLink
    <2> QED
      BY <2>1, <2>2
  <1>6. CASE InsertFixup
    BY <1>3, <1>4, <1>6, FillFixup
  <1>7. CASE InsertDone
    BY <1>3, <1>4, <1>7, FillDone
  <1>8. CASE DeleteFixup \/ DeleteRepair \/ DeleteDone
    BY <1>3, <1>8 DEF FillTyped, DeleteFixup, DeleteRepair, DeleteDone
  <1>9. ASSUME NEW k \in Keys, BeginInsert(k)
        PROVE  FillTyped' /\ \E rr, hh : Filling(rr, hh)'
    <2>1. CASE tree.root = Nil
      BY <1>3, <1>4, <1>9, <2>1, FillFirst
    <2>2. CASE tree.root # Nil
      BY <1>3, <1>4, <1>9, <2>2, FillBegin
    <2> QED
      BY <2>1, <2>2
  <1>10. ASSUME NEW k \in Keys, Delete(k) PROVE FALSE
    BY <1>10 DEF Delete
  <1> QED
    BY <1>5, <1>6, <1>7, <1>8, <1>9, <1>10 DEF Next, Running

LEMMA FillStutter ==
  ASSUME FillInv, UNCHANGED vars
  PROVE  FillInv'
  <1>1. /\ tree' = tree /\ pc' = pc /\ node' = node /\ place' = place /\ side' = side
        /\ work' = work /\ inserted' = inserted /\ deleted' = deleted
    BY DEF vars
  <1> SUFFICES ASSUME deleted = {} PROVE FillTyped' /\ \E r, h : Filling(r, h)'
    BY <1>1 DEF FillInv
  <1>2. FillTyped /\ \E r, h : Filling(r, h)
    BY DEF FillInv
  <1>3. PICK r, h : Filling(r, h)
    BY <1>2
  <1>4. FillTyped'
    BY <1>1, <1>2 DEF FillTyped
  <1>5. Linked' = Linked /\ Odd' = Odd
    BY <1>1 DEF Linked, Odd
  <1>6. Progress(r)'
    BY <1>1, <1>3, <1>5 DEF Filling, Progress, Under, Above
  <1>7. Filling(r, h)'
    BY <1>1, <1>3, <1>5, <1>6 DEF Filling
  <1> QED
    BY <1>4, <1>7

LEMMA FillAlways == Spec => []FillInv
  <1>1. FillInv /\ [Next]_vars => FillInv'
    BY FillNext, FillStutter
  <1> QED
    BY FillInit, <1>1, PTL DEF Spec

LEMMA FillHolds == FillInv /\ deleted = {} => NothingLost /\ WellFormed /\ WorkBounded
  <1> SUFFICES ASSUME FillInv, deleted = {} PROVE NothingLost /\ WellFormed /\ WorkBounded
    OBVIOUS
  <1>1. PICK r, h : Filling(r, h)
    BY DEF FillInv
  <1>2. FillTyped
    BY DEF FillInv
  <1> QED
    BY <1>1, <1>2, FillMeaning

(* A tree that is only filled keeps every key: in whatever order the keys  *)
(* come, rbtree_link and rbtree_fixup lose none of them.                   *)
THEOREM FillKeepsAll == Spec => [](deleted = {} => NothingLost)
  BY FillAlways, FillHolds, PTL

(* A tree that is only filled is linked both ways at every step of an      *)
(* insertion, and a red-black tree whenever rbtree_fixup has returned.     *)
THEOREM FillWellFormed == Spec => [](deleted = {} => WellFormed)
  BY FillAlways, FillHolds, PTL

(* The search and the fixup of an insertion together take at most two      *)
(* steps for every key in the tree, and two, so that no insertion goes     *)
(* round for ever.                                                         *)
THEOREM FillWorkBounded == Spec => [](deleted = {} => WorkBounded)
  BY FillAlways, FillHolds, PTL

(* Every step of an insertion is a step of the dictionary or changes       *)
(* nothing for its users: the key is in it once rbtree_link has run.       *)
LEMMA FillStep ==
  ASSUME FillInv, FillInv', deleted = {}, deleted' = {}, [Next]_vars
  PROVE  [Map!Next]_(Found(tree))
  <1>1. Found(tree) = Linked
    <2>1. PICK r, h : Filling(r, h)
      BY DEF FillInv
    <2> QED
      BY <2>1, FoundLinked, ShapeWired DEF Filling
  <1>2. Found(tree)' = Linked'
    <2>1. PICK r, h : Filling(r, h)'
      BY DEF FillInv
    <2> PICK t, L : tree' = t /\ Linked' = L
      OBVIOUS
    <2>2. Shape(t, L, r)
      BY <2>1 DEF Filling
    <2>3. Found(t) = L
      BY <2>2, FoundLinked, ShapeWired
    <2> QED
      BY <2>3 DEF Found
  <1>3. Linked' = Linked \/ \E k \in Keys : Linked' = Linked \cup {k}
    <2>1. /\ pc \in {"idle", "descend", "insert"} /\ inserted \subseteq Keys
          /\ inserted' \subseteq Keys
      BY DEF FillInv, FillTyped
    <2>2. CASE Descend
      <3>1. pc = "descend" /\ inserted' = inserted /\ node' = node
            /\ pc' \in {"descend", "insert"} /\ node \in inserted
        BY <2>2 DEF Descend, FillInv, Filling, Progress
      <3> QED
        BY <2>1, <3>1 DEF Linked
    <2>3. CASE InsertFixup \/ InsertDone
      BY <2>3 DEF InsertFixup, InsertDone, Linked
    <2>4. CASE DeleteFixup \/ DeleteRepair \/ DeleteDone
      BY <2>1, <2>4 DEF DeleteFixup, DeleteRepair, DeleteDone
    <2>5. ASSUME NEW k \in Keys, BeginInsert(k)
          PROVE  Linked' = Linked \/ Linked' = Linked \cup {k}
      BY <2>5 DEF BeginInsert, Linked
    <2>6. ASSUME NEW k \in Keys, Delete(k) PROVE FALSE
      BY <2>6 DEF Delete
    <2>7. CASE UNCHANGED vars
      BY <2>7 DEF vars, Linked
    <2> QED
      BY <2>2, <2>3, <2>4, <2>5, <2>6, <2>7 DEF Next, Running
  <1>4. Found(tree)' = Found(tree) \/ \E k \in Keys : Map!Insert(k)
    BY <1>1, <1>2, <1>3 DEF Map!Insert
  <1> QED
    BY <1>4 DEF Map!Next

LEMMA FillNever ==
  ASSUME MaxDeletions = 0
  PROVE  Spec => [](deleted = {})
  <1>1. Init => deleted = {}
    BY DEF Init
  <1>2. deleted = {} /\ [Next]_vars => (deleted = {})'
    <2> SUFFICES ASSUME deleted = {}, [Next]_vars PROVE deleted' = {}
      OBVIOUS
    <2>1. \A k : ~ Delete(k)
      BY FS_EmptySet DEF Delete
    <2> QED
      BY <2>1 DEF vars, Next, Running, Descend, InsertFixup, InsertDone, DeleteFixup,
                  DeleteRepair, DeleteDone, BeginInsert
  <1> QED
    BY <1>1, <1>2, PTL DEF Spec

(* To its users a tree from which nothing is deleted is a set of keys that *)
(* grows one by one: a key is in it from rbtree_link on.                   *)
THEOREM FillIsDictionary ==
  ASSUME MaxDeletions = 0
  PROVE  Spec => ImplementsDictionary
  <1>1. FillInv /\ Init => Map!Init
    <2> SUFFICES ASSUME FillInv, Init PROVE Found(tree) = {}
      BY DEF Map!Init
    <2>1. PICK r, h : Filling(r, h)
      BY DEF FillInv, Init
    <2> QED
      BY <2>1, FoundLinked, ShapeWired DEF Filling, Linked, Init
  <1>2. FillInv /\ FillInv' /\ deleted = {} /\ (deleted = {})' /\ [Next]_vars
          => [Map!Next]_(Found(tree))
    BY FillStep
  <1> QED
    BY <1>1, <1>2, FillAlways, FillNever, PTL DEF Spec, ImplementsDictionary, Map!Spec

-----------------------------------------------------------------------------
(* A black node goes missing in a tree.                                    *)

Remaining == inserted \ deleted

(* A deletion.  The fixup does not repaint the node it stops at, so that a *)
(* red node x may count as black from then on (Nil when none does).        *)
Weight(t, x, n) == IF t.color[n] = "black" \/ n = x THEN 1 ELSE 0

(* h counts the black nodes below each node, when one more is missing      *)
(* below q on side d (nowhere, if q is Nil).                               *)
Short(t, L, h, x, q, d) ==
  /\ h \in [Nodes -> Nat]
  /\ h[Nil] = 0
  /\ \A m \in L, e \in Side :
       h[m] = h[t.child[m][e]] + IF m = q /\ e = d THEN Weight(t, x, t.child[m][e]) + 1
                                 ELSE Weight(t, x, t.child[m][e])

(* No red node has a red parent or is the root, unless x is one of them.   *)
Tame(t, L, x) ==
  \A n \in L : t.color[n] = "red" /\ n # x =>
    n # t.root /\ (t.color[t.parent[n]] = "black" \/ t.parent[n] = x)

(* The sentinel is black, and x is a red node or none.                     *)
Exempt(t, L, x) ==
  t.color[Nil] = "black" /\ x \in L \cup {Nil} /\ (x # Nil => t.color[x] = "red")

(* Where n hangs, n being possibly the sentinel.                           *)
Over(t, n) == IF n = t.root THEN Nil ELSE t.parent[n]

Hangs(t, L, n, d) == n # t.root => t.parent[n] \in L /\ t.child[t.parent[n]][d] = n

(* Nothing is missing; one black node is missing above n.                  *)
Balanced(t, L, x) == Exempt(t, L, x) /\ \E h : Short(t, L, h, x, Nil, "left")

Lacking(t, L, x, n) ==
  /\ Exempt(t, L, x)
  /\ \E d \in Side : Hangs(t, L, n, d) /\ \E h : Short(t, L, h, x, Over(t, n), d)

(* The links of a tree in which n was turned down to side s.               *)
LEMMA TurnLinks ==
  ASSUME NEW v, NEW L, NEW r, Wired(v, L, r), NEW s, NEW n, NEW up, NEW mid, NEW p,
         Turns(v, L, r, s, n, up, mid, p), NEW u, Turned(v, u, s, n, up, mid, p),
         NEW x \in L, NEW d \in Side, NEW c, u.child[x][d] = c
  PROVE  \/ x = n /\ d = s /\ c = v.child[n][s] /\ c # n /\ c # up
         \/ x = n /\ d = Other(s) /\ c = mid
         \/ x = up /\ d = s /\ c = n
         \/ x = up /\ d = Other(s) /\ c = v.child[up][Other(s)] /\ c # n /\ c # up
         \/ x = p /\ x # n /\ x # up /\ d = SideOf(v, n) /\ c = up /\ v.child[x][d] = n
         \/ x # n /\ x # up /\ c = v.child[x][d] /\ c # n /\ c # up
  <1> DEFINE o == Other(s)
             e == v.child[x][d]
  <1>1. /\ s \in Side /\ n \in L /\ up \in L /\ up # n /\ p # n /\ p # up
        /\ o \in Side /\ o # s /\ \A y \in Side : y # s => y = o
        /\ v.parent[n] = p /\ v.parent[up] = n /\ v.child[n][o] = up /\ v.child[up][s] = mid
        /\ (p # Nil => SideOf(v, n) = Before(n, p) /\ v.child[p][Before(n, p)] = n)
        /\ Before(up, n) = o /\ L \subseteq Nodes /\ Nil \notin L
    BY Sides, KeysAreNodes DEF Turns, Wired, Passing
  <1>2. u.child[x][d] =
          IF x = n THEN IF d = s THEN v.child[n][d] ELSE mid
          ELSE IF x = up THEN IF d = s THEN n ELSE v.child[up][d]
          ELSE IF x = p /\ p # Nil /\ d = SideOf(v, n) THEN up
          ELSE v.child[x][d]
    BY <1>1 DEF Turned
  <1>3. e # Nil => v.parent[e] = x /\ e # x /\ Before(e, x) = d
    BY ChildFacts
  <1>4. e = n => x = p /\ d = SideOf(v, n)
    BY <1>1, <1>3
  <1>5. e = up => x = n /\ d = o
    BY <1>1, <1>3
  <1> HIDE DEF e, o
  <1>6. CASE x = n
    BY <1>1, <1>2, <1>3, <1>4, <1>5, <1>6 DEF e, o
  <1>7. CASE x = up
    BY <1>1, <1>2, <1>3, <1>4, <1>5, <1>7 DEF e, o
  <1>8. CASE x # n /\ x # up
    BY <1>1, <1>2, <1>4, <1>5, <1>8 DEF e
  <1> QED
    BY <1>6, <1>7, <1>8

-----------------------------------------------------------------------------
(* The sibling of a node above which a black node is missing.              *)

(* What a node counts for.                                                 *)
LEMMA Weights ==
  ASSUME NEW t, NEW x
  PROVE  /\ \A n : Weight(t, x, n) \in {0, 1}
         /\ \A n : t.color[n] = "black" => Weight(t, x, n) = 1
         /\ \A n : t.color[n] = "red" /\ n # x => Weight(t, x, n) = 0
         /\ Weight(t, x, x) = 1
  BY DEF Weight

(* Only the links and the weights matter to the count.                     *)
LEMMA ShortLinks ==
  ASSUME NEW t, NEW L, NEW h, NEW x, NEW q, NEW d \in Side, Short(t, L, h, x, q, d)
  PROVE  /\ h[Nil] = 0
         /\ \A n \in Nodes : h[n] \in Nat
         /\ q \in L => /\ h[q] = h[t.child[q][d]] + (Weight(t, x, t.child[q][d]) + 1)
                       /\ h[q] = h[t.child[q][Other(d)]] + Weight(t, x, t.child[q][Other(d)])
         /\ \A m \in L, e \in Side : m # q =>
              h[m] = h[t.child[m][e]] + Weight(t, x, t.child[m][e])
  <1>1. Other(d) \in Side /\ Other(d) # d
    BY Sides
  <1>2. \A m \in L, e \in Side :
          h[m] = h[t.child[m][e]] + IF m = q /\ e = d THEN Weight(t, x, t.child[m][e]) + 1
                                    ELSE Weight(t, x, t.child[m][e])
    BY DEF Short
  <1>3. h[Nil] = 0 /\ \A n \in Nodes : h[n] \in Nat
    BY DEF Short
  <1>4. q \in L => /\ h[q] = h[t.child[q][d]] + (Weight(t, x, t.child[q][d]) + 1)
                   /\ h[q] = h[t.child[q][Other(d)]] + Weight(t, x, t.child[q][Other(d)])
    BY <1>1, <1>2
  <1>5. \A m \in L, e \in Side : m # q =>
          h[m] = h[t.child[m][e]] + Weight(t, x, t.child[m][e])
    BY <1>2
  <1> QED
    BY <1>3, <1>4, <1>5

(* Where a black node is missing there is a sibling.                       *)
LEMMA SiblingFacts ==
  ASSUME NEW t, NEW L, NEW r, Wired(t, L, r), NEW h, NEW x, NEW n, NEW d \in Side,
         NEW p \in L, t.parent[n] = p, t.child[p][d] = n, n \in L \cup {Nil},
         t.color[n] = "black", Short(t, L, h, x, p, d)
  PROVE  LET bro == t.child[p][Other(d)]
         IN /\ SideOf(t, n) = d
            /\ bro # Nil /\ bro \in L /\ bro # n /\ bro # p /\ n # p /\ n # t.root
            /\ t.parent[bro] = p /\ Before(bro, p) = Other(d)
            /\ h[p] = h[n] + 2 /\ h[n] \in Nat
            /\ h[p] = h[bro] + Weight(t, x, bro)
  <1> DEFINE bro == t.child[p][Other(d)]
  <1>1. /\ Other(d) \in Side /\ Other(d) # d /\ L \subseteq Nodes /\ Nil \notin L
        /\ Nil \in Nodes /\ n \in Nodes
    BY Sides, KeysAreNodes DEF Wired, Passing
  <1>2. /\ h[p] = h[n] + (Weight(t, x, n) + 1)
        /\ h[p] = h[bro] + Weight(t, x, bro)
        /\ h[n] \in Nat /\ h[Nil] = 0
    BY <1>1, ShortLinks
  <1>3. Weight(t, x, n) = 1
    BY Weights
  <1>4. h[p] = h[n] + 2
    BY <1>2, <1>3
  <1>5. bro # Nil
    <2> SUFFICES ASSUME bro = Nil PROVE FALSE
      OBVIOUS
    <2>1. h[p] = 0 + Weight(t, x, Nil) /\ Weight(t, x, Nil) \in {0, 1}
      BY <1>2, Weights
    <2> QED
      BY <1>2, <1>4, <2>1
  <1>6. bro \in L /\ t.parent[bro] = p /\ bro # p /\ Before(bro, p) = Other(d)
    BY <1>1, <1>5, ChildFacts
  <1>7. n # Nil => n # p /\ Before(n, p) = d /\ n # t.root
    BY ChildFacts
  <1>8. bro # n
    BY <1>1, <1>5, <1>6, <1>7
  <1>9. n # t.root
    BY <1>1, <1>7 DEF Wired, RootPassed
  <1>10. SideOf(t, n) = d
    <2>1. d = "left" \/ d = "right"
      BY DEF Side
    <2>2. Other("right") = "left"
      BY DEF Other
    <2> QED
      BY <1>8, <2>1, <2>2 DEF SideOf
  <1> QED
    BY <1>1, <1>2, <1>4, <1>5, <1>6, <1>7, <1>8, <1>9, <1>10


-----------------------------------------------------------------------------
(* Repainting and rotating where one is missing.                           *)

(* v is t in other colours.                                                *)
Repainted(t, v) == v.root = t.root /\ v.parent = t.parent /\ v.child = t.child

(* Two repaintings leave the links alone.                                  *)
LEMMA PaintTwice ==
  ASSUME NEW t, NEW L, NEW r, Wired(t, L, r), NEW m \in Nodes, NEW n \in Nodes,
         NEW c \in Colors, NEW e \in Colors, NEW v, Paint(Paint(t, m, c), n, e) = v
  PROVE  /\ Wired(v, L, r) /\ Repainted(t, v)
         /\ \A y \in Nodes : v.color[y] = IF y = n THEN e ELSE IF y = m THEN c ELSE t.color[y]
  <1> DEFINE w == Paint(t, m, c)
             z == Paint(w, n, e)
  <1>1. /\ Wired(w, L, r) /\ w.root = t.root /\ w.parent = t.parent /\ w.child = t.child
        /\ \A y \in Nodes : w.color[y] = IF y = m THEN c ELSE t.color[y]
    BY PaintWired
  <1> HIDE DEF w
  <1>2. /\ Wired(z, L, r) /\ z.root = w.root /\ z.parent = w.parent /\ z.child = w.child
        /\ \A y \in Nodes : z.color[y] = IF y = n THEN e ELSE w.color[y]
    BY <1>1, PaintWired
  <1>3. z = v
    BY DEF w
  <1> HIDE DEF z
  <1> QED
    BY <1>1, <1>2, <1>3 DEF Repainted

(* A red child z of y is painted black and takes y's place, y painted red  *)
(* goes down to side e.                                                    *)
LEMMA SwapTurns ==
  ASSUME NEW t, NEW L, NEW r, Wired(t, L, r), NEW e \in Side, NEW y \in L,
         NEW z, t.child[y][Other(e)] = z, z # Nil,
         NEW mid, t.child[z][e] = mid, NEW g, t.parent[y] = g,
         NEW v, Paint(Paint(t, z, "black"), y, "red") = v,
         NEW u, Rotate(v, e, y) = u
  PROVE  /\ Wired(v, L, r) /\ Repainted(t, v)
         /\ Turns(v, L, r, e, y, z, mid, g) /\ Turned(v, u, e, y, z, mid, g)
         /\ Wired(u, L, Rotated(r, e, y, z))
         /\ \A k \in Nodes : u.color[k] = IF k = y THEN "red" ELSE IF k = z THEN "black"
                                          ELSE t.color[k]
         /\ z \in L /\ t.parent[z] = y /\ z # y
  <1>1. Other(e) \in Side /\ L \subseteq Nodes /\ Nil \notin L
    BY KeysAreNodes, Sides DEF Wired, Passing
  <1>2. z \in L /\ t.parent[z] = y /\ z # y
    BY <1>1, ChildFacts
  <1>3. /\ Wired(v, L, r) /\ Repainted(t, v)
        /\ \A k \in Nodes : v.color[k] = IF k = y THEN "red" ELSE IF k = z THEN "black"
                                         ELSE t.color[k]
    BY <1>1, <1>2, PaintTwice, ColorNames
  <1>4. v.child = t.child /\ v.parent = t.parent
    BY <1>3 DEF Repainted
  <1>5. Turns(v, L, r, e, y, z, mid, g)
    <2>1. v.child[y][Other(e)] # Nil
      BY <1>4
    <2>2. Turns(v, L, r, e, y, v.child[y][Other(e)], v.child[v.child[y][Other(e)]][e], v.parent[y])
      BY <1>3, <2>1, TurnParts
    <2> QED
      BY <1>4, <2>2
  <1>6. Turned(v, u, e, y, z, mid, g)
    <2>1. Turned(v, Rotate(v, e, y), e, y, z, mid, g)
      BY <1>3, <1>5, RotateTurns
    <2> QED
      BY <2>1
  <1>7. Wired(u, L, Rotated(r, e, y, z))
    BY <1>3, <1>5, <1>6, RotateWired
  <1>8. u.color = v.color
    BY <1>6 DEF Turned
  <1> QED
    BY <1>2, <1>3, <1>5, <1>6, <1>7, <1>8

(* The swap keeps every path's count of black nodes, wherever one lacks.   *)
LEMMA SwapShort ==
  ASSUME NEW t, NEW L, NEW r, Wired(t, L, r), NEW e \in Side, NEW y \in L,
         NEW z, t.child[y][Other(e)] = z, z # Nil,
         NEW u, Rotate(Paint(Paint(t, z, "black"), y, "red"), e, y) = u,
         t.color[z] = "red", t.color[t.child[y][e]] = "black", t.color[Nil] = "black",
         NEW h, NEW q, NEW f \in Side, Short(t, L, h, Nil, q, f), Tame(t, L, Nil),
         q # z, q = y => f = e, t.child[q][f] # y
  PROVE  /\ Short(u, L, h, Nil, q, f) /\ Tame(u, L, Nil)
         /\ u.color[t.child[z][e]] = "black"
  <1> DEFINE v == Paint(Paint(t, z, "black"), y, "red")
             mid == t.child[z][e]
             g == t.parent[y]
  <1>1. /\ L \subseteq Nodes /\ Nil \in Nodes /\ Nil \notin L /\ t \in Trees
        /\ Other(e) \in Side /\ Other(e) # e /\ \A d \in Side : d = e \/ d = Other(e)
    BY KeysAreNodes, Sides DEF Wired, Passing
  <1>2. /\ Wired(v, L, r) /\ Repainted(t, v)
        /\ Turns(v, L, r, e, y, z, mid, g) /\ Turned(v, u, e, y, z, mid, g)
        /\ \A k \in Nodes : u.color[k] = IF k = y THEN "red" ELSE IF k = z THEN "black"
                                         ELSE t.color[k]
        /\ z \in L /\ t.parent[z] = y /\ z # y
    BY SwapTurns
  <1> HIDE DEF v, mid, g
  <1>3. v.child = t.child /\ v.parent = t.parent /\ v.root = t.root
    BY <1>2 DEF Repainted
  <1>4. /\ t.color[y] = "black"
        /\ \A m \in L : t.color[m] = "red" => t.parent[m] # z
    BY <1>1, <1>2, ColorNames DEF Tame
  <1>5. /\ mid # Nil => mid \in L /\ t.parent[mid] = z /\ mid # y /\ mid # z
        /\ mid \in Nodes
    BY <1>1, <1>2, ChildFacts DEF mid
  <1>6. t.color[mid] = "black"
    <2>1. t.color[mid] = "red" \/ t.color[mid] = "black"
      BY <1>1, <1>5, TreeParts DEF Colors
    <2> QED
      BY <1>1, <1>4, <1>5, <2>1, ColorNames
  <1>7. u.color[mid] = "black" /\ mid # y /\ mid # z
    <2>1. mid # y /\ mid # z
      BY <1>1, <1>2, <1>5
    <2> QED
      BY <1>2, <1>5, <1>6, <2>1
  <1>8. /\ h[Nil] = 0 /\ \A k \in Nodes : h[k] \in Nat
        /\ \A m \in L, d \in Side :
             h[m] = h[t.child[m][d]] + IF m = q /\ d = f THEN Weight(t, Nil, t.child[m][d]) + 1
                                       ELSE Weight(t, Nil, t.child[m][d])
    BY DEF Short
  <1>9. /\ Weight(t, Nil, z) = 0 /\ Weight(t, Nil, mid) = 1 /\ Weight(t, Nil, y) = 1
        /\ Weight(u, Nil, z) = 1 /\ Weight(u, Nil, mid) = 1 /\ Weight(u, Nil, y) = 0
        /\ \A k \in Nodes : y # k /\ z # k => Weight(u, Nil, k) = Weight(t, Nil, k)
    BY <1>1, <1>2, <1>4, <1>6, <1>7, ColorNames DEF Weight
  <1>10. h[y] = h[z] /\ h[z] = h[mid] + 1 /\ h[y] \in Nat
    <2>1. h[z] = h[mid] + Weight(t, Nil, mid)
      BY <1>2, <1>8 DEF mid
    <2>2. h[y] = h[z] + Weight(t, Nil, z)
      BY <1>1, <1>8
    <2>3. h[z] \in Nat /\ h[y] \in Nat
      BY <1>1, <1>2, <1>8
    <2> QED
      BY <1>9, <2>1, <2>2, <2>3
  <1>11. Short(u, L, h, Nil, q, f)
    <2> DEFINE W(c) == Weight(u, Nil, c)
    <2> SUFFICES ASSUME NEW m \in L, NEW d \in Side, NEW c, u.child[m][d] = c
                 PROVE  h[m] = h[c] + IF m = q /\ d = f THEN W(c) + 1 ELSE W(c)
      BY DEF Short
    <2>1. \/ m = y /\ d = e /\ c = t.child[y][e] /\ c # y /\ c # z
          \/ m = y /\ d = Other(e) /\ c = mid
          \/ m = z /\ d = e /\ c = y
          \/ m = z /\ d = Other(e) /\ c = t.child[z][Other(e)] /\ c # y /\ c # z
          \/ m = g /\ m # y /\ m # z /\ c = z /\ t.child[m][d] = y
          \/ m # y /\ m # z /\ c = t.child[m][d] /\ c # y /\ c # z
      BY <1>2, <1>3, TurnLinks
    <2>2. \A k \in Nodes : k # y /\ k # z => W(k) = Weight(t, Nil, k)
      BY <1>9
    <2>3. W(z) = 1 /\ W(mid) = 1 /\ W(y) = 0
      BY <1>9
    <2> HIDE DEF W
    <2>4. CASE c = t.child[m][d] /\ c # y /\ c # z
      <3>1. c \in Nodes
        BY <1>1, <2>4, TreeParts
      <3> QED
        BY <1>8, <2>2, <2>4, <3>1
    <2>5. CASE m = y /\ d = Other(e) /\ c = mid
      <3>1. ~ (m = q /\ d = f)
        BY <1>1, <2>5
      <3> QED
        BY <1>10, <2>3, <2>5, <3>1
    <2>6. CASE m = z /\ d = e /\ c = y
      <3>1. h[m] = h[c] + W(c)
        BY <1>10, <2>3, <2>6
      <3> QED
        BY <2>6, <3>1
    <2>7. CASE m = g /\ m # y /\ m # z /\ c = z /\ t.child[m][d] = y
      <3>1. ~ (m = q /\ d = f)
        BY <2>7
      <3>2. h[m] = h[y] + Weight(t, Nil, y)
        BY <1>8, <2>7, <3>1
      <3> QED
        BY <1>9, <1>10, <2>3, <2>7, <3>1, <3>2
    <2> QED
      BY <2>1, <2>4, <2>5, <2>6, <2>7
  <1>12. Tame(u, L, Nil)
    <2> SUFFICES ASSUME NEW m \in L, u.color[m] = "red"
                 PROVE  m # u.root /\ u.color[u.parent[m]] = "black"
      BY DEF Tame
    <2>0. m \in Nodes /\ m # Nil /\ y \in Nodes /\ z \in Nodes /\ y # Nil
      BY <1>1, <1>2
    <2>1. /\ u.root = IF g = Nil THEN z ELSE t.root
          /\ u.parent[m] = IF m = y THEN z ELSE IF m = z THEN g
                           ELSE IF m = mid /\ mid # Nil THEN y ELSE t.parent[m]
      BY <1>2, <1>3, <2>0 DEF Turned
    <2>2. m # z /\ m # mid
      BY <1>2, <1>7, <2>0, ColorNames
    <2>3. CASE m = y
      <3>1. y = t.root <=> g = Nil
        BY ParentFacts DEF g
      <3> QED
        BY <1>2, <2>0, <2>1, <2>3, <3>1
    <2>4. CASE m # y
      <3>1. t.color[m] = "red"
        BY <1>2, <2>0, <2>2, <2>4
      <3>2. m # t.root /\ (t.color[t.parent[m]] = "black" \/ t.parent[m] = Nil)
        BY <2>0, <3>1 DEF Tame
      <3>3. t.parent[m] # y
        <4>1. t.parent[m] = y => t.child[y][Before(m, y)] = m /\ Before(m, y) \in Side
          BY <2>0, ParentFacts
        <4>2. t.parent[m] = y => m = t.child[y][e] \/ m = z
          BY <1>1, <4>1
        <4> QED
          BY <2>2, <3>1, <4>2, ColorNames
      <3>4. t.parent[m] \in Nodes /\ u.parent[m] = t.parent[m] /\ t.color[t.parent[m]] = "black"
        BY <1>1, <2>0, <2>1, <2>2, <2>4, <3>2, TreeParts
      <3> QED
        BY <1>2, <2>1, <2>2, <3>2, <3>3, <3>4
    <2> QED
      BY <2>3, <2>4
  <1> QED
    BY <1>7, <1>11, <1>12 DEF mid

(* The node n hangs below p on side s.                                     *)
Hung(t, L, n, p, s) ==
  /\ n \in L \cup {Nil} /\ n # t.root /\ p \in L /\ s \in Side
  /\ t.parent[n] = p /\ t.child[p][s] = n
  /\ t.color[n] = "black" /\ t.color[Nil] = "black"

(* A black node is missing above it, and its sibling is black.             *)
Ready(t, L, x, p, s) ==
  /\ Exempt(t, L, x)
  /\ \E h : Short(t, L, h, x, p, s)
  /\ t.color[t.child[p][Other(s)]] = "black"

(* Where n hangs stays the same when what is beside it is swapped.         *)
LEMMA SwapHung ==
  ASSUME NEW t, NEW L, NEW r, Wired(t, L, r), NEW n, NEW p, NEW s, Hung(t, L, n, p, s),
         NEW e \in Side, NEW y \in L,
         NEW z, t.child[y][Other(e)] = z, z # Nil,
         (y = p /\ e = s) \/ (y = t.child[p][Other(s)] /\ e = Other(s)),
         NEW u, Rotate(Paint(Paint(t, z, "black"), y, "red"), e, y) = u
  PROVE  /\ Hung(u, L, n, p, s)
         /\ y = p => u.child[p][Other(s)] = t.child[z][e] /\ u.color[p] = "red"
         /\ y # p => /\ u.child[p][Other(s)] = z /\ u.child[z][Other(s)] = y
                     /\ u.color[z] = "black" /\ u.color[y] = "red"
  <1> DEFINE v == Paint(Paint(t, z, "black"), y, "red")
             mid == t.child[z][e]
             g == t.parent[y]
  <1>1. /\ L \subseteq Nodes /\ Nil \in Nodes /\ Nil \notin L /\ t \in Trees
        /\ s \in Side /\ Other(s) \in Side /\ Other(s) # s /\ Other(Other(s)) = s
        /\ n \in L \cup {Nil} /\ n # t.root /\ p \in L /\ t.parent[n] = p /\ t.child[p][s] = n
        /\ t.color[n] = "black" /\ t.color[Nil] = "black"
    BY KeysAreNodes, Sides DEF Wired, Passing, Hung
  <1>2. /\ Repainted(t, v)
        /\ Turns(v, L, r, e, y, z, mid, g) /\ Turned(v, u, e, y, z, mid, g)
        /\ \A k \in Nodes : u.color[k] = IF k = y THEN "red" ELSE IF k = z THEN "black"
                                         ELSE t.color[k]
        /\ z \in L /\ t.parent[z] = y /\ z # y
    BY SwapTurns
  <1> HIDE DEF v
  <1>3. v.child = t.child /\ v.parent = t.parent /\ v.root = t.root
    BY <1>2 DEF Repainted
  <1>4. /\ n # Nil => n # p /\ Before(n, p) = s
        /\ mid # Nil => mid \in L /\ t.parent[mid] = z
    BY <1>1, <1>2, ChildFacts
  <1>5. y # p => t.parent[y] = p /\ y # n /\ y # Nil /\ Before(y, p) = Other(s)
    BY <1>1, ChildFacts
  <1>6. n # y /\ n # z /\ (mid # Nil => n # mid) /\ n # p
    <2>1. CASE y = p
      <3>1. Before(z, p) = Other(s)
        BY <1>1, <2>1, ChildFacts
      <3> QED
        BY <1>1, <1>2, <1>4, <2>1, <3>1
    <2>2. CASE y # p
      <3>1. n # z
        BY <1>1, <1>2, <1>5, <2>2
      <3>2. p # z
        <4>1. Before(z, y) = s /\ z \in r[y] /\ y \notin r[z]
          BY <1>1, <2>2, ChildFacts
        <4>2. y \in r[p]
          BY <1>1, <1>5, <2>2, ChildFacts
        <4> QED
          BY <4>1, <4>2
      <3> QED
        BY <1>1, <1>2, <1>4, <1>5, <2>2, <3>1, <3>2
    <2> QED
      BY <2>1, <2>2
  <1>7. n # u.root
    BY <1>1, <1>2, <1>3, <1>6 DEF Turned
  <1>8. u.parent[n] = p
    <2>1. n \in Nodes
      BY <1>1
    <2> QED
      BY <1>1, <1>2, <1>3, <1>6, <2>1 DEF Turned
  <1>9. /\ y = g => FALSE
        /\ y # p => g = p /\ g # Nil /\ p # z /\ SideOf(v, y) = Other(s)
    <2>1. y # g
      BY <1>2 DEF Turns
    <2>2. ASSUME y # p PROVE g = p /\ g # Nil /\ p # z /\ SideOf(v, y) = Other(s)
      <3>1. g = p /\ g # Nil
        BY <1>1, <1>5, <2>2
      <3>2. p # z /\ SideOf(v, y) = Before(y, p)
        BY <1>2, <3>1 DEF Turns
      <3> QED
        BY <1>5, <2>2, <3>1, <3>2
    <2> QED
      BY <2>1, <2>2
  <1>10. /\ u.child[p][s] = n
         /\ y = p => u.child[p][Other(s)] = mid
         /\ y # p => u.child[p][Other(s)] = z /\ u.child[z][Other(s)] = y
    <2>1. p \in Nodes /\ z \in Nodes
      BY <1>1, <1>2
    <2>2. \A k \in Nodes, d \in Side : u.child[k][d] =
            IF k = y THEN IF d = e THEN t.child[y][d] ELSE mid
            ELSE IF k = z THEN IF d = e THEN y ELSE t.child[z][d]
            ELSE IF k = g /\ g # Nil /\ d = SideOf(v, y) THEN z
            ELSE t.child[k][d]
      BY <1>2, <1>3 DEF Turned
    <2>3. CASE y = p
      <3>1. e = s
        BY <1>1, <2>3, ChildFacts, KeysAreNodes
      <3> QED
        BY <1>1, <1>2, <2>1, <2>2, <2>3, <3>1
    <2>4. CASE y # p
      BY <1>1, <1>2, <1>9, <2>1, <2>2, <2>4
    <2> QED
      BY <2>3, <2>4
  <1>11. /\ u.color[n] = "black" /\ u.color[Nil] = "black"
         /\ u.color[y] = "red" /\ u.color[z] = "black"
    BY <1>1, <1>2, <1>6
  <1> QED
    BY <1>1, <1>7, <1>8, <1>10, <1>11 DEF Hung

(* The first half of an iteration of __rbtree_delete_fixup.                *)
LEMMA SiblingStep ==
  ASSUME NEW t, NEW L, NEW r, Wired(t, L, r), NEW n \in L \cup {Nil}, n # t.root,
         t.color[n] = "black", NEW x, Lacking(t, L, x, n), NEW s, SideOf(t, n) = s,
         NEW u, SiblingBlack(t, n) = u
  PROVE  LET p == t.parent[n]
         IN \E rr : /\ Wired(u, L, rr) /\ Hung(u, L, n, p, s)
                    /\ x = Nil /\ Tame(t, L, n) => Ready(u, L, Nil, p, s) /\ Tame(u, L, Nil)
                    /\ u.color[p] = "red" \/ (rr = r /\ Ready(u, L, x, p, s))
  <1> DEFINE p == t.parent[n]
             bro == t.child[p][Other(s)]
  <1>1. PICK d \in Side : Hangs(t, L, n, d) /\ \E h : Short(t, L, h, x, Over(t, n), d)
    BY DEF Lacking
  <1>2. Exempt(t, L, x)
    BY DEF Lacking
  <1>h. PICK h : Short(t, L, h, x, Over(t, n), d)
    BY <1>1
  <1>3. p \in L /\ t.child[p][d] = n /\ Short(t, L, h, x, p, d)
    BY <1>1, <1>h DEF Hangs, Over
  <1>4. /\ SideOf(t, n) = d
        /\ t.child[p][Other(d)] # Nil /\ t.child[p][Other(d)] \in L
    BY <1>3, SiblingFacts
  <1>5. /\ s = d /\ s \in Side /\ Other(s) \in Side
        /\ bro # Nil /\ bro \in L /\ bro \in Nodes /\ t \in Trees /\ p # bro
    BY <1>3, <1>4, Sides, KeysAreNodes, ChildFacts DEF Wired, Passing
  <1>6. Hung(t, L, n, p, s)
    BY <1>2, <1>3, <1>5 DEF Hung, Exempt
  <1>7. CASE t.color[bro] # "red"
    <2>1. u = t
      BY <1>4, <1>5, <1>7 DEF SiblingBlack
    <2>2. t.color[bro] = "black"
      BY <1>5, <1>7, TreeParts DEF Colors
    <2>3. Ready(t, L, x, p, s)
      BY <1>2, <1>3, <1>5, <2>2 DEF Ready
    <2>4. Tame(t, L, n) => Tame(t, L, Nil)
      <3> SUFFICES ASSUME Tame(t, L, n), NEW m \in L, t.color[m] = "red"
                   PROVE  m # t.root /\ t.color[t.parent[m]] = "black"
        BY DEF Tame
      <3> QED
        BY ColorNames DEF Tame
    <2> QED
      BY <1>6, <2>1, <2>3, <2>4
  <1>8. CASE t.color[bro] = "red"
    <2>1. u = Rotate(Paint(Paint(t, bro, "black"), p, "red"), s, p)
      BY <1>4, <1>5, <1>8 DEF SiblingBlack
    <2>0. t.child[p][Other(s)] = bro /\ t.parent[n] = p
      OBVIOUS
    <2> HIDE DEF bro, p
    <2>2. Wired(u, L, Rotated(r, s, p, bro))
      BY <1>3, <1>5, <2>0, <2>1, SwapTurns
    <2>3. Hung(u, L, n, p, s) /\ u.child[p][Other(s)] = t.child[bro][s] /\ u.color[p] = "red"
      <3>1. (p = p /\ s = s) \/ (p = t.child[p][Other(s)] /\ s = Other(s))
        OBVIOUS
      <3> QED
        BY <1>3, <1>5, <1>6, <2>0, <2>1, <3>1, SwapHung
    <2>4. ASSUME x = Nil, Tame(t, L, n)
          PROVE  Ready(u, L, Nil, p, s) /\ Tame(u, L, Nil)
      <3>1. Tame(t, L, Nil)
        <4> SUFFICES ASSUME NEW m \in L, t.color[m] = "red"
                     PROVE  m # t.root /\ t.color[t.parent[m]] = "black"
          BY DEF Tame
        <4> QED
          BY <2>4, ColorNames DEF Tame
      <3>2. t.child[p][s] # p
        BY <1>5, <1>3, ChildFacts, KeysAreNodes DEF Wired, Passing
      <3>3. Short(u, L, h, Nil, p, s) /\ Tame(u, L, Nil) /\ u.color[t.child[bro][s]] = "black"
        <4>1. t.color[t.child[p][s]] = "black" /\ t.color[Nil] = "black"
          BY <1>2, <1>3, <1>5 DEF Exempt
        <4>2. Short(t, L, h, Nil, p, s)
          BY <1>3, <1>5, <2>4
        <4>3. p # bro /\ (p = p => s = s) /\ bro # Nil /\ p \in L /\ s \in Side
          BY <1>3, <1>5
        <4> QED
          BY <1>8, <2>0, <2>1, <3>1, <3>2, <4>1, <4>2, <4>3, SwapShort
      <3>4. Exempt(u, L, Nil)
        BY <2>3 DEF Hung, Exempt
      <3> QED
        BY <2>3, <3>3, <3>4 DEF Ready
    <2> QED
      BY <2>2, <2>3, <2>4 DEF p
  <1> QED
    BY <1>7, <1>8


-----------------------------------------------------------------------------
(* The iterations of __rbtree_delete_fixup.                                *)

(* Both nephews are black: the sibling is painted red and the parent is    *)
(* next.                                                                   *)
LEMMA ClimbStep ==
  ASSUME NEW t, NEW L, NEW r, Wired(t, L, r), NEW n, NEW p, NEW s, Hung(t, L, n, p, s),
         NephewsBlack(t, n, s), NEW u, Paint(t, Sibling(t, n, s), "red") = u
  PROVE  /\ Wired(u, L, r) /\ Repainted(t, u)
         /\ \A x : Ready(t, L, x, p, s) => Lacking(u, L, x, p)
         /\ Ready(t, L, Nil, p, s) /\ Tame(t, L, Nil) => Tame(u, L, p)
  <1> DEFINE bro == t.child[p][Other(s)]
  <1>1. /\ L \subseteq Nodes /\ Nil \in Nodes /\ Nil \notin L /\ t \in Trees
        /\ s \in Side /\ Other(s) \in Side /\ Other(s) # s /\ \A d \in Side : d = s \/ d = Other(s)
        /\ n \in L \cup {Nil} /\ n # t.root /\ p \in L /\ t.parent[n] = p /\ t.child[p][s] = n
        /\ t.color[n] = "black" /\ t.color[Nil] = "black"
    BY KeysAreNodes, Sides DEF Wired, Passing, Hung
  <1>2. bro \in Nodes /\ u = Paint(t, bro, "red")
    BY <1>1, TreeParts DEF Sibling
  <1>3. \A d \in Side : t.color[t.child[bro][d]] = "black"
    BY <1>1 DEF NephewsBlack, Sibling
  <1>4. bro # Nil => bro \in L /\ t.parent[bro] = p /\ bro # p /\ Before(bro, p) = Other(s)
    BY <1>1, ChildFacts
  <1>b. t.child[p][Other(s)] = bro
    OBVIOUS
  <1> HIDE DEF bro
  <1>5. /\ Wired(u, L, r) /\ Repainted(t, u)
        /\ \A k \in Nodes : u.color[k] = IF k = bro THEN "red" ELSE t.color[k]
    BY <1>2, PaintWired, ColorNames DEF Repainted
  <1>6. u.child = t.child /\ u.parent = t.parent /\ u.root = t.root
    BY <1>5 DEF Repainted
  <1>7. ASSUME NEW x, Ready(t, L, x, p, s) PROVE Lacking(u, L, x, p)
    <2>1. PICK h : Short(t, L, h, x, p, s)
      BY <1>7 DEF Ready
    <2>2. Exempt(t, L, x) /\ t.color[bro] = "black"
      BY <1>7, <1>b DEF Ready
    <2>3. bro # Nil /\ bro # n /\ n # p /\ h[p] = h[n] + 2 /\ h[n] \in Nat
      BY <1>1, <1>b, <2>1, SiblingFacts
    <2>4. bro # x /\ Exempt(u, L, x)
      <3>1. bro # x
        BY <2>2, <2>3, ColorNames DEF Exempt
      <3>2. x \in Nodes
        BY <1>1, <2>2 DEF Exempt
      <3> QED
        BY <1>1, <1>5, <2>2, <2>3, <3>1, <3>2 DEF Exempt
    <2>5. /\ Weight(u, x, bro) = 0 /\ Weight(t, x, bro) = 1 /\ Weight(t, x, n) = 1
          /\ Weight(u, x, n) = 1
          /\ \A k \in Nodes : k # bro => Weight(u, x, k) = Weight(t, x, k)
      BY <1>1, <1>2, <1>5, <2>2, <2>3, <2>4, ColorNames DEF Weight
    <2>6. /\ h \in [Nodes -> Nat] /\ h[Nil] = 0 /\ \A k \in Nodes : h[k] \in Nat
          /\ \A m \in L, d \in Side :
               h[m] = h[t.child[m][d]] + IF m = p /\ d = s THEN Weight(t, x, t.child[m][d]) + 1
                                         ELSE Weight(t, x, t.child[m][d])
      BY <2>1 DEF Short
    <2>7. PICK w : w \in Nat /\ h[p] = w + 1 /\ w = h[n] + 1
      BY <2>3
    <2> DEFINE hh == [k \in Nodes |-> IF k = p THEN w ELSE h[k]]
               a == Over(u, p)
    <2>8. /\ hh \in [Nodes -> Nat] /\ hh[Nil] = 0 /\ hh[p] = w
          /\ \A k \in Nodes : k # p => hh[k] = h[k]
      BY <1>1, <2>6, <2>7
    <2> HIDE DEF hh
    <2>9. \E d \in Side : Hangs(u, L, p, d) /\ (p # t.root => d = Before(p, t.parent[p]))
      <3>1. CASE p = t.root
        BY <1>1, <1>6, <3>1 DEF Hangs
      <3>2. CASE p # t.root
        <4>1. /\ t.parent[p] # Nil /\ t.parent[p] \in L /\ Before(p, t.parent[p]) \in Side
              /\ t.child[t.parent[p]][Before(p, t.parent[p])] = p
          BY <1>1, <3>2, ParentFacts
        <4> QED
          BY <1>6, <3>2, <4>1 DEF Hangs
      <3> QED
        BY <3>1, <3>2
    <2>10. PICK d \in Side : Hangs(u, L, p, d) /\ (p # t.root => d = Before(p, t.parent[p]))
      BY <2>9
    <2>11. a \in L => a = t.parent[p] /\ p # t.root /\ t.child[a][d] = p /\ a # p
      <3>1. p # t.root => t.parent[p] # p
        BY <1>1, ParentFacts, KeysAreNodes
      <3> QED
        BY <1>1, <1>6, <2>10, <3>1 DEF Over, Hangs
    <2>12. Short(u, L, hh, x, a, d)
      <3> SUFFICES ASSUME NEW m \in L, NEW e \in Side, NEW c, t.child[m][e] = c
                   PROVE  hh[m] = hh[c] + IF m = a /\ e = d THEN Weight(u, x, c) + 1
                                          ELSE Weight(u, x, c)
        BY <1>6, <2>8 DEF Short
      <3>0. c \in Nodes /\ m \in Nodes /\ (c # Nil => t.parent[c] = m /\ c # m /\ Before(c, m) = e)
        BY <1>1, TreeParts, ChildFacts
      <3>1. CASE m = p /\ e = s
        <4>1. m # a
          BY <2>11, <3>1
        <4> QED
          BY <1>1, <2>3, <2>5, <2>7, <2>8, <3>1, <4>1
      <3>2. CASE m = p /\ e # s
        <4>1. m # a /\ c = bro /\ e = Other(s)
          BY <1>1, <1>b, <2>11, <3>2
        <4>2. h[p] = h[bro] + 1 /\ bro # p /\ h[bro] \in Nat
          BY <1>1, <1>2, <1>4, <2>3, <2>5, <2>6, <3>2, <4>1
        <4> QED
          BY <1>2, <2>5, <2>7, <2>8, <3>2, <4>1, <4>2
      <3>3. CASE m # p /\ c = p
        <4>1. p # t.root /\ a = m /\ e = d
          <5>1. t.parent[p] = m /\ Before(p, m) = e /\ p # t.root
            BY <1>1, <3>0, <3>3, ChildFacts
          <5> QED
            BY <1>6, <2>10, <5>1 DEF Over
        <4>2. h[m] = h[p] + Weight(t, x, p) /\ hh[m] = h[m] /\ hh[p] = w
          BY <2>6, <2>8, <3>0, <3>3
        <4>3. Weight(u, x, p) = Weight(t, x, p) /\ Weight(t, x, p) \in {0, 1}
          <5>1. p # bro /\ p \in Nodes
            BY <1>1, <1>4, <2>3
          <5> QED
            BY <2>5, <5>1, Weights
        <4> QED
          BY <2>7, <3>3, <4>1, <4>2, <4>3
      <3>4. CASE m # p /\ c # p
        <4>1. ~ (m = a /\ e = d) /\ c # bro
          BY <1>4, <2>3, <2>11, <3>0, <3>4
        <4>2. h[m] = h[c] + Weight(t, x, c)
          BY <2>6, <3>4
        <4> QED
          BY <2>5, <2>8, <3>0, <3>4, <4>1, <4>2
      <3> QED
        BY <3>1, <3>2, <3>3, <3>4
    <2> QED
      BY <2>4, <2>10, <2>12 DEF Lacking
  <1>8. ASSUME Tame(t, L, Nil), Ready(t, L, Nil, p, s) PROVE Tame(u, L, p)
    <2>0. PICK h : Short(t, L, h, Nil, p, s)
      BY <1>8 DEF Ready
    <2>1. bro # Nil /\ bro # t.root /\ bro \in L /\ t.parent[bro] = p
      <3>1. bro # Nil
        BY <1>1, <1>b, <2>0, SiblingFacts
      <3> QED
        BY <1>1, <1>b, <1>4, <3>1, ChildFacts
    <2> SUFFICES ASSUME NEW m \in L, u.color[m] = "red", m # bro
                 PROVE  m # t.root /\ u.color[t.parent[m]] = "black"
      BY <1>6, <2>1 DEF Tame
    <2>2. t.color[m] = "red" /\ m \in Nodes /\ m # Nil
      BY <1>1, <1>5
    <2>3. m # t.root /\ (t.color[t.parent[m]] = "black" \/ t.parent[m] = Nil)
      BY <1>8, <2>2 DEF Tame
    <2>4. t.parent[m] # bro
      <3>1. t.parent[m] = bro => t.child[bro][Before(m, bro)] = m /\ Before(m, bro) \in Side
        BY <2>1, <2>3, ParentFacts
      <3> QED
        BY <1>3, <2>2, <3>1, ColorNames
    <2> QED
      BY <1>1, <1>5, <2>2, <2>3, <2>4, TreeParts
  <1> QED
    BY <1>5, <1>7, <1>8

(* A red nephew on the near side is rotated to the far side.               *)
LEMMA FarStep ==
  ASSUME NEW t, NEW L, NEW r, Wired(t, L, r), NEW n, NEW p, NEW s, Hung(t, L, n, p, s),
         ~ NephewsBlack(t, n, s), NEW u, FarNephewRed(t, n, s) = u
  PROVE  /\ \E rr : Wired(u, L, rr)
         /\ Hung(u, L, n, p, s)
         /\ u.color[u.child[u.child[p][Other(s)]][Other(s)]] = "red"
         /\ Ready(t, L, Nil, p, s) /\ Tame(t, L, Nil) => Ready(u, L, Nil, p, s) /\ Tame(u, L, Nil)
  <1> DEFINE o == Other(s)
             bro == t.child[p][o]
             near == t.child[bro][s]
             far == t.child[bro][o]
  <1>1. /\ L \subseteq Nodes /\ Nil \in Nodes /\ Nil \notin L /\ t \in Trees
        /\ s \in Side /\ o \in Side /\ o # s /\ Other(o) = s /\ \A d \in Side : d = s \/ d = o
        /\ p \in L /\ t.parent[n] = p /\ t.child[p][s] = n /\ t.color[Nil] = "black"
        /\ t.color[n] = "black"
    BY KeysAreNodes, Sides DEF Wired, Passing, Hung
  <1>2. bro \in Nodes /\ near \in Nodes /\ far \in Nodes
    BY <1>1, TreeParts
  <1>3. ~ (t.color[near] = "black" /\ t.color[far] = "black")
    BY <1>1 DEF NephewsBlack, Sibling
  <1>4. bro # Nil
    BY <1>1, <1>3 DEF Wired, Sentinel
  <1>5. bro \in L /\ bro # p /\ t.parent[bro] = p /\ p \notin r[bro]
    BY <1>1, <1>4, ChildFacts
  <1>6. CASE t.color[far] # "black"
    <2>1. u = t
      BY <1>1, <1>6 DEF FarNephewRed, Sibling
    <2>2. t.color[far] = "red"
      BY <1>2, <1>1, <1>6, TreeParts DEF Colors
    <2> QED
      BY <2>1, <2>2
  <1>7. CASE t.color[far] = "black"
    <2>1. t.color[near] = "red"
      BY <1>1, <1>2, <1>3, <1>7, TreeParts DEF Colors
    <2>2. near # Nil
      BY <1>1, <2>1, ColorNames
    <2>3. u = Rotate(Paint(Paint(t, near, "black"), bro, "red"), o, bro)
      BY <1>1, <1>7 DEF FarNephewRed, Sibling
    <2>4. near \in L /\ near # p
      BY <1>1, <1>5, <2>2, ChildFacts
    <2>5. /\ t.child[bro][Other(o)] = near /\ t.child[p][Other(s)] = bro /\ t.child[bro][o] = far
          /\ o = Other(s)
      BY <1>1
    <2> HIDE DEF o, bro, near, far
    <2>6. Wired(u, L, Rotated(r, o, bro, near))
      BY <1>1, <1>5, <2>2, <2>3, <2>5, SwapTurns
    <2>7. /\ Hung(u, L, n, p, s) /\ u.child[p][Other(s)] = near /\ u.child[near][Other(s)] = bro
          /\ u.color[near] = "black" /\ u.color[bro] = "red"
      BY <1>1, <1>5, <2>2, <2>3, <2>5, SwapHung
    <2>8. ASSUME Ready(t, L, Nil, p, s), Tame(t, L, Nil)
          PROVE  Ready(u, L, Nil, p, s) /\ Tame(u, L, Nil)
      <3>1. PICK h : Short(t, L, h, Nil, p, s)
        BY <2>8 DEF Ready
      <3>2. n # bro
        BY <1>1, <1>5, <2>5, <3>1, SiblingFacts
      <3>3. Short(u, L, h, Nil, p, s) /\ Tame(u, L, Nil)
        <4>1. p # near /\ (p = bro => s = o) /\ t.child[p][s] # bro /\ t.color[t.child[bro][o]] = "black"
          BY <1>1, <1>5, <1>7, <2>4, <2>5, <3>2
        <4> QED
          BY <1>1, <1>5, <2>1, <2>2, <2>3, <2>5, <2>8, <3>1, <4>1, SwapShort
      <3>4. Exempt(u, L, Nil)
        BY <2>7 DEF Hung, Exempt
      <3> QED
        BY <2>7, <3>3, <3>4 DEF Ready
    <2> QED
      BY <2>6, <2>7, <2>8
  <1> QED
    BY <1>6, <1>7

(* The sibling takes the parent's place: nothing is missing any more.      *)
LEMMA LastTurn ==
  ASSUME NEW t, NEW L, NEW r, Wired(t, L, r), NEW n, NEW p, NEW s, Hung(t, L, n, p, s),
         t.color[t.child[t.child[p][Other(s)]][Other(s)]] = "red",
         NEW u, DeleteFixupRotate(t, n, s) = u
  PROVE  /\ \E rr : Wired(u, L, rr)
         /\ Ready(t, L, Nil, p, s) /\ Tame(t, L, Nil) =>
              Lacking(u, L, Nil, u.root) /\ Tame(u, L, u.root)
  <1> DEFINE o == Other(s)
             bro == t.child[p][o]
             mid == t.child[bro][s]
             far == t.child[bro][o]
             g == t.parent[p]
             v1 == Paint(Paint(t, bro, t.color[p]), p, "black")
             v == Paint(v1, far, "black")
  <1>1. /\ L \subseteq Nodes /\ Nil \in Nodes /\ Nil \notin L /\ t \in Trees
        /\ s \in Side /\ o \in Side /\ o # s /\ Other(o) = s /\ \A d \in Side : d = s \/ d = o
        /\ p \in L /\ p \in Nodes /\ t.parent[n] = p /\ t.child[p][s] = n
        /\ t.color[Nil] = "black" /\ t.color[n] = "black" /\ t.color[far] = "red"
        /\ n \in L \cup {Nil}
    BY KeysAreNodes, Sides DEF Wired, Passing, Hung
  <1>2. bro \in Nodes /\ mid \in Nodes /\ far \in Nodes /\ t.color[p] \in Colors /\ g \in Nodes
    BY <1>1, TreeParts
  <1>3. bro # Nil /\ far # Nil
    BY <1>1, ColorNames DEF Wired, Sentinel
  <1>4. /\ bro \in L /\ bro # p /\ t.parent[bro] = p /\ p \notin r[bro] /\ Before(bro, p) = o
    BY <1>1, <1>3, ChildFacts
  <1>5. /\ far \in L /\ far # bro /\ far # p /\ t.parent[far] = bro /\ Before(far, bro) = o
        /\ mid # Nil => mid \in L /\ mid # bro /\ mid # p /\ t.parent[mid] = bro
                        /\ Before(mid, bro) = s
    BY <1>1, <1>3, <1>4, ChildFacts
  <1>6. mid # far /\ mid # bro /\ mid # p
    BY <1>1, <1>3, <1>4, <1>5
  <1>b. /\ t.child[p][o] = bro /\ t.child[bro][s] = mid /\ t.child[bro][o] = far
        /\ t.parent[p] = g /\ Other(s) = o /\ t.child[p][Other(s)] = bro
    OBVIOUS
  <1>u. u = Rotate(v, s, p)
    <2>1. /\ Paint(Paint(t, bro, t.color[p]), p, "black").child = t.child
          /\ Sibling(t, n, s) = bro
      BY <1>1 DEF Paint, Sibling
    <2> QED
      BY <1>1, <2>1 DEF DeleteFixupRotate
  <1>v. Paint(Paint(t, bro, t.color[p]), p, "black") = v1
    OBVIOUS
  <1> HIDE DEF o, bro, mid, far, g, v1
  <1>7. /\ Wired(v1, L, r) /\ Repainted(t, v1)
        /\ \A k \in Nodes : v1.color[k] = IF k = p THEN "black" ELSE IF k = bro THEN t.color[p]
                                          ELSE t.color[k]
    <2> DEFINE c == t.color[p]
    <2>1. /\ c \in Colors /\ "black" \in Colors /\ Paint(Paint(t, bro, c), p, "black") = v1
          /\ bro \in Nodes /\ p \in Nodes
      BY <1>1, <1>2, <1>v, ColorNames
    <2> HIDE DEF c
    <2>2. /\ Wired(v1, L, r) /\ Repainted(t, v1)
          /\ \A k \in Nodes : v1.color[k] = IF k = p THEN "black" ELSE IF k = bro THEN c
                                            ELSE t.color[k]
      BY <2>1, PaintTwice
    <2> QED
      BY <2>2 DEF c
  <1>8. /\ Wired(v, L, r) /\ Repainted(t, v)
        /\ \A k \in Nodes : v.color[k] =
             IF k = far \/ k = p THEN "black" ELSE IF k = bro THEN t.color[p] ELSE t.color[k]
    <2>1. /\ Wired(v, L, r) /\ v.root = v1.root /\ v.parent = v1.parent /\ v.child = v1.child
          /\ \A k \in Nodes : v.color[k] = IF k = far THEN "black" ELSE v1.color[k]
      BY <1>2, <1>7, PaintWired, ColorNames
    <2> QED
      BY <1>2, <1>4, <1>5, <1>7, <2>1 DEF Repainted
  <1> HIDE DEF v
  <1>9. v.child = t.child /\ v.parent = t.parent /\ v.root = t.root
    BY <1>8 DEF Repainted
  <1>10. Turns(v, L, r, s, p, bro, mid, g) /\ Turned(v, u, s, p, bro, mid, g)
    <2>1. v.child[p][Other(s)] # Nil
      BY <1>3, <1>9, <1>b
    <2>2. Turns(v, L, r, s, p, v.child[p][Other(s)], v.child[v.child[p][Other(s)]][s], v.parent[p])
      BY <1>1, <1>8, <2>1, TurnParts
    <2>3. Turns(v, L, r, s, p, bro, mid, g)
      BY <1>9, <1>b, <2>2
    <2>4. Turned(v, Rotate(v, s, p), s, p, bro, mid, g)
      BY <1>8, <2>3, RotateTurns
    <2> QED
      BY <1>u, <2>3, <2>4
  <1>11. Wired(u, L, Rotated(r, s, p, bro))
    BY <1>8, <1>10, RotateWired
  <1>12. \A k \in Nodes : u.color[k] =
           IF k = far \/ k = p THEN "black" ELSE IF k = bro THEN t.color[p] ELSE t.color[k]
    BY <1>8, <1>10 DEF Turned
  <1>13. ASSUME Ready(t, L, Nil, p, s), Tame(t, L, Nil)
         PROVE  Lacking(u, L, Nil, u.root) /\ Tame(u, L, u.root)
    <2>1. PICK h : Short(t, L, h, Nil, p, s)
      BY <1>13 DEF Ready
    <2>2. t.color[bro] = "black"
      BY <1>13, <1>b DEF Ready
    <2>3. bro # n /\ n # p /\ h[p] = h[n] + 2 /\ h[n] \in Nat
      <3>1. t.child[p][Other(s)] = bro
        BY <1>b
      <3>2. /\ s \in Side /\ p \in L /\ t.parent[n] = p /\ t.child[p][s] = n
            /\ n \in L \cup {Nil} /\ t.color[n] = "black"
        BY <1>1
      <3> QED
        BY <2>1, <3>1, <3>2, SiblingFacts
    <2>4. n # far /\ n # bro /\ n # p
      BY <1>1, <2>3, ColorNames
    <2>5. /\ Weight(t, Nil, far) = 0 /\ Weight(u, Nil, far) = 1 /\ Weight(u, Nil, p) = 1
          /\ Weight(t, Nil, bro) = 1 /\ Weight(t, Nil, n) = 1 /\ Weight(u, Nil, n) = 1
          /\ Weight(u, Nil, bro) = Weight(t, Nil, p)
          /\ \A k \in Nodes : k # bro /\ k # far /\ k # p => Weight(u, Nil, k) = Weight(t, Nil, k)
      BY <1>1, <1>2, <1>3, <1>4, <1>5, <1>12, <2>2, <2>4, ColorNames, KeysAreNodes DEF Weight, Wired, Passing
    <2>6. /\ h \in [Nodes -> Nat] /\ h[Nil] = 0 /\ \A k \in Nodes : h[k] \in Nat
          /\ \A m \in L, d \in Side :
               h[m] = h[t.child[m][d]] + IF m = p /\ d = s THEN Weight(t, Nil, t.child[m][d]) + 1
                                         ELSE Weight(t, Nil, t.child[m][d])
      BY <2>1 DEF Short
    <2>7. h[p] = h[bro] + 1 /\ h[bro] = h[far] /\ h[bro] = h[n] + 1
          /\ h[bro] = h[mid] + Weight(t, Nil, mid)
      <3>1. h[p] = h[bro] + 1
        BY <1>1, <1>b, <2>5, <2>6
      <3>2. h[bro] = h[far] + 0
        BY <1>1, <1>4, <1>b, <2>5, <2>6
      <3>3. h[bro] = h[mid] + Weight(t, Nil, mid)
        BY <1>1, <1>4, <1>b, <2>6
      <3>4. h[bro] \in Nat /\ h[far] \in Nat
        BY <1>2, <2>6
      <3> QED
        BY <2>3, <3>1, <3>2, <3>3, <3>4
    <2> DEFINE hh == [k \in Nodes |-> IF k = p THEN h[bro] ELSE IF k = bro THEN h[p] ELSE h[k]]
    <2>8. /\ hh \in [Nodes -> Nat] /\ hh[Nil] = 0 /\ hh[p] = h[bro] /\ hh[bro] = h[p]
          /\ \A k \in Nodes : k # p /\ k # bro => hh[k] = h[k]
      BY <1>1, <1>2, <1>3, <1>4, <2>6
    <2> HIDE DEF hh
    <2>9. Short(u, L, hh, Nil, Nil, "left")
      <3> DEFINE W(c) == Weight(u, Nil, c)
      <3> SUFFICES ASSUME NEW m \in L, NEW d \in Side, NEW c, u.child[m][d] = c
                   PROVE  hh[m] = hh[c] + W(c)
        BY <1>1, <2>8 DEF Short
      <3>1. \/ m = p /\ d = s /\ c = n /\ c # p /\ c # bro
            \/ m = p /\ d = o /\ c = mid
            \/ m = bro /\ d = s /\ c = p
            \/ m = bro /\ d = o /\ c = far /\ c # p /\ c # bro
            \/ m = g /\ m # p /\ m # bro /\ c = bro /\ t.child[m][d] = p
            \/ m # p /\ m # bro /\ c = t.child[m][d] /\ c # p /\ c # bro
        BY <1>1, <1>8, <1>9, <1>10, <1>b, TurnLinks
      <3>2. \A k \in Nodes : k # p /\ k # bro /\ k # far => W(k) = Weight(t, Nil, k)
        BY <2>5
      <3>3. W(far) = 1 /\ W(p) = 1 /\ W(n) = 1 /\ W(bro) = Weight(t, Nil, p)
        BY <2>5
      <3> HIDE DEF W
      <3>4. CASE m = p /\ d = s /\ c = n /\ c # p /\ c # bro
        BY <1>1, <2>7, <2>8, <3>3, <3>4
      <3>5. CASE m = p /\ d = o /\ c = mid
        BY <1>2, <1>6, <2>7, <2>8, <3>2, <3>5
      <3>6. CASE m = bro /\ d = s /\ c = p
        BY <2>7, <2>8, <3>3, <3>6
      <3>7. CASE m = bro /\ d = o /\ c = far /\ c # p /\ c # bro
        BY <1>2, <2>7, <2>8, <3>3, <3>7
      <3>8. CASE m = g /\ m # p /\ m # bro /\ c = bro /\ t.child[m][d] = p
        <4>1. h[m] = h[p] + Weight(t, Nil, p)
          BY <2>6, <3>8
        <4> QED
          BY <1>1, <2>8, <3>3, <3>8, <4>1
      <3>9. CASE m # p /\ m # bro /\ c = t.child[m][d] /\ c # p /\ c # bro
        <4>1. c \in Nodes /\ c # far
          <5>1. c # Nil => t.parent[c] = m
            BY <3>9, ChildFacts
          <5> QED
            BY <1>1, <1>3, <1>5, <3>9, <5>1, TreeParts
        <4>2. h[m] = h[c] + Weight(t, Nil, c)
          BY <2>6, <3>9
        <4> QED
          BY <1>1, <2>8, <3>2, <3>9, <4>1, <4>2
      <3> QED
        BY <3>1, <3>4, <3>5, <3>6, <3>7, <3>8, <3>9
    <2>10. Lacking(u, L, Nil, u.root)
      <3>1. "left" \in Side
        BY DEF Side
      <3>2. Exempt(u, L, Nil)
        BY <1>1, <1>3, <1>4, <1>12 DEF Exempt
      <3> QED
        BY <2>9, <3>1, <3>2 DEF Lacking, Hangs, Over
    <2>11. Tame(u, L, u.root)
      <3> SUFFICES ASSUME NEW m \in L, u.color[m] = "red", m # u.root
                   PROVE  u.color[u.parent[m]] = "black"
        BY DEF Tame
      <3>0. m \in Nodes /\ m # Nil /\ bro \in Nodes
        BY <1>1, <1>2
      <3>1. /\ u.root = IF g = Nil THEN bro ELSE t.root
            /\ u.parent[m] = IF m = p THEN bro ELSE IF m = bro THEN g
                             ELSE IF m = mid /\ mid # Nil THEN p ELSE t.parent[m]
        BY <1>9, <1>10, <3>0 DEF Turned
      <3>2. m # p /\ m # far
        BY <1>12, <3>0, ColorNames
      <3>3. CASE m = bro
        <4>1. t.color[p] = "red"
          BY <1>4, <1>5, <1>12, <3>0, <3>2, <3>3
        <4>2. t.color[g] = "black" \/ g = Nil
          BY <1>1, <1>13, <1>b, <4>1, KeysAreNodes DEF Tame
        <4>3. t.color[g] = "black" /\ g # far /\ g # bro
          <5>1. g # bro
            BY <1>10 DEF Turns
          <5> QED
            BY <1>1, <4>2, <5>1, ColorNames
        <4> QED
          BY <1>2, <1>4, <1>12, <3>1, <3>3, <4>3
      <3>4. CASE m # bro /\ m = mid
        BY <1>1, <1>12, <3>0, <3>1, <3>2, <3>4
      <3>5. CASE m # bro /\ m # mid
        <4>1. t.color[m] = "red" /\ u.parent[m] = t.parent[m]
          BY <1>12, <3>0, <3>1, <3>2, <3>5
        <4>2. t.color[t.parent[m]] = "black" /\ t.parent[m] \in Nodes
          BY <1>1, <1>13, <3>0, <4>1, TreeParts DEF Tame
        <4>3. t.parent[m] # bro
          <5>1. t.parent[m] = bro => t.child[bro][Before(m, bro)] = m /\ Before(m, bro) \in Side
            BY <1>4, <1>3, <3>0, ParentFacts
          <5> QED
            BY <1>1, <1>b, <3>2, <3>5, <5>1
        <4> QED
          BY <1>12, <4>1, <4>2, <4>3
      <3> QED
        BY <3>3, <3>4, <3>5
    <2> QED
      BY <2>10, <2>11
  <1> QED
    BY <1>11, <1>13

(* The second half of an iteration, when a nephew is red.                  *)
LEMMA TurnStep ==
  ASSUME NEW t, NEW L, NEW r, Wired(t, L, r), NEW n, NEW p, NEW s, Hung(t, L, n, p, s),
         ~ NephewsBlack(t, n, s),
         NEW u, DeleteFixupRotate(FarNephewRed(t, n, s), n, s) = u
  PROVE  /\ \E rr : Wired(u, L, rr)
         /\ Ready(t, L, Nil, p, s) /\ Tame(t, L, Nil) =>
              Lacking(u, L, Nil, u.root) /\ Tame(u, L, u.root)
  <1> DEFINE f == FarNephewRed(t, n, s)
  <1>1. /\ \E rr : Wired(f, L, rr)
        /\ Hung(f, L, n, p, s)
        /\ f.color[f.child[f.child[p][Other(s)]][Other(s)]] = "red"
        /\ Ready(t, L, Nil, p, s) /\ Tame(t, L, Nil) => Ready(f, L, Nil, p, s) /\ Tame(f, L, Nil)
    BY FarStep
  <1> HIDE DEF f
  <1>2. PICK rr : Wired(f, L, rr)
    BY <1>1
  <1>3. DeleteFixupRotate(f, n, s) = u
    BY DEF f
  <1>4. /\ \E q : Wired(u, L, q)
        /\ Ready(f, L, Nil, p, s) /\ Tame(f, L, Nil) =>
             Lacking(u, L, Nil, u.root) /\ Tame(u, L, u.root)
    BY <1>1, <1>2, <1>3, LastTurn
  <1> QED
    BY <1>1, <1>4

(* The loop ends at the root, or at a red node that is not painted: it     *)
(* counts as black from then on.                                           *)
LEMMA LoopEnds ==
  ASSUME NEW t, NEW L, NEW r, Wired(t, L, r), NEW n \in L \cup {Nil}, Lacking(t, L, Nil, n),
         n = t.root \/ t.color[n] # "black"
  PROVE  \E x : Balanced(t, L, x)
  <1>1. PICK d \in Side : Hangs(t, L, n, d) /\ \E h : Short(t, L, h, Nil, Over(t, n), d)
    BY DEF Lacking
  <1>2. PICK h : Short(t, L, h, Nil, Over(t, n), d)
    BY <1>1
  <1>3. Exempt(t, L, Nil) /\ t.color[Nil] = "black" /\ t \in Trees /\ L \subseteq Nodes
        /\ Nil \notin L /\ Nil \in Nodes
    BY KeysAreNodes DEF Lacking, Exempt, Wired, Passing
  <1>4. CASE n = t.root
    <2>1. Short(t, L, h, Nil, Nil, "left")
      <3>1. Short(t, L, h, Nil, Nil, d)
        BY <1>2, <1>4 DEF Over
      <3> QED
        BY <1>3, <3>1 DEF Short
    <2> QED
      BY <1>3, <2>1 DEF Balanced
  <1>5. CASE n # t.root
    <2>1. t.color[n] = "red" /\ n # Nil /\ n \in L
      BY <1>3, <1>5, TreeParts DEF Colors
    <2>2. Exempt(t, L, n)
      BY <1>3, <2>1 DEF Exempt
    <2>3. t.parent[n] \in L /\ t.child[t.parent[n]][d] = n /\ Over(t, n) = t.parent[n]
      BY <1>1, <1>5 DEF Hangs, Over
    <2>4. Before(n, t.parent[n]) = d
      BY <2>1, <2>3, ChildFacts
    <2>5. Short(t, L, h, n, Nil, "left")
      <3>1. /\ h \in [Nodes -> Nat] /\ h[Nil] = 0
            /\ \A m \in L, e \in Side :
                 h[m] = h[t.child[m][e]] +
                          IF m = t.parent[n] /\ e = d THEN Weight(t, Nil, t.child[m][e]) + 1
                          ELSE Weight(t, Nil, t.child[m][e])
        BY <1>2, <2>3 DEF Short
      <3>2. Weight(t, Nil, n) = 0 /\ Weight(t, n, n) = 1
        BY <2>1, ColorNames DEF Weight
      <3>3. \A c : c # n => Weight(t, n, c) = Weight(t, Nil, c)
        BY <1>3 DEF Weight
      <3> SUFFICES ASSUME NEW m \in L, NEW e \in Side, NEW c, t.child[m][e] = c
                   PROVE  h[m] = h[c] + Weight(t, n, c)
        BY <1>3, <3>1 DEF Short
      <3>4. CASE c = n
        <4>1. m = t.parent[n] /\ e = d
          BY <2>1, <2>4, <3>4, ChildFacts
        <4>2. h[m] = h[n] + (0 + 1)
          BY <3>1, <3>2, <3>4, <4>1
        <4> QED
          BY <3>2, <3>4, <4>2
      <3>5. CASE c # n
        <4>1. ~ (m = t.parent[n] /\ e = d)
          BY <2>3, <3>5
        <4> QED
          BY <3>1, <3>3, <3>5, <4>1
      <3> QED
        BY <3>4, <3>5
    <2> QED
      BY <2>2, <2>5 DEF Balanced
  <1> QED
    BY <1>4, <1>5


-----------------------------------------------------------------------------
(* A node with at most one child goes.                                     *)

(* What __rbtree_transplant does.                                          *)
LEMMA TransplantEffect ==
  ASSUME NEW t \in Trees, NEW n \in Nodes, NEW v \in Nodes, NEW g \in Nodes, t.parent[n] = g,
         NEW u, Transplant(t, n, v) = u
  PROVE  /\ u \in Trees /\ u.color = t.color
         /\ u.root = IF g = Nil THEN v ELSE t.root
         /\ \A m \in Nodes : u.parent[m] = IF m = v THEN g ELSE t.parent[m]
         /\ \A m \in Nodes, e \in Side : u.child[m][e] =
              IF m = g /\ g # Nil /\ e = SideOf(t, n) THEN v ELSE t.child[m][e]
  <1> DEFINE w == Replace(t, n, v)
  <1>1. SideOf(t, n) \in Side
    BY DEF SideOf, Side
  <1>2. /\ w \in Trees /\ w.color = t.color /\ w.parent = t.parent
        /\ w.root = IF g = Nil THEN v ELSE t.root
        /\ \A m \in Nodes, e \in Side : w.child[m][e] =
             IF m = g /\ g # Nil /\ e = SideOf(t, n) THEN v ELSE t.child[m][e]
    <2>1. CASE g = Nil
      <3>1. w = [t EXCEPT !.root = v]
        BY <2>1 DEF Replace
      <3> HIDE DEF w
      <3> QED
        BY <2>1, <3>1, SetRootEffect
    <2>2. CASE g # Nil
      <3> DEFINE z == SetChild(t, g, SideOf(t, n), v)
                 below == SideOf(t, n)
      <3>1. w = z
        BY <2>2 DEF Replace
      <3>2. below \in Side /\ z = SetChild(t, g, below, v)
        BY <1>1
      <3> HIDE DEF w, z, below
      <3>3. /\ z \in Trees /\ z.root = t.root /\ z.color = t.color /\ z.parent = t.parent
            /\ \A m \in Nodes, e \in Side :
                 z.child[m][e] = IF m = g /\ e = below THEN v ELSE t.child[m][e]
        <4>1. /\ SetChild(t, g, below, v) \in Trees
              /\ SetChild(t, g, below, v).root = t.root
              /\ SetChild(t, g, below, v).color = t.color
              /\ SetChild(t, g, below, v).parent = t.parent
              /\ \A m \in Nodes, e \in Side : SetChild(t, g, below, v).child[m][e] =
                   IF m = g /\ e = below THEN v ELSE t.child[m][e]
          <5>1. t \in Trees /\ g \in Nodes /\ below \in Side /\ v \in Nodes
            BY <3>2
          <5>2. SetChild(t, g, below, v) \in Trees
            BY <5>1, SetChildEffect
          <5>3. SetChild(t, g, below, v).root = t.root
            BY <5>1, SetChildEffect
          <5>4. SetChild(t, g, below, v).color = t.color
            BY <5>1, SetChildEffect
          <5>5. SetChild(t, g, below, v).parent = t.parent
            BY <5>1, SetChildEffect
          <5>6. \A m \in Nodes, e \in Side : SetChild(t, g, below, v).child[m][e] =
                  IF m = g /\ e = below THEN v ELSE t.child[m][e]
            BY <5>1, SetChildEffect
          <5> QED
            BY <5>2, <5>3, <5>4, <5>5, <5>6
        <4> QED
          BY <3>2, <4>1
      <3> QED
        BY <2>2, <3>1, <3>3 DEF below
    <2> QED
      BY <2>1, <2>2
  <1>3. u = SetParent(w, v, g)
    BY <1>2 DEF Transplant
  <1> HIDE DEF w
  <1>4. /\ u \in Trees /\ u.root = w.root /\ u.color = w.color /\ u.child = w.child
        /\ \A m \in Nodes : u.parent[m] = IF m = v THEN g ELSE w.parent[m]
    <2>1. w \in Trees
      BY <1>2
    <2>2. /\ SetParent(w, v, g) \in Trees /\ SetParent(w, v, g).root = w.root
          /\ SetParent(w, v, g).color = w.color /\ SetParent(w, v, g).child = w.child
          /\ \A m \in Nodes : SetParent(w, v, g).parent[m] = IF m = v THEN g ELSE w.parent[m]
      BY <2>1, SetParentEffect
    <2> QED
      BY <1>3, <2>2
  <1> QED
    BY <1>2, <1>4

(* The node k goes, and its only child c, or the sentinel, takes its       *)
(* place below g.                                                          *)
Lifted(t, u, k, c, g) ==
  /\ u \in Trees /\ u.color = t.color
  /\ u.root = IF g = Nil THEN c ELSE t.root
  /\ \A m \in Nodes : u.parent[m] = IF m = c THEN g ELSE t.parent[m]
  /\ \A m \in Nodes, e \in Side : u.child[m][e] =
       IF m = g /\ g # Nil /\ e = SideOf(t, k) THEN c ELSE t.child[m][e]

(* The keys of M whose search passes each node.                            *)
Without(r, M) == [n \in Keys |-> r[n] \cap M]

(* Who is who when k goes.                                                 *)
Lifts(t, L, r, k, s, c, g) ==
  /\ k \in L /\ s \in Side /\ t.parent[k] = g /\ t.child[k][s] = c
  /\ t.child[k][Other(s)] = Nil
  /\ c \in L \cup {Nil} /\ g \in L \cup {Nil} /\ g # k /\ c # k
  /\ c # Nil => t.parent[c] = k /\ r[c] = Half(r[k], k, s) /\ c # t.root /\ c \in r[k]
  /\ g = Nil <=> k = t.root
  /\ g # Nil => /\ SideOf(t, k) = Before(k, g) /\ Before(k, g) \in Side
                /\ r[k] = Half(r[g], g, Before(k, g)) /\ t.child[g][Before(k, g)] = k
                /\ (c # Nil => Before(c, g) = Before(k, g) /\ c # g)
  /\ \A j \in L : j \in r[k] /\ j # k => Before(j, k) = s /\ c # Nil

(* A node with at most one child has these neighbours.                     *)
LEMMA LiftParts ==
  ASSUME NEW t, NEW L, NEW r, Wired(t, L, r), NEW k \in L, NEW s \in Side,
         t.child[k][Other(s)] = Nil, NEW c, t.child[k][s] = c, NEW g, t.parent[k] = g
  PROVE  Lifts(t, L, r, k, s, c, g)
  <1>1. /\ L \subseteq Nodes /\ L \subseteq Keys /\ Nil \in Nodes /\ Nil \notin L /\ t \in Trees
        /\ \A d \in Side : d # s => d = Other(s)
    BY KeysAreNodes, Sides DEF Wired, Passing
  <1>2. c # Nil => /\ c \in L /\ t.parent[c] = k /\ r[c] = Half(r[k], k, s) /\ c # t.root
                   /\ c # k /\ c \in r[k] /\ Before(c, k) = s
    BY ChildFacts
  <1>3. /\ g = Nil <=> k = t.root
        /\ g # Nil => /\ g \in L /\ g # k /\ SideOf(t, k) = Before(k, g) /\ Before(k, g) \in Side
                      /\ r[k] = Half(r[g], g, Before(k, g)) /\ t.child[g][Before(k, g)] = k
                      /\ g \notin r[k]
    BY ParentFacts
  <1>4. c # Nil /\ g # Nil => Before(c, g) = Before(k, g) /\ c # g
    BY <1>2, <1>3, HalfMember
  <1>5. ASSUME NEW j \in L, j \in r[k], j # k PROVE Before(j, k) = s /\ c # Nil
    <2>1. t.child[k][Before(j, k)] # Nil /\ Before(j, k) \in Side
      BY <1>1, <1>5, ReachedChild, Sides
    <2> QED
      BY <1>1, <2>1
  <1>6. (c \in L \cup {Nil}) /\ (g \in L \cup {Nil}) /\ g # k /\ c # k
    BY <1>1, <1>2, <1>3
  <1> QED
    BY <1>2, <1>3, <1>4, <1>5, <1>6 DEF Lifts

(* Searches for some of the keys still nest.                               *)
LEMMA WithoutPassing ==
  ASSUME NEW L, NEW r, Passing(L, r), NEW M \in SUBSET L
  PROVE  Passing(M, Without(r, M)) /\ \A n \in M : Without(r, M)[n] = r[n] \cap M
  <1> DEFINE q == Without(r, M)
  <1>1. M \subseteq Keys /\ r \in [Keys -> SUBSET Keys] /\ \A n \in L : n \in r[n]
    BY DEF Passing
  <1>2. \A n \in M : q[n] = r[n] \cap M
    BY <1>1 DEF Without
  <1>3. q \in [Keys -> SUBSET Keys]
    BY <1>1 DEF Without
  <1> HIDE DEF q
  <1>4. Nested(M, q)
    <2> SUFFICES ASSUME NEW m \in M, NEW n \in M, m # n, m \in q[n],
                        NEW j \in q[m]
                 PROVE  j \in Half(q[n], n, Before(m, n))
      BY DEF Nested
    <2>1. r[m] \subseteq Half(r[n], n, Before(m, n))
      BY <1>2 DEF Passing, Nested
    <2> QED
      BY <1>2, <2>1, HalfMember
  <1>5. Apart(M, q)
    <2> SUFFICES ASSUME NEW m \in M, NEW n \in M, m \notin q[n], n \notin q[m]
                 PROVE  q[m] \cap q[n] = {}
      BY DEF Apart
    <2>1. r[m] \cap r[n] = {}
      BY <1>2 DEF Passing, Apart
    <2> QED
      BY <1>2, <2>1
  <1>6. Passing(M, q)
    BY <1>1, <1>2, <1>3, <1>4, <1>5 DEF Passing
  <1> QED
    BY <1>2, <1>6 DEF q

(* What is left when k goes is linked both ways.                           *)
LEMMA LiftWired ==
  ASSUME NEW t, NEW L, NEW r, Wired(t, L, r), NEW k, NEW s, NEW c, NEW g,
         Lifts(t, L, r, k, s, c, g), NEW u, Lifted(t, u, k, c, g)
  PROVE  Wired(u, L \ {k}, Without(r, L \ {k}))
  <1> DEFINE M == L \ {k}
             q == Without(r, M)
  <1>1. /\ L \subseteq Nodes /\ L \subseteq Keys /\ Nil \in Nodes /\ Nil \notin L /\ t \in Trees
        /\ M \in SUBSET L /\ Passing(L, r)
        /\ k \in L /\ s \in Side /\ c \in L \cup {Nil} /\ g \in L \cup {Nil} /\ g # k /\ c # k
    BY KeysAreNodes DEF Wired, Passing, Lifts
  <1>2. Passing(M, q) /\ \A n \in M : q[n] = r[n] \cap M
    BY <1>1, WithoutPassing
  <1>m. \A n : n \in M <=> n \in L /\ n # k
    OBVIOUS
  <1>u. /\ u.root = IF g = Nil THEN c ELSE t.root
        /\ \A m \in L : u.parent[m] = IF m = c THEN g ELSE t.parent[m]
        /\ \A m \in L, e \in Side : u.child[m][e] =
             IF m = g /\ g # Nil /\ e = Before(k, g) THEN c ELSE t.child[m][e]
    <2>1. g # Nil => SideOf(t, k) = Before(k, g)
      BY DEF Lifts
    <2>2. \A m \in L, e \in Side : u.child[m][e] =
            IF m = g /\ g # Nil /\ e = SideOf(t, k) THEN c ELSE t.child[m][e]
      BY <1>1 DEF Lifted
    <2>3. \A m \in L, e \in Side : u.child[m][e] =
            IF m = g /\ g # Nil /\ e = Before(k, g) THEN c ELSE t.child[m][e]
      BY <2>1, <2>2
    <2> QED
      BY <1>1, <2>3 DEF Lifted
  <1>k. /\ c # Nil => t.parent[c] = k /\ r[c] = Half(r[k], k, s) /\ c # t.root /\ c \in r[k]
        /\ g = Nil <=> k = t.root
        /\ g # Nil => /\ Before(k, g) \in Side
                      /\ r[k] = Half(r[g], g, Before(k, g)) /\ t.child[g][Before(k, g)] = k
                      /\ (c # Nil => Before(c, g) = Before(k, g) /\ c # g)
        /\ \A j \in L : j \in r[k] /\ j # k => Before(j, k) = s /\ c # Nil
    BY DEF Lifts
  <1>b. \A n \in M : Before(n, k) \in Side
    BY <1>1, Sides
  <1> HIDE DEF M, q
  <1>3. RootPassed(u, M, q)
    <2>1. t.root # Nil /\ t.root \in L /\ L \subseteq r[t.root] /\ t.parent[t.root] = Nil
      BY <1>1 DEF Wired, RootPassed
    <2>2. CASE g = Nil
      <3>1. k = t.root /\ u.root = c /\ L \subseteq r[k]
        BY <1>k, <1>u, <2>1, <2>2
      <3>2. c = Nil => M = {}
        BY <1>k, <1>m, <3>1
      <3>3. ASSUME c # Nil PROVE c \in M /\ M \subseteq q[c] /\ u.parent[c] = Nil
        <4>1. c \in M
          BY <1>1, <1>m, <3>3
        <4>2. \A j \in M : j \in r[c]
          BY <1>k, <1>m, <3>1, <3>3, HalfMember
        <4> QED
          BY <1>1, <1>2, <1>u, <2>2, <3>3, <4>1, <4>2
      <3> QED
        BY <1>1, <1>m, <3>1, <3>2, <3>3 DEF RootPassed
    <2>3. CASE g # Nil
      <3>1. u.root = t.root /\ t.root \in M
        BY <1>k, <1>m, <1>u, <2>1, <2>3
      <3>2. u.parent[t.root] = Nil
        BY <1>1, <1>k, <1>u, <2>1
      <3> QED
        BY <1>1, <1>2, <1>m, <2>1, <3>1, <3>2 DEF RootPassed
    <2> QED
      BY <2>2, <2>3
  <1>4. ChildrenLinked(u, M, q)
    <2> SUFFICES ASSUME NEW n \in M, NEW e \in Side, NEW d, u.child[n][e] = d, d # Nil
                 PROVE  d \in M /\ u.parent[d] = n /\ q[d] = Half(q[n], n, e)
      BY DEF ChildrenLinked
    <2>1. CASE n = g /\ e = Before(k, g)
      <3>1. d = c /\ g # Nil /\ c \in M
        BY <1>1, <1>m, <1>u, <2>1
      <3>2. u.parent[c] = g
        BY <1>m, <1>u, <3>1
      <3>3. ASSUME NEW j \in M PROVE j \in r[c] <=> j \in Half(r[g], g, Before(k, g))
        <4>1. j \in r[k] => Before(j, k) = s /\ j # k
          BY <1>k, <1>m
        <4>2. r[c] = Half(r[k], k, s) /\ r[k] = Half(r[g], g, Before(k, g))
          BY <1>k, <3>1
        <4> QED
          BY <4>1, <4>2, HalfMember
      <3>4. q[c] = r[c] \cap M /\ q[g] = r[g] \cap M
        BY <1>2, <2>1, <3>1
      <3> QED
        BY <2>1, <3>1, <3>2, <3>3, <3>4 DEF Half
    <2>2. CASE ~ (n = g /\ e = Before(k, g))
      <3>1. n \in L /\ n # k /\ d = t.child[n][e]
        BY <1>m, <1>u, <2>2
      <3>2. d \in L /\ t.parent[d] = n /\ r[d] = Half(r[n], n, e) /\ Before(d, n) = e
        BY <3>1, ChildFacts
      <3>3. d # k
        <4>1. d = k => g = n /\ e = Before(k, g)
          BY <3>2 DEF Lifts
        <4> QED
          BY <2>2, <4>1
      <3>4. d # c
        BY <1>k, <3>1, <3>2
      <3>5. q[d] = r[d] \cap M /\ q[n] = r[n] \cap M
        BY <1>2, <1>m, <3>2, <3>3
      <3> QED
        BY <1>m, <1>u, <3>2, <3>3, <3>4, <3>5 DEF Half
    <2> QED
      BY <2>1, <2>2
  <1>5. Reached(u, M, q)
    <2> SUFFICES ASSUME NEW n \in M, NEW j \in M, j \in q[n], j # n
                 PROVE  u.child[n][Before(j, n)] # Nil
      BY DEF Reached
    <2>1. n \in L /\ j \in L /\ j \in r[n] /\ j # k /\ n # k
      BY <1>2, <1>m
    <2>2. t.child[n][Before(j, n)] # Nil /\ Before(j, n) \in Side
      BY <1>1, <2>1, ReachedChild, Sides
    <2>3. CASE n = g /\ Before(j, n) = Before(k, g)
      <3>1. g # Nil
        BY <1>1, <2>1, <2>3
      <3>2. j \in r[k]
        BY <1>k, <2>1, <2>3, <3>1, HalfMember
      <3> QED
        BY <1>k, <1>u, <2>1, <2>2, <2>3, <3>1, <3>2
    <2>4. CASE ~ (n = g /\ Before(j, n) = Before(k, g))
      BY <1>u, <2>1, <2>2, <2>4
    <2> QED
      BY <2>3, <2>4
  <1>6. ParentsLinked(u, M)
    <2> SUFFICES ASSUME NEW n \in M, n # u.root
                 PROVE  /\ u.parent[n] \in M
                        /\ u.child[u.parent[n]][Before(n, u.parent[n])] = n
      BY DEF ParentsLinked
    <2>1. CASE n = c
      <3>1. c # Nil /\ g # Nil /\ u.parent[n] = g
        BY <1>1, <1>m, <1>u, <2>1
      <3>2. g \in L /\ g \in M
        BY <1>1, <1>m, <3>1
      <3> QED
        BY <1>k, <1>u, <2>1, <3>1, <3>2
    <2>2. CASE n # c
      <3>1. n # t.root /\ n \in L /\ n # k
        <4>1. g = Nil => n # t.root
          BY <1>k, <1>m
        <4> QED
          BY <1>m, <1>u, <4>1
      <3>2. /\ t.parent[n] \in L /\ t.child[t.parent[n]][Before(n, t.parent[n])] = n
            /\ Before(n, t.parent[n]) \in Side
        BY <1>1, <3>1, ParentFacts
      <3>3. t.parent[n] # k
        <4> SUFFICES ASSUME t.parent[n] = k PROVE FALSE
          OBVIOUS
        <4>1. n \in r[k]
          BY <3>1, <3>2, ChildFacts, <1>1
        <4>2. Before(n, k) = s
          BY <1>k, <3>1, <4>1
        <4> QED
          BY <2>2, <3>2, <4>2 DEF Lifts
      <3>4. u.parent[n] = t.parent[n]
        BY <1>u, <2>2, <3>1
      <3>5. ~ (t.parent[n] = g /\ g # Nil /\ Before(n, t.parent[n]) = Before(k, g))
        BY <1>k, <3>1, <3>2
      <3> QED
        BY <1>m, <1>u, <3>2, <3>3, <3>4, <3>5
    <2> QED
      BY <2>1, <2>2
  <1>7. Sentinel(u) /\ u \in Trees
    BY <1>1 DEF Sentinel, Wired, Lifted
  <1> QED
    BY <1>2, <1>3, <1>4, <1>5, <1>6, <1>7 DEF Wired, M, q

(* A black node is missing where a black node went.                        *)
LEMMA LiftLacks ==
  ASSUME NEW t, NEW L, NEW r, Wired(t, L, r), NEW k, NEW s, NEW c, NEW g,
         Lifts(t, L, r, k, s, c, g), NEW u, Lifted(t, u, k, c, g),
         NEW x, Balanced(t, L, x), x # k
  PROVE  /\ t.color[k] = "black" => Lacking(u, L \ {k}, x, c)
         /\ t.color[k] = "red" => Balanced(u, L \ {k}, x)
         /\ Tame(t, L, Nil) => Tame(u, L \ {k}, c)
  <1> DEFINE M == L \ {k}
  <1>1. /\ L \subseteq Nodes /\ L \subseteq Keys /\ Nil \in Nodes /\ Nil \notin L /\ t \in Trees
        /\ k \in L /\ s \in Side /\ c \in L \cup {Nil} /\ g \in L \cup {Nil} /\ g # k /\ c # k
        /\ t.child[k][s] = c /\ "left" \in Side
    BY KeysAreNodes DEF Wired, Passing, Lifts, Side
  <1>u. /\ u.root = IF g = Nil THEN c ELSE t.root
        /\ u.parent[c] = g
        /\ \A m \in L : u.parent[m] = IF m = c THEN g ELSE t.parent[m]
        /\ \A m \in L, e \in Side : u.child[m][e] =
             IF m = g /\ g # Nil /\ e = Before(k, g) THEN c ELSE t.child[m][e]
        /\ u.color = t.color
    <2>1. g # Nil => SideOf(t, k) = Before(k, g)
      BY DEF Lifts
    <2>2. \A m \in L, e \in Side : u.child[m][e] =
            IF m = g /\ g # Nil /\ e = SideOf(t, k) THEN c ELSE t.child[m][e]
      BY <1>1 DEF Lifted
    <2>3. \A m \in L, e \in Side : u.child[m][e] =
            IF m = g /\ g # Nil /\ e = Before(k, g) THEN c ELSE t.child[m][e]
      BY <2>1, <2>2
    <2> QED
      BY <1>1, <2>3 DEF Lifted
  <1>k. /\ g = Nil <=> k = t.root
        /\ g # Nil => Before(k, g) \in Side /\ t.child[g][Before(k, g)] = k
        /\ c # Nil => c # t.root
        /\ t.parent[k] = g
    BY DEF Lifts
  <1>2. PICK h : Short(t, L, h, x, Nil, "left")
    BY DEF Balanced
  <1>3. /\ h \in [Nodes -> Nat] /\ h[Nil] = 0
        /\ \A m \in L, e \in Side : h[m] = h[t.child[m][e]] + Weight(t, x, t.child[m][e])
    BY <1>1, <1>2 DEF Short
  <1>4. Exempt(u, M, x)
    BY <1>u DEF Balanced, Exempt
  <1>5. \A n : Weight(u, x, n) = Weight(t, x, n)
    BY <1>u DEF Weight
  <1>6. h[k] = h[c] + Weight(t, x, c)
    BY <1>1, <1>3
  <1>7. ASSUME NEW m \in M, NEW e \in Side
        PROVE  LET d == u.child[m][e]
               IN h[m] = h[d] + IF m = g /\ e = Before(k, g) THEN Weight(u, x, d) + Weight(t, x, k)
                                ELSE Weight(u, x, d)
    <2>1. CASE m = g /\ e = Before(k, g)
      <3>1. h[m] = h[k] + Weight(t, x, k) /\ u.child[m][e] = c
        BY <1>1, <1>3, <1>k, <1>u, <2>1
      <3>2. Weight(t, x, k) \in {0, 1} /\ Weight(t, x, c) \in {0, 1} /\ h[c] \in Nat
        BY <1>1, <1>3, Weights
      <3> QED
        BY <1>5, <1>6, <2>1, <3>1, <3>2
    <2>2. CASE ~ (m = g /\ e = Before(k, g))
      BY <1>3, <1>5, <1>u, <2>2
    <2> QED
      BY <2>1, <2>2
  <1>8. ASSUME t.color[k] = "black" PROVE Lacking(u, M, x, c)
    <2>1. Weight(t, x, k) = 1
      BY <1>8, Weights
    <2>2. c # u.root => g # Nil /\ g \in M /\ u.child[g][Before(k, g)] = c
      BY <1>1, <1>k, <1>u
    <2>3. c = u.root <=> g = Nil
      <3>1. g # Nil => c # t.root
        <4>1. t.root # Nil
          BY <1>1 DEF Wired, RootPassed
        <4> QED
          BY <1>k, <4>1
      <3> QED
        BY <1>u, <3>1
    <2> DEFINE d == IF g = Nil THEN "left" ELSE Before(k, g)
    <2>4. d \in Side /\ Hangs(u, M, c, d) /\ Over(u, c) = g
      BY <1>1, <1>k, <1>u, <2>2, <2>3 DEF Hangs, Over
    <2>5. Short(u, M, h, x, g, d)
      <3> SUFFICES ASSUME NEW m \in M, NEW e \in Side
                   PROVE  LET n == u.child[m][e]
                          IN h[m] = h[n] + IF m = g /\ e = d THEN Weight(u, x, n) + 1
                                           ELSE Weight(u, x, n)
        BY <1>3 DEF Short
      <3>1. m # Nil
        BY <1>1
      <3>2. h[m] = h[u.child[m][e]] + IF m = g /\ e = Before(k, g)
                                      THEN Weight(u, x, u.child[m][e]) + Weight(t, x, k)
                                      ELSE Weight(u, x, u.child[m][e])
        BY <1>7
      <3> QED
        BY <2>1, <3>1, <3>2
    <2> QED
      BY <1>4, <2>4, <2>5 DEF Lacking
  <1>9. ASSUME t.color[k] = "red" PROVE Balanced(u, M, x)
    <2>1. Weight(t, x, k) = 0
      BY <1>9, Weights
    <2>2. \A m \in M, e \in Side : h[m] = h[u.child[m][e]] + Weight(u, x, u.child[m][e])
      <3> SUFFICES ASSUME NEW m \in M, NEW e \in Side
                   PROVE  h[m] = h[u.child[m][e]] + Weight(u, x, u.child[m][e])
        OBVIOUS
      <3>1. Weight(u, x, u.child[m][e]) \in {0, 1}
        BY Weights
      <3> QED
        BY <1>7, <2>1, <3>1
    <2>3. Short(u, M, h, x, Nil, "left")
      BY <1>1, <1>3, <2>2 DEF Short
    <2> QED
      BY <1>4, <2>3 DEF Balanced
  <1>10. ASSUME Tame(t, L, Nil) PROVE Tame(u, M, c)
    <2> SUFFICES ASSUME NEW m \in M, u.color[m] = "red", m # c
                 PROVE  m # u.root /\ u.color[u.parent[m]] = "black"
      BY DEF Tame
    <2>1. m # t.root /\ (t.color[t.parent[m]] = "black" \/ t.parent[m] = Nil)
      BY <1>1, <1>10, <1>u DEF Tame
    <2>2. t.color[Nil] = "black"
      BY DEF Balanced, Exempt
    <2> QED
      BY <1>u, <2>1, <2>2
  <1> QED
    BY <1>8, <1>9, <1>10


-----------------------------------------------------------------------------
(* The next key, by __rbtree_minimum.                                      *)

(* One step of __rbtree_minimum.                                           *)
Leftward(t, m) == IF t.child[m].left = Nil THEN m ELSE t.child[m].left

(* __rbtree_minimum as a sequence of steps.                                *)
LEMMA MinimumSteps ==
  ASSUME NEW t, NEW b, NEW n \in Nat, Cardinality(Keys) = n
  PROVE  \E f : /\ f[0] = b /\ Minimum(t, b) = f[n]
                /\ \A i \in 1 .. n : f[i] = Leftward(t, f[i - 1])
  <1> DEFINE Steps(f, m) ==
               [i \in 0 .. m |-> IF i = 0 THEN b ELSE Leftward(t, f[i - 1])]
             P == {m \in Nat : \E f : f = Steps(f, m)}
  <1>1. Minimum(t, b) = (CHOOSE f : f = Steps(f, n))[n]
    BY DEF Minimum, Leftward
  <1>2. 0 \in P
    <2> DEFINE f == [i \in 0 .. 0 |-> b]
    <2>1. f = Steps(f, 0)
      OBVIOUS
    <2> QED
      BY <2>1
  <1>3. ASSUME NEW m \in Nat, m \in P PROVE m + 1 \in P
    <2>1. PICK f : f = Steps(f, m)
      BY <1>3
    <2> DEFINE g == [i \in 0 .. m + 1 |-> IF i <= m THEN f[i] ELSE Leftward(t, f[m])]
    <2>2. \A i \in 0 .. m : g[i] = f[i]
      OBVIOUS
    <2>3. ASSUME NEW i \in 0 .. m + 1
          PROVE  g[i] = IF i = 0 THEN b ELSE Leftward(t, g[i - 1])
      <3>1. CASE i <= m
        <4>1. i \in 0 .. m /\ g[i] = f[i] /\ (i # 0 => g[i - 1] = f[i - 1])
          BY <2>2, <3>1
        <4>2. f[i] = IF i = 0 THEN b ELSE Leftward(t, f[i - 1])
          BY <2>1, <4>1
        <4> QED
          BY <4>1, <4>2
      <3>2. CASE i = m + 1
        <4>1. i # 0 /\ i - 1 = m /\ g[m] = f[m] /\ ~ (i <= m)
          BY <2>2, <3>2
        <4> QED
          BY <3>2, <4>1
      <3> QED
        BY <3>1, <3>2
    <2>4. g = Steps(g, m + 1)
      <3>1. g = [i \in 0 .. m + 1 |-> g[i]]
        OBVIOUS
      <3> HIDE DEF g
      <3> QED
        BY <2>3, <3>1
    <2> HIDE DEF g
    <2> QED
      BY <2>4
  <1>4. n \in P
    <2> HIDE DEF P
    <2> QED
      BY <1>2, <1>3, SetInduction
  <1> DEFINE f == CHOOSE f : f = Steps(f, n)
  <1>5. f = Steps(f, n)
    BY <1>4
  <1>6. Minimum(t, b) = f[n]
    BY <1>1
  <1> HIDE DEF f
  <1>7. \A i \in 0 .. n : f[i] = IF i = 0 THEN b ELSE Leftward(t, f[i - 1])
    BY <1>5
  <1>8. f[0] = b /\ \A i \in 1 .. n : f[i] = Leftward(t, f[i - 1])
    BY <1>7
  <1> QED
    BY <1>6, <1>8

(* The leftmost node below b comes before all that are linked there.       *)
LEMMA MinimumFirst ==
  ASSUME NEW t, NEW L, NEW r, Wired(t, L, r), NEW b \in L, NEW o, Minimum(t, b) = o
  PROVE  /\ o \in L /\ o \in r[b] /\ t.child[o].left = Nil
         /\ \A j \in L : j \in r[b] /\ j # o => Before(j, o) = "right"
  <1> DEFINE n == Cardinality(Keys)
             C(m) == Cardinality(Above(L, r, m))
             Least(m) == \A j \in L : j \in r[b] => j \in r[m] \/ Before(j, m) = "right"
             Good(m, i) == /\ m \in L /\ m \in r[b] /\ Least(m)
                           /\ t.child[m].left = Nil \/ C(m) >= i + 1
  <1>1. L \subseteq Keys /\ n \in Nat /\ Passing(L, r)
    BY AboveFinite DEF Wired, Passing
  <1>2. \A m : C(m) \in Nat /\ C(m) <= n
    BY <1>1, AboveFinite
  <1>3. \A m \in L : m \in r[m] /\ C(m) >= 1
    <2> SUFFICES ASSUME NEW m \in L PROVE m \in r[m] /\ C(m) # 0
      BY <1>2
    <2>1. m \in r[m]
      BY <1>1 DEF Passing
    <2>2. m \in Above(L, r, m) /\ IsFiniteSet(Above(L, r, m))
      BY <1>1, <2>1, AboveFinite DEF Above
    <2> QED
      BY <2>1, <2>2, FS_EmptySet
  <1>4. PICK f : /\ f[0] = b /\ o = f[n]
                 /\ \A i \in 1 .. n : f[i] = Leftward(t, f[i - 1])
    BY <1>1, MinimumSteps
  <1>s. "left" \in Side /\ "right" \in Side /\ Other("left") = "right"
        /\ \A d \in Side : d = "left" \/ d = "right"
    BY DEF Side, Other
  <1>c. \A m \in L : t.child[m].left # Nil =>
          LET l == t.child[m].left
          IN l \in L /\ l \in r[m] /\ Before(l, m) = "left" /\ C(l) = C(m) + 1
             /\ r[l] = Half(r[m], m, "left") /\ l # m
    <2> SUFFICES ASSUME NEW m \in L, NEW l, t.child[m].left = l, l # Nil
                 PROVE  l \in L /\ l \in r[m] /\ Before(l, m) = "left" /\ C(l) = C(m) + 1
                        /\ r[l] = Half(r[m], m, "left") /\ l # m
      OBVIOUS
    <2>1. /\ l \in L /\ l \in r[m] /\ Before(l, m) = "left" /\ r[l] = Half(r[m], m, "left")
          /\ l # m /\ t.parent[l] = m /\ l # t.root
      BY <1>s, ChildFacts
    <2> QED
      BY <2>1, AboveShrinks
  <1> HIDE DEF C, n
  <1> DEFINE P == {i \in Nat : i <= n => Good(f[i], i)}
  <1>5. 0 \in P
    BY <1>1, <1>3, <1>4
  <1>6. ASSUME NEW i \in Nat, i \in P PROVE i + 1 \in P
    <2> SUFFICES ASSUME i + 1 <= n PROVE Good(f[i + 1], i + 1)
      OBVIOUS
    <2> DEFINE m == f[i]
    <2>1. Good(m, i)
      BY <1>1, <1>6
    <2>2. f[i + 1] = Leftward(t, m)
      <3>1. i + 1 \in 1 .. n /\ (i + 1) - 1 = i
        BY <1>1
      <3> QED
        BY <1>4, <3>1
    <2> HIDE DEF m
    <2>3. CASE t.child[m].left = Nil
      BY <2>1, <2>2, <2>3 DEF Leftward
    <2>4. CASE t.child[m].left # Nil
      <3> DEFINE l == t.child[m].left
      <3>1. f[i + 1] = l
        BY <2>2, <2>4 DEF Leftward
      <3>2. /\ l \in L /\ l \in r[m] /\ Before(l, m) = "left" /\ C(l) = C(m) + 1
            /\ r[l] = Half(r[m], m, "left") /\ l # m
        BY <1>c, <2>1, <2>4
      <3> HIDE DEF l
      <3>3. m \in L /\ m \in r[b] /\ Least(m) /\ C(m) >= i + 1
        BY <2>1, <2>4
      <3>4. l \in r[b]
        <4>1. m # b => r[m] \subseteq Half(r[b], b, Before(m, b))
          BY <1>1, <3>3 DEF Passing, Nested
        <4> QED
          BY <3>2, <4>1, HalfMember
      <3>5. Before(m, l) = "right"
        BY <1>1, <1>s, <3>2, <3>3, OrderSwaps
      <3>6. ASSUME NEW j \in L, j \in r[b], j \notin r[l] PROVE Before(j, l) = "right"
        <4>1. j \in r[m] /\ j # m => Before(j, m) = "right"
          <5>1. Before(j, m) \in Side
            BY <1>1, <3>3, Sides
          <5> QED
            BY <1>s, <3>2, <3>6, <5>1, HalfMember
        <4>2. j = m \/ Before(j, m) = "right"
          BY <3>3, <3>6, <4>1
        <4>3. CASE j = m
          BY <3>5, <4>3
        <4>4. CASE j # m
          BY <1>1, <1>s, <3>2, <3>3, <3>5, <4>2, <4>4, OrderTransitive
        <4> QED
          BY <4>3, <4>4
      <3>7. C(l) >= (i + 1) + 1
        BY <1>2, <3>2, <3>3
      <3> QED
        BY <3>1, <3>2, <3>4, <3>6, <3>7
    <2> QED
      BY <2>3, <2>4
  <1>7. Nat \subseteq P
    <2> HIDE DEF P
    <2> QED
      BY <1>5, <1>6, SetInduction
  <1>8. Good(o, n)
    BY <1>1, <1>4, <1>7
  <1>9. t.child[o].left = Nil
    BY <1>1, <1>2, <1>8
  <1>10. ASSUME NEW j \in L, j \in r[b], j # o PROVE Before(j, o) = "right"
    <2>1. j \in r[o] => t.child[o][Before(j, o)] # Nil /\ Before(j, o) \in Side
      BY <1>1, <1>8, <1>10, ReachedChild, Sides
    <2> QED
      BY <1>8, <1>9, <1>10, <1>s, <2>1
  <1> QED
    BY <1>8, <1>9, <1>10


-----------------------------------------------------------------------------
(* The next key takes the place of the one that goes.                      *)

(* The name of m once o has taken k's place.                               *)
As(k, o, m) == IF m = k THEN o ELSE m

(* u is w with o in k's place; c is the node that may be the sentinel.     *)
Renamed(w, u, M, k, o, c) ==
  /\ u \in Trees /\ Sentinel(u)
  /\ u.root = As(k, o, w.root)
  /\ \A m \in M \cup {c} : u.parent[As(k, o, m)] = As(k, o, w.parent[m])
  /\ \A m \in M, e \in Side : u.child[As(k, o, m)][e] = As(k, o, w.child[m][e])
  /\ \A m \in M \cup {Nil} : u.color[As(k, o, m)] = w.color[m]

(* The searches that pass o are those that passed k.                       *)
Renaming(r, k, o) == [q \in Keys |-> {As(k, o, j) : j \in r[IF q = o THEN k ELSE q]}]

(* A key compares with o as it compared with k.                            *)
Beside(M, r, k, o) ==
  \A m, n \in M : m \in r[n] /\ m # n =>
    Before(As(k, o, m), As(k, o, n)) = Before(m, n)

(* A tree in which o has taken the place of k is linked both ways.         *)
LEMMA RenameWired ==
  ASSUME NEW w, NEW M, NEW r, Wired(w, M, r), NEW k \in M, NEW o \in Keys, o \notin M,
         NEW c \in M \cup {Nil}, NEW u, Renamed(w, u, M, k, o, c),
         Beside(M, r, k, o), \A n \in M : r[n] \subseteq M
  PROVE  Wired(u, (M \ {k}) \cup {o}, Renaming(r, k, o))
  <1> DEFINE N == (M \ {k}) \cup {o}
             q == Renaming(r, k, o)
             A(m) == As(k, o, m)
  <1>1. /\ M \subseteq Keys /\ M \subseteq Nodes /\ Nil \notin M /\ o # Nil /\ w \in Trees
        /\ k \in Keys /\ r \in [Keys -> SUBSET Keys] /\ \A n \in M : n \in r[n]
    BY KeysAreNodes DEF Wired, Passing
  <1>2. /\ \A m \in M : A(m) \in N
        /\ \A n \in N : \E m \in M : A(m) = n
        /\ \A m, n \in M \cup {Nil} : A(m) = A(n) => m = n
        /\ A(Nil) = Nil /\ N \subseteq Keys
    BY <1>1 DEF As
  <1>3. \A m \in M : q[A(m)] = {A(j) : j \in r[m]}
    BY <1>1 DEF Renaming, As
  <1>4. q \in [Keys -> SUBSET Keys]
    BY <1>1 DEF Renaming, As
  <1> HIDE DEF A, q, N
  <1>5. \A m, n \in M : A(m) \in q[A(n)] <=> m \in r[n]
    <2> SUFFICES ASSUME NEW m \in M, NEW n \in M PROVE A(m) \in q[A(n)] <=> m \in r[n]
      OBVIOUS
    <2>1. r[n] \subseteq M /\ q[A(n)] = {A(j) : j \in r[n]}
      BY <1>3
    <2> QED
      BY <1>2, <2>1
  <1>6. \A n \in M : \A y \in q[A(n)] : \E j \in M : y = A(j) /\ j \in r[n]
    BY <1>3
  <1>7. \A m, n \in M : m \in r[n] /\ m # n => Before(A(m), A(n)) = Before(m, n)
    BY DEF Beside, A
  <1>8. /\ u \in Trees /\ Sentinel(u) /\ u.root = A(w.root)
        /\ \A m \in M : u.parent[A(m)] = A(w.parent[m])
        /\ \A m \in M, e \in Side : u.child[A(m)][e] = A(w.child[m][e])
    BY DEF Renamed, A
  <1>9. Nested(N, q)
    <2> SUFFICES ASSUME NEW m1 \in N, NEW n1 \in N, m1 # n1, m1 \in q[n1], NEW y \in q[m1]
                 PROVE  y \in Half(q[n1], n1, Before(m1, n1))
      BY DEF Nested
    <2>1. PICK m \in M, n \in M : A(m) = m1 /\ A(n) = n1
      BY <1>2
    <2>2. m # n /\ m \in r[n]
      BY <1>5, <2>1
    <2>3. PICK j \in M : y = A(j) /\ j \in r[m]
      BY <1>6, <2>1
    <2>4. j \in r[n] /\ j # n /\ Before(j, n) = Before(m, n)
      <3>1. r[m] \subseteq Half(r[n], n, Before(m, n))
        BY <2>2 DEF Wired, Passing, Nested
      <3> QED
        BY <2>3, <3>1, HalfMember
    <2>5. y \in q[n1] /\ y # n1
      BY <1>2, <1>5, <2>1, <2>3, <2>4
    <2>6. Before(y, n1) = Before(m1, n1)
      BY <1>7, <2>1, <2>2, <2>3, <2>4
    <2> QED
      BY <2>5, <2>6, HalfMember
  <1>10. Apart(N, q)
    <2> SUFFICES ASSUME NEW m1 \in N, NEW n1 \in N, m1 \notin q[n1], n1 \notin q[m1],
                        NEW y \in q[m1], y \in q[n1]
                 PROVE  FALSE
      BY DEF Apart
    <2>1. PICK m \in M, n \in M : A(m) = m1 /\ A(n) = n1
      BY <1>2
    <2>2. m \notin r[n] /\ n \notin r[m]
      BY <1>5, <2>1
    <2>3. PICK j \in M : y = A(j) /\ j \in r[m]
      BY <1>6, <2>1
    <2>4. j \in r[n]
      BY <1>5, <2>1, <2>3
    <2> QED
      BY <2>2, <2>3, <2>4 DEF Wired, Passing, Apart
  <1>11. Passing(N, q)
    <2>1. \A n \in N : n \in q[n]
      BY <1>1, <1>2, <1>5
    <2> QED
      BY <1>2, <1>4, <1>9, <1>10, <2>1 DEF Passing
  <1>12. RootPassed(u, N, q)
    <2>1. /\ w.root \in M /\ M \subseteq r[w.root] /\ w.parent[w.root] = Nil
      BY <1>1 DEF Wired, RootPassed
    <2>2. u.root \in N /\ u.root # Nil /\ u.parent[u.root] = Nil
      BY <1>1, <1>2, <1>8, <2>1, KeysAreNodes
    <2>3. N \subseteq q[u.root]
      BY <1>2, <1>5, <1>8, <2>1
    <2> QED
      BY <2>2, <2>3 DEF RootPassed
  <1>13. ChildrenLinked(u, N, q)
    <2> SUFFICES ASSUME NEW n1 \in N, NEW e \in Side, NEW d, u.child[n1][e] = d, d # Nil
                 PROVE  d \in N /\ u.parent[d] = n1 /\ q[d] = Half(q[n1], n1, e)
      BY DEF ChildrenLinked
    <2>1. PICK n \in M : A(n) = n1
      BY <1>2
    <2> DEFINE l == w.child[n][e]
    <2>2. d = A(l) /\ l # Nil
      BY <1>2, <1>8, <2>1
    <2>3. l \in M /\ w.parent[l] = n /\ r[l] = Half(r[n], n, e)
      BY <2>2 DEF Wired, ChildrenLinked
    <2> HIDE DEF l
    <2>4. d \in N /\ u.parent[d] = n1
      BY <1>2, <1>8, <2>1, <2>2, <2>3
    <2>5. ASSUME NEW y \in q[d] PROVE y \in Half(q[n1], n1, e)
      <3>1. PICK j \in M : y = A(j) /\ j \in r[l]
        BY <1>6, <2>2, <2>3, <2>5
      <3>2. j \in r[n] /\ j # n /\ Before(j, n) = e
        BY <2>3, <3>1, HalfMember
      <3>3. y \in q[n1] /\ y # n1 /\ Before(y, n1) = e
        BY <1>2, <1>5, <1>7, <2>1, <3>1, <3>2
      <3> QED
        BY <3>3, HalfMember
    <2>6. ASSUME NEW y \in Half(q[n1], n1, e) PROVE y \in q[d]
      <3>1. y \in q[n1] /\ y # n1 /\ Before(y, n1) = e
        BY <2>6, HalfMember
      <3>2. PICK j \in M : y = A(j) /\ j \in r[n]
        BY <1>6, <2>1, <3>1
      <3>3. j # n /\ Before(j, n) = e
        BY <1>7, <2>1, <3>1, <3>2
      <3>4. j \in r[l]
        BY <2>3, <3>2, <3>3, HalfMember
      <3> QED
        BY <1>5, <2>2, <2>3, <3>2, <3>4
    <2> QED
      BY <2>4, <2>5, <2>6
  <1>14. Reached(u, N, q)
    <2> SUFFICES ASSUME NEW n1 \in N, NEW y \in N, y \in q[n1], y # n1
                 PROVE  u.child[n1][Before(y, n1)] # Nil
      BY DEF Reached
    <2>1. PICK n \in M, j \in M : A(n) = n1 /\ A(j) = y
      BY <1>2
    <2>2. j \in r[n] /\ j # n
      BY <1>5, <2>1
    <2>3. Before(y, n1) = Before(j, n) /\ Before(j, n) \in Side
      BY <1>1, <1>7, <2>1, <2>2, Sides
    <2>4. w.child[n][Before(j, n)] # Nil /\ w.child[n][Before(j, n)] \in M
      <3>1. w.child[n][Before(j, n)] # Nil
        BY <2>2, ReachedChild
      <3> QED
        BY <2>3, <3>1, ChildFacts
    <2> QED
      BY <1>2, <1>8, <2>1, <2>3, <2>4
  <1>15. ParentsLinked(u, N)
    <2> SUFFICES ASSUME NEW n1 \in N, n1 # u.root
                 PROVE  /\ u.parent[n1] \in N
                        /\ u.child[u.parent[n1]][Before(n1, u.parent[n1])] = n1
      BY DEF ParentsLinked
    <2>1. PICK n \in M : A(n) = n1
      BY <1>2
    <2>2. n # w.root
      BY <1>8, <2>1
    <2> DEFINE p == w.parent[n]
    <2>3. /\ p \in M /\ w.child[p][Before(n, p)] = n /\ Before(n, p) \in Side
          /\ n \in r[p] /\ n # p
      <3>1. p \in M /\ w.child[p][Before(n, p)] = n
        BY <2>2 DEF Wired, ParentsLinked
      <3> HIDE DEF p
      <3>2. Before(n, p) \in Side
        BY <1>1, <3>1, Sides
      <3> QED
        BY <1>1, <3>1, <3>2, ChildFacts
    <2>4. u.parent[n1] = A(p)
      BY <1>8, <2>1
    <2> HIDE DEF p
    <2>5. Before(n1, A(p)) = Before(n, p)
      BY <1>7, <2>1, <2>3
    <2> QED
      BY <1>2, <1>8, <2>1, <2>3, <2>4, <2>5
  <1> QED
    BY <1>8, <1>11, <1>12, <1>13, <1>14, <1>15 DEF Wired, N, q

(* It is as balanced as it was.                                            *)
LEMMA RenameColors ==
  ASSUME NEW w, NEW M, NEW r, Wired(w, M, r), NEW k \in M, NEW o \in Keys, o \notin M,
         NEW c \in M \cup {Nil}, NEW u, Renamed(w, u, M, k, o, c), c # k
  PROVE  LET N == (M \ {k}) \cup {o}
         IN /\ \A x : Lacking(w, M, x, c) => Lacking(u, N, As(k, o, x), c)
            /\ \A x : Balanced(w, M, x) => Balanced(u, N, As(k, o, x))
            /\ Tame(w, M, c) => Tame(u, N, c)
  <1> DEFINE N == (M \ {k}) \cup {o}
             A(m) == As(k, o, m)
  <1>1. /\ M \subseteq Keys /\ M \subseteq Nodes /\ Nil \notin M /\ o # Nil /\ w \in Trees
        /\ k \in Keys /\ o \in Nodes /\ Nil \in Nodes /\ k # Nil
    BY KeysAreNodes DEF Wired, Passing
  <1>2. /\ \A m \in M : A(m) \in N
        /\ \A n \in N : \E m \in M : A(m) = n
        /\ \A m, n \in M \cup {Nil} : A(m) = A(n) => m = n
        /\ A(Nil) = Nil /\ A(c) = c /\ Nil \notin N
    BY <1>1 DEF As
  <1>3. /\ u.root = A(w.root)
        /\ \A m \in M \cup {c} : u.parent[A(m)] = A(w.parent[m])
        /\ \A m \in M, e \in Side : u.child[A(m)][e] = A(w.child[m][e])
        /\ \A m \in M \cup {Nil} : u.color[A(m)] = w.color[m]
    BY DEF Renamed, A
  <1>4. \A m \in M, e \in Side : w.child[m][e] \in M \cup {Nil}
    BY DEF Wired, ChildrenLinked
  <1>5. w.root \in M \cup {Nil}
    BY DEF Wired, RootPassed
  <1>h. \A h \in [Nodes -> Nat] :
          \E hh \in [Nodes -> Nat] : \A m \in M \cup {Nil} : hh[A(m)] = h[m]
    <2> SUFFICES ASSUME NEW h \in [Nodes -> Nat]
                 PROVE  \E hh \in [Nodes -> Nat] : \A m \in M \cup {Nil} : hh[A(m)] = h[m]
      OBVIOUS
    <2> DEFINE hh == [n \in Nodes |-> IF n = o THEN h[k] ELSE h[n]]
    <2>1. hh \in [Nodes -> Nat]
      BY <1>1
    <2>2. \A m \in M \cup {Nil} : hh[A(m)] = h[m]
      BY <1>1 DEF As
    <2> QED
      BY <2>1, <2>2
  <1> HIDE DEF A, N
  <1>6. ASSUME NEW x, Exempt(w, M, x) PROVE Exempt(u, N, A(x))
    <2>1. x \in M \cup {Nil} /\ w.color[Nil] = "black" /\ (x # Nil => w.color[x] = "red")
      BY <1>6 DEF Exempt
    <2>2. u.color[Nil] = "black" /\ (A(x) # Nil => u.color[A(x)] = "red")
      BY <1>2, <1>3, <2>1
    <2>3. A(x) \in N \cup {Nil}
      BY <1>2, <2>1
    <2> QED
      BY <2>2, <2>3 DEF Exempt
  <1>7. ASSUME NEW x \in M \cup {Nil}, NEW a \in M \cup {Nil}, NEW d \in Side, NEW h,
               Short(w, M, h, x, a, d)
        PROVE  \E hh : Short(u, N, hh, A(x), A(a), d)
    <2>1. /\ h \in [Nodes -> Nat] /\ h[Nil] = 0
          /\ \A m \in M, e \in Side :
               h[m] = h[w.child[m][e]] + IF m = a /\ e = d THEN Weight(w, x, w.child[m][e]) + 1
                                         ELSE Weight(w, x, w.child[m][e])
      BY <1>7 DEF Short
    <2>2. PICK hh \in [Nodes -> Nat] : \A m \in M \cup {Nil} : hh[A(m)] = h[m]
      BY <1>h, <2>1
    <2>3. \A m \in M \cup {Nil} : Weight(u, A(x), A(m)) = Weight(w, x, m)
      BY <1>2, <1>3 DEF Weight
    <2>4. ASSUME NEW n \in N, NEW e \in Side
          PROVE  hh[n] = hh[u.child[n][e]] +
                   IF n = A(a) /\ e = d THEN Weight(u, A(x), u.child[n][e]) + 1
                   ELSE Weight(u, A(x), u.child[n][e])
      <3>1. PICK m \in M : A(m) = n
        BY <1>2
      <3> DEFINE l == w.child[m][e]
      <3>2. l \in M \cup {Nil} /\ u.child[n][e] = A(l)
        BY <1>3, <1>4, <3>1
      <3>3. h[m] = h[l] + IF m = a /\ e = d THEN Weight(w, x, l) + 1 ELSE Weight(w, x, l)
        BY <2>1
      <3> HIDE DEF l
      <3>4. n = A(a) <=> m = a
        BY <1>2, <3>1
      <3>5. hh[n] = h[m] /\ hh[A(l)] = h[l] /\ Weight(u, A(x), A(l)) = Weight(w, x, l)
        BY <2>2, <2>3, <3>1, <3>2
      <3> QED
        BY <3>2, <3>3, <3>4, <3>5
    <2>5. hh[Nil] = 0
      BY <1>2, <2>1, <2>2
    <2> QED
      BY <2>4, <2>5 DEF Short
  <1>8. ASSUME NEW x, Balanced(w, M, x) PROVE Balanced(u, N, A(x))
    <2>1. Exempt(w, M, x) /\ \E h : Short(w, M, h, x, Nil, "left")
      BY <1>8 DEF Balanced
    <2>2. x \in M \cup {Nil} /\ "left" \in Side
      BY <2>1 DEF Exempt, Side
    <2>3. \E hh : Short(u, N, hh, A(x), A(Nil), "left")
      BY <1>7, <2>1, <2>2
    <2> QED
      BY <1>2, <1>6, <2>1, <2>3 DEF Balanced
  <1>9. ASSUME NEW x, Lacking(w, M, x, c) PROVE Lacking(u, N, A(x), c)
    <2>1. Exempt(w, M, x)
      BY <1>9 DEF Lacking
    <2>2. PICK d \in Side : Hangs(w, M, c, d) /\ \E h : Short(w, M, h, x, Over(w, c), d)
      BY <1>9 DEF Lacking
    <2>3. c = u.root <=> c = w.root
      BY <1>2, <1>3, <1>5
    <2>4. Over(u, c) = A(Over(w, c)) /\ Over(w, c) \in M \cup {Nil}
      BY <1>2, <1>3, <2>2, <2>3 DEF Over, Hangs
    <2>5. Hangs(u, N, c, d)
      <3> SUFFICES ASSUME c # u.root PROVE u.parent[c] \in N /\ u.child[u.parent[c]][d] = c
        BY DEF Hangs
      <3>1. w.parent[c] \in M /\ w.child[w.parent[c]][d] = c
        BY <2>2, <2>3 DEF Hangs
      <3> QED
        BY <1>2, <1>3, <3>1
    <2>6. \E hh : Short(u, N, hh, A(x), A(Over(w, c)), d)
      BY <1>7, <2>1, <2>2, <2>4 DEF Exempt
    <2> QED
      BY <1>6, <2>1, <2>4, <2>5, <2>6 DEF Lacking
  <1>10. ASSUME Tame(w, M, c) PROVE Tame(u, N, c)
    <2> SUFFICES ASSUME NEW n \in N, u.color[n] = "red", n # c
                 PROVE  n # u.root /\ (u.color[u.parent[n]] = "black" \/ u.parent[n] = c)
      BY DEF Tame
    <2>1. PICK m \in M : A(m) = n
      BY <1>2
    <2>2. w.color[m] = "red" /\ m # c
      BY <1>2, <1>3, <2>1
    <2>3. m # w.root /\ (w.color[w.parent[m]] = "black" \/ w.parent[m] = c)
      BY <1>10, <2>2 DEF Tame
    <2>4. w.parent[m] \in M
      BY <2>3 DEF Wired, ParentsLinked
    <2> QED
      BY <1>2, <1>3, <1>5, <2>1, <2>3, <2>4
  <1> QED
    BY <1>8, <1>9, <1>10 DEF A, N

(* Who is who when a node with two children goes: o is the next key.       *)
Inner(t, L, r, k, a, b, o, c, g, p) ==
  /\ k \in L /\ a \in L /\ b \in L /\ o \in L /\ p \in L
  /\ c \in L \cup {Nil} /\ g \in L \cup {Nil}
  /\ t.child[k].left = a /\ t.child[k].right = b /\ Minimum(t, b) = o
  /\ t.child[o].left = Nil /\ t.child[o].right = c /\ t.parent[k] = g /\ t.parent[o] = p
  /\ o # k /\ c # o /\ c # k /\ c # a /\ c # b /\ a # o /\ a # k /\ a # b /\ b # k
  /\ g # k /\ g # o /\ g # p /\ p # o
  /\ p = k <=> o = b
  /\ o = b => SideOf(t, o) = "right"
  /\ t.parent[a] = k /\ t.parent[b] = k
  /\ o \in r[k] /\ Before(k, o) = "left"
  /\ \A j \in L : j \in r[k] /\ j # k /\ j # o => Before(j, o) = Before(j, k)

(* The next key is the leftmost on the right, and has these neighbours.    *)
LEMMA InnerParts ==
  ASSUME NEW t, NEW L, NEW r, Wired(t, L, r), NEW k \in L,
         NEW a, t.child[k].left = a, a # Nil, NEW b, t.child[k].right = b, b # Nil,
         NEW o, Minimum(t, b) = o
  PROVE  Inner(t, L, r, k, a, b, o, t.child[o].right, t.parent[k], t.parent[o])
  <1> DEFINE c == t.child[o].right
             g == t.parent[k]
             p == t.parent[o]
  <1>1. /\ L \subseteq Keys /\ L \subseteq Nodes /\ Nil \notin L /\ "left" \in Side /\ "right" \in Side
        /\ Other("left") = "right" /\ Other("right") = "left" /\ "left" # "right"
        /\ Passing(L, r) /\ \A d \in Side : d = "left" \/ d = "right"
    BY KeysAreNodes DEF Wired, Passing, Side, Other
  <1>2. /\ a \in L /\ t.parent[a] = k /\ a # k /\ Before(a, k) = "left" /\ a \in r[k]
    BY <1>1, ChildFacts
  <1>3. /\ b \in L /\ t.parent[b] = k /\ b # k /\ Before(b, k) = "right" /\ b \in r[k]
        /\ r[b] = Half(r[k], k, "right")
    BY <1>1, ChildFacts
  <1>4. /\ o \in L /\ o \in r[b] /\ t.child[o].left = Nil
        /\ \A j \in L : j \in r[b] /\ j # o => Before(j, o) = "right"
    BY <1>3, MinimumFirst
  <1>5. o \in r[k] /\ o # k /\ Before(o, k) = "right" /\ a # b
    BY <1>1, <1>2, <1>3, <1>4, HalfMember
  <1>6. Before(k, o) = "left"
    BY <1>1, <1>4, <1>5, OrderSwaps
  <1>7. r[o] \subseteq Half(r[k], k, "right")
    BY <1>1, <1>4, <1>5 DEF Passing, Nested
  <1>8. k \notin r[o] /\ a \notin r[o] /\ a # o
    BY <1>1, <1>2, <1>5, <1>7, HalfMember
  <1>9. c # Nil => c \in L /\ c \in r[o] /\ t.parent[c] = o /\ c # o
    BY <1>1, <1>4, ChildFacts
  <1>10. c \in L \cup {Nil} /\ c # o /\ c # k /\ c # a /\ c # b
    <2>1. c # Nil => c # b
      BY <1>3, <1>5, <1>9
    <2> QED
      BY <1>1, <1>2, <1>3, <1>4, <1>8, <1>9, <2>1
  <1>11. /\ g = Nil <=> k = t.root
         /\ g # Nil => /\ g \in L /\ g # k /\ t.child[g][Before(k, g)] = k
                       /\ r[k] = Half(r[g], g, Before(k, g)) /\ Before(k, g) \in Side
                       /\ k \in r[g]
    <2>1. k \in r[k]
      BY <1>1 DEF Passing
    <2> QED
      BY <2>1, ParentFacts, HalfMember
  <1>12. o # t.root
    BY <1>1, <1>8 DEF Wired, RootPassed
  <1>13. /\ p \in L /\ p # o /\ t.child[p][Before(o, p)] = o /\ SideOf(t, o) = Before(o, p)
         /\ p # Nil
    BY <1>4, <1>12, ParentFacts
  <1>14. p = k <=> o = b
    BY <1>1, <1>3, <1>5, <1>13
  <1>15. g # o /\ g # k
    BY <1>1, <1>4, <1>8, <1>11
  <1>16. g # p
    <2>1. g # Nil => Before(o, g) = Before(k, g)
      BY <1>5, <1>11, HalfMember
    <2> QED
      BY <1>5, <1>11, <1>13, <2>1
  <1>17. ASSUME NEW j \in L, j \in r[k], j # k, j # o PROVE Before(j, o) = Before(j, k)
    <2>1. Before(j, k) \in Side
      BY <1>1, Sides
    <2>2. CASE Before(j, k) = "right"
      BY <1>3, <1>4, <1>17, <2>2, HalfMember
    <2>3. CASE Before(j, k) = "left"
      BY <1>1, <1>4, <1>5, <1>6, <1>17, <2>3, OrderTransitive
    <2> QED
      BY <1>1, <2>1, <2>2, <2>3
  <1> QED
    BY <1>1, <1>2, <1>3, <1>4, <1>5, <1>6, <1>8, <1>10, <1>11, <1>13, <1>14, <1>15, <1>16, <1>17
       DEF Inner

(* u is t after one assignment to a parent, or to a child.                 *)
Reparented(t, u, n, p) ==
  /\ u \in Trees /\ u.root = t.root /\ u.color = t.color /\ u.child = t.child
  /\ \A m \in Nodes : u.parent[m] = IF m = n THEN p ELSE t.parent[m]

Relinked(t, u, n, s, c) ==
  /\ u \in Trees /\ u.root = t.root /\ u.color = t.color /\ u.parent = t.parent
  /\ \A m \in Nodes, d \in Side :
       u.child[m][d] = IF m = n /\ d = s THEN c ELSE t.child[m][d]

(* The two assignments.                                                    *)
LEMMA ParentSet ==
  ASSUME NEW t \in Trees, NEW n \in Nodes, NEW p \in Nodes
  PROVE  Reparented(t, SetParent(t, n, p), n, p)
  BY DEF SetParent, Trees, Reparented

LEMMA ChildSet ==
  ASSUME NEW t \in Trees, NEW n \in Nodes, NEW s \in Side, NEW c \in Nodes
  PROVE  Relinked(t, SetChild(t, n, s, c), n, s, c)
  BY DEF SetChild, Trees, Relinked

(* What rbtree_delete does to a tree in which k has two children.          *)
LEMMA InnerEffect ==
  ASSUME NEW t, NEW L, NEW r, Wired(t, L, r), NEW k, NEW a, NEW b, NEW o, NEW c, NEW g, NEW p,
         Inner(t, L, r, k, a, b, o, c, g, p), NEW u, UnlinkInner(t, k).t = u
  PROVE  /\ u \in Trees
         /\ u.root = IF g = Nil THEN o ELSE t.root
         /\ \A m \in Nodes : u.color[m] = IF m = o THEN t.color[k] ELSE t.color[m]
         /\ \A m \in Nodes : u.parent[m] =
              IF m = a THEN o ELSE IF m = o THEN g
              ELSE IF m = c THEN IF p = k THEN o ELSE p
              ELSE IF m = b /\ p # k THEN o ELSE t.parent[m]
         /\ \A m \in Nodes, e \in Side : u.child[m][e] =
              IF m = o /\ e = "left" THEN a
              ELSE IF m = g /\ g # Nil /\ e = SideOf(t, k) THEN o
              ELSE IF m = o /\ p # k THEN b
              ELSE IF m = p /\ p # k /\ e = SideOf(t, o) THEN c ELSE t.child[m][e]
  <1> DEFINE next == Minimum(t, t.child[k].right)
             last == t.child[next].right
             w == Transplant(t, next, last)
             lifted == SetChild(w, next, "right", t.child[k].right)
             t1 == IF t.parent[next] = k THEN SetParent(t, last, next)
                   ELSE SetParent(lifted, lifted.child[next].right, next)
             t2 == Transplant(t1, k, next)
             t3 == SetChild(t2, next, "left", t2.child[k].left)
             t4 == SetParent(t3, t3.child[next].left, next)
  <1>3. u = Paint(t4, next, t3.color[k])
    BY DEF UnlinkInner
  <1>1. /\ k \in Nodes /\ a \in Nodes /\ b \in Nodes /\ o \in Nodes /\ c \in Nodes /\ g \in Nodes
        /\ p \in Nodes /\ p # Nil /\ o # Nil /\ t \in Trees /\ "left" \in Side /\ "right" \in Side
        /\ "left" # "right" /\ \A d \in Side : d = "left" \/ d = "right"
    BY KeysAreNodes DEF Wired, Passing, Side, Inner
  <1>2. /\ t.child[k].left = a /\ t.child[k].right = b /\ Minimum(t, b) = o
        /\ t.child[o].left = Nil /\ t.child[o].right = c /\ t.parent[k] = g /\ t.parent[o] = p
        /\ o # k /\ c # o /\ c # k /\ c # a /\ c # b /\ a # o /\ a # k /\ a # b /\ b # k
        /\ g # k /\ g # o /\ g # p /\ p # o
    BY DEF Inner
  <1>n. next = o /\ last = c
    BY <1>2
  <1> HIDE DEF next, last
  <1>c. SideOf(t, k) \in Side /\ SideOf(t, o) \in Side
    BY DEF SideOf, Side
  <1>4. /\ t1 \in Trees /\ t1.root = t.root /\ t1.color = t.color
        /\ \A m \in Nodes : t1.parent[m] =
             IF p # k /\ m = b THEN o
             ELSE IF m = c THEN IF p = k THEN o ELSE p ELSE t.parent[m]
        /\ \A m \in Nodes, e \in Side : t1.child[m][e] =
             IF p # k /\ m = o /\ e = "right" THEN b
             ELSE IF p # k /\ m = p /\ e = SideOf(t, o) THEN c ELSE t.child[m][e]
    <2>1. CASE p = k
      <3>1. SetParent(t, c, o) = t1
        BY <1>2, <1>n, <2>1
      <3> HIDE DEF t1
      <3>2. /\ t1 \in Trees /\ t1.root = t.root /\ t1.color = t.color /\ t1.child = t.child
            /\ \A m \in Nodes : t1.parent[m] = IF m = c THEN o ELSE t.parent[m]
        <4>1. t \in Trees /\ c \in Nodes /\ o \in Nodes
          BY <1>1
        <4>2. Reparented(t, SetParent(t, c, o), c, o)
          BY <4>1, ParentSet
        <4> QED
          BY <3>1, <4>2 DEF Reparented
      <3> QED
        BY <2>1, <3>2
    <2>2. CASE p # k
      <3>w. Transplant(t, o, c) = w
        BY <1>n
      <3> HIDE DEF w
      <3>1. /\ w \in Trees /\ w.color = t.color /\ w.root = t.root
            /\ \A m \in Nodes : w.parent[m] = IF m = c THEN p ELSE t.parent[m]
            /\ \A m \in Nodes, e \in Side : w.child[m][e] =
                 IF m = p /\ e = SideOf(t, o) THEN c ELSE t.child[m][e]
        BY <1>1, <1>2, <3>w, TransplantEffect
      <3>l. SetChild(w, o, "right", b) = lifted
        BY <1>2, <1>n
      <3>p. t1 = SetParent(lifted, lifted.child[o].right, o)
        BY <1>2, <1>n, <2>2
      <3> HIDE DEF lifted, t1
      <3>2. /\ lifted \in Trees /\ lifted.root = w.root /\ lifted.color = w.color
            /\ lifted.parent = w.parent
            /\ \A m \in Nodes, e \in Side :
                 lifted.child[m][e] = IF m = o /\ e = "right" THEN b ELSE w.child[m][e]
        <4>1. w \in Trees /\ o \in Nodes /\ "right" \in Side /\ b \in Nodes
          BY <1>1, <3>1
        <4>2. Relinked(w, SetChild(w, o, "right", b), o, "right", b)
          BY <4>1, ChildSet
        <4> QED
          BY <3>l, <4>2 DEF Relinked
      <3>3. lifted.child[o].right = b
        BY <1>1, <3>2
      <3>4. SetParent(lifted, b, o) = t1
        BY <3>3, <3>p
      <3>5. /\ t1 \in Trees /\ t1.root = lifted.root /\ t1.color = lifted.color
            /\ t1.child = lifted.child
            /\ \A m \in Nodes : t1.parent[m] = IF m = b THEN o ELSE lifted.parent[m]
        <4>1. lifted \in Trees /\ b \in Nodes /\ o \in Nodes
          BY <1>1, <3>2
        <4>2. Reparented(lifted, SetParent(lifted, b, o), b, o)
          BY <4>1, ParentSet
        <4> QED
          BY <3>4, <4>2 DEF Reparented
      <3> QED
        BY <2>2, <3>1, <3>2, <3>5
    <2> QED
      BY <2>1, <2>2
  <1> HIDE DEF t1
  <1>5. t1.parent[k] = g /\ SideOf(t1, k) = SideOf(t, k)
    <2>1. t1.parent[k] = g
      BY <1>1, <1>2, <1>4
    <2>2. t1.child[g].left = t.child[g].left
      BY <1>1, <1>2, <1>4
    <2> QED
      BY <1>2, <2>1, <2>2 DEF SideOf
  <1>6. /\ t2 \in Trees /\ t2.color = t.color
        /\ t2.root = IF g = Nil THEN o ELSE t.root
        /\ \A m \in Nodes : t2.parent[m] = IF m = o THEN g ELSE t1.parent[m]
        /\ \A m \in Nodes, e \in Side : t2.child[m][e] =
             IF m = g /\ g # Nil /\ e = SideOf(t, k) THEN o ELSE t1.child[m][e]
    <2>1. Transplant(t1, k, o) = t2
      BY <1>n
    <2> HIDE DEF t2
    <2> QED
      BY <1>1, <1>4, <1>5, <2>1, TransplantEffect
  <1>7. t2.child[k].left = a
    BY <1>1, <1>2, <1>4, <1>6
  <1>s. SetChild(t2, o, "left", a) = t3
    BY <1>7, <1>n
  <1> HIDE DEF t2, t3
  <1>8. /\ t3 \in Trees /\ t3.root = t2.root /\ t3.color = t2.color /\ t3.parent = t2.parent
        /\ \A m \in Nodes, e \in Side :
             t3.child[m][e] = IF m = o /\ e = "left" THEN a ELSE t2.child[m][e]
    <2>1. t2 \in Trees /\ o \in Nodes /\ "left" \in Side /\ a \in Nodes
      BY <1>1, <1>6
    <2>2. Relinked(t2, SetChild(t2, o, "left", a), o, "left", a)
      BY <2>1, ChildSet
    <2> QED
      BY <1>s, <2>2 DEF Relinked
  <1>9. t3.child[o].left = a
    BY <1>1, <1>8
  <1>q. SetParent(t3, a, o) = t4
    BY <1>9, <1>n
  <1> HIDE DEF t4
  <1>10. /\ t4 \in Trees /\ t4.root = t3.root /\ t4.color = t3.color /\ t4.child = t3.child
         /\ \A m \in Nodes : t4.parent[m] = IF m = a THEN o ELSE t3.parent[m]
    <2>1. t3 \in Trees /\ a \in Nodes /\ o \in Nodes
      BY <1>1, <1>8
    <2>2. Reparented(t3, SetParent(t3, a, o), a, o)
      BY <2>1, ParentSet
    <2> QED
      BY <1>q, <2>2 DEF Reparented
  <1>11. t3.color[k] = t.color[k] /\ t.color[k] \in Colors
    BY <1>1, <1>6, <1>8, TreeParts
  <1>12. /\ u \in Trees /\ u.root = t4.root /\ u.parent = t4.parent /\ u.child = t4.child
         /\ \A m \in Nodes : u.color[m] = IF m = o THEN t.color[k] ELSE t4.color[m]
    <2>1. u = Paint(t4, o, t.color[k])
      BY <1>3, <1>11, <1>n
    <2>2. t4 \in Trees /\ o \in Nodes /\ t.color[k] \in Colors
      BY <1>1, <1>10, <1>11
    <2> QED
      BY <2>1, <2>2, PaintEffect
  <1>13. /\ u \in Trees /\ u.root = IF g = Nil THEN o ELSE t.root
         /\ \A m \in Nodes : u.color[m] = IF m = o THEN t.color[k] ELSE t.color[m]
    BY <1>6, <1>8, <1>10, <1>12
  <1>14. \A m \in Nodes : u.parent[m] =
              IF m = a THEN o ELSE IF m = o THEN g
              ELSE IF m = c THEN IF p = k THEN o ELSE p
              ELSE IF m = b /\ p # k THEN o ELSE t.parent[m]
    BY <1>2, <1>4, <1>6, <1>8, <1>10, <1>12
  <1>15. \A m \in Nodes, e \in Side : u.child[m][e] =
              IF m = o /\ e = "left" THEN a
              ELSE IF m = g /\ g # Nil /\ e = SideOf(t, k) THEN o
              ELSE IF m = o /\ p # k THEN b
              ELSE IF m = p /\ p # k /\ e = SideOf(t, o) THEN c ELSE t.child[m][e]
    <2>1. \A m \in Nodes, e \in Side : u.child[m][e] =
              IF m = o /\ e = "left" THEN a
              ELSE IF m = g /\ g # Nil /\ e = SideOf(t, k) THEN o
              ELSE t1.child[m][e]
      BY <1>6, <1>8, <1>10, <1>12
    <2> QED
      BY <1>1, <1>2, <1>4, <2>1
  <1> QED
    BY <1>13, <1>14, <1>15

(* __rbtree_transplant lifts the child into the place of the node.         *)
LEMMA TransplantLifts ==
  ASSUME NEW t, NEW L, NEW r, Wired(t, L, r), NEW k, NEW s, NEW c, NEW g,
         Lifts(t, L, r, k, s, c, g)
  PROVE  Lifted(t, Transplant(t, k, c), k, c, g)
  <1> DEFINE u == Transplant(t, k, c)
  <1>1. t \in Trees /\ k \in Nodes /\ c \in Nodes /\ g \in Nodes /\ t.parent[k] = g
    BY KeysAreNodes DEF Wired, Passing, Lifts
  <1>2. Transplant(t, k, c) = u
    OBVIOUS
  <1> HIDE DEF u
  <1>3. /\ u \in Trees /\ u.color = t.color
        /\ u.root = IF g = Nil THEN c ELSE t.root
        /\ \A m \in Nodes : u.parent[m] = IF m = c THEN g ELSE t.parent[m]
        /\ \A m \in Nodes, e \in Side : u.child[m][e] =
             IF m = g /\ g # Nil /\ e = SideOf(t, k) THEN c ELSE t.child[m][e]
    BY <1>1, <1>2, TransplantEffect
  <1>4. Lifted(t, u, k, c, g)
    BY <1>3 DEF Lifted
  <1> QED
    BY <1>2, <1>4

(* Only two nodes are children of k, and k is the child of one node.       *)
LEMMA InnerFamily ==
  ASSUME NEW t, NEW L, NEW r, Wired(t, L, r), NEW k, NEW a, NEW b, NEW o, NEW c, NEW g, NEW p,
         Inner(t, L, r, k, a, b, o, c, g, p)
  PROVE  /\ \A m \in L : t.parent[m] = k => m = a \/ m = b
         /\ \A m \in L, e \in Side : t.child[m][e] = k => m = g /\ e = SideOf(t, k)
         /\ g = Nil <=> k = t.root
         /\ g # Nil => t.child[g][SideOf(t, k)] = k
  <1>1. /\ L \subseteq Keys /\ Nil \notin L /\ k \in L /\ t.child[k].left = a /\ t.child[k].right = b
        /\ t.parent[k] = g /\ k # Nil
    BY KeysAreNodes DEF Wired, Passing, Inner
  <1>2. ASSUME NEW m \in L, t.parent[m] = k PROVE m = a \/ m = b
    <2>1. m # t.root
      BY <1>1, <1>2 DEF Wired, RootPassed
    <2>2. t.child[k][Before(m, k)] = m
      BY <1>2, <2>1 DEF Wired, ParentsLinked
    <2> QED
      BY <1>1, <2>2 DEF Before
  <1>3. /\ g = Nil <=> k = t.root
        /\ g # Nil => SideOf(t, k) = Before(k, g) /\ t.child[g][Before(k, g)] = k
    BY <1>1, ParentFacts
  <1>4. ASSUME NEW m \in L, NEW e \in Side, t.child[m][e] = k PROVE m = g /\ e = SideOf(t, k)
    <2>1. t.parent[k] = m /\ Before(k, m) = e
      BY <1>1, <1>4, ChildFacts
    <2> QED
      BY <1>1, <1>3, <2>1
  <1> QED
    BY <1>2, <1>3, <1>4

(* A node with two children goes as if the next key went and then took its *)
(* place.                                                                  *)
LEMMA InnerRenames ==
  ASSUME NEW t, NEW L, NEW r, Wired(t, L, r), NEW k, NEW a, NEW b, NEW o, NEW c, NEW g, NEW p,
         Inner(t, L, r, k, a, b, o, c, g, p), NEW u, UnlinkInner(t, k).t = u,
         NEW w, Lifted(t, w, o, c, p)
  PROVE  Renamed(w, u, L \ {o}, k, o, c)
  <1> DEFINE M == L \ {o}
             A(m) == As(k, o, m)
  <1>1. /\ k \in L /\ a \in L /\ b \in L /\ o \in L /\ p \in L /\ L \subseteq Nodes /\ Nil \notin L
        /\ c \in L \cup {Nil} /\ g \in L \cup {Nil} /\ Nil \in Nodes /\ c \in Nodes /\ g \in Nodes
        /\ \A d \in Side : d = "left" \/ d = "right"
        /\ "left" # "right" /\ p # Nil
    BY KeysAreNodes DEF Wired, Passing, Side, Inner
  <1>2. /\ t.child[k].left = a /\ t.child[k].right = b
        /\ t.child[o].left = Nil /\ t.child[o].right = c /\ t.parent[k] = g /\ t.parent[o] = p
        /\ t.parent[a] = k /\ t.parent[b] = k
        /\ o # k /\ c # o /\ c # k /\ c # a /\ c # b /\ a # o /\ a # k /\ a # b /\ b # k
        /\ g # k /\ g # o /\ g # p /\ p # o
        /\ p = k <=> o = b
        /\ o = b => SideOf(t, o) = "right"
    BY DEF Inner
  <1>3. /\ \A m \in L : t.parent[m] = k => m = a \/ m = b
        /\ \A m \in L, e \in Side : t.child[m][e] = k => m = g /\ e = SideOf(t, k)
        /\ g = Nil <=> k = t.root
        /\ g # Nil => t.child[g][SideOf(t, k)] = k
    BY InnerFamily
  <1>4. u \in Trees /\ u.root = IF g = Nil THEN o ELSE t.root
    BY InnerEffect
  <1>5. \A m \in Nodes : u.color[m] = IF m = o THEN t.color[k] ELSE t.color[m]
    BY InnerEffect
  <1>6. \A m \in Nodes : u.parent[m] =
              IF m = a THEN o ELSE IF m = o THEN g
              ELSE IF m = c THEN IF p = k THEN o ELSE p
              ELSE IF m = b /\ p # k THEN o ELSE t.parent[m]
    BY InnerEffect
  <1>7. \A m \in Nodes, e \in Side : u.child[m][e] =
              IF m = o /\ e = "left" THEN a
              ELSE IF m = g /\ g # Nil /\ e = SideOf(t, k) THEN o
              ELSE IF m = o /\ p # k THEN b
              ELSE IF m = p /\ p # k /\ e = SideOf(t, o) THEN c ELSE t.child[m][e]
    BY InnerEffect
  <1>8. /\ w.color = t.color /\ w.root = t.root
        /\ \A m \in Nodes : w.parent[m] = IF m = c THEN p ELSE t.parent[m]
        /\ \A m \in Nodes, e \in Side : w.child[m][e] =
             IF m = p /\ e = SideOf(t, o) THEN c ELSE t.child[m][e]
    BY <1>1 DEF Lifted
  <1>a. A(k) = o /\ \A m : m # k => A(m) = m
    BY DEF As
  <1>m. \A m \in M : m \in L /\ m # o /\ m \in Nodes
    BY <1>1
  <1> HIDE DEF A, M
  <1>9. Sentinel(u)
    <2>1. \A e \in Side : t.child[Nil][e] = Nil
      BY DEF Wired, Sentinel
    <2>2. \A e \in Side : u.child[Nil][e] = Nil
      BY <1>1, <1>7, <2>1
    <2> QED
      BY <2>2 DEF Sentinel
  <1>10. u.root = A(w.root)
    BY <1>3, <1>4, <1>8, <1>a
  <1>11. \A m \in M \cup {c} : u.parent[A(m)] = A(w.parent[m])
    <2> SUFFICES ASSUME NEW m \in M \cup {c} PROVE u.parent[A(m)] = A(w.parent[m])
      OBVIOUS
    <2>1. CASE m = k
      <3>1. w.parent[k] = g /\ u.parent[o] = g
        BY <1>1, <1>2, <1>6, <1>8
      <3> QED
        BY <1>2, <1>a, <2>1, <3>1
    <2>2. CASE m = c
      <3>1. w.parent[c] = p /\ u.parent[c] = IF p = k THEN o ELSE p
        BY <1>1, <1>2, <1>6, <1>8
      <3> QED
        BY <1>2, <1>a, <2>2, <3>1
    <2>3. CASE m = a
      <3>1. w.parent[a] = k /\ u.parent[a] = o
        BY <1>1, <1>2, <1>6, <1>8
      <3> QED
        BY <1>2, <1>a, <2>3, <3>1
    <2>4. CASE m = b /\ m # c
      <3>1. w.parent[b] = k /\ b # o
        BY <1>1, <1>2, <1>8, <1>m, <2>4
      <3>2. u.parent[b] = o
        BY <1>1, <1>2, <1>6, <3>1
      <3> QED
        BY <1>2, <1>a, <2>4, <3>1, <3>2
    <2>5. CASE m # k /\ m # c /\ m # a /\ m # b
      <3>1. m \in L /\ m # o /\ m \in Nodes
        BY <1>m, <2>5
      <3>2. w.parent[m] = t.parent[m] /\ u.parent[m] = t.parent[m] /\ t.parent[m] # k
        BY <1>3, <1>6, <1>8, <2>5, <3>1
      <3> QED
        BY <1>a, <2>5, <3>2
    <2> QED
      BY <2>1, <2>2, <2>3, <2>4, <2>5
  <1>12. \A m \in M, e \in Side : u.child[A(m)][e] = A(w.child[m][e])
    <2> SUFFICES ASSUME NEW m \in M, NEW e \in Side PROVE u.child[A(m)][e] = A(w.child[m][e])
      OBVIOUS
    <2>m. m \in L /\ m # o /\ m \in Nodes
      BY <1>m
    <2>1. CASE m = k /\ e = "left"
      <3>1. u.child[o][e] = a
        BY <1>1, <1>7, <2>1
      <3>2. w.child[k][e] = a
        BY <1>1, <1>2, <1>8, <2>1
      <3> QED
        BY <1>2, <1>a, <2>1, <3>1, <3>2
    <2>2. CASE m = k /\ e = "right" /\ p = k
      <3>1. u.child[o][e] = c
        BY <1>1, <1>2, <1>7, <2>2
      <3>2. w.child[k][e] = c
        BY <1>1, <1>2, <1>8, <2>2
      <3> QED
        BY <1>2, <1>a, <2>2, <3>1, <3>2
    <2>3. CASE m = k /\ e = "right" /\ p # k
      <3>1. u.child[o][e] = b
        BY <1>1, <1>2, <1>7, <2>3
      <3>2. w.child[k][e] = b
        BY <1>1, <1>2, <1>8, <2>3
      <3> QED
        BY <1>2, <1>a, <2>3, <3>1, <3>2
    <2>4. CASE m # k /\ m = g /\ e = SideOf(t, k)
      <3>1. g # Nil /\ u.child[g][e] = o
        BY <1>1, <1>2, <1>7, <2>4, <2>m
      <3>2. w.child[g][e] = k
        BY <1>1, <1>2, <1>3, <1>8, <2>4, <3>1
      <3> QED
        BY <1>2, <1>a, <2>4, <3>1, <3>2
    <2>5. CASE m # k /\ m = p /\ e = SideOf(t, o)
      <3>1. u.child[p][e] = c
        BY <1>1, <1>2, <1>7, <2>5
      <3>2. w.child[p][e] = c
        BY <1>1, <1>8, <2>5
      <3> QED
        BY <1>2, <1>a, <2>5, <3>1, <3>2
    <2>6. CASE m # k /\ ~ (m = g /\ e = SideOf(t, k)) /\ ~ (m = p /\ e = SideOf(t, o))
      <3>1. u.child[m][e] = t.child[m][e]
        BY <1>7, <2>6, <2>m
      <3>2. w.child[m][e] = t.child[m][e] /\ t.child[m][e] # k
        BY <1>3, <1>8, <2>6, <2>m
      <3> QED
        BY <1>a, <2>6, <3>1, <3>2
    <2> QED
      BY <1>1, <2>1, <2>2, <2>3, <2>4, <2>5, <2>6
  <1>13. \A m \in M \cup {Nil} : u.color[A(m)] = w.color[m]
    <2> SUFFICES ASSUME NEW m \in M \cup {Nil} PROVE u.color[A(m)] = w.color[m]
      OBVIOUS
    <2>1. m \in Nodes /\ m # o
      BY <1>1, <1>m
    <2>2. CASE m = k
      BY <1>1, <1>5, <1>8, <1>a, <2>2
    <2>3. CASE m # k
      BY <1>5, <1>8, <1>a, <2>1, <2>3
    <2> QED
      BY <2>2, <2>3
  <1> QED
    BY <1>4, <1>9, <1>10, <1>11, <1>12, <1>13 DEF Renamed, A, M

(* No other key lies between k and the next one.                           *)
LEMMA InnerBeside ==
  ASSUME NEW t, NEW L, NEW r, Wired(t, L, r), NEW k, NEW a, NEW b, NEW o, NEW c, NEW g, NEW p,
         Inner(t, L, r, k, a, b, o, c, g, p)
  PROVE  Beside(L \ {o}, Without(r, L \ {o}), k, o)
  <1> DEFINE q == Without(r, L \ {o})
  <1>1. Passing(L, r) /\ k \in L /\ o \in L /\ o # k /\ o \in r[k]
        /\ \A j \in L : j \in r[k] /\ j # k /\ j # o => Before(j, o) = Before(j, k)
    BY DEF Wired, Inner
  <1>2. \A n \in L \ {o} : q[n] = r[n] \cap (L \ {o})
    BY <1>1, WithoutPassing
  <1> HIDE DEF q
  <1> SUFFICES ASSUME NEW m \in L \ {o}, NEW n \in L \ {o}, m \in q[n], m # n
               PROVE  Before(As(k, o, m), As(k, o, n)) = Before(m, n)
    BY DEF Beside, q
  <1>3. m \in r[n] /\ m \in L /\ n \in L /\ m # o /\ n # o
    BY <1>2
  <1>4. CASE n = k
    <2>1. Before(m, o) = Before(m, k)
      BY <1>1, <1>3, <1>4
    <2> QED
      BY <1>4, <2>1 DEF As
  <1>5. CASE m = k
    <2>1. r[k] \subseteq Half(r[n], n, Before(k, n))
      BY <1>1, <1>3, <1>5 DEF Passing, Nested
    <2>2. Before(o, n) = Before(k, n)
      BY <1>1, <2>1, HalfMember
    <2> QED
      BY <1>5, <2>2 DEF As
  <1>6. CASE n # k /\ m # k
    BY <1>6 DEF As
  <1> QED
    BY <1>4, <1>5, <1>6


-----------------------------------------------------------------------------
(* rbtree_delete up to its fixup.                                          *)

(* What is left once k is unlinked, and what the fixup then has to mend.   *)
Unlinked(t, L, u, M, n, c) ==
  /\ \E rr : Wired(u, M, rr)
  /\ n \in M \cup {Nil} /\ c \in Colors
  /\ \A x : Balanced(t, L, x) /\ c = "black" => \E y : Lacking(u, M, y, n)
  /\ Balanced(t, L, Nil) /\ Tame(t, L, Nil) =>
       IF c = "black" THEN Lacking(u, M, Nil, n) /\ Tame(u, M, n) ELSE Balanced(u, M, Nil)

(* A node with at most one child goes.                                     *)
LEMMA UnlinkOuterStep ==
  ASSUME NEW t, NEW L, NEW r, Wired(t, L, r), NEW k \in L, NEW s \in Side,
         t.child[k][Other(s)] = Nil
  PROVE  Unlinked(t, L, UnlinkOuter(t, k, s).t, L \ {k}, UnlinkOuter(t, k, s).n,
                  UnlinkOuter(t, k, s).c)
  <1> DEFINE c == t.child[k][s]
             g == t.parent[k]
             u == Transplant(t, k, c)
             M == L \ {k}
  <1>1. Lifts(t, L, r, k, s, c, g)
    BY LiftParts
  <1>2. /\ UnlinkOuter(t, k, s).t = u /\ UnlinkOuter(t, k, s).n = c
        /\ UnlinkOuter(t, k, s).c = t.color[k]
    BY DEF UnlinkOuter
  <1> HIDE DEF c, g
  <1>3. Lifted(t, u, k, c, g)
    BY <1>1, TransplantLifts
  <1> HIDE DEF u
  <1>4. Wired(u, M, Without(r, M))
    BY <1>1, <1>3, LiftWired
  <1>5. c \in M \cup {Nil}
    BY <1>1 DEF Lifts
  <1>6. t.color[k] \in Colors /\ k # Nil
    BY KeysAreNodes, TreeParts DEF Wired, Passing
  <1>7. \A x : Balanced(t, L, x) /\ x # k =>
          /\ t.color[k] = "black" => Lacking(u, M, x, c)
          /\ t.color[k] = "red" => Balanced(u, M, x)
          /\ Tame(t, L, Nil) => Tame(u, M, c)
    BY <1>1, <1>3, LiftLacks
  <1> HIDE DEF M
  <1>8. \A x : Balanced(t, L, x) /\ t.color[k] = "black" => \E y : Lacking(u, M, y, c)
    <2> SUFFICES ASSUME NEW x, Balanced(t, L, x), t.color[k] = "black"
                 PROVE  \E y : Lacking(u, M, y, c)
      OBVIOUS
    <2>1. x # k
      BY <1>6 DEF Balanced, Exempt
    <2> QED
      BY <1>7, <2>1
  <1>9. Balanced(t, L, Nil) /\ Tame(t, L, Nil) =>
          IF t.color[k] = "black" THEN Lacking(u, M, Nil, c) /\ Tame(u, M, c)
          ELSE Balanced(u, M, Nil)
    BY <1>6, <1>7 DEF Colors
  <1>10. Unlinked(t, L, u, M, c, t.color[k])
    BY <1>4, <1>5, <1>6, <1>8, <1>9 DEF Unlinked
  <1> QED
    BY <1>2, <1>10 DEF M

(* A node with two children goes.                                          *)
LEMMA UnlinkInnerStep ==
  ASSUME NEW t, NEW L, NEW r, Wired(t, L, r), NEW k \in L,
         t.child[k].left # Nil, t.child[k].right # Nil
  PROVE  Unlinked(t, L, UnlinkInner(t, k).t, L \ {k}, UnlinkInner(t, k).n, UnlinkInner(t, k).c)
  <1> DEFINE a == t.child[k].left
             b == t.child[k].right
             o == Minimum(t, b)
             c == t.child[o].right
             g == t.parent[k]
             p == t.parent[o]
             u == UnlinkInner(t, k).t
             w == Transplant(t, o, c)
             M == L \ {o}
             q == Without(r, M)
             N == (M \ {k}) \cup {o}
  <1>1. UnlinkInner(t, k).n = c /\ UnlinkInner(t, k).c = t.color[o]
    BY DEF UnlinkInner
  <1>2. Inner(t, L, r, k, a, b, o, c, g, p)
    BY InnerParts
  <1>3. c = t.child[o].right /\ p = t.parent[o]
    OBVIOUS
  <1>e. UnlinkInner(t, k).t = u
    OBVIOUS
  <1> HIDE DEF a, b, o, c, g, p, u
  <1>4. /\ k \in L /\ o \in L /\ o # k /\ c # k /\ c # o /\ c \in L \cup {Nil}
        /\ t.child[o].left = Nil /\ t.child[o].right = c /\ t.parent[o] = p
    BY <1>2 DEF Inner
  <1>5. "right" \in Side /\ Other("right") = "left"
    BY DEF Side, Other
  <1>6. Lifts(t, L, r, o, "right", c, p)
    BY <1>4, <1>5, LiftParts
  <1>7. Lifted(t, w, o, c, p)
    BY <1>6, TransplantLifts
  <1> HIDE DEF w
  <1>8. Wired(w, M, q)
    BY <1>6, <1>7, LiftWired
  <1>9. Renamed(w, u, M, k, o, c)
    BY <1>2, <1>7, <1>e, InnerRenames
  <1>10. Beside(M, q, k, o)
    BY <1>2, InnerBeside
  <1>11. /\ k \in M /\ o \notin M /\ c \in M \cup {Nil} /\ N = L \ {k}
         /\ \A n \in M : q[n] \subseteq M
    <2>1. k \in M /\ o \notin M /\ c \in M \cup {Nil} /\ N = L \ {k}
      BY <1>4
    <2>2. \A n \in M : q[n] = r[n] \cap M
      BY WithoutPassing DEF Wired
    <2> QED
      BY <2>1, <2>2
  <1>12. o \in Keys /\ t.color[o] \in Colors
    BY <1>4, KeysAreNodes, TreeParts DEF Wired, Passing
  <1>13. \A x : Balanced(t, L, x) /\ x # o =>
          /\ t.color[o] = "black" => Lacking(w, M, x, c)
          /\ t.color[o] = "red" => Balanced(w, M, x)
          /\ Tame(t, L, Nil) => Tame(w, M, c)
    BY <1>6, <1>7, LiftLacks
  <1> HIDE DEF M, q, N
  <1>14. Wired(u, N, Renaming(q, k, o))
    BY <1>8, <1>9, <1>10, <1>11, <1>12, RenameWired DEF N
  <1>15. /\ \A x : Lacking(w, M, x, c) => Lacking(u, N, As(k, o, x), c)
         /\ \A x : Balanced(w, M, x) => Balanced(u, N, As(k, o, x))
         /\ Tame(w, M, c) => Tame(u, N, c)
    BY <1>4, <1>8, <1>9, <1>11, <1>12, RenameColors DEF N
  <1>16. As(k, o, Nil) = Nil /\ o # Nil
    BY <1>12, <1>4, KeysAreNodes DEF As, Wired, Passing
  <1>17. \A x : Balanced(t, L, x) /\ t.color[o] = "black" => \E y : Lacking(u, N, y, c)
    <2> SUFFICES ASSUME NEW x, Balanced(t, L, x), t.color[o] = "black"
                 PROVE  \E y : Lacking(u, N, y, c)
      OBVIOUS
    <2>1. x # o
      BY <1>16 DEF Balanced, Exempt
    <2>2. Lacking(w, M, x, c)
      BY <1>13, <2>1
    <2> QED
      BY <1>15, <2>2
  <1>18. ASSUME Balanced(t, L, Nil), Tame(t, L, Nil)
         PROVE  IF t.color[o] = "black" THEN Lacking(u, N, Nil, c) /\ Tame(u, N, c)
                ELSE Balanced(u, N, Nil)
    <2>1. CASE t.color[o] = "black"
      <3>1. Lacking(w, M, Nil, c) /\ Tame(w, M, c)
        BY <1>13, <1>16, <1>18, <2>1
      <3>2. Lacking(u, N, As(k, o, Nil), c) /\ Tame(u, N, c)
        BY <1>15, <3>1
      <3> QED
        BY <1>16, <2>1, <3>2
    <2>2. CASE t.color[o] = "red"
      <3>1. Balanced(w, M, Nil)
        BY <1>13, <1>16, <1>18, <2>2
      <3>2. Balanced(u, N, As(k, o, Nil))
        BY <1>15, <3>1
      <3> QED
        BY <1>16, <2>2, <3>2
    <2> QED
      BY <1>12, <2>1, <2>2 DEF Colors
  <1>19. c \in N \cup {Nil}
    BY <1>4, <1>11
  <1>20. Unlinked(t, L, u, N, c, t.color[o])
    BY <1>12, <1>14, <1>17, <1>18, <1>19 DEF Unlinked
  <1> QED
    BY <1>1, <1>11, <1>20, <1>e

(* rbtree_delete, up to its fixup, takes k out of the tree.                *)
LEMMA UnlinkStep ==
  ASSUME NEW t, NEW L, NEW r, Wired(t, L, r), NEW k \in L, NEW cut, Unlink(t, k) = cut
  PROVE  Unlinked(t, L, cut.t, L \ {k}, cut.n, cut.c)
  <1>1. "left" \in Side /\ "right" \in Side /\ Other("right") = "left" /\ Other("left") = "right"
    BY DEF Side, Other
  <1>2. CASE t.child[k].left = Nil
    <2>1. cut = UnlinkOuter(t, k, "right")
      BY <1>2 DEF Unlink
    <2>2. Unlinked(t, L, UnlinkOuter(t, k, "right").t, L \ {k}, UnlinkOuter(t, k, "right").n,
                   UnlinkOuter(t, k, "right").c)
      BY <1>1, <1>2, UnlinkOuterStep
    <2> QED
      BY <2>1, <2>2
  <1>3. CASE t.child[k].left # Nil /\ t.child[k].right = Nil
    <2>1. cut = UnlinkOuter(t, k, "left")
      BY <1>3 DEF Unlink
    <2>2. Unlinked(t, L, UnlinkOuter(t, k, "left").t, L \ {k}, UnlinkOuter(t, k, "left").n,
                   UnlinkOuter(t, k, "left").c)
      BY <1>1, <1>3, UnlinkOuterStep
    <2> QED
      BY <2>1, <2>2
  <1>4. CASE t.child[k].left # Nil /\ t.child[k].right # Nil
    <2>1. cut = UnlinkInner(t, k)
      BY <1>4 DEF Unlink
    <2>2. Unlinked(t, L, UnlinkInner(t, k).t, L \ {k}, UnlinkInner(t, k).n, UnlinkInner(t, k).c)
      BY <1>4, UnlinkInnerStep
    <2> QED
      BY <2>1, <2>2
  <1> QED
    BY <1>2, <1>3, <1>4


-----------------------------------------------------------------------------
(* The steps of a deletion.                                                *)

(* At the test of __rbtree_delete_fixup's loop, and in the middle of an    *)
(* iteration: what the first deletion still knows of the colours, and why  *)
(* either deletion stops.                                                  *)
Looping(t, L, r, n, d, w) ==
  /\ n \in L \cup {Nil}
  /\ d = 1 => Lacking(t, L, Nil, n) /\ Tame(t, L, n)
  /\ IF n # t.root /\ t.color[n] = "black"
     THEN /\ \E x : Lacking(t, L, x, n)
          /\ w + Cardinality(Above(L, r, t.parent[n])) <= Cardinality(L)
     ELSE w <= Cardinality(L) + 1

(* Between the two halves, when the sibling is black.                      *)
Repairing(t, L, r, n, s, d, w) ==
  LET p == t.parent[n]
  IN /\ Hung(t, L, n, p, s)
     /\ d = 1 => Ready(t, L, Nil, p, s) /\ Tame(t, L, Nil)
     /\ w <= Cardinality(L) + 1
     /\ \/ t.color[p] = "red"
        \/ /\ \E x : Ready(t, L, x, p, s)
           /\ w + Cardinality(Above(L, r, p)) <= Cardinality(L) + 1

(* The d-th deletion, d being 1 or 2, runs or has run.                     *)
Cut(t, L, r, where, n, s, d, w) ==
  /\ Wired(t, L, r)
  /\ where \in {"idle", "delete", "repair"}
  /\ where = "idle" => w = 0 /\ (d = 1 => \E x : Balanced(t, L, x))
  /\ where = "delete" => Looping(t, L, r, n, d, w)
  /\ where = "repair" => Repairing(t, L, r, n, s, d, w)

(* The nodes above a node, and the linked ones, can be counted.            *)
LEMMA WiredSizes ==
  ASSUME NEW t, NEW L, NEW r, Wired(t, L, r), NEW n
  PROVE  /\ Cardinality(Above(L, r, n)) \in Nat /\ Cardinality(L) \in Nat
         /\ Cardinality(Above(L, r, n)) <= Cardinality(L)
  BY AboveFinite DEF Wired, Passing

(* rbtree_delete begins: the colour taken out decides about the fixup.     *)
LEMMA CutDelete ==
  ASSUME NEW t, NEW L, NEW r, Wired(t, L, r), NEW k \in L, NEW cut, Unlink(t, k) = cut,
         NEW d, \E x : Balanced(t, L, x), d = 1 => Balanced(t, L, Nil) /\ Tame(t, L, Nil)
  PROVE  /\ cut.c = "black" =>
              \A s : \E rr : Cut(cut.t, L \ {k}, rr, "delete", cut.n, s, d, 0)
         /\ cut.c # "black" =>
              \A m, s : \E rr : Cut(cut.t, L \ {k}, rr, "idle", m, s, d, 0)
  <1> DEFINE M == L \ {k}
             u == cut.t
             n == cut.n
  <1>1. Unlinked(t, L, u, M, n, cut.c)
    BY UnlinkStep
  <1> HIDE DEF M, u, n
  <1>2. PICK rr : Wired(u, M, rr)
    BY <1>1 DEF Unlinked
  <1>3. n \in M \cup {Nil} /\ cut.c \in Colors
    BY <1>1 DEF Unlinked
  <1>4. ASSUME cut.c = "black" PROVE \A s : Cut(u, M, rr, "delete", n, s, d, 0)
    <2>1. \E y : Lacking(u, M, y, n)
      BY <1>1, <1>4 DEF Unlinked
    <2>2. d = 1 => Lacking(u, M, Nil, n) /\ Tame(u, M, n)
      BY <1>1, <1>4 DEF Unlinked
    <2>3. /\ 0 + Cardinality(Above(M, rr, u.parent[n])) <= Cardinality(M)
          /\ 0 <= Cardinality(M) + 1
      BY <1>2, WiredSizes
    <2>4. Looping(u, M, rr, n, d, 0)
      BY <1>3, <2>1, <2>2, <2>3 DEF Looping
    <2> QED
      BY <1>2, <2>4 DEF Cut
  <1>5. ASSUME cut.c # "black" PROVE \A m, s : Cut(u, M, rr, "idle", m, s, d, 0)
    <2>1. d = 1 => Balanced(u, M, Nil)
      BY <1>1, <1>5 DEF Unlinked
    <2> QED
      BY <1>2, <2>1 DEF Cut
  <1> QED
    BY <1>4, <1>5 DEF M, u, n

(* The first half of an iteration; a red parent will end the loop.         *)
LEMMA CutFixup ==
  ASSUME NEW t, NEW L, NEW r, NEW n, NEW e, NEW d, NEW w \in Nat,
         Cut(t, L, r, "delete", n, e, d, w), n # t.root, t.color[n] = "black",
         NEW s, SideOf(t, n) = s, NEW u, SiblingBlack(t, n) = u,
         NEW v \in Nat, v <= w + 1
  PROVE  \E rr : Cut(u, L, rr, "repair", n, s, d, v)
  <1> DEFINE p == t.parent[n]
  <1>1. Wired(t, L, r) /\ Looping(t, L, r, n, d, w)
    BY DEF Cut
  <1>2. PICK x : Lacking(t, L, x, n)
    BY <1>1 DEF Looping
  <1>3. /\ n \in L \cup {Nil} /\ w + Cardinality(Above(L, r, p)) <= Cardinality(L)
        /\ d = 1 => Lacking(t, L, Nil, n) /\ Tame(t, L, n)
    BY <1>1 DEF Looping
  <1>4. Cardinality(Above(L, r, p)) \in Nat /\ Cardinality(L) \in Nat
    BY <1>1, WiredSizes
  <1>5. v <= Cardinality(L) + 1 /\ v + Cardinality(Above(L, r, p)) <= Cardinality(L) + 1
    BY <1>3, <1>4
  <1> HIDE DEF p
  <1>6. ASSUME NEW y, Lacking(t, L, y, n), NEW rr, Wired(u, L, rr), Hung(u, L, n, p, s),
               d = 1 => Ready(u, L, Nil, p, s) /\ Tame(u, L, Nil),
               u.color[p] = "red" \/ (rr = r /\ Ready(u, L, y, p, s))
        PROVE  Cut(u, L, rr, "repair", n, s, d, v)
    <2>1. u.parent[n] = p
      BY <1>6 DEF Hung
    <2>2. Repairing(u, L, rr, n, s, d, v)
      BY <1>5, <1>6, <2>1 DEF Repairing
    <2> QED
      BY <1>6, <2>2 DEF Cut
  <1>7. CASE d = 1
    <2>1. PICK rr : /\ Wired(u, L, rr) /\ Hung(u, L, n, p, s)
                    /\ Ready(u, L, Nil, p, s) /\ Tame(u, L, Nil)
                    /\ u.color[p] = "red" \/ (rr = r /\ Ready(u, L, Nil, p, s))
      BY <1>1, <1>3, <1>7, SiblingStep DEF p
    <2> QED
      BY <1>3, <1>6, <1>7, <2>1
  <1>8. CASE d # 1
    <2>1. PICK rr : /\ Wired(u, L, rr) /\ Hung(u, L, n, p, s)
                    /\ u.color[p] = "red" \/ (rr = r /\ Ready(u, L, x, p, s))
      BY <1>1, <1>2, <1>3, SiblingStep DEF p
    <2> QED
      BY <1>2, <1>6, <1>8, <2>1
  <1> QED
    BY <1>7, <1>8

(* The second half, when both nephews are black: the loop is one node      *)
(* nearer to the root.                                                     *)
LEMMA CutClimb ==
  ASSUME NEW t, NEW L, NEW r, NEW n, NEW s, NEW d, NEW w \in Nat,
         Cut(t, L, r, "repair", n, s, d, w), NephewsBlack(t, n, s),
         NEW u, Paint(t, Sibling(t, n, s), "red") = u, NEW e
  PROVE  \E rr : Cut(u, L, rr, "delete", t.parent[n], e, d, w)
  <1> DEFINE p == t.parent[n]
  <1>1. Wired(t, L, r) /\ Repairing(t, L, r, n, s, d, w)
    BY DEF Cut
  <1>2. /\ Hung(t, L, n, p, s)
        /\ d = 1 => Ready(t, L, Nil, p, s) /\ Tame(t, L, Nil)
        /\ w <= Cardinality(L) + 1
        /\ \/ t.color[p] = "red"
           \/ /\ \E x : Ready(t, L, x, p, s)
              /\ w + Cardinality(Above(L, r, p)) <= Cardinality(L) + 1
    BY <1>1 DEF Repairing
  <1> HIDE DEF p
  <1>3. /\ Wired(u, L, r) /\ Repainted(t, u)
        /\ \A x : Ready(t, L, x, p, s) => Lacking(u, L, x, p)
        /\ Ready(t, L, Nil, p, s) /\ Tame(t, L, Nil) => Tame(u, L, p)
    BY <1>1, <1>2, ClimbStep
  <1>4. p \in L /\ p \in Nodes /\ t \in Trees
    BY <1>1, <1>2, KeysAreNodes DEF Hung, Wired, Passing
  <1>5. t.color[p] = "red" => u.color[p] = "red"
    <2>1. p \in L /\ t.child[p][Other(s)] \in Nodes /\ t.parent[n] = p
      <3>1. Other(s) \in Side
        BY <1>2, Sides DEF Hung
      <3> QED
        BY <1>2, <1>4, <3>1, TreeParts DEF Hung
    <2>2. u = Paint(t, t.child[p][Other(s)], "red")
      BY <2>1 DEF Sibling
    <2>3. "red" \in Colors
      BY ColorNames
    <2>4. \A m \in Nodes : u.color[m] = IF m = t.child[p][Other(s)] THEN "red" ELSE t.color[m]
      BY <1>4, <2>1, <2>2, <2>3, PaintEffect
    <2> QED
      BY <1>4, <2>4
  <1>6. ASSUME p # u.root, u.color[p] = "black"
        PROVE  /\ \E x : Lacking(u, L, x, p)
               /\ w + Cardinality(Above(L, r, u.parent[p])) <= Cardinality(L)
    <2>1. t.color[p] # "red"
      BY <1>5, <1>6
    <2>2. PICK x : Ready(t, L, x, p, s)
      BY <1>2, <2>1
    <2>3. Lacking(u, L, x, p)
      BY <1>3, <2>2
    <2>4. w + Cardinality(Above(L, r, p)) <= Cardinality(L) + 1
      BY <1>2, <2>1
    <2>5. Cardinality(Above(L, r, p)) = Cardinality(Above(L, r, u.parent[p])) + 1
      BY <1>3, <1>4, <1>6, AboveShrinks
    <2>6. Cardinality(Above(L, r, u.parent[p])) \in Nat /\ Cardinality(L) \in Nat
      BY <1>1, WiredSizes
    <2>7. w + Cardinality(Above(L, r, u.parent[p])) <= Cardinality(L)
      BY <2>4, <2>5, <2>6
    <2> QED
      BY <2>3, <2>7
  <1>7. d = 1 => Lacking(u, L, Nil, p) /\ Tame(u, L, p)
    BY <1>2, <1>3
  <1>8. Looping(u, L, r, p, d, w)
    BY <1>2, <1>4, <1>6, <1>7 DEF Looping
  <1>9. Cut(u, L, r, "delete", p, e, d, w)
    BY <1>3, <1>8 DEF Cut
  <1> QED
    BY <1>9 DEF p

(* The second half, when a nephew is red: the loop goes to the root and    *)
(* ends.                                                                   *)
LEMMA CutTurn ==
  ASSUME NEW t, NEW L, NEW r, NEW n, NEW s, NEW d, NEW w \in Nat,
         Cut(t, L, r, "repair", n, s, d, w), ~ NephewsBlack(t, n, s),
         NEW u, DeleteFixupRotate(FarNephewRed(t, n, s), n, s) = u, NEW e
  PROVE  \E rr : Cut(u, L, rr, "delete", u.root, e, d, w)
  <1> DEFINE p == t.parent[n]
  <1>1. Wired(t, L, r) /\ Repairing(t, L, r, n, s, d, w)
    BY DEF Cut
  <1>2. /\ Hung(t, L, n, p, s)
        /\ d = 1 => Ready(t, L, Nil, p, s) /\ Tame(t, L, Nil)
        /\ w <= Cardinality(L) + 1
    BY <1>1 DEF Repairing
  <1> HIDE DEF p
  <1>3. /\ \E rr : Wired(u, L, rr)
        /\ Ready(t, L, Nil, p, s) /\ Tame(t, L, Nil) =>
             Lacking(u, L, Nil, u.root) /\ Tame(u, L, u.root)
    BY <1>1, <1>2, TurnStep
  <1>4. PICK rr : Wired(u, L, rr)
    BY <1>3
  <1>5. u.root \in L \cup {Nil}
    BY <1>4 DEF Wired, RootPassed
  <1>6. Looping(u, L, rr, u.root, d, w)
    BY <1>2, <1>3, <1>5 DEF Looping
  <1> QED
    BY <1>4, <1>6 DEF Cut

(* The loop is left.                                                       *)
LEMMA CutDone ==
  ASSUME NEW t, NEW L, NEW r, NEW n, NEW e, NEW d, NEW w,
         Cut(t, L, r, "delete", n, e, d, w), n = t.root \/ t.color[n] # "black", NEW m, NEW s
  PROVE  Cut(t, L, r, "idle", m, s, d, 0)
  <1>1. Wired(t, L, r) /\ Looping(t, L, r, n, d, w)
    BY DEF Cut
  <1>2. n \in L \cup {Nil} /\ (d = 1 => Lacking(t, L, Nil, n))
    BY <1>1 DEF Looping
  <1>3. d = 1 => \E x : Balanced(t, L, x)
    BY <1>1, <1>2, LoopEnds
  <1> QED
    BY <1>1, <1>3 DEF Cut

(* The types of the variables from the first deletion on.                  *)
CutTyped ==
  /\ node \in Nodes /\ place \in Nodes /\ side \in Side /\ work \in Nat
  /\ inserted \subseteq Keys /\ deleted \subseteq inserted

(* What holds from the first deletion to the end of the second.            *)
TrimInv ==
  /\ deleted \subseteq Keys
  /\ deleted # {} /\ Cardinality(deleted) <= 2 =>
       /\ CutTyped
       /\ \E r : Cut(tree, Remaining, r, pc, node, side, Cardinality(deleted), work)

(* A tree that was only filled is ready for its first deletion.            *)
LEMMA FilledBalanced ==
  ASSUME FillTyped, NEW r, NEW h, Filling(r, h), pc = "idle"
  PROVE  /\ Wired(tree, inserted, r) /\ Balanced(tree, inserted, Nil)
         /\ Tame(tree, inserted, Nil)
  <1>1. /\ Shape(tree, inserted, r) /\ Even(tree, inserted, h) /\ RedApart(tree, inserted, Nil)
        /\ inserted \subseteq Keys
    BY DEF Filling, FillTyped, Linked, Odd
  <1>2. /\ Wired(tree, inserted, r) /\ Nil \notin inserted /\ inserted \subseteq Nodes
        /\ tree.color[Nil] = "black"
    BY <1>1, ShapeWired, KeysAreNodes DEF Shape, Fresh
  <1>3. Exempt(tree, inserted, Nil)
    BY <1>2 DEF Exempt
  <1>4. \A n : Weight(tree, Nil, n) = Blackness(tree, n)
    BY <1>2 DEF Weight, Blackness
  <1>5. Short(tree, inserted, h, Nil, Nil, "left")
    <2>1. /\ h \in [Nodes -> Nat] /\ h[Nil] = 0
          /\ \A n \in inserted, s \in Side :
               h[n] = h[tree.child[n][s]] + Blackness(tree, tree.child[n][s])
      BY <1>1 DEF Even
    <2> QED
      BY <1>2, <1>4, <2>1 DEF Short
  <1>6. Tame(tree, inserted, Nil)
    BY <1>1 DEF RedApart, Tame
  <1> QED
    BY <1>2, <1>3, <1>5, <1>6 DEF Balanced

(* A deleted key is counted once.                                          *)
LEMMA DeletedCounts ==
  ASSUME deleted \subseteq Keys, NEW k \in Keys, k \notin deleted, deleted' = deleted \cup {k}
  PROVE  /\ Cardinality(deleted) \in Nat /\ Cardinality(deleted') = Cardinality(deleted) + 1
         /\ deleted' \subseteq Keys /\ deleted' # {}
         /\ deleted = {} <=> Cardinality(deleted) = 0
  <1>1. IsFiniteSet(deleted)
    BY KeysAssumption, FS_Subset
  <1> QED
    BY <1>1, FS_AddElement, FS_CardinalityType, FS_EmptySet

(* rbtree_delete begins.                                                   *)
LEMMA TrimCut ==
  ASSUME NEW r, Wired(tree, Remaining, r), NEW k \in Keys, Delete(k), work = 0, CutTyped,
         \E x : Balanced(tree, Remaining, x),
         Cardinality(deleted') = 1 =>
           Balanced(tree, Remaining, Nil) /\ Tame(tree, Remaining, Nil)
  PROVE  /\ k \notin deleted /\ CutTyped'
         /\ \E rr : Cut(tree', Remaining', rr, pc', node', side', Cardinality(deleted'), work')
  <1> DEFINE cut == Unlink(tree, k)
             d == Cardinality(deleted')
             L == Remaining
             M == L \ {k}
  <1>1. k \in Remaining /\ k \notin deleted
    BY FoundLinked DEF Delete, Remaining
  <1>2. /\ tree' = cut.t /\ place' = place /\ side' = side /\ work' = work /\ inserted' = inserted
        /\ deleted' = deleted \cup {k} /\ pc = "idle"
        /\ IF cut.c = "black" THEN pc' = "delete" /\ node' = cut.n ELSE pc' = pc /\ node' = node
    BY DEF Delete
  <1>3. Remaining' = M
    BY <1>2 DEF Remaining
  <1>4. Unlink(tree, k) = cut /\ Cardinality(deleted') = d /\ k \in L
    BY <1>1
  <1>5. /\ \E x : Balanced(tree, L, x)
        /\ d = 1 => Balanced(tree, L, Nil) /\ Tame(tree, L, Nil)
        /\ Wired(tree, L, r)
    OBVIOUS
  <1> HIDE DEF cut, d, L
  <1>6. /\ cut.c = "black" =>
             \A s : \E rr : Cut(cut.t, M, rr, "delete", cut.n, s, d, 0)
        /\ cut.c # "black" =>
             \A m, s : \E rr : Cut(cut.t, M, rr, "idle", m, s, d, 0)
    BY <1>4, <1>5, CutDelete
  <1>7. Unlinked(tree, L, cut.t, M, cut.n, cut.c)
    BY <1>4, <1>5, UnlinkStep
  <1>8. CutTyped'
    <2>1. cut.n \in Nodes
      <3>1. L \subseteq Keys
        BY <1>5 DEF Wired, Passing
      <3> QED
        BY <1>7, <3>1, KeysAreNodes DEF Unlinked
    <2>2. deleted' \subseteq inserted
      BY <1>1, <1>2 DEF CutTyped, Remaining
    <2> QED
      BY <1>2, <2>1, <2>2 DEF CutTyped
  <1>9. \E rr : Cut(tree', M, rr, pc', node', side', d, work')
    BY <1>2, <1>6
  <1> QED
    BY <1>1, <1>3, <1>4, <1>8, <1>9

(* The first deletion of a filled tree.                                    *)
LEMMA TrimFirst ==
  ASSUME FillInv, TrimInv, deleted = {}, NEW k \in Keys, Delete(k)
  PROVE  TrimInv'
  <1>1. FillTyped /\ \E r, h : Filling(r, h)
    BY DEF FillInv
  <1>2. PICK r, h : Filling(r, h)
    BY <1>1
  <1>3. pc = "idle" /\ deleted' = deleted \cup {k}
    BY DEF Delete
  <1>4. Remaining = inserted
    BY DEF Remaining
  <1>5. /\ Wired(tree, inserted, r) /\ Balanced(tree, inserted, Nil)
        /\ Tame(tree, inserted, Nil)
    BY <1>1, <1>2, <1>3, FilledBalanced
  <1>6. work = 0 /\ CutTyped
    BY <1>1, <1>2, <1>3 DEF FillTyped, Filling, Progress, CutTyped, Side
  <1>7. /\ CutTyped'
        /\ \E rr : Cut(tree', Remaining', rr, pc', node', side', Cardinality(deleted'), work')
    BY <1>4, <1>5, <1>6, TrimCut
  <1>8. deleted' \subseteq Keys
    BY <1>3
  <1> QED
    BY <1>7, <1>8 DEF TrimInv

(* The second one, on the tree the first has left.                         *)
LEMMA TrimSecond ==
  ASSUME TrimInv, deleted # {}, Cardinality(deleted) <= 2, NEW k \in Keys, Delete(k)
  PROVE  TrimInv'
  <1>1. deleted \subseteq Keys /\ CutTyped
    BY DEF TrimInv
  <1>2. PICK r : Cut(tree, Remaining, r, pc, node, side, Cardinality(deleted), work)
    BY DEF TrimInv
  <1>3. pc = "idle" /\ deleted' = deleted \cup {k} /\ k \in Found(tree)
    BY DEF Delete
  <1>4. Wired(tree, Remaining, r)
    BY <1>2 DEF Cut
  <1>5. k \notin deleted
    BY <1>3, <1>4, FoundLinked DEF Remaining
  <1>6. /\ Cardinality(deleted) \in Nat /\ Cardinality(deleted') = Cardinality(deleted) + 1
        /\ deleted' \subseteq Keys
        /\ Cardinality(deleted) # 0
    BY <1>1, <1>3, <1>5, DeletedCounts
  <1> SUFFICES ASSUME Cardinality(deleted') <= 2
               PROVE  /\ CutTyped'
                      /\ \E rr : Cut(tree', Remaining', rr, pc', node', side',
                                     Cardinality(deleted'), work')
    BY <1>6 DEF TrimInv
  <1>7. Cardinality(deleted) = 1 /\ Cardinality(deleted') # 1
    BY <1>6
  <1>8. work = 0 /\ \E x : Balanced(tree, Remaining, x)
    BY <1>2, <1>3, <1>7 DEF Cut
  <1> QED
    BY <1>1, <1>4, <1>7, <1>8, TrimCut

(* __rbtree_delete_fixup runs.                                             *)
LEMMA TrimFixup ==
  ASSUME CutTyped, NEW r, NEW d, Cut(tree, Remaining, r, pc, node, side, d, work), DeleteFixup
  PROVE  CutTyped' /\ \E rr : Cut(tree', Remaining', rr, pc', node', side', d, work')
  <1>1. /\ pc = "delete" /\ node # tree.root /\ tree.color[node] = "black"
        /\ side' = SideOf(tree, node) /\ tree' = SiblingBlack(tree, node) /\ pc' = "repair"
        /\ Works /\ node' = node /\ place' = place /\ inserted' = inserted /\ deleted' = deleted
    BY DEF DeleteFixup, Fixing
  <1>2. work \in Nat /\ work' \in Nat /\ work' <= work + 1
    BY <1>1, WorksOnce DEF CutTyped
  <1>3. Remaining' = Remaining
    BY <1>1 DEF Remaining
  <1> PICK s, u, v : side' = s /\ tree' = u /\ work' = v
    OBVIOUS
  <1>4. \E rr : Cut(u, Remaining, rr, "repair", node, s, d, v)
    BY <1>1, <1>2, CutFixup
  <1>5. SideOf(tree, node) \in Side
    BY DEF SideOf, Side
  <1>6. CutTyped'
    BY <1>1, <1>2, <1>5 DEF CutTyped
  <1> QED
    BY <1>1, <1>3, <1>4, <1>6

LEMMA TrimRepair ==
  ASSUME CutTyped, NEW r, NEW d, Cut(tree, Remaining, r, pc, node, side, d, work), DeleteRepair
  PROVE  CutTyped' /\ \E rr : Cut(tree', Remaining', rr, pc', node', side', d, work')
  <1>1. /\ pc = "repair" /\ pc' = "delete" /\ side' = "left" /\ place' = place /\ work' = work
        /\ inserted' = inserted /\ deleted' = deleted
    BY DEF DeleteRepair
  <1>2. Remaining' = Remaining
    BY <1>1 DEF Remaining
  <1>3. work \in Nat
    BY DEF CutTyped
  <1> PICK s, u, m : side' = s /\ tree' = u /\ node' = m
    OBVIOUS
  <1>4. \E rr : Cut(u, Remaining, rr, "delete", m, s, d, work)
    <2>1. CASE NephewsBlack(tree, node, side)
      <3>1. u = Paint(tree, Sibling(tree, node, side), "red") /\ m = tree.parent[node]
        BY <2>1 DEF DeleteRepair
      <3> QED
        BY <1>1, <1>3, <2>1, <3>1, CutClimb
    <2>2. CASE ~ NephewsBlack(tree, node, side)
      <3>1. u = DeleteFixupRotate(FarNephewRed(tree, node, side), node, side) /\ m = u.root
        BY <2>2 DEF DeleteRepair
      <3> QED
        BY <1>1, <1>3, <2>2, <3>1, CutTurn
    <2> QED
      BY <2>1, <2>2
  <1>5. m \in Nodes
    <2>1. PICK rr : Cut(u, Remaining, rr, "delete", m, s, d, work)
      BY <1>4
    <2>2. m \in Remaining \cup {Nil}
      BY <2>1 DEF Cut, Looping
    <2>3. Remaining \subseteq Keys
      BY DEF CutTyped, Remaining
    <2> QED
      BY <2>2, <2>3, KeysAreNodes
  <1>6. CutTyped'
    BY <1>1, <1>5 DEF CutTyped, Side
  <1> QED
    BY <1>1, <1>2, <1>4, <1>6

LEMMA TrimDone ==
  ASSUME CutTyped, NEW r, NEW d, Cut(tree, Remaining, r, pc, node, side, d, work), DeleteDone
  PROVE  CutTyped' /\ \E rr : Cut(tree', Remaining', rr, pc', node', side', d, work')
  <1>1. /\ pc = "delete" /\ pc' = "idle" /\ node' = Nil /\ work' = 0 /\ tree' = tree
        /\ place' = place /\ side' = side /\ inserted' = inserted /\ deleted' = deleted
        /\ node = tree.root \/ tree.color[node] # "black"
    BY DEF DeleteDone, Fixing
  <1>2. Cut(tree, Remaining, r, "idle", Nil, side, d, 0)
    BY <1>1, CutDone
  <1>3. Remaining' = Remaining
    BY <1>1 DEF Remaining
  <1>4. CutTyped'
    BY <1>1, KeysAreNodes DEF CutTyped
  <1> QED
    BY <1>1, <1>2, <1>3, <1>4

(* Every step keeps the invariant.                                         *)
LEMMA TrimNext ==
  ASSUME ~ InsertAfterDelete, FillInv, TrimInv, Next
  PROVE  TrimInv'
  <1>1. deleted \subseteq Keys
    BY DEF TrimInv
  <1>2. ASSUME NEW k \in Keys, Delete(k) PROVE TrimInv'
    <2>1. CASE deleted = {}
      BY <1>2, <2>1, TrimFirst
    <2>2. CASE deleted # {} /\ Cardinality(deleted) <= 2
      BY <1>2, <2>2, TrimSecond
    <2>3. CASE deleted # {} /\ ~ (Cardinality(deleted) <= 2)
      <3>1. deleted' = deleted \cup {k}
        BY <1>2 DEF Delete
      <3>2. CASE k \in deleted
        <4>1. deleted' = deleted
          BY <3>1, <3>2
        <4> QED
          BY <1>1, <2>3, <4>1 DEF TrimInv
      <3>3. CASE k \notin deleted
        <4>1. /\ Cardinality(deleted) \in Nat /\ Cardinality(deleted') = Cardinality(deleted) + 1
              /\ deleted' \subseteq Keys
          BY <1>1, <3>1, <3>3, DeletedCounts
        <4>2. ~ (Cardinality(deleted') <= 2)
          BY <2>3, <4>1
        <4> QED
          BY <4>1, <4>2 DEF TrimInv
      <3> QED
        BY <3>2, <3>3
    <2> QED
      BY <2>1, <2>2, <2>3
  <1>3. ASSUME Running \/ \E k \in Keys : BeginInsert(k) PROVE TrimInv'
    <2>1. deleted' = deleted
      BY <1>3 DEF Running, Descend, InsertFixup, InsertDone, DeleteFixup, DeleteRepair,
                  DeleteDone, BeginInsert
    <2> SUFFICES ASSUME deleted # {}, Cardinality(deleted) <= 2
                 PROVE  /\ CutTyped'
                        /\ \E r : Cut(tree', Remaining', r, pc', node', side',
                                      Cardinality(deleted), work')
      BY <1>1, <2>1 DEF TrimInv
    <2>2. CutTyped
      BY DEF TrimInv
    <2>3. PICK r : Cut(tree, Remaining, r, pc, node, side, Cardinality(deleted), work)
      BY DEF TrimInv
    <2>4. pc \in {"idle", "delete", "repair"}
      BY <2>3 DEF Cut
    <2>5. ~ (Descend \/ InsertFixup \/ InsertDone)
      BY <2>4 DEF Descend, InsertFixup, InsertDone
    <2>6. \A k \in Keys : ~ BeginInsert(k)
      BY DEF BeginInsert
    <2>7. CASE DeleteFixup
      BY <2>2, <2>3, <2>7, TrimFixup
    <2>8. CASE DeleteRepair
      BY <2>2, <2>3, <2>8, TrimRepair
    <2>9. CASE DeleteDone
      BY <2>2, <2>3, <2>9, TrimDone
    <2> QED
      BY <1>3, <2>5, <2>6, <2>7, <2>8, <2>9 DEF Running
  <1> QED
    BY <1>2, <1>3 DEF Next

LEMMA TrimStutter ==
  ASSUME TrimInv, UNCHANGED vars
  PROVE  TrimInv'
  BY DEF TrimInv, vars, CutTyped, Remaining

LEMMA TrimAlways ==
  ASSUME ~ InsertAfterDelete
  PROVE  Spec => [](FillInv /\ TrimInv)
  <1>1. Init => TrimInv
    BY DEF Init, TrimInv
  <1>2. FillInv /\ TrimInv /\ [Next]_vars => TrimInv'
    BY TrimNext, TrimStutter
  <1> QED
    BY <1>1, <1>2, FillAlways, PTL DEF Spec


-----------------------------------------------------------------------------
(* The first two deletions.                                                *)

(* What this means to the users of the tree.                               *)
LEMMA TrimMeaning ==
  ASSUME CutTyped, deleted # {}, NEW r, NEW d,
         Cut(tree, Remaining, r, pc, node, side, d, work)
  PROVE  Found(tree) = Remaining /\ NothingLost /\ WellFormed /\ WorkBounded
  <1> DEFINE L == Remaining
  <1>1. Wired(tree, L, r) /\ pc \in {"idle", "delete", "repair"}
    BY DEF Cut
  <1>2. Found(tree) = L
    BY <1>1, FoundLinked
  <1>3. NothingLost
    BY <1>2 DEF NothingLost, Remaining
  <1>4. TypeOK
    <2>1. tree \in Trees
      BY <1>1 DEF Wired
    <2>2. /\ tree.root \in Nodes /\ tree.parent \in [Nodes -> Nodes]
          /\ tree.color \in [Nodes -> {"red", "black"}]
          /\ tree.child \in [Nodes -> [Side -> Nodes]]
      BY <2>1 DEF Trees, Colors
    <2> QED
      BY <1>1, <2>2 DEF TypeOK, CutTyped
  <1>5. WorkBounded
    <2>1. \A n : Cardinality(Above(L, r, n)) \in Nat /\ Cardinality(L) \in Nat
      BY <1>1, WiredSizes
    <2>2. work \in Nat
      BY DEF CutTyped
    <2>3. CASE pc = "idle"
      <3>1. work = 0
        BY <2>3 DEF Cut
      <3>2. work <= 2 * Cardinality(L) + 2
        BY <2>1, <3>1
      <3> QED
        BY <3>2 DEF WorkBounded, Remaining
    <2>4. CASE pc = "delete"
      <3>1. Looping(tree, L, r, node, d, work)
        BY <2>4 DEF Cut
      <3>2. \/ work + Cardinality(Above(L, r, tree.parent[node])) <= Cardinality(L)
            \/ work <= Cardinality(L) + 1
        BY <3>1 DEF Looping
      <3>3. work <= 2 * Cardinality(L) + 2
        BY <2>1, <2>2, <3>2
      <3> QED
        BY <3>3 DEF WorkBounded, Remaining
    <2>5. CASE pc = "repair"
      <3>1. Repairing(tree, L, r, node, side, d, work)
        BY <2>5 DEF Cut
      <3>2. work <= Cardinality(L) + 1
        BY <3>1 DEF Repairing
      <3>3. work <= 2 * Cardinality(L) + 2
        BY <2>1, <2>2, <3>2
      <3> QED
        BY <3>3 DEF WorkBounded, Remaining
    <2> QED
      BY <1>1, <2>3, <2>4, <2>5
  <1> HIDE DEF L
  <1>6. ParentLinks
    <2>1. RootPassed(tree, L, r) /\ ChildrenLinked(tree, L, r)
      BY <1>1 DEF Wired
    <2> QED
      BY <1>2, <2>1 DEF ParentLinks, RootPassed, ChildrenLinked
  <1>7. RedBlack
    BY DEF RedBlack
  <1> QED
    BY <1>2, <1>3, <1>4, <1>5, <1>6, <1>7 DEF WellFormed, L

(* The invariants say what the properties ask.                             *)
LEMMA TrimHolds ==
  FillInv /\ TrimInv /\ Cardinality(deleted) <= 2 => NothingLost /\ WellFormed /\ WorkBounded
  <1> SUFFICES ASSUME FillInv, TrimInv, Cardinality(deleted) <= 2
               PROVE  NothingLost /\ WellFormed /\ WorkBounded
    OBVIOUS
  <1>1. CASE deleted = {}
    BY <1>1, FillHolds
  <1>2. CASE deleted # {}
    <2>1. PICK r : Cut(tree, Remaining, r, pc, node, side, Cardinality(deleted), work)
      BY <1>2 DEF TrimInv
    <2>2. CutTyped
      BY <1>2 DEF TrimInv
    <2> QED
      BY <1>2, <2>1, <2>2, TrimMeaning
  <1> QED
    BY <1>1, <1>2

(* Once a tree has been filled, two keys can be deleted, whichever they    *)
(* are and in either order, and every other key is still found.            *)
THEOREM TrimKeepsAll ==
  ASSUME ~ InsertAfterDelete
  PROVE  Spec => [](Cardinality(deleted) <= 2 => NothingLost)
  BY TrimAlways, TrimHolds, PTL

(* The tree stays linked both ways through rbtree_delete and every         *)
(* iteration of __rbtree_delete_fixup, for two deletions.                  *)
THEOREM TrimWellFormed ==
  ASSUME ~ InsertAfterDelete
  PROVE  Spec => [](Cardinality(deleted) <= 2 => WellFormed)
  BY TrimAlways, TrimHolds, PTL

(* Neither deletion's fixup runs for ever: it climbs at most once for      *)
(* every key left in the tree.                                             *)
THEOREM TrimWorkBounded ==
  ASSUME ~ InsertAfterDelete
  PROVE  Spec => [](Cardinality(deleted) <= 2 => WorkBounded)
  BY TrimAlways, TrimHolds, PTL

(* As many deletions as a tree is sure to bear.                            *)
AtMostTwo == Cardinality(deleted) <= 2

(* A deletion takes one key out of what a search finds; the fixup changes  *)
(* nothing of it.                                                          *)
LEMMA TrimStep ==
  ASSUME ~ InsertAfterDelete, FillInv, FillInv', TrimInv, TrimInv',
         AtMostTwo, AtMostTwo', [Next]_vars
  PROVE  [Map!Next]_(Found(tree))
  <1>1. CASE deleted' = {}
    <2>1. deleted \subseteq deleted'
      BY DEF Next, Running, Descend, InsertFixup, InsertDone, DeleteFixup, DeleteRepair,
             DeleteDone, BeginInsert, Delete, vars
    <2> QED
      BY <1>1, <2>1, FillStep
  <1>2. CASE deleted' # {}
    <2>1. Found(tree)' = Remaining'
      <3>1. PICK r : Cut(tree', Remaining', r, pc', node', side', Cardinality(deleted'), work')
        BY <1>2 DEF TrimInv, AtMostTwo
      <3> PICK t, L : tree' = t /\ Remaining' = L
        OBVIOUS
      <3>2. Wired(t, L, r)
        BY <3>1 DEF Cut
      <3>3. Found(t) = L
        BY <3>2, FoundLinked
      <3> QED
        BY <3>3 DEF Found
    <2>2. deleted # {} => Found(tree) = Remaining /\ pc \in {"idle", "delete", "repair"}
      <3> SUFFICES ASSUME deleted # {}
                   PROVE  Found(tree) = Remaining /\ pc \in {"idle", "delete", "repair"}
        OBVIOUS
      <3>1. PICK r : Cut(tree, Remaining, r, pc, node, side, Cardinality(deleted), work)
        BY DEF TrimInv, AtMostTwo
      <3> QED
        BY <3>1, FoundLinked DEF Cut
    <2>3. ASSUME NEW k \in Keys, Delete(k) PROVE Map!Delete(k)
      <3>1. pc = "idle" /\ deleted' = deleted \cup {k} /\ inserted' = inserted
        BY <2>3 DEF Delete
      <3>2. deleted = {} => Found(tree) = Remaining
        <4> SUFFICES ASSUME deleted = {} PROVE Found(tree) = Remaining
          OBVIOUS
        <4>1. PICK r, h : Filling(r, h)
          BY DEF FillInv
        <4>2. Found(tree) = Linked
          BY <4>1, FoundLinked, ShapeWired DEF Filling
        <4> QED
          BY <3>1, <4>2 DEF Linked, Remaining
      <3>3. Remaining' = Remaining \ {k}
        BY <3>1 DEF Remaining
      <3> QED
        BY <2>1, <2>2, <3>2, <3>3 DEF Map!Delete
    <2>4. ASSUME UNCHANGED vars \/ Running \/ \E k \in Keys : BeginInsert(k)
          PROVE  Found(tree)' = Found(tree)
      <3>1. deleted' = deleted
        BY <2>4 DEF Running, Descend, InsertFixup, InsertDone, DeleteFixup, DeleteRepair,
                    DeleteDone, BeginInsert, vars
      <3>2. \A k \in Keys : ~ BeginInsert(k)
        BY <1>2, <3>1 DEF BeginInsert
      <3>3. inserted' = inserted
        BY <2>4, <3>2 DEF Running, Descend, InsertFixup, InsertDone, DeleteFixup, DeleteRepair,
                          DeleteDone, vars
      <3>4. Remaining' = Remaining
        BY <3>1, <3>3 DEF Remaining
      <3> QED
        BY <1>2, <2>1, <2>2, <3>1, <3>4
    <2> QED
      BY <2>3, <2>4 DEF Next, Map!Next
  <1> QED
    BY <1>1, <1>2

(* The bound on the deletions.                                             *)
LEMMA DeletedAtMost ==
  ASSUME ~ InsertAfterDelete, MaxDeletions <= 2
  PROVE  Spec => []AtMostTwo
  <1> DEFINE Few == Cardinality(deleted) \in Nat /\ Cardinality(deleted) <= MaxDeletions
  <1>1. MaxDeletions \in Nat
    BY PhaseAssumption
  <1>2. Init => Few
    BY <1>1, FS_EmptySet DEF Init
  <1>3. Few /\ TrimInv /\ [Next]_vars => Few'
    <2> SUFFICES ASSUME Few, TrimInv, [Next]_vars PROVE Few'
      OBVIOUS
    <2>1. ASSUME NEW k \in Keys, Delete(k) PROVE Few'
      <3>1. /\ deleted' = deleted \cup {k} /\ Cardinality(deleted) < MaxDeletions
            /\ deleted \subseteq Keys
        BY <2>1 DEF Delete, TrimInv
      <3>2. CASE k \in deleted
        <4>1. deleted' = deleted
          BY <3>1, <3>2
        <4> QED
          BY <4>1
      <3>3. CASE k \notin deleted
        <4>1. Cardinality(deleted') = Cardinality(deleted) + 1
          BY <3>1, <3>3, DeletedCounts
        <4> QED
          BY <1>1, <3>1, <4>1
      <3> QED
        BY <3>2, <3>3
    <2>2. ASSUME UNCHANGED vars \/ Running \/ \E k \in Keys : BeginInsert(k) PROVE Few'
      <3>1. deleted' = deleted
        BY <2>2 DEF Running, Descend, InsertFixup, InsertDone, DeleteFixup, DeleteRepair,
                    DeleteDone, BeginInsert, vars
      <3> QED
        BY <3>1
    <2> QED
      BY <2>1, <2>2 DEF Next
  <1>4. Few => AtMostTwo
    BY <1>1 DEF AtMostTwo
  <1> HIDE DEF Few
  <1> QED
    BY <1>2, <1>3, <1>4, TrimAlways, PTL DEF Spec

(* To its users a tree that is filled and then trimmed of two keys is a    *)
(* set: rbtree_delete takes one key out of it before the fixup begins, and *)
(* no iteration of the fixup takes out or brings back any.                 *)
THEOREM TrimIsDictionary ==
  ASSUME ~ InsertAfterDelete, MaxDeletions <= 2
  PROVE  Spec => ImplementsDictionary
  <1>1. FillInv /\ Init => Map!Init
    <2> SUFFICES ASSUME FillInv, Init PROVE Found(tree) = {}
      BY DEF Map!Init
    <2>1. PICK r, h : Filling(r, h)
      BY DEF FillInv, Init
    <2> QED
      BY <2>1, FoundLinked, ShapeWired DEF Filling, Linked, Init
  <1>2. FillInv /\ FillInv' /\ TrimInv /\ TrimInv' /\ AtMostTwo /\ AtMostTwo' /\ [Next]_vars
          => [Map!Next]_(Found(tree))
    BY TrimStep
  <1> QED
    BY <1>1, <1>2, TrimAlways, DeletedAtMost, PTL DEF Spec, ImplementsDictionary, Map!Spec
=============================================================================
