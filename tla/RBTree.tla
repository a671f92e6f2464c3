-------------------------------- MODULE RBTree --------------------------------
(***************************************************************************)
(* The intrusive red-black tree of util/rbtree.c under the insertion loop  *)
(* its users write around it (sent_packet_history.c, pack_store.c and      *)
(* handshake/version_negotiation.c share it).  A tree is a record of its   *)
(* root and, for every node and for the shared sentinel Nil, a colour, a   *)
(* parent and two children: the sentinel is a node whose fields the code   *)
(* reads and writes like any other's.  One action is one comparison or one *)
(* iteration, or half of one, of a fixup loop, so that a loop that never   *)
(* ends is seen.                                                           *)
(***************************************************************************)
EXTENDS Naturals, FiniteSets

CONSTANTS
  Keys,               \* keys, each inserted at most once; a key names its node
  InsertAfterDelete,  \* whether insertions may follow deletions
  MaxDeletions        \* Bound: how often rbtree_delete is called

Nil == 0
Nodes == Keys \cup {Nil}

ASSUME KeysAssumption == Keys \subseteq Nat \ {Nil} /\ IsFiniteSet(Keys)
ASSUME PhaseAssumption == InsertAfterDelete \in BOOLEAN /\ MaxDeletions \in Nat

VARIABLES
  tree,     \* struct rbroot and the nodes it links
  pc,       \* what is running: "idle", "descend", "insert", "delete", "repair"
  node,     \* the node that operation is about
  place,    \* the parent whose child pointer the descent looks at
  side,     \* the branch of __rbtree_delete_fixup an iteration is in
  work,     \* history variable: steps of the running operation
  inserted, \* history variable: keys inserted
  deleted   \* history variable: keys deleted

vars == <<tree, pc, node, place, side, work, inserted, deleted>>

Side == {"left", "right"}
Other(s) == IF s = "left" THEN "right" ELSE "left"
Before(k, l) == IF k < l THEN "left" ELSE "right"

(* Mutant of Empty: the sentinel is painted red.                           *)
EmptyRed ==
  [root |-> Nil,
   color |-> [n \in Nodes |-> "red"],
   parent |-> [n \in Nodes |-> Nil],
   child |-> [n \in Nodes |-> [s \in Side |-> Nil]]]

(* rbtree_root_init and rbtree_node_init                                   *)
Empty ==
  [root |-> Nil,
   color |-> [n \in Nodes |-> IF n = Nil THEN "black" ELSE "red"],
   parent |-> [n \in Nodes |-> Nil],
   child |-> [n \in Nodes |-> [s \in Side |-> Nil]]]

-----------------------------------------------------------------------------
(* Assignments to one field of one node.                                   *)
Paint(t, n, c) == [t EXCEPT !.color[n] = c]
SetChild(t, n, s, c) == [t EXCEPT !.child[n][s] = c]
SetParent(t, n, p) == [t EXCEPT !.parent[n] = p]

(* The side of its parent on which the code finds n.                       *)
SideOf(t, n) == IF n = t.child[t.parent[n]].left THEN "left" ELSE "right"

(* v takes the place of n below n's parent, or at the root.                *)
Replace(t, n, v) ==
  IF t.parent[n] = Nil THEN [t EXCEPT !.root = v]
  ELSE SetChild(t, t.parent[n], SideOf(t, n), v)

(* Mutant of Rotate: the moved subtree keeps its old parent.               *)
RotateOrphan(t, s, n) ==
  LET up == t.child[n][Other(s)]
      t1 == SetChild(t, n, Other(s), t.child[up][s])
      t3 == SetParent(t1, up, t1.parent[n])
      t4 == Replace(t3, n, up)
  IN SetParent(SetChild(t4, up, s, n), n, up)

(* __rbtree_left_rotate and __rbtree_right_rotate: n moves down to side s. *)
Rotate(t, s, n) ==
  LET up == t.child[n][Other(s)]
      t1 == SetChild(t, n, Other(s), t.child[up][s])
      t2 == IF t1.child[up][s] # Nil THEN SetParent(t1, t1.child[up][s], n) ELSE t1
      t3 == SetParent(t2, up, t2.parent[n])
      t4 == Replace(t3, n, up)
  IN SetParent(SetChild(t4, up, s, n), n, up)

(* The recoloring half of rbtree_fixup: a red uncle.                       *)
FixupRecolor(t, n) ==
  LET p == t.parent[n]
      g == t.parent[p]
      uncle == t.child[g][Other(SideOf(t, p))]
  IN [t |-> Paint(Paint(Paint(t, p, "black"), uncle, "black"), g, "red"), n |-> g]

(* The rotating half: a black uncle.                                       *)
FixupRotate(t, n) ==
  LET p == t.parent[n]
      s == SideOf(t, p)
      inner == n = t.child[p][Other(s)]
      n2 == IF inner THEN p ELSE n
      t2 == IF inner THEN Rotate(t, s, p) ELSE t
      p2 == t2.parent[n2]
      g2 == t2.parent[p2]
  IN [t |-> Rotate(Paint(Paint(t2, p2, "black"), g2, "red"), Other(s), g2), n |-> n2]

UncleRed(t, n) ==
  LET p == t.parent[n]
  IN t.color[t.child[t.parent[p]][Other(SideOf(t, p))]] = "red"

(* One iteration of rbtree_fixup's loop.                                   *)
FixupStep(t, n) == IF UncleRed(t, n) THEN FixupRecolor(t, n) ELSE FixupRotate(t, n)

-----------------------------------------------------------------------------
(* __rbtree_transplant: v's parent is set even when v is the sentinel.     *)
Transplant(t, u, v) == LET t1 == Replace(t, u, v) IN SetParent(t1, v, t1.parent[u])

(* __rbtree_minimum                                                        *)
Minimum(t, n) ==
  LET down[i \in 0 .. Cardinality(Keys)] ==
        IF i = 0 THEN n
        ELSE LET m == down[i - 1]
             IN IF t.child[m].left = Nil THEN m ELSE t.child[m].left
  IN down[Cardinality(Keys)]

(* rbtree_delete up to the fixup: the new tree, the node to fix up from,   *)
(* and the colour that was taken out.                                      *)
UnlinkOuter(t, n, s) ==
  [t |-> Transplant(t, n, t.child[n][s]), n |-> t.child[n][s], c |-> t.color[n]]

(* Mutant of UnlinkInner: the successor's own child is forgotten.          *)
UnlinkInnerDrop(t, n) ==
  LET origin == Minimum(t, t.child[n].right)
      child == t.child[origin].right
      t1 == IF t.parent[origin] = n
            THEN SetParent(t, child, origin)
            ELSE SetChild(t, origin, "right", t.child[n].right)
      t2 == SetParent(t1, t1.child[origin].right, origin)
      t3 == SetChild(Transplant(t2, n, origin), origin, "left", t2.child[n].left)
  IN [t |-> Paint(SetParent(t3, t3.child[origin].left, origin), origin, t.color[n]),
      n |-> child, c |-> t.color[origin]]

UnlinkInner(t, n) ==
  LET origin == Minimum(t, t.child[n].right)
      child == t.child[origin].right
      lifted == SetChild(Transplant(t, origin, child), origin, "right", t.child[n].right)
      t1 == IF t.parent[origin] = n
            THEN SetParent(t, child, origin)
            ELSE SetParent(lifted, lifted.child[origin].right, origin)
      t2 == Transplant(t1, n, origin)
      t3 == SetChild(t2, origin, "left", t2.child[n].left)
  IN [t |-> Paint(SetParent(t3, t3.child[origin].left, origin), origin, t3.color[n]),
      n |-> child, c |-> t.color[origin]]

(* Mutant of Unlink: a node with two children is treated as having one.    *)
UnlinkOneChild(t, n) ==
  IF t.child[n].left = Nil THEN UnlinkOuter(t, n, "right")
  ELSE UnlinkOuter(t, n, "left")

Unlink(t, n) ==
  IF t.child[n].left = Nil THEN UnlinkOuter(t, n, "right")
  ELSE IF t.child[n].right = Nil THEN UnlinkOuter(t, n, "left")
  ELSE UnlinkInner(t, n)

(* __rbtree_delete_fixup: a red sibling is first rotated away.             *)
SiblingBlack(t, n) ==
  LET p == t.parent[n]
      s == SideOf(t, n)
      bro == t.child[p][Other(s)]
  IN IF t.color[bro] = "red"
     THEN Rotate(Paint(Paint(t, bro, "black"), p, "red"), s, p)
     ELSE t

(* The rest of an iteration, on a black sibling's children; s is the side  *)
(* of n that the code chose before it rotated.                             *)
Sibling(t, n, s) == t.child[t.parent[n]][Other(s)]

NephewsBlack(t, n, s) == \A d \in Side : t.color[t.child[Sibling(t, n, s)][d]] = "black"

(* A nephew that is red on the near side only is rotated outwards.         *)
FarNephewRed(t, n, s) ==
  LET o == Other(s)
      bro == Sibling(t, n, s)
  IN IF t.color[t.child[bro][o]] = "black"
     THEN Rotate(Paint(Paint(t, t.child[bro][s], "black"), bro, "red"), o, bro)
     ELSE t

(* The sibling takes the parent's place and colour.                        *)
DeleteFixupRotate(t, n, s) ==
  LET p == t.parent[n]
      bro == Sibling(t, n, s)
      t1 == Paint(Paint(t, bro, t.color[p]), p, "black")
  IN Rotate(Paint(t1, t.child[bro][Other(s)], "black"), s, p)

-----------------------------------------------------------------------------
Init ==
  /\ tree = Empty
  /\ pc = "idle"
  /\ node = Nil
  /\ place = Nil
  /\ side = "left"
  /\ work = 0
  /\ inserted = {}
  /\ deleted = {}

(* Bound: the count of steps stands still above what WorkBounded allows,   *)
(* so that a call that never ends is a cycle of states.                    *)
Works == work' = IF work > 2 * Cardinality(Keys) + 2 THEN work ELSE work + 1

(* A caller begins to insert a fresh node.                                 *)
BeginInsert(k) ==
  /\ pc = "idle"
  /\ k \notin inserted
  /\ InsertAfterDelete \/ deleted = {}
  /\ inserted' = inserted \cup {k}
  /\ node' = k
  /\ IF tree.root = Nil
     THEN /\ tree' = [tree EXCEPT !.root = k]
          /\ pc' = "insert"
          /\ place' = Nil
     ELSE /\ pc' = "descend"
          /\ place' = tree.root
          /\ UNCHANGED tree
  /\ UNCHANGED <<side, work, deleted>>

(* The descent compares, goes on to a child, or links the node where it    *)
(* found the sentinel (rbtree_link).                                       *)
Descend ==
  LET s == Before(node, place)
      next == tree.child[place][s]
  IN /\ pc = "descend"
     /\ IF next # Nil
        THEN place' = next /\ UNCHANGED <<tree, pc>>
        ELSE /\ tree' = SetChild(SetParent(tree, node, place), place, s, node)
             /\ pc' = "insert"
             /\ place' = Nil
     /\ Works
     /\ UNCHANGED <<node, side, inserted, deleted>>

(* rbtree_fixup: an iteration while the parent is red, then the root is    *)
(* painted black.                                                          *)
InsertFixup ==
  /\ pc = "insert"
  /\ tree.color[tree.parent[node]] = "red"
  /\ LET next == FixupStep(tree, node)
     IN tree' = next.t /\ node' = next.n
  /\ Works
  /\ UNCHANGED <<pc, place, side, inserted, deleted>>

InsertDone ==
  /\ pc = "insert"
  /\ tree.color[tree.parent[node]] # "red"
  /\ tree' = Paint(tree, tree.root, "black")
  /\ pc' = "idle"
  /\ node' = Nil
  /\ work' = 0
  /\ UNCHANGED <<place, side, inserted, deleted>>

(* The nodes a search for k passes, from the root down.                    *)
Passed(t, k) ==
  LET onward(n) == IF n \in {Nil, k} THEN n ELSE t.child[n][Before(k, n)]
      passed[i \in 0 .. Cardinality(Keys)] ==
        IF i = 0 THEN {t.root}
        ELSE UNION {{n, onward(n)} : n \in passed[i - 1]}
  IN passed[Cardinality(Keys)]

(* The keys a search finds: what the tree means to its users.              *)
Found(t) == {k \in Keys : k \in Passed(t, k)}

(* rbtree_delete of a node the caller has found.                           *)
Delete(k) ==
  /\ pc = "idle"
  /\ k \in Found(tree)
  /\ Cardinality(deleted) < MaxDeletions
  /\ LET cut == Unlink(tree, k)
     IN /\ tree' = cut.t
        /\ IF cut.c = "black"
           THEN pc' = "delete" /\ node' = cut.n
           ELSE UNCHANGED <<pc, node>>
  /\ deleted' = deleted \cup {k}
  /\ UNCHANGED <<place, side, work, inserted>>

Fixing == node # tree.root /\ tree.color[node] = "black"

(* An iteration chooses its branch and gets rid of a red sibling, then     *)
(* looks at the sibling's children.                                        *)
DeleteFixup ==
  /\ pc = "delete"
  /\ Fixing
  /\ side' = SideOf(tree, node)
  /\ tree' = SiblingBlack(tree, node)
  /\ pc' = "repair"
  /\ Works
  /\ UNCHANGED <<node, place, inserted, deleted>>

DeleteRepair ==
  /\ pc = "repair"
  /\ IF NephewsBlack(tree, node, side)
     THEN /\ tree' = Paint(tree, Sibling(tree, node, side), "red")
          /\ node' = tree.parent[node]
     ELSE /\ \E far \in {FarNephewRed(tree, node, side)} :
               tree' = DeleteFixupRotate(far, node, side)
          /\ node' = tree'.root
  /\ pc' = "delete"
  /\ side' = "left"
  /\ UNCHANGED <<place, work, inserted, deleted>>

(* The loop ends and the node keeps the colour it has.                     *)
DeleteDone ==
  /\ pc = "delete"
  /\ ~ Fixing
  /\ pc' = "idle"
  /\ node' = Nil
  /\ work' = 0
  /\ UNCHANGED <<tree, place, side, inserted, deleted>>

(* What the code does by itself once it is called.                         *)
Running == Descend \/ InsertFixup \/ InsertDone
           \/ DeleteFixup \/ DeleteRepair \/ DeleteDone

Next == Running \/ \E k \in Keys : BeginInsert(k) \/ Delete(k)

Spec == Init /\ [][Next]_vars

(* A call runs on its caller's thread and waits for nothing, so it always  *)
(* goes on.  Nobody is obliged to call.                                    *)
FairSpec == Spec /\ WF_vars(Running)

-----------------------------------------------------------------------------
TypeOK ==
  /\ tree.root \in Nodes
  /\ tree.color \in [Nodes -> {"red", "black"}]
  /\ tree.parent \in [Nodes -> Nodes]
  /\ tree.child \in [Nodes -> [Side -> Nodes]]
  /\ pc \in {"idle", "descend", "insert", "delete", "repair"}
  /\ node \in Nodes
  /\ place \in Nodes
  /\ side \in Side
  /\ deleted \subseteq inserted

(* Between calls the tree finds what was inserted and not deleted.         *)
NothingLost == pc = "idle" => Found(tree) = inserted \ deleted

(* Between calls a search finds no key that was deleted, as rbtree_delete  *)
(* says of the node it is given: the user may have freed that node since.  *)
DeletedStayGone == pc = "idle" => Found(tree) \cap deleted = {}

Map == INSTANCE Dictionary WITH keys <- Found(tree)
ImplementsDictionary == Map!Spec

(* Every linked node is its parent's child, so that rotations and          *)
(* transplants starting from parent pointers find their way.               *)
ParentLinks ==
  /\ tree.root # Nil => tree.parent[tree.root] = Nil
  /\ \A n \in Found(tree), s \in Side :
       tree.child[n][s] # Nil => tree.parent[tree.child[n][s]] = n

(* The black nodes a search for n passes, n included.                      *)
BlackTo(n) == Cardinality({m \in Passed(tree, n) \ {Nil} : tree.color[m] = "black"})

Open(n) == \E s \in Side : tree.child[n][s] = Nil

(* Between calls, while nothing was deleted, no red node has a red child,  *)
(* the root is black, and every path down to a missing child passes as     *)
(* many black nodes: rbtree_fixup repairs whatever an insertion upset.     *)
RedBlack ==
  pc = "idle" /\ deleted = {} =>
    /\ tree.color[tree.root] = "black"
    /\ \A n \in Found(tree), s \in Side :
         tree.color[n] = "red" => tree.color[tree.child[n][s]] = "black"
    /\ Cardinality({BlackTo(n) : n \in {m \in Found(tree) : Open(m)}}) <= 1

(* Parent pointers and colours are right when a call starts to rely on     *)
(* them: the tree is linked both ways throughout, and balanced as long as  *)
(* only insertions have touched it.                                        *)
WellFormed == TypeOK /\ ParentLinks /\ RedBlack

(* Every call returns, and soon: an insertion compares and fixes up, and a *)
(* deletion fixes up, at most once for every key in the tree.              *)
WorkBounded == work <= 2 * Cardinality(inserted \ deleted) + 2

(* Every call returns, and the tree it leaves behind finds exactly what    *)
(* was inserted and not deleted: no descent and no fixup goes round in the *)
(* tree for ever.                                                          *)
CallsReturn == pc # "idle" ~> (pc = "idle" /\ Found(tree) = inserted \ deleted)
=============================================================================
