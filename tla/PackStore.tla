------------------------------- MODULE PackStore -------------------------------
(***************************************************************************)
(* The buffers of packets, wire/pack_store.c: pack_malloc leaves room for  *)
(* a header in front of the payload and returns where the payload begins;  *)
(* a search tree remembers how much room, so that pack_free finds the      *)
(* beginning of the block again.                                           *)
(***************************************************************************)
EXTENDS Integers, Functions, TreeWear

CONSTANT Bases   \* where malloc may place a block

ASSUME BasesAssumption == Bases \subseteq Nat

VARIABLES
  heap,   \* the blocks malloc gave and free did not take back: base to size
  store,  \* __pack_obj_store: pointer to the payload to header_size
  wear,   \* history variable: the wear of the store's tree
  astray  \* the process followed a link of the tree to a freed node

storeVars == <<heap, store, wear, astray>>

StoreInit ==
  /\ heap = << >>
  /\ store = << >>
  /\ wear = 0
  /\ astray = FALSE

(* malloc gives no memory twice.                                           *)
Apart(base, size) ==
  \A other \in DOMAIN heap :
    base + size < other \/ other + heap[other] < base

(* The nodes of the tree are freed, but the sentinel, and through it a     *)
(* worn tree, still points at them: a search or a fixup that follows such  *)
(* a link reads and writes freed memory.  What the process does then is    *)
(* undefined and is not followed.                                          *)
GoAstray(w) ==
  /\ w = Worn
  /\ wear' = w
  /\ astray' = TRUE
  /\ UNCHANGED <<heap, store>>

(* pack_malloc at base.  Where malloc fails it returns NULL and changes    *)
(* nothing.                                                                *)
PackMalloc(base, header_size, size) ==
  /\ ~ astray
  /\ Apart(base, header_size + size)
  /\ \/ /\ heap' = [b \in DOMAIN heap \cup {base} |->
                      IF b = base THEN header_size + size ELSE heap[b]]
        /\ store' = [p \in DOMAIN store \cup {base + header_size} |->
                       IF p = base + header_size THEN header_size ELSE store[p]]
        /\ wear' = AfterInsert(wear)
        /\ UNCHANGED astray
     \/ GoAstray(AfterInsert(wear))

(* Mutant of FreeObject: the block is taken to begin at the payload.       *)
FreeAtPayload(ptr) ==
  /\ heap' = Restrict(heap, DOMAIN heap \ {ptr})
  /\ store' = Restrict(store, DOMAIN store \ {ptr})

(* The block and the object of ptr are freed.                              *)
FreeObject(ptr) ==
  /\ heap' = Restrict(heap, DOMAIN heap \ {ptr - store[ptr]})
  /\ store' = Restrict(store, DOMAIN store \ {ptr})

(* pack_free: the search finds the object; or it does not, because ptr was *)
(* never given or is free already, or because a worn tree has lost the     *)
(* node.                                                                   *)
PackFree(ptr) ==
  \/ /\ ~ astray /\ ptr \in DOMAIN store
     /\ \/ FreeObject(ptr) /\ wear' = AfterDelete(wear) /\ UNCHANGED astray
        \/ GoAstray(AfterDelete(wear))
  \/ ~ astray /\ GoAstray(wear)
  \/ (ptr \in DOMAIN store => wear = Worn) /\ UNCHANGED storeVars

StoreNext ==
  \/ \E base \in Bases, header_size, size \in Nat : PackMalloc(base, header_size, size)
  \/ \E ptr \in Nat : PackFree(ptr)

StoreSpec == StoreInit /\ [][StoreNext]_storeVars

-----------------------------------------------------------------------------
(* Every object of the store names the beginning of a block that is still  *)
(* allocated, and every block has its object: pack_free never frees an     *)
(* address that malloc did not give, never one twice, and forgets none.    *)
(* That is so until the tree is worn, and then for as long as the process  *)
(* has not followed a link to a freed node; from then on the code promises *)
(* nothing.                                                                *)
StoreMatchesHeap ==
  wear # Worn \/ ~ astray =>
    /\ {ptr - store[ptr] : ptr \in DOMAIN store} = DOMAIN heap
    /\ \A p, q \in DOMAIN store : p - store[p] = q - store[q] => p = q
=============================================================================
