------------------------ MODULE MemoryAllocatorProofs ------------------------
(***************************************************************************)
(* The allocator's invariants for any set of tensors with any sizes, any   *)
(* alignment, any size of the pool and each of the three schemes.          *)
(***************************************************************************)
EXTENDS MemoryAllocator, StructureProofs

USE PoolAssumption, AllocatorAssumption

-----------------------------------------------------------------------------
(* Which tensors use which block, before and after each operation. *)

LEMMA UsersFinite ==
  ASSUME TypeOK, NEW r \in Tensors
  PROVE  IsFiniteSet(Users(r)) /\ Users(r) \in SUBSET Tensors
<1>1. Users(r) \in SUBSET Tensors
  BY DEF TypeOK, Users, InUse
<1>2. QED
  BY <1>1, FS_Subset

LEMMA UsersOfRoots ==
  ASSUME TypeOK, RootsAreFlat
  PROVE  /\ \A t \in InUse : RootOf(t) \in Owners
         /\ \A r \in Owners : r \in allocated /\ root[r] = None /\ RootOf(r) = r
         /\ \A t \in Tensors \ allocated : RootOf(t) = t /\ Users(t) = {}
         /\ \A t \in allocated : RootOf(t) \in allocated /\ root[RootOf(t)] = None
<1>1. \A t \in Tensors \ allocated : RootOf(t) = t
  BY DEF TypeOK, RootsAreFlat, RootOf
<1>2. \A t \in allocated : /\ RootOf(t) \in allocated /\ root[RootOf(t)] = None
                           /\ RootOf(t) \in Tensors
  BY DEF TypeOK, RootsAreFlat, RootOf
<1>3. \A t \in InUse : t \in allocated /\ t \in Users(RootOf(t))
  BY DEF TypeOK, Users, InUse
<1>4. \A r \in Owners : \E t \in InUse : RootOf(t) = r
  BY DEF Owners, Users
<1>5. QED
  BY <1>1, <1>2, <1>3, <1>4 DEF Owners, Users, InUse, RootOf

(* A tensor that gets a block of its own is the only user of it. *)
LEMMA UsersOfNewBlock ==
  ASSUME TypeOK, RootsAreFlat, NEW t \in Tensors, t \notin allocated,
         allocated' = allocated \cup {t}, root' = root, freed' = freed
  PROVE  /\ \A r \in Tensors : Users(r)' = IF r = t THEN {t} ELSE Users(r)
         /\ Owners' = Owners \cup {t} /\ t \notin Owners
<1>1. \A u \in Tensors : RootOf(u)' = RootOf(u)
  BY DEF RootOf
<1>2. InUse' = InUse \cup {t} /\ t \notin InUse
  BY DEF InUse, TypeOK
<1>3. RootOf(t) = t /\ Users(t) = {} /\ InUse \subseteq Tensors
  BY UsersOfRoots DEF InUse, TypeOK
<1>4. \A r \in Tensors : Users(r)' = IF r = t THEN {t} ELSE Users(r)
  BY <1>1, <1>2, <1>3 DEF Users
<1>5. QED
  BY <1>3, <1>4 DEF Owners

(* A tensor that refers to another one joins the users of its root. *)
LEMMA UsersOfSharedBlock ==
  ASSUME TypeOK, RootsAreFlat, NEW t \in Tensors, t \notin allocated,
         NEW parent \in InUse,
         allocated' = allocated \cup {t}, freed' = freed,
         root' = [root EXCEPT ![t] = RootOf(parent)]
  PROVE  /\ \A r \in Tensors : Users(r)' = IF r = RootOf(parent) THEN Users(r) \cup {t}
                                           ELSE Users(r)
         /\ t \notin Users(RootOf(parent)) /\ RootOf(parent) # t
         /\ Owners' = Owners
<1>1. RootOf(parent) \in Owners /\ RootOf(parent) \in allocated /\ RootOf(parent) \in Tensors
  BY UsersOfRoots DEF Owners
<1>2. /\ \A u \in Tensors : u # t => RootOf(u)' = RootOf(u)
      /\ RootOf(t)' = RootOf(parent)
  BY <1>1 DEF RootOf, TypeOK
<1>3. InUse' = InUse \cup {t} /\ t \notin InUse
  BY DEF InUse, TypeOK
<1>4. InUse \subseteq Tensors
  BY DEF InUse, TypeOK
<1>5. \A r \in Tensors : Users(r)' = IF r = RootOf(parent) THEN Users(r) \cup {t}
                                     ELSE Users(r)
  BY <1>2, <1>3, <1>4 DEF Users
<1>6. QED
  BY <1>1, <1>3, <1>5 DEF Owners, Users

(* Freeing a tensor takes it from the users of its root. *)
LEMMA UsersAfterFree ==
  ASSUME TypeOK, RootsAreFlat, NEW t \in InUse,
         allocated' = allocated, freed' = freed \cup {t}, root' = root
  PROVE  /\ \A r \in Tensors : Users(r)' = IF r = RootOf(t) THEN Users(r) \ {t}
                                           ELSE Users(r)
         /\ t \in Users(RootOf(t))
         /\ Owners' \subseteq Owners
         /\ \A r \in Owners : r # RootOf(t) => r \in Owners'
<1>1. \A u \in Tensors : RootOf(u)' = RootOf(u)
  BY DEF RootOf
<1>2. InUse' = InUse \ {t} /\ InUse \subseteq Tensors
  BY DEF InUse, TypeOK
<1>3. \A r \in Tensors : Users(r)' = IF r = RootOf(t) THEN Users(r) \ {t} ELSE Users(r)
  BY <1>1, <1>2 DEF Users
<1>4. QED
  BY <1>3 DEF Owners, Users

-----------------------------------------------------------------------------
(* The chosen node can serve the request. *)
LEMMA ChosenFits ==
  ASSUME NEW size \in Nat PROVE Chosen(size) \subseteq Fitting(nodes, size)
BY DEF Chosen, FirstFit, BestFit

LEMMA InitInv == Init => IInv
<1> SUFFICES ASSUME Init PROVE IInv
  OBVIOUS
<1>1. TypeOK
  BY DEF Init, TypeOK, EmptyPool, Node
<1>2. InUse = {} /\ Owners = {} /\ \A r \in Tensors : Users(r) = {}
  BY DEF Init, InUse, Owners, Users
<1>3. IF scheme = "NO_REUSE" THEN BlocksPileUp ELSE NodesAreBlocks
  BY <1>2, EmptyPoolIsNodeList DEF Init, BlocksPileUp, NodesAreBlocks
<1>4. QED
  BY <1>1, <1>3
     DEF Init, IInv, RootsAreFlat, CountsUsers, InsideRoot, BlocksBelowPeak

-----------------------------------------------------------------------------
(* Each operation preserves the inductive invariant. *)

LEMMA NodeListInv == IInv => IsNodeList(nodes)
BY EmptyPoolIsNodeList DEF IInv, BlocksPileUp, NodesAreBlocks

(* What every allocation of a new block does to the counts and the roots. *)
LEMMA NewBlockCounts ==
  ASSUME IInv, NEW t \in Tensors, t \notin allocated,
         NEW o \in Nat, poolOffset' = [poolOffset EXCEPT ![t] = o],
         allocated' = allocated \cup {t}, UNCHANGED <<root, refCount, freed>>
  PROVE  RootsAreFlat' /\ CountsUsers' /\ InsideRoot'
<1> USE DEF IInv
<1>1. RootOf(t) = t /\ root[t] = None
  BY UsersOfRoots DEF RootsAreFlat
<1>2. RootsAreFlat'
  BY DEF RootsAreFlat
<1>3. CountsUsers'
  <2> SUFFICES ASSUME NEW r \in Tensors
               PROVE  refCount[r] = IF r \in allocated' /\ root[r] = None
                                    THEN Cardinality(Users(r)') ELSE 1
    BY DEF CountsUsers
  <2>1. CASE r = t
    <3>1. Users(t)' = {t} /\ refCount[t] = 1
      BY <1>1, UsersOfNewBlock DEF CountsUsers
    <3>2. QED
      BY <2>1, <3>1, <1>1, FS_Singleton
  <2>2. CASE r # t
    BY <2>2, UsersOfNewBlock DEF CountsUsers
  <2>3. QED
    BY <2>1, <2>2
<1>4. InsideRoot'
  <2> SUFFICES ASSUME NEW u \in allocated'
               PROVE  /\ poolOffset'[u] \in Nat /\ poolOffset'[RootOf(u)] \in Nat
                      /\ poolOffset'[RootOf(u)] <= poolOffset'[u]
                      /\ poolOffset'[u] + Size[u]
                           <= poolOffset'[RootOf(u)] + Size[RootOf(u)]
    BY DEF InsideRoot, RootOf
  <2>1. CASE u = t
    BY <2>1, <1>1 DEF TypeOK
  <2>2. CASE u # t
    <3>1. u \in allocated /\ RootOf(u) \in allocated
      BY <2>2, UsersOfRoots
    <3>2. QED
      BY <2>2, <3>1 DEF InsideRoot, TypeOK
  <2>3. QED
    BY <2>1, <2>2
<1>5. QED
  BY <1>2, <1>3, <1>4

LEMMA TakeNodeInv ==
  ASSUME IInv, NEW t \in Tensors, Allocate(t), scheme # "NO_REUSE"
  PROVE  IInv'
<1> DEFINE size == Align(Size[t])
<1> USE DEF IInv
<1>1. size \in Nat \ {0} /\ Size[t] <= size
  BY AlignCovers
<1>2. PICK o \in Chosen(size) :
        /\ nodes' = Carve(nodes, o, size)
        /\ maxAllocated' = HighWater(o + size)
        /\ poolOffset' = [poolOffset EXCEPT ![t] = o]
  BY DEF Allocate, TakeNode
<1>3. o \in Fitting(nodes, size) /\ o \in Nat
  <2>1. o \in Fitting(nodes, size)
    BY <1>1, <1>2, ChosenFits
  <2>2. QED
    BY <2>1, NodeListInv DEF Fitting, IsNodeList
<1>4. /\ t \notin allocated /\ allocated' = allocated \cup {t}
      /\ UNCHANGED <<scheme, root, refCount, freed, outcome>>
  BY DEF Allocate
<1> HIDE DEF size
<1>5. RootsAreFlat' /\ CountsUsers' /\ InsideRoot'
  BY <1>2, <1>3, <1>4, NewBlockCounts
<1>6. /\ IsNodeList(nodes')
      /\ Taken(nodes') = Taken(nodes) \cup {o} /\ o \notin Taken(nodes)
      /\ nodes'[o].size = size
      /\ \A p \in Taken(nodes) : nodes'[p] = nodes[p]
  BY <1>1, <1>2, <1>3, NodeListInv, CarveTakes
<1>7. TypeOK'
  BY <1>1, <1>2, <1>3, <1>4, <1>6 DEF TypeOK, IsNodeList, HighWater
<1>8. NodesAreBlocks'
  <2>1. Owners' = Owners \cup {t} /\ t \notin Owners /\ Owners \subseteq Tensors
    BY <1>4, UsersOfNewBlock DEF Owners
  <2>2. /\ poolOffset'[t] = o
        /\ \A r \in Owners : poolOffset'[r] = poolOffset[r] /\ poolOffset[r] \in Taken(nodes)
    BY <1>2, <2>1 DEF NodesAreBlocks, TypeOK
  <2>3. \A r \in Owners' : /\ poolOffset'[r] \in Taken(nodes')
                           /\ nodes'[poolOffset'[r]].size = Align(Size[r])
    BY <1>6, <2>1, <2>2 DEF NodesAreBlocks, size
  <2>4. \A r, q \in Owners' : poolOffset'[r] = poolOffset'[q] => r = q
    BY <1>6, <2>1, <2>2 DEF NodesAreBlocks
  <2>5. \A p \in Taken(nodes') : \E r \in Owners' : poolOffset'[r] = p
    BY <1>6, <2>1, <2>2 DEF NodesAreBlocks
  <2>6. QED
    BY <1>6, <2>3, <2>4, <2>5 DEF NodesAreBlocks
<1>9. BlocksBelowPeak'
  <2> SUFFICES ASSUME NEW r \in allocated', root[r] = None
               PROVE  poolOffset'[r] + Align(Size[r]) <= maxAllocated'
    BY <1>4 DEF BlocksBelowPeak
  <2>1. maxAllocated \in Nat /\ maxAllocated <= maxAllocated' /\ o + size <= maxAllocated'
    BY <1>1, <1>2, <1>3 DEF HighWater, TypeOK
  <2>2. CASE r = t
    BY <2>1, <2>2, <1>2 DEF size, TypeOK
  <2>3. CASE r # t
    <3>1. /\ r \in allocated /\ r \in Tensors /\ poolOffset'[r] = poolOffset[r]
          /\ poolOffset[r] \in Nat /\ Align(Size[r]) \in Nat
      BY <2>3, <1>2, <1>4, AlignCovers DEF TypeOK, InsideRoot
    <3>2. QED
      BY <2>1, <3>1, <1>7 DEF BlocksBelowPeak, TypeOK
  <2>4. QED
    BY <2>2, <2>3
<1>10. outcome' \in {"ok", "bad_alloc"}
  BY <1>4
<1>11. QED
  BY <1>4, <1>5, <1>7, <1>8, <1>9, <1>10

LEMMA TakeFreshInv ==
  ASSUME IInv, NEW t \in Tensors, Allocate(t), scheme = "NO_REUSE"
  PROVE  IInv'
<1> DEFINE size == Align(Size[t])
<1> USE DEF IInv
<1>1. size \in Nat \ {0} /\ maxAllocated \in Nat
  BY AlignCovers DEF TypeOK
<1>2. /\ poolOffset' = [poolOffset EXCEPT ![t] = maxAllocated]
      /\ maxAllocated' = maxAllocated + size
      /\ UNCHANGED <<scheme, nodes, root, refCount, freed, outcome>>
      /\ t \notin allocated /\ allocated' = allocated \cup {t}
  BY DEF Allocate, TakeFresh
<1> HIDE DEF size
<1>3. RootsAreFlat' /\ CountsUsers' /\ InsideRoot'
  BY <1>1, <1>2, NewBlockCounts
<1>4. TypeOK'
  BY <1>1, <1>2 DEF TypeOK
<1>5. \A r \in allocated : /\ r # t /\ poolOffset'[r] = poolOffset[r]
                           /\ poolOffset[r] \in Nat /\ Align(Size[r]) \in Nat
  BY <1>2, AlignCovers DEF InsideRoot, TypeOK
<1>6. poolOffset'[t] = maxAllocated
  BY <1>2 DEF TypeOK
<1>7. BlocksPileUp'
  <2>1. /\ Owners' = Owners \cup {t}
        /\ \A r \in Owners : r \in allocated /\ root[r] = None
    BY <1>2, UsersOfNewBlock, UsersOfRoots
  <2>2. \A r \in Owners : poolOffset'[r] + Align(Size[r]) <= poolOffset'[t]
    BY <1>5, <1>6, <2>1 DEF BlocksBelowPeak
  <2>3. QED
    BY <1>2, <1>5, <2>1, <2>2 DEF BlocksPileUp
<1>8. BlocksBelowPeak'
  <2>1. \A r \in allocated :
          root'[r] = None => poolOffset'[r] + Align(Size[r]) <= maxAllocated'
    BY <1>1, <1>2, <1>5 DEF BlocksBelowPeak
  <2>2. poolOffset'[t] + Align(Size[t]) <= maxAllocated'
    BY <1>1, <1>2, <1>6 DEF size
  <2>3. QED
    BY <1>2, <2>1, <2>2 DEF BlocksBelowPeak
<1>9. QED
  BY <1>2, <1>3, <1>4, <1>7, <1>8

LEMMA AllocateFailsInv ==
  ASSUME IInv, NEW t \in Tensors, AllocateFails(t)
  PROVE  IInv'
<1>1. /\ UNCHANGED <<scheme, nodes, maxAllocated, poolOffset, root, refCount, allocated, freed>>
      /\ outcome' = "bad_alloc" /\ scheme # "NO_REUSE"
  BY DEF AllocateFails
<1>2. TypeOK' /\ RootsAreFlat' /\ CountsUsers' /\ InsideRoot' /\ BlocksBelowPeak'
  BY <1>1 DEF IInv, TypeOK, RootsAreFlat, CountsUsers, InsideRoot, BlocksBelowPeak,
              Users, InUse, RootOf
<1>3. NodesAreBlocks'
  BY <1>1 DEF IInv, NodesAreBlocks, Owners, Users, InUse, RootOf
<1>4. QED
  BY <1>1, <1>2, <1>3 DEF IInv

LEMMA AllocateRefInv ==
  ASSUME IInv, NEW t \in Tensors, NEW parent \in Tensors, AllocateRef(t, parent)
  PROVE  IInv'
<1> USE DEF IInv
<1>a. PICK r \in Tensors : r = RootOf(parent)
  BY UsersOfRoots DEF AllocateRef, Owners
<1>1. /\ t \notin allocated /\ allocated' = allocated \cup {t}
      /\ parent \in InUse /\ parent \in allocated
      /\ root' = [root EXCEPT ![t] = r]
      /\ refCount' = [refCount EXCEPT ![r] = refCount[r] + 1]
      /\ outcome' = IF root[r] = None /\ refCount[r] + 1 > 1 THEN "ok" ELSE "check"
      /\ UNCHANGED <<scheme, nodes, maxAllocated, freed>>
  BY <1>a DEF AllocateRef, Ref, InUse
<1>2. PICK delta \in 0 .. Size[parent] :
        /\ delta + Size[t] <= Size[parent]
        /\ poolOffset' = [poolOffset EXCEPT ![t] = poolOffset[parent] + delta]
  BY DEF AllocateRef
<1>3. /\ r \in Owners /\ r \in allocated /\ r \in Tensors /\ root[r] = None /\ r # t
      /\ root[t] = None
  BY <1>a, <1>1, UsersOfRoots DEF Owners, RootsAreFlat
<1>4. /\ \A q \in Tensors : Users(q)' = IF q = r THEN Users(q) \cup {t} ELSE Users(q)
      /\ t \notin Users(r) /\ Owners' = Owners
  BY <1>a, <1>1, UsersOfSharedBlock
<1>5. refCount[r] = Cardinality(Users(r)) /\ refCount[r] \in Nat /\ refCount[r] > 0
  <2>1. Users(r) # {} /\ IsFiniteSet(Users(r))
    BY <1>3, UsersFinite DEF Owners
  <2>2. QED
    BY <1>3, <2>1, FS_EmptySet DEF CountsUsers, TypeOK
<1>6. outcome' = "ok"
  BY <1>1, <1>3, <1>5
<1>7. poolOffset[parent] \in Nat /\ poolOffset[parent] + delta \in Nat
  BY <1>1 DEF InsideRoot
<1>8. TypeOK'
  BY <1>1, <1>2, <1>3, <1>5, <1>6, <1>7 DEF TypeOK
<1>9. RootsAreFlat'
  BY <1>1, <1>3 DEF RootsAreFlat, TypeOK
<1>10. CountsUsers'
  <2> SUFFICES ASSUME NEW q \in Tensors
               PROVE  refCount'[q] = IF q \in allocated' /\ root'[q] = None
                                     THEN Cardinality(Users(q)') ELSE 1
    BY DEF CountsUsers
  <2>1. CASE q = r
    <3>1. Cardinality(Users(r)') = Cardinality(Users(r)) + 1
      BY <1>3, <1>4, UsersFinite, FS_AddElement, ZenonT(60)
    <3>2. QED
      BY <2>1, <3>1, <1>1, <1>3, <1>5 DEF TypeOK
  <2>2. CASE q = t
    BY <2>2, <1>1, <1>3 DEF CountsUsers, TypeOK
  <2>3. CASE q # r /\ q # t
    BY <2>3, <1>1, <1>4 DEF CountsUsers, TypeOK
  <2>4. QED
    BY <2>1, <2>2, <2>3
<1>11. \A u \in allocated : /\ u # t /\ RootOf(u)' = RootOf(u) /\ RootOf(u) \in allocated
                            /\ poolOffset'[u] = poolOffset[u]
  BY <1>1, <1>2, UsersOfRoots DEF RootOf, TypeOK
<1>12. InsideRoot'
  <2>1. /\ RootOf(t)' = r /\ poolOffset'[r] = poolOffset[r]
        /\ poolOffset'[t] = poolOffset[parent] + delta
    BY <1>1, <1>2, <1>3 DEF RootOf, TypeOK
  <2>2. /\ poolOffset[r] \in Nat /\ poolOffset[r] <= poolOffset[parent]
        /\ poolOffset[parent] + Size[parent] <= poolOffset[r] + Size[r]
    BY <1>a, <1>1 DEF InsideRoot
  <2>3. Size[parent] \in Nat /\ Size[t] \in Nat /\ Size[r] \in Nat
    BY <1>3
  <2>4. /\ poolOffset'[t] \in Nat /\ poolOffset'[r] \in Nat
        /\ poolOffset'[r] <= poolOffset'[t]
        /\ poolOffset'[t] + Size[t] <= poolOffset'[r] + Size[r]
    BY <1>2, <1>7, <2>1, <2>2, <2>3
  <2>5. \A u \in allocated :
          /\ poolOffset'[u] \in Nat /\ poolOffset'[RootOf(u)'] \in Nat
          /\ poolOffset'[RootOf(u)'] <= poolOffset'[u]
          /\ poolOffset'[u] + Size[u] <= poolOffset'[RootOf(u)'] + Size[RootOf(u)']
    BY <1>11 DEF InsideRoot
  <2>6. QED
    BY <1>1, <2>1, <2>4, <2>5 DEF InsideRoot
<1>13. \A q \in Owners : poolOffset'[q] = poolOffset[q]
  BY <1>11, UsersOfRoots
<1>14. IF scheme = "NO_REUSE" THEN BlocksPileUp' ELSE NodesAreBlocks'
  BY <1>1, <1>4, <1>13 DEF BlocksPileUp, NodesAreBlocks
<1>15. BlocksBelowPeak'
  <2>1. root'[t] # None
    BY <1>1, <1>3 DEF TypeOK
  <2>2. \A u \in allocated : root'[u] = root[u]
    BY <1>1 DEF TypeOK
  <2>3. QED
    BY <1>1, <1>11, <2>1, <2>2 DEF BlocksBelowPeak
<1>16. QED
  BY <1>1, <1>6, <1>8, <1>9, <1>10, <1>12, <1>14, <1>15

LEMMA FreeInv ==
  ASSUME IInv, NEW t \in Tensors, Free(t)
  PROVE  IInv'
<1> USE DEF IInv
<1>a. PICK r \in Tensors : r = RootOf(t)
  BY UsersOfRoots DEF Free, Owners
<1> DEFINE last == refCount[r] = 1
<1>1. /\ t \in InUse /\ freed' = freed \cup {t} /\ scheme # "NO_REUSE"
      /\ UNCHANGED <<scheme, maxAllocated, poolOffset, root, allocated>>
      /\ refCount' = IF refCount[r] > 0 THEN [refCount EXCEPT ![r] = @ - 1] ELSE refCount
      /\ nodes' = IF last /\ poolOffset[r] \in DOMAIN nodes
                  THEN Release(nodes, poolOffset[r]) ELSE nodes
      /\ outcome' = IF refCount[r] = 0 THEN "check"
                    ELSE IF last /\ poolOffset[r] \notin DOMAIN nodes THEN "bad_free"
                    ELSE "ok"
  BY <1>a DEF Free, Counted, LastUser
<1>2. r \in Owners /\ r \in allocated /\ r \in Tensors /\ root[r] = None
  BY <1>a, <1>1, UsersOfRoots DEF Owners
<1>3. /\ \A q \in Tensors : Users(q)' = IF q = r THEN Users(q) \ {t} ELSE Users(q)
      /\ t \in Users(r)
      /\ Owners' \subseteq Owners /\ \A q \in Owners : q # r => q \in Owners'
  BY <1>a, <1>1, UsersAfterFree
<1>4. /\ refCount[r] = Cardinality(Users(r)) /\ refCount[r] \in Nat
      /\ Cardinality(Users(r)') = refCount[r] - 1 /\ IsFiniteSet(Users(r)')
  <2>1. IsFiniteSet(Users(r)) /\ Users(r)' = Users(r) \ {t}
    BY <1>2, <1>3, UsersFinite
  <2>2. QED
    BY <1>2, <1>3, <2>1, FS_RemoveElement DEF CountsUsers, TypeOK
<1>5. refCount[r] > 0 /\ (last <=> Users(r)' = {})
  BY <1>4, FS_EmptySet, FS_CardinalityType
<1>6. poolOffset[r] \in Taken(nodes) /\ poolOffset[r] \in DOMAIN nodes
  BY <1>1, <1>2 DEF NodesAreBlocks, Taken
<1>7. outcome' = "ok"
  BY <1>1, <1>5, <1>6
<1>8. RootsAreFlat' /\ InsideRoot' /\ BlocksBelowPeak'
  BY <1>1 DEF RootsAreFlat, InsideRoot, BlocksBelowPeak, RootOf
<1>9. CountsUsers'
  BY <1>1, <1>2, <1>3, <1>4, <1>5 DEF CountsUsers, TypeOK
<1>10. r \in Owners' <=> ~last
  BY <1>2, <1>5 DEF Owners
<1>11. NodesAreBlocks'
  <2>1. CASE last
    <3>1. /\ IsNodeList(nodes') /\ Taken(nodes') = Taken(nodes) \ {poolOffset[r]}
          /\ \A p \in Taken(nodes') : nodes'[p] = nodes[p]
      BY <2>1, <1>1, <1>6, NodeListInv, ReleaseGivesBack
    <3>2. Owners' = Owners \ {r}
      BY <2>1, <1>3, <1>10
    <3>3. QED
      BY <3>1, <3>2, <1>1, <1>2 DEF NodesAreBlocks
  <2>2. CASE ~last
    <3>1. nodes' = nodes /\ Owners' = Owners
      BY <2>2, <1>1, <1>3, <1>10
    <3>2. QED
      BY <3>1, <1>1 DEF NodesAreBlocks
  <2>3. QED
    BY <2>1, <2>2
<1>12. TypeOK'
  <2>1. freed' \subseteq allocated'
    BY <1>1 DEF InUse, TypeOK
  <2>2. refCount' \in [Tensors -> Nat]
    BY <1>1, <1>2, <1>4, <1>5 DEF TypeOK
  <2>3. QED
    BY <2>1, <2>2, <1>1, <1>7, <1>11 DEF TypeOK, NodesAreBlocks, IsNodeList
<1>13. QED
  BY <1>1, <1>7, <1>8, <1>9, <1>11, <1>12

LEMMA StutterInv == IInv /\ UNCHANGED vars => IInv'
BY DEF vars, IInv, TypeOK, RootsAreFlat, CountsUsers, InsideRoot, BlocksPileUp,
       NodesAreBlocks, BlocksBelowPeak, Owners, Users, InUse, RootOf

LEMMA NextInv == IInv /\ [Next]_vars => IInv'
<1> SUFFICES ASSUME IInv, [Next]_vars PROVE IInv'
  OBVIOUS
<1>1. ASSUME NEW t \in Tensors, Allocate(t) PROVE IInv'
  BY <1>1, TakeNodeInv, TakeFreshInv
<1>2. ASSUME NEW t \in Tensors, AllocateFails(t) PROVE IInv'
  BY <1>2, AllocateFailsInv
<1>3. ASSUME NEW t \in Tensors, NEW parent \in Tensors, AllocateRef(t, parent) PROVE IInv'
  BY <1>3, AllocateRefInv
<1>4. ASSUME NEW t \in Tensors, Free(t) PROVE IInv'
  BY <1>4, FreeInv
<1>5. CASE UNCHANGED vars
  BY <1>5, StutterInv
<1>6. QED
  BY <1>1, <1>2, <1>3, <1>4, <1>5 DEF Next

LEMMA SpecInv == Spec => []IInv
BY InitInv, NextInv, PTL DEF Spec

-----------------------------------------------------------------------------
(* The state of an allocator keeps its types: sizes and counts never drop  *)
(* below what an unsigned value can hold, nodes never leave the pool.      *)
THEOREM TypeCorrect == Spec => []TypeOK
BY SpecInv, PTL DEF IInv

(* No free fails its search or its count, and no allocation finds a root   *)
(* that has already been given back.                                       *)
THEOREM ChecksHold == Spec => []NoCheckFails
<1>1. IInv => NoCheckFails
  BY DEF IInv, NoCheckFails
<1>2. QED
  BY <1>1, SpecInv, PTL

(* The offset a walk arrives at is the offset of the node it stands on. *)
THEOREM ListTilesPool == Spec => []NodesTile
<1>1. IInv => NodesTile
  BY NodeListInv DEF IsNodeList, NodesTile
<1>2. QED
  BY <1>1, SpecInv, PTL

(* free leaves no two FREE nodes side by side. *)
THEOREM FreeNodesAreJoined == Spec => []HolesAreJoined
<1>1. IInv => HolesAreJoined
  BY NodeListInv DEF IsNodeList, HolesAreJoined
<1>2. QED
  BY <1>1, SpecInv, PTL

(* Blocks in use are disjoint, whatever the scheme. *)
LEMMA BlocksDisjoint ==
  ASSUME IInv, NEW r \in Owners, NEW q \in Owners, r # q
  PROVE  \/ poolOffset[r] + Align(Size[r]) <= poolOffset[q]
         \/ poolOffset[q] + Align(Size[q]) <= poolOffset[r]
<1>1. CASE scheme = "NO_REUSE"
  BY <1>1 DEF IInv, BlocksPileUp
<1>2. CASE scheme # "NO_REUSE"
  <2>1. /\ poolOffset[r] \in DOMAIN nodes /\ EndOf(nodes, poolOffset[r])
                                              = poolOffset[r] + Align(Size[r])
        /\ poolOffset[q] \in DOMAIN nodes /\ EndOf(nodes, poolOffset[q])
                                              = poolOffset[q] + Align(Size[q])
        /\ poolOffset[r] # poolOffset[q]
    BY <1>2 DEF IInv, NodesAreBlocks, Taken, EndOf
  <2>2. poolOffset[r] \in Nat /\ poolOffset[q] \in Nat
    BY <2>1, NodeListInv DEF IsNodeList
  <2>3. QED
    BY <2>1, <2>2, NodeListInv DEF IsNodeList, Tiles
<1>3. QED
  BY <1>1, <1>2

(* No two tensors in use share a byte unless they share a root. *)
THEOREM TensorsDoNotOverlap == Spec => []NoOverlap
<1>1. ASSUME IInv, NEW t \in InUse, NEW u \in InUse
      PROVE  /\ RootOf(t) # RootOf(u) =>
                  Bytes(t).hi <= Bytes(u).lo \/ Bytes(u).hi <= Bytes(t).lo
             /\ poolOffset[RootOf(t)] <= Bytes(t).lo
             /\ Bytes(t).hi <= poolOffset[RootOf(t)] + Size[RootOf(t)]
  <2>1. /\ t \in allocated /\ u \in allocated /\ t \in Tensors /\ u \in Tensors
        /\ RootOf(t) \in Owners /\ RootOf(u) \in Owners
        /\ RootOf(t) \in Tensors /\ RootOf(u) \in Tensors
    BY <1>1, UsersOfRoots DEF IInv, InUse, TypeOK, Owners
  <2>2. /\ Align(Size[RootOf(t)]) \in Nat /\ Size[RootOf(t)] <= Align(Size[RootOf(t)])
        /\ Align(Size[RootOf(u)]) \in Nat /\ Size[RootOf(u)] <= Align(Size[RootOf(u)])
    BY <2>1, AlignCovers
  <2>3. /\ poolOffset[RootOf(t)] <= poolOffset[t]
        /\ poolOffset[t] + Size[t] <= poolOffset[RootOf(t)] + Size[RootOf(t)]
        /\ poolOffset[RootOf(u)] <= poolOffset[u]
        /\ poolOffset[u] + Size[u] <= poolOffset[RootOf(u)] + Size[RootOf(u)]
        /\ poolOffset[t] \in Nat /\ poolOffset[RootOf(t)] \in Nat
        /\ poolOffset[u] \in Nat /\ poolOffset[RootOf(u)] \in Nat
    BY <1>1, <2>1 DEF IInv, InsideRoot
  <2>4. Size[t] \in Nat /\ Size[u] \in Nat /\ Size[RootOf(t)] \in Nat /\ Size[RootOf(u)] \in Nat
    BY <2>1
  <2>5. RootOf(t) # RootOf(u) =>
          \/ poolOffset[RootOf(t)] + Align(Size[RootOf(t)]) <= poolOffset[RootOf(u)]
          \/ poolOffset[RootOf(u)] + Align(Size[RootOf(u)]) <= poolOffset[RootOf(t)]
    BY <1>1, <2>1, BlocksDisjoint
  <2>6. QED
    BY <2>2, <2>3, <2>4, <2>5 DEF Bytes
<1>2. IInv => NoOverlap
  BY <1>1 DEF NoOverlap
<1>3. QED
  BY <1>2, SpecInv, PTL

(* A block is reserved exactly as long as some tensor in use lies in it. *)
THEOREM BlocksAreNotLeaked == Spec => []NoLeak
<1>1. IInv => NoLeak
  BY DEF IInv, NoLeak, NodesAreBlocks
<1>2. QED
  BY <1>1, SpecInv, PTL

(* The generated program allocates enough bytes for every tensor. *)
THEOREM PoolIsLargeEnough == Spec => []PoolCoversTensors
<1>1. ASSUME IInv, NEW t \in allocated
      PROVE  Bytes(t).hi <= maxAllocated
  <2>1. RootOf(t) \in allocated /\ root[RootOf(t)] = None /\ RootOf(t) \in Tensors /\ t \in Tensors
    BY <1>1, UsersOfRoots DEF IInv, TypeOK
  <2>2. /\ poolOffset[RootOf(t)] + Align(Size[RootOf(t)]) <= maxAllocated
        /\ poolOffset[t] + Size[t] <= poolOffset[RootOf(t)] + Size[RootOf(t)]
        /\ poolOffset[t] \in Nat /\ poolOffset[RootOf(t)] \in Nat /\ maxAllocated \in Nat
    BY <1>1, <2>1 DEF IInv, BlocksBelowPeak, InsideRoot, TypeOK
  <2>3. Align(Size[RootOf(t)]) \in Nat /\ Size[RootOf(t)] <= Align(Size[RootOf(t)])
    BY <2>1, AlignCovers
  <2>4. Size[t] \in Nat /\ Size[RootOf(t)] \in Nat
    BY <2>1
  <2>5. QED
    BY <2>2, <2>3, <2>4 DEF Bytes
<1>2. IInv => PoolCoversTensors
  BY <1>1 DEF PoolCoversTensors
<1>3. QED
  BY <1>2, SpecInv, PTL

-----------------------------------------------------------------------------
(* A block of its own starts where a node starts or, if nothing is reused, *)
(* where the last one ends.                                                *)
LEMMA AllocateAligned ==
  ASSUME IInv, OffsetsAligned, NEW t \in Tensors, Allocate(t)
  PROVE  OffsetsAligned'
<1> DEFINE size == Align(Size[t])
<1>1. /\ size \in Nat \ {0} /\ size % Alignment = 0
      /\ t \notin allocated /\ allocated' = allocated \cup {t}
      /\ UNCHANGED <<scheme, root>>
      /\ \/ scheme # "NO_REUSE" /\ TakeNode(t, size)
         \/ scheme = "NO_REUSE" /\ TakeFresh(t, size)
  BY AlignCovers, AlignRounds DEF Allocate
<1> HIDE DEF size
<1>2. \A u \in allocated : u # t /\ u \in Tensors
  BY <1>1 DEF IInv, TypeOK
<1>3. poolOffset \in [Tensors -> Nat \cup {None}] /\ maxAllocated \in Nat
  BY DEF IInv, TypeOK
<1>4. CASE scheme # "NO_REUSE"
  <2>1. PICK o \in Chosen(size) : /\ nodes' = Carve(nodes, o, size)
                                  /\ poolOffset' = [poolOffset EXCEPT ![t] = o]
    BY <1>1, <1>4 DEF TakeNode
  <2>2. o \in DOMAIN nodes
    BY <1>1, ChosenFits DEF Fitting
  <2>3. \A q \in DOMAIN nodes' : q % Alignment = 0
    BY <1>1, <2>1, <2>2, NodeListInv, CarveAligned DEF OffsetsAligned
  <2>4. o % Alignment = 0
    BY <2>2 DEF OffsetsAligned
  <2>5. BlocksAreAligned'
    BY <1>1, <1>2, <1>3, <2>1, <2>4 DEF OffsetsAligned, BlocksAreAligned
  <2>6. QED
    BY <1>1, <1>4, <2>3, <2>5 DEF OffsetsAligned
<1>5. CASE scheme = "NO_REUSE"
  <2>1. /\ poolOffset' = [poolOffset EXCEPT ![t] = maxAllocated]
        /\ maxAllocated' = maxAllocated + size /\ nodes' = nodes
    BY <1>1, <1>5 DEF TakeFresh
  <2>2. maxAllocated % Alignment = 0
    BY <1>5 DEF OffsetsAligned
  <2>3. maxAllocated' % Alignment = 0
    BY <1>1, <1>3, <2>1, <2>2, SumOfMultiples
  <2>4. BlocksAreAligned'
    BY <1>1, <1>2, <1>3, <2>1, <2>2 DEF OffsetsAligned, BlocksAreAligned
  <2>5. QED
    BY <1>1, <2>1, <2>3, <2>4 DEF OffsetsAligned
<1>6. QED
  BY <1>4, <1>5

(* Every block starts at a multiple of m_alignment. *)
THEOREM BlocksStartAligned == Spec => []BlocksAreAligned
<1>1. Init => OffsetsAligned
  BY DEF Init, OffsetsAligned, EmptyPool, BlocksAreAligned
<1>2. ASSUME IInv, OffsetsAligned, [Next]_vars PROVE OffsetsAligned'
  <2>1. ASSUME NEW t \in Tensors, Allocate(t) PROVE OffsetsAligned'
    BY <1>2, <2>1, AllocateAligned
  <2>2. ASSUME NEW t \in Tensors, AllocateFails(t) PROVE OffsetsAligned'
    BY <1>2, <2>2 DEF AllocateFails, OffsetsAligned, BlocksAreAligned
  <2>3. ASSUME NEW t \in Tensors, NEW parent \in Tensors, AllocateRef(t, parent)
        PROVE  OffsetsAligned'
    <3>1. /\ allocated' = allocated \cup {t} /\ t \notin allocated /\ parent \in InUse
          /\ root' = [root EXCEPT ![t] = RootOf(parent)]
          /\ UNCHANGED <<scheme, nodes, maxAllocated>>
      BY <2>3 DEF AllocateRef
    <3>2. \A u \in allocated : u # t /\ poolOffset'[u] = poolOffset[u] /\ root'[u] = root[u]
      BY <1>2, <2>3, <3>1 DEF AllocateRef, IInv, TypeOK
    <3>3. root'[t] # None
      BY <1>2, <3>1, UsersOfRoots DEF IInv, TypeOK, Owners
    <3>4. QED
      BY <1>2, <3>1, <3>2, <3>3 DEF OffsetsAligned, BlocksAreAligned
  <2>4. ASSUME NEW t \in Tensors, Free(t) PROVE OffsetsAligned'
    <3>1. DOMAIN nodes' \subseteq DOMAIN nodes
      BY <2>4 DEF Free, Release
    <3>2. UNCHANGED <<scheme, maxAllocated, poolOffset, root, allocated>>
      BY <2>4 DEF Free
    <3>3. QED
      BY <1>2, <3>1, <3>2 DEF OffsetsAligned, BlocksAreAligned
  <2>5. CASE UNCHANGED vars
    BY <1>2, <2>5 DEF vars, OffsetsAligned, BlocksAreAligned
  <2>6. QED
    BY <1>2, <2>1, <2>2, <2>3, <2>4, <2>5 DEF Next
<1>3. OffsetsAligned => BlocksAreAligned
  BY DEF OffsetsAligned
<1>4. QED
  BY <1>1, <1>2, <1>3, SpecInv, PTL DEF Spec

-----------------------------------------------------------------------------
(* A taken node is the block of some root with users. *)
LEMMA TakenHasOwner ==
  ASSUME IInv, scheme # "NO_REUSE", NEW o \in Taken(nodes)
  PROVE  \E r \in Owners : /\ r \in allocated /\ root[r] = None /\ Align(Size[r]) \in Nat
                           /\ poolOffset[r] = o /\ EndOf(nodes, o) = o + Align(Size[r])
<1>1. PICK r \in Owners : poolOffset[r] = o
  BY DEF IInv, NodesAreBlocks
<1>2. r \in allocated /\ root[r] = None /\ r \in Tensors
  BY UsersOfRoots DEF IInv, Owners
<1>3. Align(Size[r]) \in Nat
  BY <1>2, AlignCovers
<1>4. EndOf(nodes, o) = o + Align(Size[r])
  BY <1>1 DEF IInv, NodesAreBlocks, EndOf
<1>5. QED
  BY <1>1, <1>2, <1>3, <1>4

(* Only FREE memory is clear, a hole is one node, so a clear range that is *)
(* long enough lies in a node that is.                                     *)
LEMMA ClearRangeIsServed ==
  ASSUME IInv, scheme # "NO_REUSE", NEW size \in Nat \ {0},
         NEW lo \in 0 .. PoolSize - size, ClearRange(lo, lo + size)
  PROVE  Fitting(nodes, size) # {}
<1>1. lo \in 0 .. PoolSize - 1 /\ lo + size <= PoolSize
  BY PoolAssumption
<1>2. PICK o \in DOMAIN nodes : o <= lo /\ lo < EndOf(nodes, o)
  BY <1>1, NodeListInv, NodeAt
<1>3. /\ o \in Nat /\ nodes[o].size \in Nat /\ EndOf(nodes, o) = o + nodes[o].size
      /\ \/ EndOf(nodes, o) = PoolSize
         \/ EndOf(nodes, o) \in DOMAIN nodes
  BY NodeListInv, PoolAssumption DEF IsNodeList, Tiles, Node, EndOf
<1>4. \A p \in Taken(nodes) : lo + size <= p \/ EndOf(nodes, p) <= lo
  BY TakenHasOwner DEF ClearRange
<1>5. IsFree(nodes, o)
  BY <1>1, <1>2, <1>3, <1>4 DEF Taken
<1>6. lo + size <= EndOf(nodes, o)
  <2>1. CASE EndOf(nodes, o) = PoolSize
    BY <2>1, <1>1
  <2>2. CASE EndOf(nodes, o) \in DOMAIN nodes
    <3>1. EndOf(nodes, o) \in Taken(nodes)
      BY <2>2, <1>5, NodeListInv DEF IsNodeList, Coalesced, Taken
    <3>2. EndOf(nodes, EndOf(nodes, o)) > EndOf(nodes, o)
      BY <2>2, NodeListInv, PoolAssumption DEF IsNodeList, Node, EndOf
    <3>3. EndOf(nodes, EndOf(nodes, o)) \in Nat
      BY <2>2, NodeListInv, PoolAssumption DEF IsNodeList, Node, EndOf
    <3>4. QED
      BY <3>1, <3>2, <3>3, <1>2, <1>3, <1>4
  <2>3. QED
    BY <2>1, <2>2, <1>3
<1>7. nodes[o].size >= size
  BY <1>2, <1>3, <1>6
<1>8. QED
  BY <1>5, <1>7 DEF Fitting

(* bad_alloc means that no free bytes in one piece are enough, not that    *)
(* the list has cut them up.                                               *)
THEOREM ThrowsOnlyWhenFull == Spec => FailsOnlyWhenFull
<1>1. ASSUME IInv, NEW t \in Tensors, AllocateFails(t),
             NEW lo \in 0 .. PoolSize - Align(Size[t])
      PROVE  ~ClearRange(lo, lo + Align(Size[t]))
  BY <1>1, AlignCovers, ClearRangeIsServed DEF AllocateFails
<1>2. IInv /\ [Next]_vars
        => [\A t \in Tensors :
              AllocateFails(t) =>
                \A lo \in 0 .. PoolSize - Align(Size[t]) :
                  ~ClearRange(lo, lo + Align(Size[t]))]_vars
  BY <1>1
<1>3. QED
  BY <1>2, SpecInv, PTL DEF Spec, FailsOnlyWhenFull

(* Past the peak there is only the last hole, which no block follows. *)
LEMMA AbovePeak ==
  ASSUME IInv, scheme # "NO_REUSE", NEW o \in DOMAIN nodes, IsFree(nodes, o),
         EndOf(nodes, o) > maxAllocated
  PROVE  EndOf(nodes, o) = PoolSize /\ o <= maxAllocated
<1>1. /\ o \in Nat /\ EndOf(nodes, o) \in Nat /\ maxAllocated \in Nat
      /\ o \in 0 .. PoolSize - 1
  BY NodeListInv, PoolAssumption DEF IsNodeList, Node, EndOf, IInv, TypeOK
<1>2. \A p \in Taken(nodes) : EndOf(nodes, p) <= maxAllocated
  BY TakenHasOwner DEF IInv, BlocksBelowPeak
<1>3. EndOf(nodes, o) = PoolSize
  <2> SUFFICES ASSUME EndOf(nodes, o) \in DOMAIN nodes PROVE FALSE
    BY NodeListInv DEF IsNodeList, Tiles
  <2>1. EndOf(nodes, o) \in Taken(nodes)
    BY NodeListInv DEF IsNodeList, Coalesced, Taken
  <2>2. EndOf(nodes, EndOf(nodes, o)) > EndOf(nodes, o)
    BY NodeListInv, PoolAssumption DEF IsNodeList, Node, EndOf
  <2>3. EndOf(nodes, EndOf(nodes, o)) \in Nat
    BY NodeListInv, PoolAssumption DEF IsNodeList, Node, EndOf
  <2>4. QED
    BY <1>1, <1>2, <2>1, <2>2, <2>3
<1>4. o <= maxAllocated
  <2> SUFFICES ASSUME o > maxAllocated PROVE FALSE
    BY <1>1
  <2>1. o - 1 \in 0 .. PoolSize - 1
    BY <1>1
  <2>2. PICK p \in DOMAIN nodes : p <= o - 1 /\ o - 1 < EndOf(nodes, p)
    BY <2>1, NodeListInv, NodeAt
  <2>3. p \in Nat /\ EndOf(nodes, p) \in Nat
    BY NodeListInv, PoolAssumption DEF IsNodeList, Node, EndOf
  <2>4. EndOf(nodes, p) = o
    BY <1>1, <2>2, <2>3, NodeListInv DEF IsNodeList, Tiles
  <2>5. p \in Taken(nodes)
    BY <2>4, NodeListInv DEF IsNodeList, Coalesced, Taken
  <2>6. QED
    BY <1>1, <1>2, <2>4, <2>5
<1>5. QED
  BY <1>3, <1>4

(* What the planning gives back is used again before the pool grows. *)
THEOREM HolesAreUsedFirst == Spec => PeakGrowsOnlyWhenNeeded
<1>1. ASSUME IInv, NEW t \in Tensors, Allocate(t), scheme # "NO_REUSE",
             maxAllocated' > maxAllocated, HoleBelowPeak(Align(Size[t]))
      PROVE  FALSE
  <2> DEFINE size == Align(Size[t])
  <2>1. size \in Nat \ {0}
    BY AlignCovers
  <2>2. PICK o \in Chosen(size) : maxAllocated' = HighWater(o + size)
    BY <1>1 DEF Allocate, TakeNode
  <2>3. PICK h \in Fitting(nodes, size) :
          /\ h + size <= maxAllocated
          /\ scheme = "BEST_FIT" => nodes[h].size < PoolSize - maxAllocated
    BY <1>1 DEF HoleBelowPeak
  <2> HIDE DEF size
  <2>4. o \in Fitting(nodes, size)
    BY <2>1, ChosenFits
  <2>5. /\ o \in Nat /\ nodes[o].size \in Nat /\ h \in Nat /\ nodes[h].size \in Nat
        /\ maxAllocated \in Nat /\ nodes[o].size >= size
        /\ o \in DOMAIN nodes /\ IsFree(nodes, o) /\ EndOf(nodes, o) = o + nodes[o].size
    BY <1>1, <2>3, <2>4, NodeListInv, PoolAssumption
       DEF IsNodeList, Node, EndOf, IInv, TypeOK, Fitting
  <2>6. o + size > maxAllocated
    BY <1>1, <2>1, <2>2, <2>5 DEF HighWater
  <2>7. CASE scheme = "FIRST_FIT"
    <3>1. o <= h
      BY <2>2, <2>3, <2>7 DEF Chosen, FirstFit
    <3>2. QED
      BY <2>1, <2>3, <2>5, <2>6, <3>1
  <2>8. CASE scheme = "BEST_FIT"
    <3>1. nodes[o].size <= nodes[h].size
      BY <2>2, <2>3, <2>5, <2>8 DEF Chosen, BestFit
    <3>2. EndOf(nodes, o) = PoolSize /\ o <= maxAllocated
      BY <1>1, <2>1, <2>5, <2>6, AbovePeak
    <3>3. QED
      BY <2>3, <2>5, <2>8, <3>1, <3>2, PoolAssumption
  <2>9. QED
    BY <1>1, <2>7, <2>8 DEF IInv, TypeOK
<1>2. ASSUME IInv, [Next]_vars, NEW t \in Tensors, scheme # "NO_REUSE",
             t \notin allocated, t \in allocated', maxAllocated' > maxAllocated
      PROVE  Allocate(t)
  <2>1. maxAllocated \in Nat
    BY <1>2 DEF IInv, TypeOK
  <2>2. PICK u \in Tensors : Allocate(u)
    BY <1>2, <2>1 DEF Next, AllocateFails, AllocateRef, Free, vars
  <2>3. u = t
    BY <1>2, <2>2 DEF Allocate
  <2>4. QED
    BY <2>2, <2>3
<1>3. IInv /\ [Next]_vars
        => [\A t \in Tensors :
              scheme # "NO_REUSE" /\ t \notin allocated /\ t \in allocated'
              /\ maxAllocated' > maxAllocated
                => ~HoleBelowPeak(Align(Size[t]))]_vars
  BY <1>1, <1>2
<1>4. QED
  BY <1>3, SpecInv, PTL DEF Spec, PeakGrowsOnlyWhenNeeded

-----------------------------------------------------------------------------
(* The tensors in use and the blocks, as the pool sees them. *)
Using == [t \in InUse |-> RootOf(t)]
Blocks == [r \in Owners |-> [lo |-> poolOffset[r], hi |-> poolOffset[r] + Align(Size[r])]]

BlocksApart ==
  \A r, q \in Owners :
    r # q => \/ poolOffset[r] + Align(Size[r]) <= poolOffset[q]
             \/ poolOffset[q] + Align(Size[q]) <= poolOffset[r]

LEMMA BlocksAreApart == IInv => BlocksApart
BY BlocksDisjoint DEF BlocksApart

(* A block that somebody uses is the block of an owner. *)
LEMMA PoolBases == ASSUME TypeOK, RootsAreFlat PROVE Pool!Bases(Using) = Owners
<1>1. \A r \in Owners : \E t \in InUse : RootOf(t) = r
  BY DEF Owners, Users
<1>2. \A t \in InUse : RootOf(t) \in Owners
  BY UsersOfRoots
<1>3. QED
  BY <1>1, <1>2 DEF Pool!Bases, Using

(* A new block is reserved. *)
LEMMA AllocateReserves ==
  ASSUME IInv, NEW t \in Tensors, Allocate(t)
  PROVE  Pool!Reserve(t)
<1>1. /\ t \notin allocated /\ allocated' = allocated \cup {t}
      /\ UNCHANGED <<scheme, root, freed>>
  BY DEF Allocate
<1>2. /\ Owners' = Owners \cup {t} /\ t \notin Owners /\ RootOf(t) = t
      /\ InUse' = InUse \cup {t} /\ t \notin InUse
      /\ \A u \in InUse : RootOf(u)' = RootOf(u)
      /\ RootOf(t)' = RootOf(t)
  BY <1>1, UsersOfNewBlock, UsersOfRoots DEF IInv, InUse, TypeOK, RootOf
<1>3. \A r \in Owners : poolOffset'[r] = poolOffset[r]
  BY <1>1, UsersOfRoots DEF IInv, TypeOK, Allocate, TakeNode, TakeFresh
<1>4. IInv'
  BY TakeNodeInv, TakeFreshInv
<1>5. poolOffset'[t] \in Nat /\ Align(Size[t]) \in Nat \ {0}
  BY <1>1, <1>4, AlignCovers DEF IInv, InsideRoot
<1>6. \A r \in Owners : r \in Tensors /\ r \in Owners' /\ r # t
  BY <1>2 DEF Owners
<1>7. t \in Owners'
  BY <1>2
<1>8. \A r \in Owners :
        \/ poolOffset'[t] + Align(Size[t]) <= poolOffset[r]
        \/ poolOffset[r] + Align(Size[r]) <= poolOffset'[t]
  <2>1. BlocksApart'
    BY <1>4, BlocksAreApart, PTL
  <2>2. QED
    BY <2>1, <1>3, <1>6, <1>7 DEF BlocksApart
<1>9. Using' = [x \in DOMAIN Using \cup {t} |-> IF x = t THEN t ELSE Using[x]]
  BY <1>2 DEF Using
<1>10. /\ DOMAIN Blocks' = DOMAIN Blocks \cup {t}
       /\ Blocks'[t].lo < Blocks'[t].hi
  BY <1>2, <1>5 DEF Blocks
<1>11. \A b \in DOMAIN Blocks :
         Blocks'[b] = Blocks[b] /\ Pool!Disjoint(Blocks'[t], Blocks[b])
  BY <1>2, <1>3, <1>8 DEF Blocks, Pool!Disjoint
<1>12. t \notin DOMAIN Using
  BY <1>2 DEF Using
<1>13. QED
  BY <1>9, <1>10, <1>11, <1>12 DEF Pool!Reserve, Using, Blocks

(* A tensor that refers to another one shares the block of its root. *)
LEMMA AllocateRefShares ==
  ASSUME IInv, NEW t \in Tensors, NEW parent \in Tensors, AllocateRef(t, parent)
  PROVE  RootOf(parent) \in Tensors /\ Pool!Share(t, RootOf(parent))
<1>1. /\ t \notin allocated /\ allocated' = allocated \cup {t} /\ freed' = freed
      /\ parent \in InUse /\ root' = [root EXCEPT ![t] = RootOf(parent)]
  BY DEF AllocateRef
<1>2. /\ RootOf(parent) \in Owners /\ RootOf(parent) \in Tensors
      /\ Owners' = Owners /\ RootOf(parent) # t
  BY <1>1, UsersOfRoots, UsersOfSharedBlock DEF IInv, Owners
<1>3. /\ InUse' = InUse \cup {t} /\ t \notin InUse
      /\ \A u \in InUse : RootOf(u)' = RootOf(u)
      /\ RootOf(t)' = RootOf(parent)
  BY <1>1, <1>2 DEF IInv, TypeOK, InUse, RootOf
<1>4. \A r \in Owners : poolOffset'[r] = poolOffset[r]
  BY <1>1, UsersOfRoots DEF IInv, TypeOK, AllocateRef
<1>5. /\ Using' = [x \in DOMAIN Using \cup {t} |-> IF x = t THEN RootOf(parent) ELSE Using[x]]
      /\ t \notin DOMAIN Using
  BY <1>3 DEF Using
<1>6. Blocks' = Blocks
  BY <1>2, <1>4 DEF Blocks
<1>7. RootOf(parent) \in DOMAIN Blocks
  BY <1>2 DEF Blocks
<1>8. QED
  BY <1>2, <1>5, <1>6, <1>7 DEF Pool!Share, Using, Blocks

(* free drops a user, and the block with the last one. *)
LEMMA FreeDrops ==
  ASSUME IInv, NEW t \in Tensors, Free(t)
  PROVE  Pool!Drop(t)
<1>1. /\ t \in InUse /\ freed' = freed \cup {t}
      /\ UNCHANGED <<poolOffset, root, allocated>>
  BY DEF Free
<1>2. /\ InUse' = InUse \ {t}
      /\ \A u \in InUse : RootOf(u)' = RootOf(u)
      /\ Owners' \subseteq Owners
  BY <1>1, UsersAfterFree DEF IInv, InUse, RootOf
<1>3. TypeOK' /\ RootsAreFlat'
  BY FreeInv DEF IInv
<1>4. Pool!Bases(Using') = Owners'
  <2>1. (Pool!Bases(Using) = Owners)'
    BY <1>3, PoolBases, PTL
  <2>2. QED
    BY <2>1 DEF Pool!Bases
<1>5. t \in DOMAIN Using /\ Using' = [x \in DOMAIN Using \ {t} |-> Using[x]]
  BY <1>1, <1>2 DEF Using
<1>6. Blocks' = [b \in Owners' |-> Blocks[b]]
  BY <1>1, <1>2 DEF Blocks
<1>7. QED
  BY <1>4, <1>5, <1>6 DEF Pool!Drop, Using, Blocks

(* The allocator with its node list and counts is the pool that knows only *)
(* who uses which block.                                                   *)
THEOREM AllocatorIsAPool == Spec => ImplementsPool
<1>1. Init => Pool!Init
  <2> SUFFICES ASSUME Init PROVE Pool!Init
    OBVIOUS
  <2>1. InUse = {} /\ Owners = {}
    BY DEF Init, InUse, Owners, Users
  <2>2. QED
    BY <2>1 DEF Pool!Init
<1>2. IInv /\ [Next]_vars => [Pool!Next]_(Pool!poolVars)
  <2> SUFFICES ASSUME IInv, [Next]_vars
               PROVE  Pool!Next \/ (Using' = Using /\ Blocks' = Blocks)
    BY DEF Pool!poolVars, Using, Blocks
  <2>1. ASSUME NEW t \in Tensors, Allocate(t) PROVE Pool!Next
    BY <2>1, AllocateReserves DEF Pool!Next
  <2>2. ASSUME NEW t \in Tensors, NEW parent \in Tensors, AllocateRef(t, parent)
        PROVE  Pool!Next
    BY <2>2, AllocateRefShares DEF Pool!Next
  <2>3. ASSUME NEW t \in Tensors, Free(t) PROVE Pool!Next
    BY <2>3, FreeDrops DEF Pool!Next
  <2>4. ASSUME UNCHANGED <<poolOffset, root, allocated, freed>>
        PROVE  Using' = Using /\ Blocks' = Blocks
    BY <2>4 DEF Using, Blocks, Owners, Users, InUse, RootOf
  <2>5. ASSUME NEW t \in Tensors, AllocateFails(t)
        PROVE  Using' = Using /\ Blocks' = Blocks
    BY <2>4, <2>5 DEF AllocateFails
  <2>6. CASE UNCHANGED vars
    BY <2>4, <2>6 DEF vars
  <2>7. QED
    BY <2>1, <2>2, <2>3, <2>5, <2>6 DEF Next
<1>3. QED
  BY <1>1, <1>2, SpecInv, PTL DEF Spec, ImplementsPool, Pool!Spec
=============================================================================
