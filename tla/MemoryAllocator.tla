--------------------------- MODULE MemoryAllocator ---------------------------
(***************************************************************************)
(* One MemoryAllocator (engine/memory_allocator.cpp) as the layout pass    *)
(* drives it.  It plans at compile time where each tensor of a pool lies:  *)
(* allocate takes a block for a tensor, or makes the tensor refer to a     *)
(* part of another one's block, and free gives a block back once neither   *)
(* its tensor nor one that refers to it is needed.  The pool of the        *)
(* generated program is malloc'ed with the m_max_allocated bytes the       *)
(* planning arrives at.                                                    *)
(*                                                                         *)
(* The client is AssignTensorMemoryLayout: each tensor is allocated at     *)
(* most once, a tensor that refers to another one is allocated while that  *)
(* one is in use, and each tensor is freed at most once (never under       *)
(* NO_REUSE, the scheme of a pass that does not share memory).             *)
(***************************************************************************)
EXTENDS NodeList, FiniteSets

CONSTANTS
  Tensors,   (* the tensors of one pool                                 *)
  Size,      (* their sizes in bytes                                    *)
  Schemes,   (* the values of m_scheme                                  *)
  None       (* the null pointer, and the SIZE_MAX of a tensor that has *)
             (* no offset yet                                           *)

ASSUME AllocatorAssumption ==
  /\ IsFiniteSet(Tensors)
  /\ Size \in [Tensors -> Nat]
  /\ Schemes \subseteq {"FIRST_FIT", "BEST_FIT", "NO_REUSE"}
  /\ None \notin Tensors /\ None \notin Nat

VARIABLES
  scheme,        (* m_scheme                                             *)
  nodes,         (* m_node_list                                          *)
  maxAllocated,  (* m_max_allocated                                      *)
  poolOffset,    (* Tensor::m_pool_offset                                *)
  root,          (* Tensor::m_root_tensor                                *)
  refCount,      (* Tensor::m_ref_count                                  *)
  allocated,     (* the tensors of m_allocated_tensors                   *)
  freed,         (* those of them the client has freed                   *)
  outcome        (* "ok", or the exception that has ended the compilation *)

vars ==
  <<scheme, nodes, maxAllocated, poolOffset, root, refCount, allocated, freed, outcome>>

(* The tensors whose bytes the planned program still needs. *)
InUse == allocated \ freed

(* The tensor whose block t lies in. *)
RootOf(t) == IF root[t] = None THEN t ELSE root[t]

Init ==
  /\ scheme \in Schemes
  /\ nodes = EmptyPool
  /\ maxAllocated = 0
  /\ poolOffset = [t \in Tensors |-> None]
  /\ root = [t \in Tensors |-> None]
  /\ refCount = [t \in Tensors |-> 1]
  /\ allocated = {}
  /\ freed = {}
  /\ outcome = "ok"

-----------------------------------------------------------------------------
(* What the three schemes do. *)

Chosen(size) ==
  IF scheme = "FIRST_FIT" THEN FirstFit(nodes, size) ELSE BestFit(nodes, size)

LatestEnd(end) == end   (* mutant: max is forgotten *)

HighWater(end) == IF end > maxAllocated THEN end ELSE maxAllocated

(* first_fit, best_fit: the offset they return is that of the node. *)
TakeNode(t, size) ==
  \E o \in Chosen(size) :
    /\ nodes' = Carve(nodes, o, size)
    /\ maxAllocated' = HighWater(o + size)
    /\ poolOffset' = [poolOffset EXCEPT ![t] = o]

(* Mutant: m_max_allocated is not moved on. *)
TakeSame(t, size) ==
  /\ poolOffset' = [poolOffset EXCEPT ![t] = maxAllocated]
  /\ UNCHANGED <<nodes, maxAllocated>>

(* no_reuse_allocator leaves the list alone. *)
TakeFresh(t, size) ==
  /\ poolOffset' = [poolOffset EXCEPT ![t] = maxAllocated]
  /\ maxAllocated' = maxAllocated + size
  /\ UNCHANGED nodes

(* allocate(tensor) *)
Allocate(t) ==
  LET size == Align(Size[t])
  IN  /\ outcome = "ok"
      /\ t \notin allocated
      /\ \/ scheme # "NO_REUSE" /\ TakeNode(t, size)
         \/ scheme = "NO_REUSE" /\ TakeFresh(t, size)
      /\ allocated' = allocated \cup {t}
      /\ UNCHANGED <<scheme, root, refCount, freed, outcome>>

(* allocate(tensor) when no node can serve it: bad_alloc is thrown. *)
AllocateFails(t) ==
  /\ outcome = "ok"
  /\ t \notin allocated
  /\ scheme # "NO_REUSE"
  /\ Fitting(nodes, Align(Size[t])) = {}
  /\ outcome' = "bad_alloc"
  /\ UNCHANGED <<scheme, nodes, maxAllocated, poolOffset, root, refCount, allocated, freed>>

(* root->ref() *)
Ref(r) == refCount[r] + 1

(***************************************************************************)
(* allocate(tensor, root_tensor, offset).  The layout pass passes the root *)
(* of the parent and an offset inside the parent, from the in-place pair   *)
(* of the kernel.  Both checks of the function are part of the outcome.    *)
(***************************************************************************)
AllocateRef(t, parent) ==
  LET r == RootOf(parent)
  IN  /\ outcome = "ok"
      /\ t \notin allocated
      /\ parent \in InUse
      /\ \E delta \in 0 .. Size[parent] :
           /\ delta + Size[t] <= Size[parent]
           /\ poolOffset' = [poolOffset EXCEPT ![t] = poolOffset[parent] + delta]
      /\ root' = [root EXCEPT ![t] = r]
      /\ refCount' = [refCount EXCEPT ![r] = Ref(r)]
      /\ outcome' = IF root[r] = None /\ Ref(r) > 1 THEN "ok" ELSE "check"
      /\ allocated' = allocated \cup {t}
      /\ UNCHANGED <<scheme, nodes, maxAllocated, freed>>

(***************************************************************************)
(* free(tensor).  Freeing a tensor that refers to another one is freeing   *)
(* its root; a root only gives its node back when nothing refers to it any *)
(* more.  The walk over the list that finds no node at the offset of the   *)
(* tensor fails the check "bad free".                                      *)
(***************************************************************************)
OwnCount(t) == t   (* mutant: a tensor that refers to another one frees itself *)

Counted(t) == RootOf(t)

AnyUser(r) == TRUE   (* mutant: the result of deref() is not looked at *)

LastUser(r) == refCount[r] = 1

Free(t) ==
  LET r == Counted(t)
      last == LastUser(r)
  IN  /\ outcome = "ok"
      /\ scheme # "NO_REUSE"
      /\ t \in InUse
      /\ refCount' = IF refCount[r] > 0 THEN [refCount EXCEPT ![r] = @ - 1] ELSE refCount
      /\ nodes' = IF last /\ poolOffset[r] \in DOMAIN nodes
                  THEN Release(nodes, poolOffset[r]) ELSE nodes
      /\ outcome' = IF refCount[r] = 0 THEN "check"
                    ELSE IF last /\ poolOffset[r] \notin DOMAIN nodes THEN "bad_free"
                    ELSE "ok"
      /\ freed' = freed \cup {t}
      /\ UNCHANGED <<scheme, maxAllocated, poolOffset, root, allocated>>

Next ==
  \E t \in Tensors :
    \/ Allocate(t)
    \/ AllocateFails(t)
    \/ \E parent \in Tensors : AllocateRef(t, parent)
    \/ Free(t)

Spec == Init /\ [][Next]_vars

-----------------------------------------------------------------------------
TypeOK ==
  /\ scheme \in Schemes
  /\ DOMAIN nodes \subseteq 0 .. PoolSize - 1
  /\ \A o \in DOMAIN nodes : nodes[o] \in Node
  /\ maxAllocated \in Nat
  /\ poolOffset \in [Tensors -> Nat \cup {None}]
  /\ root \in [Tensors -> Tensors \cup {None}]
  /\ refCount \in [Tensors -> Nat]
  /\ allocated \subseteq Tensors
  /\ freed \subseteq allocated
  /\ outcome \in {"ok", "bad_alloc", "bad_free", "check"}

(* Neither the checks of allocate and free nor the search of free ever     *)
(* fails under the client's use: no block is given back twice, and none is *)
(* lost from the list.                                                     *)
NoCheckFails == outcome \notin {"bad_free", "check"}

(* The walk of first_fit, best_fit and free sums up sizes: the list has to *)
(* tile the pool, with no overlap, no gap and no end past the pool.        *)
NodesTile == Tiles(nodes)

(* free joins the node it gives back with both neighbours, so that two     *)
(* FREE nodes never lie side by side.                                      *)
HolesAreJoined == Coalesced(nodes)

(* [lo, hi): the bytes of the pool a tensor uses. *)
Bytes(t) == [lo |-> poolOffset[t], hi |-> poolOffset[t] + Size[t]]

(* Two tensors in use share a byte only when one refers to the other or    *)
(* both refer to the same root; a tensor that refers to another one stays  *)
(* inside the block of its root.                                           *)
NoOverlap ==
  \A t, u \in InUse :
    /\ RootOf(t) # RootOf(u) =>
         Bytes(t).hi <= Bytes(u).lo \/ Bytes(u).hi <= Bytes(t).lo
    /\ /\ poolOffset[RootOf(t)] <= Bytes(t).lo
       /\ Bytes(t).hi <= poolOffset[RootOf(t)] + Size[RootOf(t)]

(* An ALLOCATED node is the block of exactly one root some tensor in use   *)
(* still refers to: a block is not given back early, and none is leaked    *)
(* once its last tensor is freed.                                          *)
Users(r) == {t \in InUse : RootOf(t) = r}
Owners == {r \in Tensors : Users(r) # {}}

NoLeak ==
  scheme # "NO_REUSE" =>
    /\ \A r \in Owners : poolOffset[r] \in Taken(nodes)
    /\ \A o \in Taken(nodes) :
         \E r \in Owners :
           /\ poolOffset[r] = o /\ nodes[o].size = Align(Size[r])
           /\ \A q \in Owners : poolOffset[q] = o => q = r

(* The pool of the generated program is as large as the highest byte any   *)
(* tensor is ever given, in use or not.                                    *)
PoolCoversTensors == \A t \in allocated : Bytes(t).hi <= maxAllocated

(* The block of a tensor with one of its own starts at a multiple of       *)
(* m_alignment, whatever was freed and joined before.                      *)
BlocksAreAligned ==
  \A t \in allocated : root[t] = None => (poolOffset[t] % Alignment) = 0

(* The peak of the pool grows only when no hole below it could have served *)
(* the request: what is freed is reused.  For best_fit that is a hole      *)
(* shorter than what is above the peak, as any is in a pool of 2^64 bytes. *)
HoleBelowPeak(size) ==
  \E o \in Fitting(nodes, size) :
    /\ o + size <= maxAllocated
    /\ scheme = "BEST_FIT" => nodes[o].size < PoolSize - maxAllocated

PeakGrowsOnlyWhenNeeded ==
  [][\A t \in Tensors :
       scheme # "NO_REUSE" /\ t \notin allocated /\ t \in allocated'
       /\ maxAllocated' > maxAllocated
         => ~HoleBelowPeak(Align(Size[t]))]_vars

(* bad_alloc is only thrown when no range of free bytes is long enough:    *)
(* the list never splits free memory into nodes that are too small alone.  *)
ClearRange(lo, hi) ==
  \A r \in Owners : hi <= poolOffset[r] \/ poolOffset[r] + Align(Size[r]) <= lo

FailsOnlyWhenFull ==
  [][\A t \in Tensors :
       AllocateFails(t) =>
         \A lo \in 0 .. PoolSize - Align(Size[t]) :
           ~ClearRange(lo, lo + Align(Size[t]))]_vars

(* The allocator implements the pool without nodes and counts: a block is  *)
(* reserved clear of the others, and dropped with the last of its users.   *)
Pool == INSTANCE MemoryPool WITH
  base  <- [t \in InUse |-> RootOf(t)],
  block <- [r \in Owners |-> [lo |-> poolOffset[r],
                             hi |-> poolOffset[r] + Align(Size[r])]]

ImplementsPool == Pool!Spec

-----------------------------------------------------------------------------
(***************************************************************************)
(* Why all this holds: the inductive invariant.                            *)
(***************************************************************************)

(* References are one level deep and only lead to allocated tensors. *)
RootsAreFlat ==
  \A t \in Tensors :
    /\ t \notin allocated => root[t] = None
    /\ root[t] # None => root[t] \in allocated /\ root[root[t]] = None

(* m_ref_count of a root counts the tensors in use that lie in its block;  *)
(* that of any other tensor is the 1 of its constructor.                   *)
CountsUsers ==
  \A r \in Tensors :
    refCount[r] = IF r \in allocated /\ root[r] = None
                  THEN Cardinality(Users(r)) ELSE 1

(* A tensor lies inside the tensor it refers to. *)
InsideRoot ==
  \A t \in allocated :
    /\ poolOffset[t] \in Nat /\ poolOffset[RootOf(t)] \in Nat
    /\ poolOffset[RootOf(t)] <= poolOffset[t]
    /\ poolOffset[t] + Size[t] <= poolOffset[RootOf(t)] + Size[RootOf(t)]

(* A node is taken iff it is the block of one root with users. *)
NodesAreBlocks ==
  /\ IsNodeList(nodes)
  /\ \A r \in Owners :
       /\ poolOffset[r] \in Taken(nodes)
       /\ nodes[poolOffset[r]].size = Align(Size[r])
  /\ \A r, q \in Owners : poolOffset[r] = poolOffset[q] => r = q
  /\ \A o \in Taken(nodes) : \E r \in Owners : poolOffset[r] = o

(* Without reuse blocks only pile up. *)
BlocksPileUp ==
  /\ nodes = EmptyPool /\ freed = {}
  /\ \A r, q \in Owners :
       r # q => \/ poolOffset[r] + Align(Size[r]) <= poolOffset[q]
                \/ poolOffset[q] + Align(Size[q]) <= poolOffset[r]

BlocksBelowPeak ==
  \A r \in allocated :
    root[r] = None => poolOffset[r] + Align(Size[r]) <= maxAllocated

IInv ==
  /\ TypeOK
  /\ outcome \in {"ok", "bad_alloc"}
  /\ RootsAreFlat
  /\ CountsUsers
  /\ InsideRoot
  /\ IF scheme = "NO_REUSE" THEN BlocksPileUp ELSE NodesAreBlocks
  /\ BlocksBelowPeak

(* Blocks start at multiples of m_alignment because nodes do. *)
OffsetsAligned ==
  /\ \A o \in DOMAIN nodes : (o % Alignment) = 0
  /\ scheme = "NO_REUSE" => (maxAllocated % Alignment) = 0
  /\ BlocksAreAligned
=============================================================================
