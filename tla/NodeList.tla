------------------------------ MODULE NodeList ------------------------------
(***************************************************************************)
(* The node list of one memory pool (MemoryAllocator::m_node_list): a list *)
(* of FREE and ALLOCATED nodes that the allocator walks while it adds up   *)
(* the sizes.  A node is identified here by the sum the walk has reached   *)
(* when it meets the node, its offset, so a list is the function from      *)
(* these offsets to the nodes.  Sizes are positive, so two nodes never     *)
(* have the same offset, and the order of the list is the order of the     *)
(* offsets.                                                                *)
(***************************************************************************)
EXTENDS Integers

CONSTANTS
  PoolSize,  (* numeric_limits<size_t>::max(), the size of the first node *)
  Alignment  (* m_alignment                                               *)

ASSUME PoolAssumption ==
  /\ PoolSize  \in Nat \ {0}
  /\ Alignment \in Nat \ {0}

Node == [size : 1 .. PoolSize, state : {"FREE", "ALLOCATED"}]

(* One past the last byte of the node at offset o. *)
EndOf(nodes, o) == o + nodes[o].size

IsFree(nodes, o) == nodes[o].state = "FREE"

(* The list the constructor builds: one FREE node. *)
EmptyPool == [o \in {0} |-> [size |-> PoolSize, state |-> "FREE"]]

UnroundedAlign(size) == IF size = 0 THEN Alignment ELSE size   (* mutant *)

(***************************************************************************)
(* MemoryAllocator::align.  A request of no byte still takes one unit.     *)
(***************************************************************************)
Align(size) ==
  IF size = 0 THEN Alignment
  ELSE IF (size % Alignment) > 0
       THEN size + (Alignment - (size % Alignment))
       ELSE size

(* The nodes that can serve an aligned request. *)
Fitting(nodes, size) ==
  {o \in DOMAIN nodes : IsFree(nodes, o) /\ nodes[o].size >= size}

(* The node first_fit stops at, the first one of the list that fits, *)
FirstFit(nodes, size) ==
  {o \in Fitting(nodes, size) : \A p \in Fitting(nodes, size) : o <= p}

WorstFit(nodes, size) ==   (* mutant: the comparison is turned round *)
  {o \in Fitting(nodes, size) :
     \A p \in Fitting(nodes, size) : nodes[o].size >= nodes[p].size}

(* and the one best_fit keeps, the first that leaves the least unused. *)
BestFit(nodes, size) ==
  {o \in Fitting(nodes, size) :
     \A p \in Fitting(nodes, size) :
       \/ nodes[o].size < nodes[p].size
       \/ nodes[o].size = nodes[p].size /\ o <= p}

(* Mutant: what is left keeps the size of the whole. *)
CarveKeepsSize(nodes, o, size) ==
  [p \in DOMAIN nodes \cup (IF nodes[o].size > size THEN {o + size} ELSE {}) |->
     IF p = o THEN [size |-> size, state |-> "ALLOCATED"]
     ELSE IF p \in DOMAIN nodes THEN nodes[p]
     ELSE [size |-> nodes[o].size, state |-> "FREE"]]

(***************************************************************************)
(* What both searches do with the node they settle on: an exact fit flips  *)
(* its state, otherwise an ALLOCATED node is inserted before what is left. *)
(***************************************************************************)
Carve(nodes, o, size) ==
  [p \in DOMAIN nodes \cup (IF nodes[o].size > size THEN {o + size} ELSE {}) |->
     IF p = o THEN [size |-> size, state |-> "ALLOCATED"]
     ELSE IF p \in DOMAIN nodes THEN nodes[p]
     ELSE [size |-> nodes[o].size - size, state |-> "FREE"]]

(***************************************************************************)
(* What free does with the node at offset o: it joins the node with its    *)
(* predecessor and with its successor when they are FREE.                  *)
(***************************************************************************)
StartKept(nodes, o) == o   (* mutant: the predecessor is not joined *)

JoinedStart(nodes, o) ==
  IF \E p \in DOMAIN nodes : IsFree(nodes, p) /\ EndOf(nodes, p) = o
  THEN CHOOSE p \in DOMAIN nodes : IsFree(nodes, p) /\ EndOf(nodes, p) = o
  ELSE o

EndKept(nodes, o) == EndOf(nodes, o)   (* mutant: the successor is not joined *)

JoinedEnd(nodes, o) ==
  LET next == EndOf(nodes, o)
  IN  IF next \in DOMAIN nodes /\ IsFree(nodes, next)
      THEN EndOf(nodes, next)
      ELSE next

Release(nodes, o) ==
  LET lo == JoinedStart(nodes, o)
      hi == JoinedEnd(nodes, o)
  IN  [p \in {q \in DOMAIN nodes : q <= lo \/ q >= hi} |->
         IF p = lo THEN [size |-> hi - lo, state |-> "FREE"] ELSE nodes[p]]

-----------------------------------------------------------------------------
(* A list tiles the pool: it starts at 0, each node ends where the next    *)
(* one starts and the last one where the pool ends.                        *)
Tiles(nodes) ==
  /\ 0 \in DOMAIN nodes
  /\ \A o \in DOMAIN nodes :
       EndOf(nodes, o) = PoolSize \/ EndOf(nodes, o) \in DOMAIN nodes
  /\ \A o, p \in DOMAIN nodes : o < p => EndOf(nodes, o) <= p

(* No two neighbours are FREE: a hole is one node, and a request that fits *)
(* in the hole fits in the node.                                           *)
Coalesced(nodes) ==
  \A o \in DOMAIN nodes :
    LET next == EndOf(nodes, o)
    IN  next \in DOMAIN nodes => ~(IsFree(nodes, o) /\ IsFree(nodes, next))

(* The shape of m_node_list between two calls. *)
IsNodeList(nodes) ==
  /\ DOMAIN nodes \subseteq 0 .. PoolSize - 1
  /\ \A o \in DOMAIN nodes : nodes[o] \in Node
  /\ Tiles(nodes)
  /\ Coalesced(nodes)

(* The offsets of the nodes that are somebody's block. *)
Taken(nodes) == {o \in DOMAIN nodes : ~IsFree(nodes, o)}
=============================================================================
