-------------------------- MODULE StructureProofs --------------------------
(***************************************************************************)
(* Lemmas about the operators of the structures the models are built from. *)
(* Of a node list: what its operations preserve, for every size of the     *)
(* pool and every alignment.  Of graphs: orders of sets, subsequences,     *)
(* flattened sequences, the order of the edges of a node and the walk of   *)
(* get_ordered_ops.                                                        *)
(***************************************************************************)
EXTENDS NodeList, GraphEdges, FiniteSetTheorems, SequenceTheorems,
        WellFoundedInduction, TLAPS

(***************************************************************************)
(* Node lists.                                                             *)
(***************************************************************************)

(* MemoryAllocator::align never returns 0, and never less than it is given. *)
LEMMA AlignCovers ==
  ASSUME NEW size \in Nat
  PROVE  Align(size) \in Nat \ {0} /\ size <= Align(size)
<1>1. (size % Alignment) \in 0 .. Alignment - 1
  BY PoolAssumption
<1>2. QED
  BY <1>1, PoolAssumption DEF Align

(* The list of the constructor. *)
LEMMA EmptyPoolIsNodeList == IsNodeList(EmptyPool) /\ Taken(EmptyPool) = {}
BY PoolAssumption
   DEF IsNodeList, EmptyPool, Node, Tiles, Coalesced, EndOf, IsFree, Taken

(***************************************************************************)
(* Serving a request from a FREE node keeps the list a list, takes exactly *)
(* one more block, of the size of the request, and moves no other one.     *)
(***************************************************************************)
LEMMA CarveTakes ==
  ASSUME NEW nodes, IsNodeList(nodes),
         NEW size \in Nat \ {0}, NEW o \in Fitting(nodes, size)
  PROVE  LET after == Carve(nodes, o, size)
         IN  /\ IsNodeList(after)
             /\ Taken(after) = Taken(nodes) \cup {o}
             /\ o \notin Taken(nodes)
             /\ after[o].size = size
             /\ \A p \in Taken(nodes) : after[p] = nodes[p]
<1> DEFINE after == Carve(nodes, o, size)
           rest == nodes[o].size > size
<1>1. /\ o \in DOMAIN nodes /\ o \in 0 .. PoolSize - 1
      /\ nodes[o].state = "FREE" /\ nodes[o].size \in 1 .. PoolSize /\ size <= nodes[o].size
  BY DEF Fitting, IsFree, IsNodeList, Node
<1>2. DOMAIN after = DOMAIN nodes \cup (IF rest THEN {o + size} ELSE {})
  BY DEF Carve
<1>3. rest => o + size \notin DOMAIN nodes
  BY <1>1 DEF IsNodeList, Tiles, EndOf, Node
<1>4. after[o] = [size |-> size, state |-> "ALLOCATED"]
  BY <1>1 DEF Carve
<1>5. \A p \in DOMAIN nodes : p # o => after[p] = nodes[p]
  BY <1>1, <1>3 DEF Carve
<1>6. rest => after[o + size] = [size |-> nodes[o].size - size, state |-> "FREE"]
  BY <1>1, <1>3 DEF Carve
<1>7. o + nodes[o].size <= PoolSize
  BY <1>1, PoolAssumption DEF IsNodeList, Tiles, EndOf, Node
<1>8. DOMAIN after \subseteq 0 .. PoolSize - 1
  BY <1>1, <1>2, <1>7, PoolAssumption DEF IsNodeList
<1>9. \A p \in DOMAIN after : after[p] \in Node
  <2> SUFFICES ASSUME NEW p \in DOMAIN after PROVE after[p] \in Node
    OBVIOUS
  <2>1. CASE p = o
    BY <2>1, <1>1, <1>4, PoolAssumption DEF Node
  <2>2. CASE p \in DOMAIN nodes /\ p # o
    BY <2>2, <1>5 DEF IsNodeList
  <2>3. CASE p \notin DOMAIN nodes
    BY <2>3, <1>1, <1>2, <1>6, PoolAssumption DEF Node
  <2>4. QED
    BY <2>1, <2>2, <2>3
<1> HIDE DEF after
<1>10. Tiles(after)
  <2>1. 0 \in DOMAIN after
    BY <1>2 DEF IsNodeList, Tiles
  <2>2. ASSUME NEW p \in DOMAIN after
        PROVE  EndOf(after, p) = PoolSize \/ EndOf(after, p) \in DOMAIN after
    BY <1>1, <1>2, <1>3, <1>4, <1>5, <1>6, PoolAssumption DEF IsNodeList, Tiles, EndOf, Node
  <2>3. ASSUME NEW p \in DOMAIN after, NEW q \in DOMAIN after, p < q
        PROVE  EndOf(after, p) <= q
    BY <2>3, <1>1, <1>2, <1>3, <1>4, <1>5, <1>6, PoolAssumption DEF IsNodeList, Tiles, EndOf, Node
  <2>4. QED
    BY <2>1, <2>2, <2>3 DEF Tiles
<1>11. Coalesced(after)
  <2> SUFFICES ASSUME NEW p \in DOMAIN after, EndOf(after, p) \in DOMAIN after,
                      IsFree(after, p), IsFree(after, EndOf(after, p))
               PROVE  FALSE
    BY DEF Coalesced
  <2>1. p # o /\ EndOf(after, p) # o
    BY <1>4 DEF IsFree
  <2>2. CASE p \in DOMAIN nodes
    <3>1. EndOf(after, p) = EndOf(nodes, p) /\ IsFree(nodes, p)
      BY <2>1, <2>2, <1>5 DEF EndOf, IsFree
    <3>2. EndOf(after, p) \in DOMAIN nodes
      BY <2>1, <2>2, <3>1, <1>1, <1>2, <1>3, PoolAssumption DEF IsNodeList, Tiles, EndOf, Node
    <3>3. QED
      BY <2>1, <2>2, <3>1, <3>2, <1>5 DEF IsNodeList, Coalesced, IsFree
  <2>3. CASE p \notin DOMAIN nodes
    <3>1. rest /\ p = o + size /\ EndOf(after, p) = EndOf(nodes, o)
      BY <2>3, <1>1, <1>2, <1>6 DEF EndOf
    <3>2. EndOf(after, p) \in DOMAIN nodes
      BY <3>1, <1>1, <1>2 DEF EndOf
    <3>3. QED
      BY <2>1, <3>1, <3>2, <1>1, <1>5 DEF IsNodeList, Coalesced, IsFree
  <2>4. QED
    BY <2>2, <2>3
<1>12. Taken(after) = Taken(nodes) \cup {o} /\ o \notin Taken(nodes)
  BY <1>1, <1>2, <1>3, <1>4, <1>5, <1>6 DEF Taken, IsFree
<1>13. \A p \in Taken(nodes) : after[p] = nodes[p]
  BY <1>1, <1>5 DEF Taken, IsFree
<1>14. QED
  BY <1>4, <1>8, <1>9, <1>10, <1>11, <1>12, <1>13 DEF IsNodeList, after

(***************************************************************************)
(* Giving a taken node back keeps the list a list with no two FREE         *)
(* neighbours, and neither gives back nor moves any other taken node.      *)
(***************************************************************************)
LEMMA ReleaseGivesBack ==
  ASSUME NEW nodes, IsNodeList(nodes), NEW o \in Taken(nodes)
  PROVE  LET after == Release(nodes, o)
         IN  /\ IsNodeList(after)
             /\ Taken(after) = Taken(nodes) \ {o}
             /\ \A p \in Taken(after) : after[p] = nodes[p]
<1> DEFINE lo == JoinedStart(nodes, o)
           hi == JoinedEnd(nodes, o)
           after == Release(nodes, o)
<1>1. /\ o \in DOMAIN nodes /\ ~IsFree(nodes, o)
      /\ \A p \in DOMAIN nodes : p \in Nat /\ EndOf(nodes, p) \in Nat /\ p < EndOf(nodes, p)
  BY PoolAssumption DEF Taken, IsNodeList, Node, EndOf
<1>2. /\ lo \in DOMAIN nodes
      /\ lo = o \/ (IsFree(nodes, lo) /\ EndOf(nodes, lo) = o)
      /\ \A p \in DOMAIN nodes : EndOf(nodes, p) = o /\ IsFree(nodes, p) => p = lo
  <2>1. \A p, q \in DOMAIN nodes : EndOf(nodes, p) = o /\ EndOf(nodes, q) = o => p = q
    BY <1>1 DEF IsNodeList, Tiles
  <2>2. QED
    BY <1>1, <2>1 DEF JoinedStart
<1>3. /\ hi = PoolSize \/ hi \in DOMAIN nodes
      /\ \/ hi = EndOf(nodes, o)
         \/ /\ EndOf(nodes, o) \in DOMAIN nodes
            /\ IsFree(nodes, EndOf(nodes, o))
            /\ hi = EndOf(nodes, EndOf(nodes, o))
      /\ hi \in DOMAIN nodes => ~IsFree(nodes, hi)
  BY <1>1 DEF JoinedEnd, IsNodeList, Tiles, Coalesced
<1>4. /\ lo \in Nat /\ hi \in Nat /\ o \in Nat
      /\ lo <= o /\ o < hi /\ lo < hi
  BY <1>1, <1>2, <1>3
<1>5. hi <= PoolSize
  BY <1>1, <1>3, PoolAssumption DEF IsNodeList
<1>6. DOMAIN after = {q \in DOMAIN nodes : q <= lo \/ q >= hi}
  BY DEF Release
<1>7. \A p \in DOMAIN after : p # lo => after[p] = nodes[p]
  BY DEF Release
<1>8. lo \in DOMAIN after /\ after[lo] = [size |-> hi - lo, state |-> "FREE"]
  BY <1>2, <1>4 DEF Release
<1>9. \A p \in DOMAIN nodes : lo < p /\ p < hi => p = o \/ IsFree(nodes, p)
  <2>1. \A p \in DOMAIN nodes : lo < p => o <= p
    BY <1>1, <1>2 DEF IsNodeList, Tiles
  <2>2. \A p \in DOMAIN nodes : o < p => EndOf(nodes, o) <= p
    BY <1>1 DEF IsNodeList, Tiles
  <2>3. \A p \in DOMAIN nodes : EndOf(nodes, o) < p => hi <= p
    BY <1>1, <1>3, <2>2 DEF IsNodeList, Tiles
  <2>4. QED
    BY <1>1, <1>3, <1>4, <2>1, <2>2, <2>3
<1> HIDE DEF after, lo, hi
<1>10. \A p \in DOMAIN after : after[p] \in Node
  <2>1. after[lo] \in Node
    BY <1>4, <1>5, <1>8, PoolAssumption DEF Node
  <2>2. QED
    BY <2>1, <1>6, <1>7 DEF IsNodeList
<1>11. EndOf(after, lo) = hi /\ \A p \in DOMAIN after : p # lo => EndOf(after, p) = EndOf(nodes, p)
  BY <1>1, <1>4, <1>7, <1>8 DEF EndOf
<1>12. Tiles(after)
  <2>1. 0 \in DOMAIN after
    BY <1>4, <1>6 DEF IsNodeList, Tiles
  <2>2. ASSUME NEW p \in DOMAIN after
        PROVE  EndOf(after, p) = PoolSize \/ EndOf(after, p) \in DOMAIN after
    <3>1. CASE p = lo
      BY <3>1, <1>3, <1>4, <1>6, <1>11
    <3>2. CASE p < lo
      BY <3>2, <1>1, <1>2, <1>4, <1>6, <1>11 DEF IsNodeList, Tiles
    <3>3. CASE hi <= p
      BY <3>3, <1>1, <1>2, <1>4, <1>6, <1>11 DEF IsNodeList, Tiles
    <3>4. QED
      BY <3>1, <3>2, <3>3, <1>1, <1>4, <1>6
  <2>3. ASSUME NEW p \in DOMAIN after, NEW q \in DOMAIN after, p < q
        PROVE  EndOf(after, p) <= q
    BY <2>3, <1>1, <1>2, <1>4, <1>6, <1>11 DEF IsNodeList, Tiles
  <2>4. QED
    BY <2>1, <2>2, <2>3 DEF Tiles
<1>13. Coalesced(after)
  <2> SUFFICES ASSUME NEW p \in DOMAIN after, EndOf(after, p) \in DOMAIN after,
                      IsFree(after, p), IsFree(after, EndOf(after, p))
               PROVE  FALSE
    BY DEF Coalesced
  <2>1. CASE p = lo
    <3>1. hi \in DOMAIN after /\ hi # lo /\ IsFree(after, hi)
      BY <2>1, <1>4, <1>11
    <3>2. hi \in DOMAIN nodes /\ IsFree(nodes, hi)
      BY <3>1, <1>6, <1>7 DEF IsFree
    <3>3. QED
      BY <3>2, <1>3
  <2>2. CASE p # lo /\ EndOf(after, p) = lo
    <3>1. EndOf(nodes, p) = lo /\ IsFree(nodes, p)
      BY <2>2, <1>7, <1>11 DEF IsFree
    <3>2. CASE lo = o
      BY <3>1, <3>2, <2>2, <1>2, <1>6
    <3>3. CASE lo # o
      BY <3>1, <3>3, <1>2, <1>6 DEF IsNodeList, Coalesced
    <3>4. QED
      BY <3>2, <3>3
  <2>3. CASE p # lo /\ EndOf(after, p) # lo
    BY <2>3, <1>6, <1>7, <1>11 DEF IsNodeList, Coalesced, IsFree
  <2>4. QED
    BY <2>1, <2>2, <2>3
<1>14. Taken(after) = Taken(nodes) \ {o}
  <2>1. lo \notin Taken(after)
    BY <1>8 DEF Taken, IsFree
  <2>2. lo = o \/ lo \notin Taken(nodes)
    BY <1>2 DEF Taken
  <2>3. ASSUME NEW p \in Taken(nodes), p # o
        PROVE  p \in Taken(after)
    BY <2>2, <2>3, <1>1, <1>4, <1>6, <1>7, <1>9 DEF Taken, IsFree
  <2>4. ASSUME NEW p \in Taken(after)
        PROVE  p \in Taken(nodes) /\ p # o
    BY <2>1, <2>4, <1>1, <1>4, <1>6, <1>7 DEF Taken, IsFree
  <2>5. QED
    BY <2>3, <2>4
<1>15. \A p \in Taken(after) : after[p] = nodes[p]
  BY <1>7, <1>8 DEF Taken, IsFree
<1>16. DOMAIN after \subseteq 0 .. PoolSize - 1
  BY <1>6 DEF IsNodeList
<1>17. QED
  BY <1>10, <1>12, <1>13, <1>14, <1>15, <1>16 DEF IsNodeList, after

-----------------------------------------------------------------------------
(* Sums of multiples, the step from one block to the next. *)
LEMMA SumOfMultiples ==
  ASSUME NEW n \in Nat \ {0}, NEW a \in Nat, NEW b \in Nat, a % n = 0, b % n = 0
  PROVE  (a + b) % n = 0
<1>1. \A x \in Nat : x % n = 0 => x = n * (x \div n) /\ x \div n \in Nat
  OBVIOUS
<1>2. \A k \in Nat : (n * k) % n = 0
  OBVIOUS
<1>3. PICK k \in Nat : a = n * k
  BY <1>1
<1>4. PICK m \in Nat : b = n * m
  BY <1>1
<1>5. a + b = n * (k + m) /\ k + m \in Nat
  BY <1>3, <1>4
<1>6. QED
  BY <1>2, <1>5

(* MemoryAllocator::align returns multiples of m_alignment. *)
LEMMA AlignRounds ==
  ASSUME NEW size \in Nat PROVE Align(size) % Alignment = 0
<1> USE PoolAssumption
<1> DEFINE k == size \div Alignment
           r == size % Alignment
<1>1. k \in Nat /\ r \in 0 .. Alignment - 1 /\ size = Alignment * k + r
  OBVIOUS
<1>2. \A j \in Nat : (Alignment * j) % Alignment = 0
  OBVIOUS
<1>3. CASE r > 0
  <2> HIDE DEF k
  <2>1. Align(size) = size + (Alignment - r)
    BY <1>3, <1>1 DEF Align
  <2> HIDE DEF r
  <2>2. Align(size) = Alignment * (k + 1)
    BY <2>1, <1>1
  <2> QED
    BY <2>2, <1>1, <1>2
<1>4. CASE r = 0
  BY <1>4, <1>1 DEF Align
<1> QED
  BY <1>1, <1>3, <1>4
-----------------------------------------------------------------------------
(* Of some offsets below a bound one is the last. *)
LEMMA LastOffset ==
  ASSUME NEW S, S \subseteq Nat, S # {}, NEW bound \in Nat, \A o \in S : o <= bound
  PROVE  \E o \in S : \A p \in S : p <= o
<1> DEFINE depths == {bound - o : o \in S}
<1>1. depths \in SUBSET Nat /\ depths # {}
  <2>1. \A o \in S : bound - o \in Nat
    OBVIOUS
  <2>2. QED
    BY <2>1
<1>2. \A o \in S : bound - o \in depths
  OBVIOUS
<1>3. \A c \in depths : \E o \in S : c = bound - o
  OBVIOUS
<1> HIDE DEF depths
<1>4. \E d \in depths : \A c \in depths : ~ (<<c, d>> \in OpToRel(<, Nat))
  BY <1>1, NatLessThanWellFounded, WFMin
<1>5. \A c, d \in depths : <<c, d>> \in OpToRel(<, Nat) <=> c < d
  BY <1>1 DEF OpToRel
<1>6. PICK d \in depths : \A c \in depths : ~ (c < d)
  BY <1>4, <1>5, Zenon
<1>7. PICK o \in S : d = bound - o
  BY <1>3
<1>8. \A p \in S : p <= o
  BY <1>1, <1>2, <1>6, <1>7
<1>9. QED
  BY <1>8

(* Every byte of the pool is in a node. *)
LEMMA NodeAt ==
  ASSUME NEW nodes, IsNodeList(nodes), NEW x \in 0 .. PoolSize - 1
  PROVE  \E o \in DOMAIN nodes : o <= x /\ x < EndOf(nodes, o)
<1> DEFINE S == {o \in DOMAIN nodes : o <= x}
<1>1. S \subseteq Nat /\ S # {} /\ x \in Nat /\ \A o \in S : o <= x
  BY PoolAssumption DEF IsNodeList, Tiles
<1> HIDE DEF S
<1>2. PICK o \in S : \A p \in S : p <= o
  <2>1. \E o \in S : \A p \in S : p <= o
    BY <1>1, LastOffset
  <2>2. QED
    BY <2>1
<1>3. /\ o \in DOMAIN nodes /\ o <= x /\ o \in Nat
      /\ EndOf(nodes, o) \in Nat /\ EndOf(nodes, o) > o
  BY <1>1, <1>2, PoolAssumption DEF S, IsNodeList, EndOf, Node
<1>4. EndOf(nodes, o) \notin S
  BY <1>2, <1>3
<1>5. EndOf(nodes, o) = PoolSize \/ EndOf(nodes, o) \in DOMAIN nodes
  BY <1>3 DEF IsNodeList, Tiles
<1>6. x < EndOf(nodes, o)
  BY <1>3, <1>4, <1>5, PoolAssumption DEF S
<1>7. QED
  BY <1>3, <1>6

(* The offsets of the nodes stay multiples of m_alignment: carving adds    *)
(* one by an aligned size, releasing only takes some away.                 *)
LEMMA CarveAligned ==
  ASSUME NEW nodes, IsNodeList(nodes), \A o \in DOMAIN nodes : o % Alignment = 0,
         NEW size \in Nat, size % Alignment = 0, NEW o \in DOMAIN nodes
  PROVE  \A p \in DOMAIN Carve(nodes, o, size) : p % Alignment = 0
<1>1. o \in Nat /\ o % Alignment = 0
  BY DEF IsNodeList
<1>2. (o + size) % Alignment = 0
  BY <1>1, PoolAssumption, SumOfMultiples
<1>3. DOMAIN Carve(nodes, o, size) \subseteq DOMAIN nodes \cup {o + size}
  BY DEF Carve
<1>4. QED
  BY <1>2, <1>3

(***************************************************************************)
(* Numbers and finite sets.                                                *)
(***************************************************************************)

(* Induction, for a set of numbers. *)
LEMMA EveryNumber ==
  ASSUME NEW S, 0 \in S, \A n \in Nat : n \in S => n + 1 \in S
  PROVE  Nat \subseteq S
<1> DEFINE Bad == Nat \ S
<1>1. SUFFICES ASSUME Bad # {} PROVE FALSE
  OBVIOUS
<1>2. PICK x \in Bad : \A y \in Bad : ~ (<<y, x>> \in OpToRel(<, Nat))
  BY <1>1, NatLessThanWellFounded, WFMin
<1>3. \A y \in Bad : ~ (y < x)
  BY <1>2 DEF OpToRel
<1>4. x \in Nat /\ x \notin S
  BY <1>2
<1>5. x # 0
  BY <1>4
<1>6. x - 1 \in Nat /\ x - 1 < x /\ (x - 1) + 1 = x
  BY <1>4, <1>5
<1>7. x - 1 \in S
  BY <1>3, <1>6
<1>8. QED
  BY <1>4, <1>6, <1>7

(* In a strict order of a finite set the numbers of those before an        *)
(* element are the numbers below the size of the set, each once.           *)
LEMMA RanksAreTaken ==
  ASSUME NEW S, IsFiniteSet(S), NEW before \in [S -> SUBSET S],
         \A e \in S : e \notin before[e],
         \A d, e \in S : d # e => d \in before[e] \/ e \in before[d],
         \A d, e \in S : d \in before[e] => before[d] \subseteq before[e]
  PROVE  /\ Cardinality(S) \in Nat
         /\ \A e \in S : Cardinality(before[e]) \in 0 .. Cardinality(S) - 1
         /\ \A d, e \in S : d \in before[e] <=> Cardinality(before[d]) < Cardinality(before[e])
         /\ \A d, e \in S : Cardinality(before[d]) = Cardinality(before[e]) => d = e
         /\ \A k \in 0 .. Cardinality(S) - 1 : \E e \in S : Cardinality(before[e]) = k
<1> DEFINE n == Cardinality(S)
           rank == [e \in S |-> Cardinality(before[e])]
<1>1. n \in Nat
  BY FS_CardinalityType
<1>2. \A e \in S : IsFiniteSet(before[e]) /\ Cardinality(before[e]) \in Nat
                   /\ Cardinality(before[e]) < n
  <2> TAKE e \in S
  <2>1. before[e] \subseteq S /\ before[e] # S
    OBVIOUS
  <2>2. QED
    BY <2>1, FS_Subset, FS_CardinalityType
<1>3. \A d, e \in S : d \in before[e] => Cardinality(before[d]) < Cardinality(before[e])
  <2> TAKE d, e \in S
  <2> HAVE d \in before[e]
  <2>1. before[d] \subseteq before[e] /\ before[d] # before[e]
    OBVIOUS
  <2>2. QED
    BY <2>1, <1>2, FS_Subset
<1>4. \A d, e \in S : Cardinality(before[d]) = Cardinality(before[e]) => d = e
  BY <1>2, <1>3
<1>5. \A d, e \in S : d \in before[e] <=> Cardinality(before[d]) < Cardinality(before[e])
  BY <1>2, <1>3
<1>6. IsFiniteSet(0 .. n - 1) /\ Cardinality(0 .. n - 1) = n
  <2>1. 0 \in Int /\ n - 1 \in Int
    BY <1>1
  <2>2. QED
    BY <2>1, <1>1, FS_Interval
<1>7. rank \in Injection(S, 0 .. n - 1)
  BY <1>1, <1>2, <1>4 DEF Injection, IsInjective
<1>8. rank \in Surjection(S, 0 .. n - 1)
  BY <1>6, <1>7, FS_Injection
<1>9. \A k \in 0 .. n - 1 : \E e \in S : Cardinality(before[e]) = k
  BY <1>8 DEF Surjection
<1>10. QED
  BY <1>1, <1>2, <1>4, <1>5, <1>9

(* Listed by their ranks, the elements of the set come in their order.     *)
IsList(order, n) == order = [i \in 1 .. n |-> order[i]]

LEMMA RanksGiveOrder ==
  ASSUME NEW S, IsFiniteSet(S), NEW before \in [S -> SUBSET S],
         \A e \in S : e \notin before[e],
         \A d, e \in S : d # e => d \in before[e] \/ e \in before[d],
         \A d, e \in S : d \in before[e] => before[d] \subseteq before[e],
         NEW order, IsList(order, Cardinality(S)),
         \A i \in 1 .. Cardinality(S) :
           (\E e \in S : Cardinality(before[e]) = i - 1) =>
             order[i] \in S /\ Cardinality(before[order[i]]) = i - 1
  PROVE  /\ Cardinality(S) \in Nat
         /\ order \in [1 .. Cardinality(S) -> S]
         /\ \A i, j \in 1 .. Cardinality(S) : i < j <=> order[i] \in before[order[j]]
         /\ \A e \in S : \E i \in 1 .. Cardinality(S) : order[i] = e
         /\ \A i \in 1 .. Cardinality(S) : Cardinality(before[order[i]]) = i - 1
         /\ order \in Seq(S) /\ IsInjective(order) /\ Range(order) = S
<1> DEFINE n == Cardinality(S)
<1>1. /\ n \in Nat
      /\ \A e \in S : Cardinality(before[e]) \in 0 .. n - 1
      /\ \A d, e \in S : d \in before[e] <=> Cardinality(before[d]) < Cardinality(before[e])
      /\ \A d, e \in S : Cardinality(before[d]) = Cardinality(before[e]) => d = e
      /\ \A k \in 0 .. n - 1 : \E e \in S : Cardinality(before[e]) = k
  BY RanksAreTaken
<1>2. order = [i \in 1 .. n |-> order[i]]
  BY DEF IsList
<1>3. ASSUME NEW i \in 1 .. n
      PROVE  order[i] \in S /\ Cardinality(before[order[i]]) = i - 1
  <2>1. i - 1 \in 0 .. n - 1
    BY <1>1
  <2>2. \E e \in S : Cardinality(before[e]) = i - 1
    BY <1>1, <2>1
  <2>3. QED
    BY <2>2
<1> HIDE DEF n
<1>4. order \in [1 .. n -> S]
  BY <1>2, <1>3
<1>5. \A i, j \in 1 .. n : i < j <=> order[i] \in before[order[j]]
  <2> TAKE i, j \in 1 .. n
  <2>1. /\ order[i] \in S /\ Cardinality(before[order[i]]) = i - 1
        /\ order[j] \in S /\ Cardinality(before[order[j]]) = j - 1
    BY <1>3
  <2>2. i \in Int /\ j \in Int
    BY <1>1
  <2>3. order[i] \in before[order[j]] <=> i - 1 < j - 1
    BY <1>1, <2>1
  <2>4. QED
    BY <2>2, <2>3
<1>6. \A e \in S : \E i \in 1 .. n : order[i] = e
  <2> TAKE e \in S
  <2>1. Cardinality(before[e]) + 1 \in 1 .. n
    BY <1>1
  <2>2. Cardinality(before[order[Cardinality(before[e]) + 1]]) = Cardinality(before[e])
    BY <1>1, <1>3, <2>1
  <2>3. order[Cardinality(before[e]) + 1] = e
    BY <1>1, <1>3, <2>1, <2>2
  <2>4. QED
    BY <2>1, <2>3
<1>7. order \in Seq(S) /\ DOMAIN order = 1 .. n
  BY <1>1, <1>4
<1>8. ASSUME NEW i \in 1 .. n, NEW j \in 1 .. n, order[i] = order[j] PROVE i = j
  <2>1. i - 1 = j - 1 /\ i \in Int /\ j \in Int
    BY <1>1, <1>3, <1>8
  <2>2. QED
    BY <2>1
<1>9. IsInjective(order)
  BY <1>7, <1>8 DEF IsInjective
<1>10. Range(order) = S
  BY <1>3, <1>6, <1>7 DEF Range
<1>11. QED
  BY <1>1, <1>3, <1>4, <1>5, <1>6, <1>7, <1>9, <1>10 DEF n

(* Ascending lists the members of a finite set of numbers.                 *)
LEMMA AscendingOrder ==
  ASSUME NEW S, S \subseteq Int, IsFiniteSet(S)
  PROVE  /\ Cardinality(S) \in Nat
         /\ Ascending(S) \in [1 .. Cardinality(S) -> S]
         /\ \A i, j \in 1 .. Cardinality(S) : i < j <=> Ascending(S)[i] < Ascending(S)[j]
         /\ \A e \in S : \E i \in 1 .. Cardinality(S) : Ascending(S)[i] = e
         /\ \A i \in 1 .. Cardinality(S) :
              Cardinality({d \in S : d < Ascending(S)[i]}) = i - 1
<1> DEFINE before == [e \in S |-> {d \in S : d < e}]
           order == Ascending(S)
           ranked(i) == CHOOSE e \in S : Cardinality({d \in S : d < e}) = i - 1
<1>1. before \in [S -> SUBSET S]
  OBVIOUS
<1>2. \A e \in S : before[e] = {d \in S : d < e}
  OBVIOUS
<1>3. \A d, e \in S : d \in before[e] <=> d < e
  BY <1>2
<1>4. \A e \in S : e \in Int
  OBVIOUS
<1>5. order = [i \in 1 .. Cardinality(S) |-> ranked(i)]
  BY DEF Ascending, InOrder
<1> HIDE DEF before, order, ranked
<1>6. \A e \in S : e \notin before[e]
  <2> TAKE e \in S
  <2>1. e \in Int
    BY <1>4
  <2>2. ~(e < e)
    BY <2>1
  <2>3. QED
    BY <1>3, <2>2
<1>7. \A d, e \in S : d # e => d \in before[e] \/ e \in before[d]
  <2> TAKE d, e \in S
  <2>1. d \in Int /\ e \in Int
    BY <1>4
  <2>2. d # e => d < e \/ e < d
    BY <2>1
  <2>3. QED
    BY <1>3, <2>2
<1>8. \A d, e \in S : d \in before[e] => before[d] \subseteq before[e]
  <2> SUFFICES ASSUME NEW d \in S, NEW e \in S, d \in before[e], NEW c \in before[d]
               PROVE  c \in before[e]
    OBVIOUS
  <2>1. c \in S
    BY <1>1
  <2>2. c < d /\ d < e
    BY <1>3, <2>1
  <2>3. QED
    BY <1>3, <1>4, <2>1, <2>2
<1>9. ASSUME NEW i \in 1 .. Cardinality(S), \E e \in S : Cardinality(before[e]) = i - 1
      PROVE  order[i] \in S /\ Cardinality(before[order[i]]) = i - 1
  <2>1. order[i] = ranked(i)
    BY <1>5
  <2>2. \E e \in S : Cardinality({d \in S : d < e}) = i - 1
    BY <1>2, <1>9
  <2>3. order[i] \in S /\ Cardinality({d \in S : d < order[i]}) = i - 1
    BY <2>1, <2>2 DEF ranked
  <2>4. QED
    BY <1>2, <2>3
<1>10. IsList(order, Cardinality(S))
  BY <1>5 DEF IsList
<1>11. /\ Cardinality(S) \in Nat
       /\ order \in [1 .. Cardinality(S) -> S]
       /\ \A i, j \in 1 .. Cardinality(S) : i < j <=> order[i] \in before[order[j]]
       /\ \A e \in S : \E i \in 1 .. Cardinality(S) : order[i] = e
       /\ \A i \in 1 .. Cardinality(S) : Cardinality(before[order[i]]) = i - 1
  <2>1. Cardinality(S) \in Nat /\ order \in [1 .. Cardinality(S) -> S]
    BY <1>1, <1>6, <1>7, <1>8, <1>9, <1>10, RanksGiveOrder, SMTT(60)
  <2>2. \A i, j \in 1 .. Cardinality(S) : i < j <=> order[i] \in before[order[j]]
    BY <1>1, <1>6, <1>7, <1>8, <1>9, <1>10, RanksGiveOrder, SMTT(90)
  <2>3. \A e \in S : \E i \in 1 .. Cardinality(S) : order[i] = e
    BY <1>1, <1>6, <1>7, <1>8, <1>9, <1>10, RanksGiveOrder, SMTT(60)
  <2>4. \A i \in 1 .. Cardinality(S) : Cardinality(before[order[i]]) = i - 1
    BY <1>1, <1>6, <1>7, <1>8, <1>9, <1>10, RanksGiveOrder, SMTT(60)
  <2>5. QED
    BY <2>1, <2>2, <2>3, <2>4
<1>12. \A i, j \in 1 .. Cardinality(S) : i < j <=> order[i] < order[j]
  BY <1>3, <1>11
<1>13. \A i \in 1 .. Cardinality(S) : Cardinality({d \in S : d < order[i]}) = i - 1
  BY <1>2, <1>11
<1>14. QED
  BY <1>11, <1>12, <1>13 DEF order
(***************************************************************************)
(* Subsequences.                                                           *)
(***************************************************************************)

(* Picked goes through the places upwards.                                 *)
LEMMA PickedAt ==
  ASSUME NEW T, NEW s \in Seq(T), NEW places, places \subseteq DOMAIN s
  PROVE  /\ IsFiniteSet(places) /\ Cardinality(places) \in Nat
         /\ Picked(s, places) \in Seq(T) /\ Len(Picked(s, places)) = Cardinality(places)
         /\ DOMAIN Picked(s, places) = 1 .. Cardinality(places)
         /\ Ascending(places) \in [1 .. Cardinality(places) -> places]
         /\ \A i \in 1 .. Cardinality(places) :
              Picked(s, places)[i] = s[Ascending(places)[i]]
         /\ \A i, j \in 1 .. Cardinality(places) :
              i < j <=> Ascending(places)[i] < Ascending(places)[j]
         /\ \A e \in places : \E i \in 1 .. Cardinality(places) : Ascending(places)[i] = e
         /\ \A i \in 1 .. Cardinality(places) :
              Cardinality({d \in places : d < Ascending(places)[i]}) = i - 1
<1> DEFINE n == Cardinality(places)
           at == Ascending(places)
<1>1. DOMAIN s = 1 .. Len(s) /\ Len(s) \in Nat
  OBVIOUS
<1>2. IsFiniteSet(1 .. Len(s))
  BY <1>1, FS_Interval
<1>3. IsFiniteSet(places) /\ places \subseteq Int
  BY <1>1, <1>2, FS_Subset
<1>4. /\ n \in Nat
      /\ at \in [1 .. n -> places]
      /\ \A i, j \in 1 .. n : i < j <=> at[i] < at[j]
      /\ \A e \in places : \E i \in 1 .. n : at[i] = e
      /\ \A i \in 1 .. n : Cardinality({d \in places : d < at[i]}) = i - 1
  BY <1>3, AscendingOrder
<1>5. Picked(s, places) = [i \in DOMAIN at |-> s[at[i]]]
  BY DEF Picked
<1> HIDE DEF n, at
<1>6. DOMAIN at = 1 .. n /\ \A i \in 1 .. n : at[i] \in places
  BY <1>4
<1>7. \A i \in 1 .. n : s[at[i]] \in T
  BY <1>1, <1>6
<1>8. Picked(s, places) = [i \in 1 .. n |-> s[at[i]]]
  BY <1>5, <1>6
<1>9. Picked(s, places) \in Seq(T) /\ Len(Picked(s, places)) = n
  BY <1>4, <1>7, <1>8
<1>10. DOMAIN Picked(s, places) = 1 .. n
  BY <1>8
<1>11. \A i \in 1 .. n : Picked(s, places)[i] = s[at[i]]
  BY <1>8
<1>12. QED
  BY <1>3, <1>4, <1>9, <1>10, <1>11 DEF n, at

(* The elements at the places, and the rest of the sequence is not there.  *)
LEMMA PickedRange ==
  ASSUME NEW T, NEW s \in Seq(T), NEW places, places \subseteq DOMAIN s
  PROVE  /\ \A i \in places : \E j \in DOMAIN Picked(s, places) : Picked(s, places)[j] = s[i]
         /\ \A j \in DOMAIN Picked(s, places) : \E i \in places : Picked(s, places)[j] = s[i]
         /\ IsInjective(s) => IsInjective(Picked(s, places))
<1> DEFINE n == Cardinality(places)
           at == Ascending(places)
           q == Picked(s, places)
<1>1. /\ DOMAIN q = 1 .. n
      /\ at \in [1 .. n -> places]
      /\ \A i \in 1 .. n : q[i] = s[at[i]]
      /\ \A i, j \in 1 .. n : i < j <=> at[i] < at[j]
      /\ \A e \in places : \E i \in 1 .. n : at[i] = e
      /\ n \in Nat
  BY PickedAt
<1> HIDE DEF n, at, q
<1>2. ASSUME IsInjective(s), NEW i \in 1 .. n, NEW j \in 1 .. n, q[i] = q[j]
      PROVE  i = j
  <2>1. at[i] \in DOMAIN s /\ at[j] \in DOMAIN s /\ s[at[i]] = s[at[j]]
    BY <1>1, <1>2
  <2>2. at[i] = at[j]
    BY <1>2, <2>1 DEF IsInjective
  <2>3. at[i] \in Int
    BY <2>1
  <2>4. ~(at[i] < at[j]) /\ ~(at[j] < at[i])
    BY <2>2, <2>3
  <2>5. ~(i < j) /\ ~(j < i)
    BY <1>1, <2>4
  <2>6. QED
    BY <1>1, <2>5
<1>3. IsInjective(s) => IsInjective(q)
  BY <1>1, <1>2 DEF IsInjective
<1>4. \A i \in places : \E j \in DOMAIN q : q[j] = s[i]
  <2> TAKE i \in places
  <2>1. PICK j \in 1 .. n : at[j] = i
    BY <1>1
  <2>2. j \in DOMAIN q /\ q[j] = s[i]
    BY <1>1, <2>1
  <2>3. QED
    BY <2>2
<1>5. \A j \in DOMAIN q : \E i \in places : q[j] = s[i]
  <2> TAKE j \in DOMAIN q
  <2>1. at[j] \in places /\ q[j] = s[at[j]]
    BY <1>1
  <2>2. QED
    BY <2>1
<1>6. QED
  BY <1>3, <1>4, <1>5 DEF q

(***************************************************************************)
(* Flattened sequences.                                                    *)
(***************************************************************************)

(* The function that FlattenSeq computes with.                             *)
FlatBy(f, s, n) == f = [i \in 1 .. n |-> IF i = 1 THEN s[i] ELSE f[i - 1] \o s[i]]

LEMMA FlatExists ==
  ASSUME NEW s
  PROVE  \A n \in Nat : \E f : FlatBy(f, s, n)
<1> DEFINE S == {n \in Nat : \E f : FlatBy(f, s, n)}
<1>1. 0 \in S
  <2>1. FlatBy([i \in 1 .. 0 |-> s[i]], s, 0)
    BY DEF FlatBy
  <2>2. QED
    BY <2>1
<1>2. ASSUME NEW n \in Nat, n \in S PROVE n + 1 \in S
  <2>1. PICK f : FlatBy(f, s, n)
    BY <1>2
  <2> DEFINE g == [i \in 1 .. n + 1 |-> IF i = n + 1 THEN IF i = 1 THEN s[i] ELSE f[i - 1] \o s[i]
                                       ELSE f[i]]
             h == [i \in 1 .. n + 1 |-> IF i = 1 THEN s[i] ELSE g[i - 1] \o s[i]]
  <2>2. ASSUME NEW i \in 1 .. n + 1 PROVE g[i] = h[i]
    <3>1. CASE i = n + 1
      <4>1. i # 1 => i - 1 \in 1 .. n /\ i - 1 # n + 1
        BY <3>1
      <4>2. i # 1 => g[i - 1] = f[i - 1]
        BY <4>1
      <4>3. QED
        BY <3>1, <4>2
    <3>2. CASE i # n + 1
      <4>1. i \in 1 .. n
        BY <3>2
      <4>2. f[i] = IF i = 1 THEN s[i] ELSE f[i - 1] \o s[i]
        BY <2>1, <4>1 DEF FlatBy
      <4>3. i # 1 => i - 1 \in 1 .. n + 1 /\ i - 1 # n + 1
        BY <4>1
      <4>4. i # 1 => g[i - 1] = f[i - 1]
        BY <4>3
      <4>5. QED
        BY <3>2, <4>2, <4>4
    <3>3. QED
      BY <3>1, <3>2
  <2>3. g = h
    BY <2>2
  <2>4. FlatBy(g, s, n + 1)
    BY <2>3 DEF FlatBy
  <2>5. QED
    BY <2>4
<1>3. Nat \subseteq S
  <2> HIDE DEF S
  <2>1. QED
    BY <1>1, <1>2, EveryNumber
<1>4. QED
  BY <1>3

(* It is the same for sequences that begin in the same way.                *)
LEMMA FlatUnique ==
  ASSUME NEW s, NEW t, NEW m, NEW n, NEW f, NEW g,
         FlatBy(f, s, m), FlatBy(g, t, n), m \in Nat, n \in Nat, m <= n,
         \A i \in 1 .. m : s[i] = t[i]
  PROVE  \A i \in 1 .. m : f[i] = g[i]
<1> DEFINE S == {k \in Nat : k \in 1 .. m => f[k] = g[k]}
<1>1. 0 \in S
  OBVIOUS
<1>2. ASSUME NEW k \in Nat, k \in S PROVE k + 1 \in S
  <2>1. SUFFICES ASSUME k + 1 \in 1 .. m PROVE f[k + 1] = g[k + 1]
    OBVIOUS
  <2>2. k + 1 \in 1 .. n /\ s[k + 1] = t[k + 1]
    BY <2>1
  <2>3. /\ f[k + 1] = IF k + 1 = 1 THEN s[k + 1] ELSE f[(k + 1) - 1] \o s[k + 1]
        /\ g[k + 1] = IF k + 1 = 1 THEN t[k + 1] ELSE g[(k + 1) - 1] \o t[k + 1]
    BY <2>1, <2>2 DEF FlatBy
  <2>4. k + 1 # 1 => f[k] = g[k]
    BY <1>2, <2>1
  <2>5. (k + 1) - 1 = k
    OBVIOUS
  <2>6. QED
    BY <2>2, <2>3, <2>4, <2>5
<1>3. Nat \subseteq S
  <2> HIDE DEF S
  <2>1. QED
    BY <1>1, <1>2, EveryNumber
<1>4. QED
  BY <1>3

LEMMA FlattenBy ==
  ASSUME NEW T, NEW s \in Seq(T), Len(s) # 0
  PROVE  \E f : FlatBy(f, s, Len(s)) /\ FlattenSeq(s) = f[Len(s)]
<1> DEFINE f == CHOOSE f : f = [i \in 1 .. Len(s) |-> IF i = 1 THEN s[i] ELSE f[i - 1] \o s[i]]
<1>1. Len(s) \in Nat
  OBVIOUS
<1>2. \E g : g = [i \in 1 .. Len(s) |-> IF i = 1 THEN s[i] ELSE g[i - 1] \o s[i]]
  BY <1>1, FlatExists DEF FlatBy
<1>3. f = [i \in 1 .. Len(s) |-> IF i = 1 THEN s[i] ELSE f[i - 1] \o s[i]]
  BY <1>2
<1>4. FlattenSeq(s) = f[Len(s)]
  BY DEF FlattenSeq
<1> HIDE DEF f
<1>5. QED
  BY <1>3, <1>4 DEF FlatBy

(* FlattenSeq, for a sequence that is made element by element.             *)
LEMMA FlattenEmpty == FlattenSeq(<<>>) = <<>>
BY DEF FlattenSeq

LEMMA FlattenAppend ==
  ASSUME NEW T, NEW s \in Seq(Seq(T)), NEW x \in Seq(T)
  PROVE  FlattenSeq(Append(s, x)) = FlattenSeq(s) \o x
<1> DEFINE t == Append(s, x)
           n == Len(s)
<1>1. /\ n \in Nat /\ t \in Seq(Seq(T)) /\ Len(t) = n + 1 /\ t[n + 1] = x
      /\ \A i \in 1 .. n : s[i] = t[i]
  OBVIOUS
<1>2. n + 1 # 0 /\ n + 1 \in Nat /\ n + 1 \in 1 .. n + 1 /\ n <= n + 1
  BY <1>1
<1>3. (n # 0 => n + 1 # 1 /\ n \in 1 .. n) /\ (n + 1) - 1 = n
  BY <1>1
<1>4. n = 0 => s = <<>>
  OBVIOUS
<1>5. n # 0 => \E f : FlatBy(f, s, n) /\ FlattenSeq(s) = f[n]
  BY FlattenBy
<1>6. FlattenSeq(Append(s, x)) = FlattenSeq(t)
  OBVIOUS
<1> HIDE DEF t, n
<1>7. \E g : FlatBy(g, t, Len(t)) /\ FlattenSeq(t) = g[Len(t)]
  <2>1. Len(t) # 0
    BY <1>1, <1>2
  <2>2. QED
    BY <1>1, <2>1, FlattenBy
<1>8. PICK g : FlatBy(g, t, n + 1) /\ FlattenSeq(t) = g[n + 1]
  BY <1>1, <1>7
<1>9. g[n + 1] = IF n + 1 = 1 THEN t[n + 1] ELSE g[(n + 1) - 1] \o t[n + 1]
  BY <1>2, <1>8 DEF FlatBy
<1>10. CASE n = 0
  <2>1. FlattenSeq(s) = <<>>
    BY <1>4, <1>10, FlattenEmpty
  <2>2. <<>> \o x = x
    OBVIOUS
  <2>3. g[n + 1] = x
    BY <1>1, <1>9, <1>10
  <2>4. QED
    BY <1>6, <1>8, <2>1, <2>2, <2>3
<1>11. CASE n # 0
  <2>1. PICK f : FlatBy(f, s, n) /\ FlattenSeq(s) = f[n]
    BY <1>5, <1>11
  <2>2. \A i \in 1 .. n : f[i] = g[i]
    <3>1. PICK m \in Nat : m = n + 1
      BY <1>2
    <3>2. n \in Nat /\ n <= m /\ \A i \in 1 .. n : s[i] = t[i]
      BY <1>1, <1>2, <3>1
    <3>3. FlatBy(f, s, n) /\ FlatBy(g, t, m)
      BY <1>8, <2>1, <3>1
    <3>4. PICK k \in Nat : k = n
      BY <1>1
    <3>5. \A i \in 1 .. k : f[i] = g[i]
      BY <3>2, <3>3, <3>4, FlatUnique
    <3>6. QED
      BY <3>4, <3>5
  <2>3. f[n] = g[n]
    BY <1>3, <1>11, <2>2
  <2>4. g[n + 1] = g[n] \o x
    BY <1>1, <1>3, <1>9, <1>11
  <2>5. QED
    BY <1>6, <1>8, <2>1, <2>3, <2>4
<1>12. QED
  BY <1>10, <1>11

(* Induction, for a set of sequences. *)
LEMMA EverySequence ==
  ASSUME NEW T, NEW S, <<>> \in S,
         \A s \in Seq(T) : \A x \in T : s \in S => Append(s, x) \in S
  PROVE  Seq(T) \subseteq S
<1> DEFINE N == {n \in Nat : \A s \in Seq(T) : Len(s) = n => s \in S}
<1>1. 0 \in N
  <2> SUFFICES ASSUME NEW s \in Seq(T), Len(s) = 0 PROVE s \in S
    OBVIOUS
  <2>1. s = <<>>
    OBVIOUS
  <2>2. QED
    BY <2>1
<1>2. ASSUME NEW n \in Nat, n \in N PROVE n + 1 \in N
  <2> SUFFICES ASSUME NEW s \in Seq(T), Len(s) = n + 1 PROVE s \in S
    OBVIOUS
  <2>1. s # <<>>
    OBVIOUS
  <2>2. PICK r \in Seq(T), x \in T : s = Append(r, x)
    BY <2>1, SequenceEmptyOrAppend
  <2>3. Len(r) = n
    BY <2>2
  <2>4. r \in S
    BY <1>2, <2>3
  <2>5. QED
    BY <2>2, <2>4
<1>3. Nat \subseteq N
  <2> HIDE DEF N
  <2>1. QED
    BY <1>1, <1>2, EveryNumber
<1>4. SUFFICES ASSUME NEW s \in Seq(T) PROVE s \in S
  OBVIOUS
<1>5. Len(s) \in Nat
  OBVIOUS
<1>6. QED
  BY <1>3, <1>5

(* What two sequences have together. *)
LEMMA ConcatInjective ==
  ASSUME NEW T, NEW s \in Seq(T), NEW t \in Seq(T)
  PROVE  IsInjective(s \o t) <=>
           IsInjective(s) /\ IsInjective(t) /\ Range(s) \cap Range(t) = {}
<1> DEFINE m == Len(s)
           n == Len(t)
           u == s \o t
<1>1. /\ m \in Nat /\ n \in Nat
      /\ DOMAIN s = 1 .. m /\ DOMAIN t = 1 .. n /\ DOMAIN u = 1 .. m + n
      /\ \A i \in 1 .. m + n : u[i] = IF i <= m THEN s[i] ELSE t[i - m]
  OBVIOUS
<1> HIDE DEF m, n, u
<1>2. \A i \in 1 .. m : i \in 1 .. m + n /\ u[i] = s[i]
  BY <1>1
<1>3. \A i \in 1 .. n : m + i \in 1 .. m + n /\ u[m + i] = t[i]
  <2> TAKE i \in 1 .. n
  <2>1. m + i \in 1 .. m + n /\ ~(m + i <= m) /\ (m + i) - m = i
    BY <1>1
  <2>2. QED
    BY <1>1, <2>1
<1>4. \A i \in 1 .. m + n : i \in 1 .. m \/ \E j \in 1 .. n : i = m + j
  <2> TAKE i \in 1 .. m + n
  <2>1. i \in 1 .. m \/ (i - m \in 1 .. n /\ i = m + (i - m))
    BY <1>1
  <2>2. QED
    BY <2>1
<1>5. ASSUME IsInjective(u)
      PROVE  IsInjective(s) /\ IsInjective(t) /\ Range(s) \cap Range(t) = {}
  <2>1. IsInjective(s)
    BY <1>1, <1>2, <1>5 DEF IsInjective
  <2>2. ASSUME NEW i \in 1 .. n, NEW j \in 1 .. n, t[i] = t[j] PROVE i = j
    <3>1. m + i = m + j
      BY <1>1, <1>3, <1>5, <2>2 DEF IsInjective
    <3>2. QED
      BY <1>1, <3>1
  <2>3. ASSUME NEW i \in 1 .. m, NEW j \in 1 .. n, s[i] = t[j] PROVE FALSE
    <3>1. i = m + j
      BY <1>1, <1>2, <1>3, <1>5, <2>3 DEF IsInjective
    <3>2. QED
      BY <1>1, <3>1
  <2>4. QED
    BY <1>1, <2>1, <2>2, <2>3 DEF IsInjective, Range
<1>6. ASSUME IsInjective(s), IsInjective(t), Range(s) \cap Range(t) = {}
      PROVE  IsInjective(u)
  <2>1. SUFFICES ASSUME NEW i \in 1 .. m + n, NEW j \in 1 .. m + n, u[i] = u[j]
                 PROVE  i = j
    BY <1>1 DEF IsInjective
  <2>2. \A k \in 1 .. m, l \in 1 .. n : s[k] # t[l]
    BY <1>1, <1>6 DEF Range
  <2>3. CASE i \in 1 .. m /\ j \in 1 .. m
    BY <1>1, <1>2, <1>6, <2>1, <2>3 DEF IsInjective
  <2>4. ASSUME NEW k \in 1 .. n, i = m + k, NEW l \in 1 .. n, j = m + l PROVE i = j
    <3>1. t[k] = t[l]
      BY <1>3, <2>1, <2>4
    <3>2. DOMAIN t = 1 .. n
      BY <1>1
    <3>3. k = l
      BY <1>6, <3>1, <3>2 DEF IsInjective
    <3>4. QED
      BY <2>4, <3>3
  <2>5. ASSUME i \in 1 .. m, NEW l \in 1 .. n, j = m + l PROVE FALSE
    BY <1>2, <1>3, <2>1, <2>2, <2>5
  <2>6. ASSUME j \in 1 .. m, NEW l \in 1 .. n, i = m + l PROVE FALSE
    BY <1>2, <1>3, <2>1, <2>2, <2>6
  <2>7. QED
    BY <1>4, <2>3, <2>4, <2>5, <2>6
<1>7. QED
  BY <1>5, <1>6 DEF u

LEMMA FlattenType ==
  ASSUME NEW T
  PROVE  \A s \in Seq(Seq(T)) : FlattenSeq(s) \in Seq(T)
<1> DEFINE S == {s \in Seq(Seq(T)) : FlattenSeq(s) \in Seq(T)}
<1>1. <<>> \in S
  <2>1. <<>> \in Seq(Seq(T)) /\ <<>> \in Seq(T)
    OBVIOUS
  <2>2. QED
    BY <2>1, FlattenEmpty
<1>2. ASSUME NEW s \in Seq(Seq(T)), NEW x \in Seq(T), s \in S PROVE Append(s, x) \in S
  <2>1. FlattenSeq(Append(s, x)) = FlattenSeq(s) \o x
    BY FlattenAppend
  <2>2. Append(s, x) \in Seq(Seq(T)) /\ FlattenSeq(s) \o x \in Seq(T)
    BY <1>2
  <2>3. QED
    BY <2>1, <2>2
<1>3. Seq(Seq(T)) \subseteq S
  <2> HIDE DEF S
  <2>1. QED
    BY <1>1, <1>2, EverySequence
<1>4. QED
  BY <1>3

LEMMA FlattenOne ==
  ASSUME NEW T, NEW x \in Seq(T)
  PROVE  FlattenSeq(<<x>>) = x
<1>1. <<>> \in Seq(Seq(T)) /\ <<x>> = Append(<<>>, x)
  OBVIOUS
<1>2. FlattenSeq(<<x>>) = FlattenSeq(<<>>) \o x
  BY <1>1, FlattenAppend
<1>3. QED
  BY <1>2, FlattenEmpty

LEMMA FlattenConcat ==
  ASSUME NEW T, NEW s \in Seq(Seq(T))
  PROVE  \A t \in Seq(Seq(T)) : FlattenSeq(s \o t) = FlattenSeq(s) \o FlattenSeq(t)
<1> DEFINE S == {t \in Seq(Seq(T)) : FlattenSeq(s \o t) = FlattenSeq(s) \o FlattenSeq(t)}
<1>1. <<>> \in S
  <2>1. FlattenSeq(s) \in Seq(T)
    BY FlattenType
  <2>2. s \o <<>> = s /\ FlattenSeq(s) \o <<>> = FlattenSeq(s) /\ <<>> \in Seq(Seq(T))
    BY <2>1
  <2>3. QED
    BY <2>2, FlattenEmpty
<1>2. ASSUME NEW t \in Seq(Seq(T)), NEW x \in Seq(T), t \in S PROVE Append(t, x) \in S
  <2>1. /\ s \o Append(t, x) = Append(s \o t, x)
        /\ s \o t \in Seq(Seq(T)) /\ Append(t, x) \in Seq(Seq(T))
    OBVIOUS
  <2>2. FlattenSeq(s \o Append(t, x)) = FlattenSeq(s \o t) \o x
    BY <2>1, FlattenAppend
  <2>3. FlattenSeq(Append(t, x)) = FlattenSeq(t) \o x
    BY FlattenAppend
  <2>4. FlattenSeq(s) \in Seq(T) /\ FlattenSeq(t) \in Seq(T)
    BY FlattenType
  <2>5. (FlattenSeq(s) \o FlattenSeq(t)) \o x = FlattenSeq(s) \o (FlattenSeq(t) \o x)
    BY <2>4, ConcatAssociative
  <2>6. FlattenSeq(s \o t) = FlattenSeq(s) \o FlattenSeq(t)
    BY <1>2
  <2>7. QED
    BY <2>1, <2>2, <2>3, <2>5, <2>6
<1>3. Seq(Seq(T)) \subseteq S
  <2> HIDE DEF S
  <2>1. QED
    BY <1>1, <1>2, EverySequence
<1>4. QED
  BY <1>3

(* An element is there if it is in a part. *)
LEMMA FlattenRange ==
  ASSUME NEW T
  PROVE  \A s \in Seq(Seq(T)) : \A y :
           y \in Range(FlattenSeq(s)) <=> \E k \in DOMAIN s : y \in Range(s[k])
<1> DEFINE S == {s \in Seq(Seq(T)) :
                   \A y : y \in Range(FlattenSeq(s)) <=> \E k \in DOMAIN s : y \in Range(s[k])}
<1>1. <<>> \in S
  BY FlattenEmpty DEF Range
<1>2. ASSUME NEW s \in Seq(Seq(T)), NEW x \in Seq(T), s \in S PROVE Append(s, x) \in S
  <2> DEFINE t == Append(s, x)
  <2>1. /\ t \in Seq(Seq(T)) /\ DOMAIN t = 1 .. Len(s) + 1 /\ DOMAIN s = 1 .. Len(s)
        /\ Len(s) \in Nat /\ t[Len(s) + 1] = x /\ \A k \in 1 .. Len(s) : t[k] = s[k]
    OBVIOUS
  <2>2. FlattenSeq(t) = FlattenSeq(s) \o x
    BY FlattenAppend
  <2> HIDE DEF t
  <2>3. FlattenSeq(s) \in Seq(T)
    BY FlattenType
  <2>4. Range(FlattenSeq(t)) = Range(FlattenSeq(s)) \cup Range(x)
    BY <2>2, <2>3, RangeConcatenation
  <2>5. \A k : k \in DOMAIN t <=> k \in DOMAIN s \/ k = Len(s) + 1
    BY <2>1
  <2>6. \A y : y \in Range(FlattenSeq(t)) <=> \E k \in DOMAIN t : y \in Range(t[k])
    <3> TAKE y
    <3>1. (\E k \in DOMAIN t : y \in Range(t[k])) <=>
            (\E k \in DOMAIN s : y \in Range(s[k])) \/ y \in Range(x)
      BY <2>1, <2>5
    <3>2. y \in Range(FlattenSeq(s)) <=> \E k \in DOMAIN s : y \in Range(s[k])
      BY <1>2
    <3>3. QED
      BY <2>4, <3>1, <3>2
  <2>7. QED
    BY <2>1, <2>6 DEF t
<1>3. Seq(Seq(T)) \subseteq S
  <2> HIDE DEF S
  <2>1. QED
    BY <1>1, <1>2, EverySequence
<1>4. QED
  BY <1>3

(* It is there once if it is once in its part, and in no other.            *)
LEMMA FlattenInjective ==
  ASSUME NEW T
  PROVE  \A s \in Seq(Seq(T)) :
           IsInjective(FlattenSeq(s)) <=>
             /\ \A k \in DOMAIN s : IsInjective(s[k])
             /\ \A k, l \in DOMAIN s : k # l => Range(s[k]) \cap Range(s[l]) = {}
<1> DEFINE Apart(s) == /\ \A k \in DOMAIN s : IsInjective(s[k])
                       /\ \A k, l \in DOMAIN s : k # l => Range(s[k]) \cap Range(s[l]) = {}
           S == {s \in Seq(Seq(T)) : IsInjective(FlattenSeq(s)) <=> Apart(s)}
<1>1. <<>> \in S
  BY FlattenEmpty DEF IsInjective
<1>2. ASSUME NEW s \in Seq(Seq(T)), NEW x \in Seq(T), s \in S PROVE Append(s, x) \in S
  <2> DEFINE t == Append(s, x)
             n == Len(s)
  <2>1. /\ t \in Seq(Seq(T)) /\ DOMAIN t = 1 .. n + 1 /\ DOMAIN s = 1 .. n
        /\ n \in Nat /\ t[n + 1] = x /\ \A k \in 1 .. n : t[k] = s[k]
    OBVIOUS
  <2>2. FlattenSeq(t) = FlattenSeq(s) \o x
    BY FlattenAppend
  <2> HIDE DEF t, n
  <2>3. FlattenSeq(s) \in Seq(T)
    BY FlattenType
  <2>4. IsInjective(FlattenSeq(t)) <=>
          Apart(s) /\ IsInjective(x) /\ Range(FlattenSeq(s)) \cap Range(x) = {}
    <3>1. IsInjective(FlattenSeq(s)) <=> Apart(s)
      BY <1>2
    <3>2. QED
      BY <2>2, <2>3, <3>1, ConcatInjective
  <2>5. Range(FlattenSeq(s)) \cap Range(x) = {} <=>
          \A k \in 1 .. n : Range(s[k]) \cap Range(x) = {}
    <3>1. \A y : y \in Range(FlattenSeq(s)) <=> \E k \in DOMAIN s : y \in Range(s[k])
      BY FlattenRange
    <3>2. QED
      BY <2>1, <3>1
  <2>6. n + 1 \notin 1 .. n /\ \A k \in 1 .. n + 1 : k \in 1 .. n \/ k = n + 1
    BY <2>1
  <2>7. \A k \in 1 .. n : k \in 1 .. n + 1
    BY <2>1
  <2>8. n + 1 \in 1 .. n + 1
    BY <2>1
  <2>9. ASSUME Apart(s), IsInjective(x), \A k \in 1 .. n : Range(s[k]) \cap Range(x) = {}
        PROVE  Apart(t)
    <3>1. ASSUME NEW k \in DOMAIN t PROVE IsInjective(t[k])
      BY <2>1, <2>6, <2>9
    <3>2. ASSUME NEW k \in DOMAIN t, NEW l \in DOMAIN t, k # l
          PROVE  Range(t[k]) \cap Range(t[l]) = {}
      <4>1. CASE k \in 1 .. n /\ l \in 1 .. n
        BY <2>1, <2>9, <3>2, <4>1
      <4>2. CASE k = n + 1 /\ l \in 1 .. n
        BY <2>1, <2>9, <4>2
      <4>3. CASE l = n + 1 /\ k \in 1 .. n
        BY <2>1, <2>9, <4>3
      <4>4. QED
        BY <2>1, <2>6, <3>2, <4>1, <4>2, <4>3
    <3>3. QED
      BY <3>1, <3>2
  <2>10. ASSUME Apart(t)
         PROVE  Apart(s) /\ IsInjective(x) /\ \A k \in 1 .. n : Range(s[k]) \cap Range(x) = {}
    <3>1. ASSUME NEW k \in 1 .. n PROVE IsInjective(s[k])
      BY <2>1, <2>7, <2>10
    <3>2. ASSUME NEW k \in 1 .. n, NEW l \in 1 .. n, k # l
          PROVE  Range(s[k]) \cap Range(s[l]) = {}
      BY <2>1, <2>7, <2>10, <3>2
    <3>3. ASSUME NEW k \in 1 .. n PROVE Range(s[k]) \cap Range(x) = {}
      <4>1. k # n + 1 /\ k \in DOMAIN t /\ n + 1 \in DOMAIN t
        BY <2>1, <2>6, <2>7, <2>8
      <4>2. Range(t[k]) \cap Range(t[n + 1]) = {}
        BY <2>10, <4>1
      <4>3. QED
        BY <2>1, <4>2
    <3>4. IsInjective(x)
      BY <2>1, <2>8, <2>10
    <3>5. QED
      BY <2>1, <3>1, <3>2, <3>3, <3>4
  <2>11. IsInjective(FlattenSeq(t)) <=> Apart(t)
    <3> HIDE DEF Apart
    <3>1. QED
      BY <2>4, <2>5, <2>9, <2>10
  <2>12. QED
    BY <2>1, <2>11 DEF t
<1>3. Seq(Seq(T)) \subseteq S
  <2> HIDE DEF S
  <2>1. QED
    BY <1>1, <1>2, EverySequence
<1>4. QED
  BY <1>3

(* Leaving parts out. *)
LEMMA FlattenPicked ==
  ASSUME NEW T, NEW s \in Seq(Seq(T)), NEW places, places \subseteq DOMAIN s
  PROVE  /\ Picked(s, places) \in Seq(Seq(T))
         /\ FlattenSeq(Picked(s, places)) \in Seq(T)
         /\ \A y : y \in Range(FlattenSeq(Picked(s, places))) <=>
                     \E k \in places : y \in Range(s[k])
         /\ IsInjective(FlattenSeq(s)) => IsInjective(FlattenSeq(Picked(s, places)))
<1> DEFINE q == Picked(s, places)
           at == Ascending(places)
           n == Cardinality(places)
<1>1. /\ n \in Nat /\ q \in Seq(Seq(T)) /\ DOMAIN q = 1 .. n
      /\ at \in [1 .. n -> places]
      /\ \A i \in 1 .. n : q[i] = s[at[i]]
      /\ \A i, j \in 1 .. n : i < j <=> at[i] < at[j]
      /\ \A e \in places : \E i \in 1 .. n : at[i] = e
  BY PickedAt
<1> HIDE DEF q, at, n
<1>2. FlattenSeq(q) \in Seq(T)
  BY <1>1, FlattenType
<1>3. \A y : y \in Range(FlattenSeq(q)) <=> \E k \in DOMAIN q : y \in Range(q[k])
  BY <1>1, FlattenRange
<1>4. \A y : y \in Range(FlattenSeq(q)) <=> \E k \in places : y \in Range(s[k])
  <2> TAKE y
  <2>1. ASSUME NEW i \in 1 .. n, y \in Range(q[i]) PROVE \E k \in places : y \in Range(s[k])
    BY <1>1, <2>1
  <2>2. ASSUME NEW k \in places, y \in Range(s[k]) PROVE \E i \in 1 .. n : y \in Range(q[i])
    <3>1. PICK i \in 1 .. n : at[i] = k
      BY <1>1
    <3>2. q[i] = s[k]
      BY <1>1, <3>1
    <3>3. QED
      BY <2>2, <3>2
  <2>3. QED
    BY <1>1, <1>3, <2>1, <2>2
<1>5. ASSUME IsInjective(FlattenSeq(s)) PROVE IsInjective(FlattenSeq(q))
  <2>1. /\ \A k \in DOMAIN s : IsInjective(s[k])
        /\ \A k, l \in DOMAIN s : k # l => Range(s[k]) \cap Range(s[l]) = {}
    BY <1>5, FlattenInjective
  <2>2. \A k \in DOMAIN q : IsInjective(q[k])
    BY <1>1, <2>1
  <2>3. ASSUME NEW k \in DOMAIN q, NEW l \in DOMAIN q, k # l
        PROVE  Range(q[k]) \cap Range(q[l]) = {}
    <3>1. k \in Int /\ l \in Int /\ (k < l \/ l < k)
      BY <1>1, <2>3
    <3>2. at[k] < at[l] \/ at[l] < at[k]
      BY <1>1, <3>1
    <3>3. at[k] \in DOMAIN s /\ at[l] \in DOMAIN s
      BY <1>1
    <3>4. at[k] \in Int /\ at[l] \in Int
      BY <3>3
    <3>5. at[k] # at[l]
      BY <3>2, <3>4
    <3>6. QED
      BY <1>1, <2>1, <3>3, <3>5
  <2>4. QED
    BY <1>1, <2>2, <2>3, FlattenInjective
<1>6. QED
  BY <1>1, <1>2, <1>4, <1>5 DEF q

(***************************************************************************)
(* The edges of a node.                                                    *)
(***************************************************************************)

(* get_in_edges has every edge into the node once, in the order of the     *)
(* inputs.                                                                 *)
LEMMA InEdgesOnce ==
  ASSUME NEW edges, IsFiniteSet(edges), NEW n,
         \A e \in edges : e.in \in Int /\ e.src \in Int,
         \A d, e \in edges : d.dst = n /\ e.dst = n /\ d.in = e.in /\ d.src = e.src => d = e
  PROVE  /\ InEdges(edges, n) \in Seq(edges)
         /\ IsInjective(InEdges(edges, n))
         /\ Range(InEdges(edges, n)) = {e \in edges : e.dst = n}
         /\ \A i, j \in DOMAIN InEdges(edges, n) :
              i < j => ByInput(InEdges(edges, n)[i], InEdges(edges, n)[j])
<1> DEFINE S == {e \in edges : e.dst = n}
           before == [e \in S |-> {d \in S : ByInput(d, e)}]
           order == InEdges(edges, n)
           ranked(i) == CHOOSE e \in S : Cardinality({d \in S : ByInput(d, e)}) = i - 1
<1>1. IsFiniteSet(S) /\ S \subseteq edges
  BY FS_Subset
<1>2. before \in [S -> SUBSET S] /\ \A e \in S : before[e] = {d \in S : ByInput(d, e)}
  OBVIOUS
<1>3. order = [i \in 1 .. Cardinality(S) |-> ranked(i)]
  BY DEF InEdges, InOrder
<1>4. /\ \A e \in S : e.in \in Int /\ e.src \in Int
      /\ \A d, e \in S : d.in = e.in /\ d.src = e.src => d = e
  OBVIOUS
<1> HIDE DEF S, before, order, ranked
<1>5. \A d, e \in S : d \in before[e] <=> ByInput(d, e)
  BY <1>2
<1>6. \A e \in S : e \notin before[e]
  <2> TAKE e \in S
  <2>1. e.in \in Int /\ e.src \in Int
    BY <1>4
  <2>2. ~ByInput(e, e)
    BY <2>1 DEF ByInput
  <2>3. QED
    BY <1>5, <2>2
<1>7. \A d, e \in S : d # e => d \in before[e] \/ e \in before[d]
  <2> TAKE d, e \in S
  <2>1. d.in \in Int /\ d.src \in Int /\ e.in \in Int /\ e.src \in Int
    BY <1>4
  <2>2. d # e => ~(d.in = e.in /\ d.src = e.src)
    BY <1>4
  <2>3. d # e => ByInput(d, e) \/ ByInput(e, d)
    BY <2>1, <2>2 DEF ByInput
  <2>4. QED
    BY <1>5, <2>3
<1>8. \A d, e \in S : d \in before[e] => before[d] \subseteq before[e]
  <2> SUFFICES ASSUME NEW d \in S, NEW e \in S, d \in before[e], NEW c \in before[d]
               PROVE  c \in before[e]
    OBVIOUS
  <2>1. c \in S
    BY <1>2
  <2>2. /\ d.in \in Int /\ d.src \in Int /\ e.in \in Int /\ e.src \in Int
        /\ c.in \in Int /\ c.src \in Int
    BY <1>4, <2>1
  <2>3. ByInput(c, d) /\ ByInput(d, e)
    BY <1>5, <2>1
  <2>4. ByInput(c, e)
    BY <2>2, <2>3 DEF ByInput
  <2>5. QED
    BY <1>5, <2>1, <2>4
<1>9. ASSUME NEW i \in 1 .. Cardinality(S), \E e \in S : Cardinality(before[e]) = i - 1
      PROVE  order[i] \in S /\ Cardinality(before[order[i]]) = i - 1
  <2>1. order[i] = ranked(i)
    BY <1>3
  <2>2. \E e \in S : Cardinality({d \in S : ByInput(d, e)}) = i - 1
    BY <1>2, <1>9
  <2>3. order[i] \in S /\ Cardinality({d \in S : ByInput(d, order[i])}) = i - 1
    BY <2>1, <2>2 DEF ranked
  <2>4. QED
    BY <1>2, <2>3
<1>10. IsList(order, Cardinality(S))
  BY <1>3 DEF IsList
<1>11. /\ order \in Seq(S) /\ IsInjective(order) /\ Range(order) = S
       /\ order \in [1 .. Cardinality(S) -> S]
       /\ \A i, j \in 1 .. Cardinality(S) : i < j <=> order[i] \in before[order[j]]
  BY <1>1, <1>2, <1>6, <1>7, <1>8, <1>9, <1>10, RanksGiveOrder
<1>12. order \in Seq(edges)
  BY <1>1, <1>11, SeqMonotonic
<1>13. \A i, j \in DOMAIN order : i < j => ByInput(order[i], order[j])
  <2> TAKE i, j \in DOMAIN order
  <2> HAVE i < j
  <2>1. i \in 1 .. Cardinality(S) /\ j \in 1 .. Cardinality(S)
    BY <1>11
  <2>2. order[i] \in S /\ order[j] \in S /\ order[i] \in before[order[j]]
    BY <1>11, <2>1
  <2>3. QED
    BY <1>5, <2>2
<1>14. QED
  BY <1>11, <1>12, <1>13 DEF S, order

(* get_out_edges has every edge out of the node once. *)
LEMMA OutEdgesOnce ==
  ASSUME NEW edges, IsFiniteSet(edges), NEW n,
         \A e \in edges : e.out \in Int /\ e.dst \in Int /\ e.in \in Int,
         \A d, e \in edges :
           d.src = n /\ e.src = n /\ d.out = e.out /\ d.dst = e.dst /\ d.in = e.in => d = e
  PROVE  /\ OutEdges(edges, n) \in Seq(edges)
         /\ IsInjective(OutEdges(edges, n))
         /\ Range(OutEdges(edges, n)) = {e \in edges : e.src = n}
<1> DEFINE S == {e \in edges : e.src = n}
           before == [e \in S |-> {d \in S : ByOutput(d, e)}]
           order == OutEdges(edges, n)
           ranked(i) == CHOOSE e \in S : Cardinality({d \in S : ByOutput(d, e)}) = i - 1
<1>1. IsFiniteSet(S) /\ S \subseteq edges
  BY FS_Subset
<1>2. before \in [S -> SUBSET S] /\ \A e \in S : before[e] = {d \in S : ByOutput(d, e)}
  OBVIOUS
<1>3. order = [i \in 1 .. Cardinality(S) |-> ranked(i)]
  BY DEF OutEdges, InOrder
<1>4. /\ \A e \in S : e.out \in Int /\ e.dst \in Int /\ e.in \in Int
      /\ \A d, e \in S : d.out = e.out /\ d.dst = e.dst /\ d.in = e.in => d = e
  OBVIOUS
<1> HIDE DEF S, before, order, ranked
<1>5. \A d, e \in S : d \in before[e] <=> ByOutput(d, e)
  BY <1>2
<1>6. \A e \in S : e \notin before[e]
  <2> TAKE e \in S
  <2>1. e.out \in Int /\ e.dst \in Int /\ e.in \in Int
    BY <1>4
  <2>2. ~ByOutput(e, e)
    BY <2>1 DEF ByOutput
  <2>3. QED
    BY <1>5, <2>2
<1>7. \A d, e \in S : d # e => d \in before[e] \/ e \in before[d]
  <2> TAKE d, e \in S
  <2>1. /\ d.out \in Int /\ d.dst \in Int /\ d.in \in Int
        /\ e.out \in Int /\ e.dst \in Int /\ e.in \in Int
    BY <1>4
  <2>2. d # e => ~(d.out = e.out /\ d.dst = e.dst /\ d.in = e.in)
    BY <1>4
  <2>3. d # e => ByOutput(d, e) \/ ByOutput(e, d)
    BY <2>1, <2>2 DEF ByOutput
  <2>4. QED
    BY <1>5, <2>3
<1>8. \A d, e \in S : d \in before[e] => before[d] \subseteq before[e]
  <2> SUFFICES ASSUME NEW d \in S, NEW e \in S, d \in before[e], NEW c \in before[d]
               PROVE  c \in before[e]
    OBVIOUS
  <2>1. c \in S
    BY <1>2
  <2>2. /\ d.out \in Int /\ d.dst \in Int /\ d.in \in Int
        /\ e.out \in Int /\ e.dst \in Int /\ e.in \in Int
        /\ c.out \in Int /\ c.dst \in Int /\ c.in \in Int
    BY <1>4, <2>1
  <2>3. ByOutput(c, d) /\ ByOutput(d, e)
    BY <1>5, <2>1
  <2>4. ByOutput(c, e)
    BY <2>2, <2>3 DEF ByOutput
  <2>5. QED
    BY <1>5, <2>1, <2>4
<1>9. ASSUME NEW i \in 1 .. Cardinality(S), \E e \in S : Cardinality(before[e]) = i - 1
      PROVE  order[i] \in S /\ Cardinality(before[order[i]]) = i - 1
  <2>1. order[i] = ranked(i)
    BY <1>3
  <2>2. \E e \in S : Cardinality({d \in S : ByOutput(d, e)}) = i - 1
    BY <1>2, <1>9
  <2>3. order[i] \in S /\ Cardinality({d \in S : ByOutput(d, order[i])}) = i - 1
    BY <2>1, <2>2 DEF ranked
  <2>4. QED
    BY <1>2, <2>3
<1>10. IsList(order, Cardinality(S))
  BY <1>3 DEF IsList
<1>11. order \in Seq(S) /\ IsInjective(order) /\ Range(order) = S
  BY <1>1, <1>2, <1>6, <1>7, <1>8, <1>9, <1>10, RanksGiveOrder
<1>12. order \in Seq(edges)
  BY <1>1, <1>11, SeqMonotonic
<1>13. QED
  BY <1>11, <1>12 DEF S, order

(* The data edges among some edges are numbered as they come. *)
DataUpTo(es, i) == {j \in 1 .. i : es[j].in # Control}

LEMMA DataNumbered ==
  ASSUME NEW T, NEW es \in Seq(T)
  PROVE  /\ OnlyData(es) \in Seq(T)
         /\ \A i \in DOMAIN es : es[i].in # Control =>
              /\ Cardinality(DataUpTo(es, i)) \in DOMAIN OnlyData(es)
              /\ OnlyData(es)[Cardinality(DataUpTo(es, i))] = es[i]
         /\ \A i, j \in DOMAIN es :
              /\ es[i].in # Control /\ es[j].in # Control
              /\ Cardinality(DataUpTo(es, i)) = Cardinality(DataUpTo(es, j))
              => i = j
         /\ \A k \in DOMAIN OnlyData(es) : \E i \in DOMAIN es :
              es[i].in # Control /\ Cardinality(DataUpTo(es, i)) = k
<1> DEFINE P == {i \in DOMAIN es : es[i].in # Control}
           at == Ascending(P)
           n == Cardinality(P)
           q == OnlyData(es)
<1>1. DOMAIN es = 1 .. Len(es) /\ Len(es) \in Nat
  OBVIOUS
<1>2. \A i : i \in P <=> i \in 1 .. Len(es) /\ es[i].in # Control
  OBVIOUS
<1>3. q = Picked(es, P) /\ P \subseteq DOMAIN es
  BY DEF OnlyData
<1> HIDE DEF P, at, n, q
<1>4. /\ IsFiniteSet(P) /\ n \in Nat /\ q \in Seq(T) /\ DOMAIN q = 1 .. n
      /\ at \in [1 .. n -> P]
      /\ \A i \in 1 .. n : q[i] = es[at[i]]
      /\ \A e \in P : \E i \in 1 .. n : at[i] = e
      /\ \A i \in 1 .. n : Cardinality({d \in P : d < at[i]}) = i - 1
  BY <1>3, PickedAt DEF at, n
<1>5. ASSUME NEW k \in 1 .. n
      PROVE  at[k] \in P /\ Cardinality(DataUpTo(es, at[k])) = k
  <2> DEFINE B == {d \in P : d < at[k]}
  <2>1. at[k] \in P
    BY <1>4
  <2>2. at[k] \in 1 .. Len(es)
    BY <1>2, <2>1
  <2>3. IsFiniteSet(B) /\ Cardinality(B) = k - 1
    BY <1>4, FS_Subset
  <2>4. at[k] \notin B
    BY <2>2
  <2>5. ASSUME NEW j PROVE j \in DataUpTo(es, at[k]) <=> j \in B \cup {at[k]}
    <3>1. j \in 1 .. at[k] <=> j \in 1 .. Len(es) /\ (j < at[k] \/ j = at[k])
      BY <1>1, <2>2
    <3>2. QED
      BY <1>2, <2>1, <2>2, <3>1 DEF DataUpTo
  <2>6. DataUpTo(es, at[k]) = B \cup {at[k]}
    BY <2>5
  <2> HIDE DEF B
  <2>7. Cardinality(DataUpTo(es, at[k])) = (k - 1) + 1
    BY <2>3, <2>4, <2>6, FS_AddElement
  <2>8. QED
    BY <2>1, <2>7, <1>4
<1>6. ASSUME NEW i \in DOMAIN es, es[i].in # Control
      PROVE  \E k \in 1 .. n : at[k] = i /\ Cardinality(DataUpTo(es, i)) = k
  <2>1. i \in P
    BY <1>1, <1>2, <1>6
  <2>2. PICK k \in 1 .. n : at[k] = i
    BY <1>4, <2>1
  <2>3. QED
    BY <1>5, <2>2
<1>7. \A i \in DOMAIN es : es[i].in # Control =>
        Cardinality(DataUpTo(es, i)) \in DOMAIN q /\ q[Cardinality(DataUpTo(es, i))] = es[i]
  BY <1>4, <1>6
<1>8. \A i, j \in DOMAIN es :
        /\ es[i].in # Control /\ es[j].in # Control
        /\ Cardinality(DataUpTo(es, i)) = Cardinality(DataUpTo(es, j))
        => i = j
  BY <1>6
<1>9. \A k \in DOMAIN q : \E i \in DOMAIN es :
        es[i].in # Control /\ Cardinality(DataUpTo(es, i)) = k
  <2> TAKE k \in DOMAIN q
  <2>1. k \in 1 .. n /\ at[k] \in P /\ Cardinality(DataUpTo(es, at[k])) = k
    BY <1>4, <1>5
  <2>2. at[k] \in DOMAIN es /\ es[at[k]].in # Control
    BY <1>1, <1>2, <2>1
  <2>3. QED
    BY <2>1, <2>2
<1>10. QED
  BY <1>4, <1>7, <1>8, <1>9 DEF q

(* A node is ready once, by an edge from n, and after all its sources.     *)
LEMMA ReadyAfterSources ==
  ASSUME NEW edges, NEW n, NEW visited, NEW T,
         OutEdges(edges, n) \in Seq(edges),
         Range(OutEdges(edges, n)) = {e \in edges : e.src = n},
         \A e \in edges : e.dst \in T
  PROVE  /\ ReadyAfter(edges, n, visited) \in Seq(T)
         /\ IsInjective(ReadyAfter(edges, n, visited))
         /\ \A m \in Range(ReadyAfter(edges, n, visited)) :
              /\ \E e \in edges : e.src = n /\ e.dst = m
              /\ \A e \in edges : e.dst = m => e.src \in visited \cup {n}
<1> DEFINE out == OutEdges(edges, n)
           final == {i \in DOMAIN out :
                       /\ \A j \in i + 1 .. Len(out) : out[j].dst # out[i].dst
                       /\ \A e \in edges : e.dst = out[i].dst => e.src \in visited \cup {n}}
           at == Ascending(final)
           k == Cardinality(final)
           r == ReadyAfter(edges, n, visited)
<1>1. /\ out \in Seq(edges) /\ DOMAIN out = 1 .. Len(out) /\ Len(out) \in Nat
      /\ \A i \in DOMAIN out : out[i] \in edges /\ out[i].src = n
  <2>1. out \in Seq(edges) /\ DOMAIN out = 1 .. Len(out) /\ Len(out) \in Nat
    OBVIOUS
  <2>2. Range(out) = {e \in edges : e.src = n}
    OBVIOUS
  <2> HIDE DEF out
  <2>3. \A i \in DOMAIN out : out[i] \in Range(out)
    BY DEF Range
  <2>4. QED
    BY <2>1, <2>2, <2>3
<1>2. r = [i \in DOMAIN at |-> out[at[i]].dst]
  BY DEF ReadyAfter
<1>3. \A i : i \in final <=>
        /\ i \in DOMAIN out
        /\ \A j \in i + 1 .. Len(out) : out[j].dst # out[i].dst
        /\ \A e \in edges : e.dst = out[i].dst => e.src \in visited \cup {n}
  OBVIOUS
<1> HIDE DEF out, final, r
<1>4. /\ k \in Nat /\ at \in [1 .. k -> final]
      /\ \A i, j \in 1 .. k : i < j <=> at[i] < at[j]
  <2>1. final \subseteq DOMAIN out
    BY <1>3
  <2>2. QED
    BY <1>1, <2>1, PickedAt
<1> HIDE DEF at, k
<1>5. DOMAIN at = 1 .. k /\ DOMAIN r = 1 .. k
  BY <1>2, <1>4
<1>6. \A i \in 1 .. k : r[i] = out[at[i]].dst /\ at[i] \in final /\ out[at[i]] \in edges
  BY <1>1, <1>2, <1>3, <1>4, <1>5
<1>7. r \in Seq(T)
  <2>1. r = [i \in 1 .. k |-> out[at[i]].dst]
    BY <1>2, <1>5
  <2>2. \A i \in 1 .. k : out[at[i]].dst \in T
    BY <1>6
  <2>3. QED
    BY <1>4, <2>1, <2>2
<1>8. ASSUME NEW i \in 1 .. k, NEW j \in 1 .. k, i < j PROVE r[i] # r[j]
  <2>1. at[i] < at[j] /\ at[i] \in 1 .. Len(out) /\ at[j] \in 1 .. Len(out)
    BY <1>1, <1>3, <1>4, <1>6, <1>8
  <2>2. at[j] \in at[i] + 1 .. Len(out)
    BY <1>1, <2>1
  <2>3. out[at[j]].dst # out[at[i]].dst
    BY <1>3, <1>6, <2>2
  <2>4. QED
    BY <1>6, <2>3
<1>9. \A i, j \in 1 .. k : r[i] = r[j] => i = j
  <2> TAKE i, j \in 1 .. k
  <2>1. i < j \/ j < i \/ i = j
    BY <1>4
  <2>2. QED
    BY <1>8, <2>1
<1>10. \A i \in 1 .. k :
         /\ \E e \in edges : e.src = n /\ e.dst = r[i]
         /\ \A e \in edges : e.dst = r[i] => e.src \in visited \cup {n}
  <2> TAKE i \in 1 .. k
  <2>1. out[at[i]] \in edges /\ out[at[i]].src = n /\ out[at[i]].dst = r[i]
    BY <1>1, <1>3, <1>6
  <2>2. \A e \in edges : e.dst = r[i] => e.src \in visited \cup {n}
    BY <1>3, <1>6
  <2>3. QED
    BY <2>1, <2>2
<1>11. IsInjective(r)
  BY <1>5, <1>9 DEF IsInjective
<1>12. \A m \in Range(r) : \E i \in 1 .. k : m = r[i]
  BY <1>5 DEF Range
<1>13. QED
  BY <1>7, <1>10, <1>11, <1>12 DEF r

LEMMA MaxIsGreatest ==
  ASSUME NEW S, S \subseteq Int, IsFiniteSet(S), S # {}
  PROVE  Max(S) \in S /\ \A n \in S : n <= Max(S)
<1> DEFINE n == Cardinality(S)
           at == Ascending(S)
<1>1. /\ n \in Nat /\ at \in [1 .. n -> S]
      /\ \A i, j \in 1 .. n : i < j <=> at[i] < at[j]
      /\ \A e \in S : \E i \in 1 .. n : at[i] = e
  BY AscendingOrder
<1> HIDE DEF n, at
<1>2. n \in 1 .. n
  <2>1. \E i : i \in 1 .. n
    BY <1>1
  <2>2. QED
    BY <1>1, <2>1
<1>3. at[n] \in S
  BY <1>1, <1>2
<1>4. \A e \in S : at[n] >= e
  <2> TAKE e \in S
  <2>1. PICK i \in 1 .. n : at[i] = e
    BY <1>1
  <2>2. i < n \/ i = n
    BY <1>1, <2>1
  <2>3. e < at[n] \/ e = at[n]
    BY <1>1, <1>2, <2>1, <2>2
  <2>4. e \in Int /\ at[n] \in Int
    BY <1>3
  <2>5. QED
    BY <2>3, <2>4
<1>5. \E x \in S : \A y \in S : x >= y
  BY <1>3, <1>4
<1>6. Max(S) \in S /\ \A y \in S : Max(S) >= y
  BY <1>5 DEF Max
<1>7. Max(S) \in Int
  BY <1>6
<1>8. \A y \in S : y <= Max(S)
  <2> TAKE y \in S
  <2>1. y \in Int /\ Max(S) >= y
    BY <1>6
  <2>2. QED
    BY <1>7, <2>1
<1>9. QED
  BY <1>6, <1>8

(***************************************************************************)
(* The walk.                                                               *)
(***************************************************************************)

(* What is computed step by step is there, and stays in the set that the   *)
(* steps stay in.                                                          *)
StepsOn(f, x, step, n) == f = [k \in 0 .. n |-> IF k = 0 THEN x ELSE step[k][f[k - 1]]]

LEMMA StepsExist ==
  ASSUME NEW S, NEW x \in S, NEW step \in [Nat -> [S -> S]]
  PROVE  \A n \in Nat : \E f \in [0 .. n -> S] : StepsOn(f, x, step, n)
<1> DEFINE N == {n \in Nat : \E f \in [0 .. n -> S] : StepsOn(f, x, step, n)}
<1>1. 0 \in N
  <2> DEFINE f == [k \in 0 .. 0 |-> x]
  <2>1. f \in [0 .. 0 -> S]
    OBVIOUS
  <2>2. f = [k \in 0 .. 0 |-> IF k = 0 THEN x ELSE step[k][f[k - 1]]]
    <3>1. \A k \in 0 .. 0 : k = 0
      OBVIOUS
    <3>2. QED
      BY <3>1
  <2>3. StepsOn(f, x, step, 0)
    BY <2>2 DEF StepsOn
  <2>4. QED
    BY <2>1, <2>3
<1>2. ASSUME NEW n \in Nat, n \in N PROVE n + 1 \in N
  <2>1. PICK f \in [0 .. n -> S] : StepsOn(f, x, step, n)
    BY <1>2
  <2> DEFINE g == [k \in 0 .. n + 1 |-> IF k = n + 1 THEN step[n + 1][f[n]] ELSE f[k]]
             h == [k \in 0 .. n + 1 |-> IF k = 0 THEN x ELSE step[k][g[k - 1]]]
  <2>2. n \in 0 .. n /\ n + 1 \in Nat /\ n + 1 # 0 /\ n \in 0 .. n + 1 /\ n # n + 1
        /\ (n + 1) - 1 = n
    OBVIOUS
  <2>3. f[n] \in S
    BY <2>1, <2>2
  <2>4. step[n + 1][f[n]] \in S
    BY <2>2, <2>3
  <2>5. \A k \in 0 .. n + 1 : k # n + 1 => k \in 0 .. n
    OBVIOUS
  <2>6. g \in [0 .. n + 1 -> S]
    BY <2>4, <2>5
  <2>7. ASSUME NEW k \in 0 .. n + 1 PROVE g[k] = h[k]
    <3>1. CASE k = n + 1
      <4>1. g[k - 1] = f[n]
        BY <2>2, <3>1
      <4>2. QED
        BY <2>2, <3>1, <4>1
    <3>2. CASE k # n + 1
      <4>1. k \in 0 .. n
        BY <2>5, <3>2
      <4>2. f[k] = IF k = 0 THEN x ELSE step[k][f[k - 1]]
        BY <2>1, <4>1 DEF StepsOn
      <4>3. k # 0 => k - 1 \in 0 .. n + 1 /\ k - 1 # n + 1
        BY <4>1
      <4>4. k # 0 => g[k - 1] = f[k - 1]
        BY <4>3
      <4>5. QED
        BY <3>2, <4>2, <4>4
    <3>3. QED
      BY <3>1, <3>2
  <2>8. g = h
    BY <2>7
  <2>9. StepsOn(g, x, step, n + 1)
    BY <2>8 DEF StepsOn
  <2>10. QED
    BY <2>2, <2>6, <2>9
<1>3. Nat \subseteq N
  <2> HIDE DEF N
  <2>1. QED
    BY <1>1, <1>2, EveryNumber
<1>4. QED
  BY <1>3

(* The states of the walk. *)
WalkStates(nodes) ==
  [stack   : Seq([node : nodes, leave : BOOLEAN]),
   visited : SUBSET nodes, order : Seq(nodes)]

LEMMA EntriesType ==
  ASSUME NEW nodes, NEW s \in Seq(nodes)
  PROVE  Entries(s) \in Seq([node : nodes, leave : BOOLEAN])
<1>1. Len(s) \in Nat /\ DOMAIN s = 1 .. Len(s) /\ \A i \in 1 .. Len(s) : s[i] \in nodes
  OBVIOUS
<1>2. \A i \in 1 .. Len(s) : Enter(s[i]) \in [node : nodes, leave : BOOLEAN]
  BY <1>1 DEF Enter
<1>3. Entries(s) = [i \in 1 .. Len(s) |-> Enter(s[i])]
  BY <1>1 DEF Entries
<1>4. QED
  BY <1>1, <1>2, <1>3

LEMMA DFSStepType ==
  ASSUME NEW nodes, NEW sources \in [nodes -> Seq(nodes)],
         NEW s \in WalkStates(nodes), s.stack # <<>>
  PROVE  DFSStep(s, sources) \in WalkStates(nodes)
<1> DEFINE E == [node : nodes, leave : BOOLEAN]
           w == Last(s.stack)
           rest == Front(s.stack)
<1>1. s.stack \in Seq(E) /\ s.visited \subseteq nodes /\ s.order \in Seq(nodes)
  BY DEF WalkStates
<1>2. w \in E /\ rest \in Seq(E)
  <2> DEFINE t == s.stack
  <2>1. t \in Seq(E) /\ t # <<>>
    BY <1>1
  <2> HIDE DEF t, E
  <2>2. Len(t) \in Nat /\ Len(t) \in 1 .. Len(t)
    BY <2>1
  <2>3. t[Len(t)] \in E
    BY <2>1, <2>2
  <2>4. \A i \in 1 .. Len(t) - 1 : t[i] \in E
    BY <2>1, <2>2
  <2>5. SubSeq(t, 1, Len(t) - 1) \in Seq(E)
    BY <2>2, <2>4, SubSeqProperties
  <2>6. QED
    BY <2>3, <2>5 DEF t, Last, Front
<1>3. w.node \in nodes
  BY <1>2
<1> DEFINE marked == s.visited \cup {w.node}
           next == Unvisited(sources[w.node], marked)
           top == Append(rest, Leave(w.node))
<1>4. next \in Seq(nodes)
  <2> DEFINE ns == sources[w.node]
             places == {i \in DOMAIN ns : ns[i] \notin marked}
  <2>1. ns \in Seq(nodes) /\ places \subseteq DOMAIN ns
    BY <1>3
  <2>2. next = Picked(ns, places)
    BY DEF Unvisited
  <2> HIDE DEF ns, places, next
  <2>3. QED
    BY <2>1, <2>2, PickedAt
<1>5. Leave(w.node) \in E
  BY <1>3 DEF Leave
<1>6. top \in Seq(E)
  BY <1>2, <1>5
<1>7. marked \subseteq nodes
  BY <1>1, <1>3
<1>8. Append(s.order, w.node) \in Seq(nodes)
  BY <1>1, <1>3
<1>9. DFSStep(s, sources) =
        IF w.leave THEN [s EXCEPT !.stack = rest, !.order = Append(@, w.node)]
        ELSE IF w.node \in s.visited THEN [s EXCEPT !.stack = rest]
        ELSE [s EXCEPT !.visited = marked, !.stack = top \o Entries(next)]
  BY DEF DFSStep
<1> HIDE DEF w, rest, marked, next, top, E
<1>10. Entries(next) \in Seq(E)
  BY <1>4, EntriesType DEF E
<1>11. top \o Entries(next) \in Seq(E)
  BY <1>6, <1>10
<1>12. /\ [s EXCEPT !.stack = rest, !.order = Append(@, w.node)] \in WalkStates(nodes)
       /\ [s EXCEPT !.stack = rest] \in WalkStates(nodes)
       /\ [s EXCEPT !.visited = marked, !.stack = top \o Entries(next)] \in WalkStates(nodes)
  BY <1>1, <1>2, <1>7, <1>8, <1>11 DEF WalkStates, E
<1>13. QED
  BY <1>9, <1>12

(* One step, or none when nothing is left to do. *)
Onward(s, sources) == IF s.stack = <<>> THEN s ELSE DFSStep(s, sources)

FirstOf(start) == [stack |-> Entries(start), visited |-> {}, order |-> <<>>]

(* What each step leads on holds of the state in which the walk ends. *)
LEMMA WalkReaches ==
  ASSUME NEW nodes, NEW sources \in [nodes -> Seq(nodes)], NEW start \in Seq(nodes),
         StepsOf(nodes, sources, start) \in Nat,
         NEW G, \A k \in Nat : G[k] \subseteq WalkStates(nodes),
         FirstOf(start) \in G[0],
         \A k \in Nat : \A s \in G[k] : Onward(s, sources) \in G[k + 1]
  PROVE  \E s \in G[StepsOf(nodes, sources, start)] :
           ReverseDFS(nodes, sources, start) = s.order
<1> DEFINE W == WalkStates(nodes)
           n == StepsOf(nodes, sources, start)
           first == [stack |-> Entries(start), visited |-> {}, order |-> <<>>]
           After(s) == IF s.stack = <<>> THEN s ELSE DFSStep(s, sources)
           step == [k \in Nat |-> [s \in W |-> After(s)]]
           walk == CHOOSE f : f = [k \in 0 .. n |-> IF k = 0 THEN first ELSE After(f[k - 1])]
<1>1. first \in W
  BY DEF FirstOf
<1>2. \A s \in W : After(s) \in W
  BY DFSStepType
<1>3. step \in [Nat -> [W -> W]]
  BY <1>2
<1>4. ReverseDFS(nodes, sources, start) = walk[n].order
  BY DEF ReverseDFS
<1>5. n \in Nat
  OBVIOUS
<1>6. \A k \in Nat : \A s \in W : step[k][s] = After(s)
  OBVIOUS
<1>14. /\ first \in G[0]
       /\ \A k \in Nat : \A s \in G[k] : After(s) \in G[k + 1]
  BY DEF FirstOf, Onward
<1> HIDE DEF W, n, first, After, step
<1>7. PICK f \in [0 .. n -> W] : StepsOn(f, first, step, n)
  BY <1>1, <1>3, <1>5, StepsExist
<1>8. f = [k \in 0 .. n |-> IF k = 0 THEN first ELSE After(f[k - 1])]
  <2>1. f = [k \in 0 .. n |-> IF k = 0 THEN first ELSE step[k][f[k - 1]]]
    BY <1>7 DEF StepsOn
  <2>2. ASSUME NEW k \in 0 .. n, k # 0 PROVE step[k][f[k - 1]] = After(f[k - 1])
    <3>1. k \in Nat /\ k - 1 \in 0 .. n
      BY <1>5, <2>2
    <3>2. f[k - 1] \in W
      BY <1>7, <3>1
    <3>3. QED
      BY <1>6, <3>1, <3>2
  <2>3. QED
    BY <2>1, <2>2
<1>9. walk = [k \in 0 .. n |-> IF k = 0 THEN first ELSE After(walk[k - 1])]
  BY <1>8
<1> HIDE DEF walk
<1> DEFINE K == {k \in Nat : k <= n => walk[k] \in G[k]}
<1>10. 0 \in K
  <2>1. 0 \in 0 .. n
    BY <1>5
  <2>2. walk[0] = first
    BY <1>9, <2>1
  <2>3. QED
    BY <1>14, <2>2
<1>11. ASSUME NEW k \in Nat, k \in K PROVE k + 1 \in K
  <2> SUFFICES ASSUME k + 1 <= n PROVE walk[k + 1] \in G[k + 1]
    OBVIOUS
  <2>1. k + 1 \in 0 .. n /\ k + 1 # 0 /\ (k + 1) - 1 = k /\ k <= n
    BY <1>5
  <2>2. walk[k + 1] = After(walk[k])
    BY <1>9, <2>1
  <2>3. walk[k] \in G[k]
    BY <1>11, <2>1
  <2>4. QED
    BY <1>14, <2>2, <2>3
<1>12. Nat \subseteq K
  <2> HIDE DEF K
  <2>1. QED
    BY <1>10, <1>11, EveryNumber
<1>13. walk[n] \in G[n]
  <2>1. n <= n
    BY <1>5
  <2>2. QED
    BY <1>5, <1>12, <2>1
<1>15. QED
  BY <1>4, <1>13 DEF n

(* A relation that orders the nodes so that each is after its sources: the *)
(* graph has no cycle.                                                     *)
StrictOrder(R, S) ==
  /\ \A x \in S : <<x, x>> \notin R
  /\ \A x, y, z \in S : <<x, y>> \in R /\ <<y, z>> \in R => <<x, z>> \in R

SourcesFirst(R, nodes, sources) ==
  \A n \in nodes : \A m \in Range(sources[n]) : <<m, n>> \in R

(* A set of nodes with all that they depend on. *)
ClosedUnder(C, nodes, sources) ==
  \A n \in C \cap nodes : Range(sources[n]) \subseteq C

(* What is true between two steps of the walk.  A node that is entered and *)
(* not yet left stands on the stack, below some of its ancestors only, and *)
(* these are all that it still needs.                                      *)
StackOK(s, R, C) ==
  /\ \A p \in DOMAIN s.stack : s.stack[p].node \in C
  /\ \A p \in DOMAIN s.stack : s.stack[p].leave =>
       s.stack[p].node \in s.visited /\ s.stack[p].node \notin Range(s.order)
  /\ \A p, q \in DOMAIN s.stack :
       p < q /\ s.stack[p].leave => <<s.stack[q].node, s.stack[p].node>> \in R
  /\ \A n \in s.visited : n \notin Range(s.order) =>
       \E p \in DOMAIN s.stack : s.stack[p].leave /\ s.stack[p].node = n

OrderOK(s, sources, C) ==
  /\ IsInjective(s.order)
  /\ Range(s.order) \subseteq s.visited /\ Range(s.order) \subseteq C
  /\ \A j \in DOMAIN s.order : \A m \in Range(sources[s.order[j]]) :
       \E i \in 1 .. j - 1 : s.order[i] = m

(* Some node is in the order already or waits above a place of the stack.  *)
Above(s, m, p) ==
  m \in Range(s.order) \/ \E q \in DOMAIN s.stack : p < q /\ s.stack[q].node = m

StillDone(s, sources, start) ==
  /\ \A p \in DOMAIN s.stack : s.stack[p].leave =>
       \A m \in Range(sources[s.stack[p].node]) : Above(s, m, p)
  /\ \A m \in Range(start) : Above(s, m, 0)

Walked(s, sources, start, R, C) ==
  StackOK(s, R, C) /\ OrderOK(s, sources, C) /\ StillDone(s, sources, start)

-----------------------------------------------------------------------------
(* The three kinds of steps. *)

LEMMA Popped ==
  ASSUME NEW E, NEW t \in Seq(E), t # <<>>
  PROVE  /\ Len(t) \in Nat /\ Len(t) > 0 /\ DOMAIN t = 1 .. Len(t)
         /\ Last(t) = t[Len(t)] /\ t[Len(t)] \in E
         /\ Front(t) \in Seq(E) /\ Len(Front(t)) = Len(t) - 1
         /\ DOMAIN Front(t) = 1 .. Len(t) - 1
         /\ \A i \in 1 .. Len(t) - 1 : Front(t)[i] = t[i]
<1>1. Len(t) \in Nat /\ Len(t) > 0 /\ DOMAIN t = 1 .. Len(t)
  OBVIOUS
<1>2. Front(t) = SubSeq(t, 1, Len(t) - 1) /\ Last(t) = t[Len(t)]
  BY DEF Front, Last
<1>3. \A i \in 1 .. Len(t) - 1 : t[i] \in E
  BY <1>1
<1>4. /\ SubSeq(t, 1, Len(t) - 1) \in Seq(E)
      /\ Len(SubSeq(t, 1, Len(t) - 1)) = Len(t) - 1
      /\ \A i \in 1 .. Len(t) - 1 : SubSeq(t, 1, Len(t) - 1)[i] = t[i]
  BY <1>1, <1>3, SubSeqProperties
<1>5. t[Len(t)] \in E
  BY <1>1
<1>6. DOMAIN Front(t) = 1 .. Len(t) - 1
  BY <1>2, <1>4
<1>7. QED
  BY <1>1, <1>2, <1>4, <1>5, <1>6

EntryType(nodes) == [node : nodes, leave : BOOLEAN]

(* An entry is taken off, and no node is visited. *)
TakenOff(r, s, sources, start, R, C) ==
  /\ Walked(r, sources, start, R, C) /\ r.visited = s.visited
  /\ Len(r.stack) = Len(s.stack) - 1

(* A node is left: all that it needs is in the order. *)
LEMMA LeaveStep ==
  ASSUME NEW nodes, NEW sources \in [nodes -> Seq(nodes)], NEW start \in Seq(nodes),
         NEW R, StrictOrder(R, nodes), NEW C,
         NEW s \in WalkStates(nodes), s.stack # <<>>, Last(s.stack).leave,
         Walked(s, sources, start, R, C)
  PROVE  TakenOff(DFSStep(s, sources), s, sources, start, R, C)
<1> DEFINE t == s.stack
           n == Len(t)
           x == t[n].node
           u == Front(t)
           o == s.order
           v == Append(o, x)
           r == [s EXCEPT !.stack = u, !.order = Append(@, Last(t).node)]
<1>1. t \in Seq(EntryType(nodes)) /\ o \in Seq(nodes) /\ s.visited \subseteq nodes
  BY DEF WalkStates, EntryType
<1>2. /\ n \in Nat /\ n > 0 /\ DOMAIN t = 1 .. n
      /\ Last(t) = t[n] /\ t[n] \in EntryType(nodes)
      /\ Len(u) = n - 1
      /\ DOMAIN u = 1 .. n - 1
      /\ \A i \in 1 .. n - 1 : u[i] = t[i]
  <2>1. t # <<>>
    OBVIOUS
  <2> HIDE DEF t
  <2>2. /\ Len(t) \in Nat /\ Len(t) > 0 /\ DOMAIN t = 1 .. Len(t)
        /\ Last(t) = t[Len(t)] /\ t[Len(t)] \in EntryType(nodes)
        /\ Front(t) \in Seq(EntryType(nodes)) /\ Len(Front(t)) = Len(t) - 1
        /\ DOMAIN Front(t) = 1 .. Len(t) - 1
        /\ \A i \in 1 .. Len(t) - 1 : Front(t)[i] = t[i]
    BY <1>1, <2>1, Popped
  <2>3. QED
    BY <2>2
<1>3. DFSStep(s, sources) = r
  BY DEF DFSStep
<1>4. r.stack = u /\ r.order = v /\ r.visited = s.visited
  BY <1>2 DEF WalkStates
<1>5. x \in nodes /\ t[n].leave /\ n \in DOMAIN t
  BY <1>2 DEF EntryType
<1>6. StackOK(s, R, C) /\ OrderOK(s, sources, C) /\ StillDone(s, sources, start)
  BY DEF Walked
<1>7. /\ Len(o) \in Nat /\ DOMAIN o = 1 .. Len(o)
      /\ v \in Seq(nodes) /\ Len(v) = Len(o) + 1 /\ DOMAIN v = 1 .. Len(o) + 1
      /\ v[Len(o) + 1] = x /\ \A i \in 1 .. Len(o) : v[i] = o[i]
  BY <1>1, <1>5
<1>8. Range(v) = Range(o) \cup {x}
  <2> HIDE DEF v, o, x
  <2>1. ASSUME NEW y \in Range(v) PROVE y \in Range(o) \cup {x}
    <3>1. PICK i \in DOMAIN v : v[i] = y
      BY DEF Range
    <3>2. CASE i = Len(o) + 1
      BY <1>7, <3>1, <3>2
    <3>3. CASE i # Len(o) + 1
      <4>1. i \in DOMAIN o /\ o[i] = y
        BY <1>7, <3>1, <3>3
      <4>2. QED
        BY <4>1 DEF Range
    <3>4. QED
      BY <3>2, <3>3
  <2>2. ASSUME NEW y \in Range(o) PROVE y \in Range(v)
    <3>1. PICK i \in DOMAIN o : o[i] = y
      BY DEF Range
    <3>2. i \in DOMAIN v /\ v[i] = y
      BY <1>7, <3>1
    <3>3. QED
      BY <3>2 DEF Range
  <2>3. Len(o) + 1 \in DOMAIN v
    BY <1>7
  <2>4. x \in Range(v)
    BY <1>7, <2>3 DEF Range
  <2>5. QED
    BY <2>1, <2>2, <2>4
<1>9. x \in s.visited /\ x \notin Range(o) /\ x \in C
  BY <1>5, <1>6 DEF StackOK
<1>10. \A m \in Range(sources[x]) : m \in Range(o)
  <2> SUFFICES ASSUME NEW m \in Range(sources[x]) PROVE m \in Range(o)
    OBVIOUS
  <2>1. Above(s, m, n)
    BY <1>5, <1>6 DEF StillDone
  <2>2. QED
    BY <1>2, <2>1 DEF Above
<1>11. ASSUME NEW p \in 1 .. n - 1, t[p].leave PROVE t[p].node # x /\ t[p].node \in nodes
  <2>1. p \in DOMAIN t /\ p < n
    BY <1>2
  <2>2. <<x, t[p].node>> \in R
    BY <1>5, <1>6, <1>11, <2>1 DEF StackOK
  <2>3. t[p] \in EntryType(nodes)
    BY <1>1, <2>1
  <2>4. QED
    BY <1>5, <2>2, <2>3 DEF StrictOrder, EntryType
<1> HIDE DEF u, v, x, r, n, t, o
<1>12. StackOK(r, R, C)
  <2>1. \A p \in DOMAIN u : p \in DOMAIN t /\ p \in 1 .. n - 1 /\ u[p] = t[p]
    BY <1>2
  <2>2. /\ \A p \in DOMAIN t : t[p].node \in C
        /\ \A p \in DOMAIN t : t[p].leave => t[p].node \in s.visited /\ t[p].node \notin Range(o)
        /\ \A p, q \in DOMAIN t : p < q /\ t[p].leave => <<t[q].node, t[p].node>> \in R
        /\ \A y \in s.visited : y \notin Range(o) => \E p \in DOMAIN t : t[p].leave /\ t[p].node = y
    BY <1>6 DEF StackOK, t, o
  <2>3. \A p \in DOMAIN u : u[p].leave => u[p].node \in s.visited /\ u[p].node \notin Range(v)
    BY <1>8, <1>11, <2>1, <2>2
  <2>4. ASSUME NEW y \in s.visited, y \notin Range(v)
        PROVE  \E p \in DOMAIN u : u[p].leave /\ u[p].node = y
    <3>1. PICK p \in DOMAIN t : t[p].leave /\ t[p].node = y
      BY <1>8, <2>2, <2>4
    <3>2. p # n
      BY <1>8, <2>4, <3>1 DEF x
    <3>3. p \in DOMAIN u
      BY <1>2, <3>2
    <3>4. QED
      BY <2>1, <3>1, <3>3
  <2>5. QED
    BY <1>4, <2>1, <2>2, <2>3, <2>4 DEF StackOK
<1>13. OrderOK(r, sources, C)
  <2>1. /\ IsInjective(o) /\ Range(o) \subseteq s.visited /\ Range(o) \subseteq C
        /\ \A j \in DOMAIN o : \A m \in Range(sources[o[j]]) : \E i \in 1 .. j - 1 : o[i] = m
    BY <1>6 DEF OrderOK, o
  <2>2. IsInjective(v)
    <3>1. \A a \in DOMAIN o : o[a] # x
      BY <1>9 DEF Range, o
    <3>2. \A a \in DOMAIN v : a = Len(o) + 1 \/ (a \in DOMAIN o /\ v[a] = o[a])
      BY <1>7
    <3>3. \A a, b \in DOMAIN v : v[a] = v[b] => a = b
      BY <1>7, <2>1, <3>1, <3>2 DEF IsInjective
    <3>4. QED
      BY <3>3 DEF IsInjective
  <2>3. ASSUME NEW j \in DOMAIN v, NEW m \in Range(sources[v[j]])
        PROVE  \E i \in 1 .. j - 1 : v[i] = m
    <3>1. CASE j = Len(o) + 1
      <4>1. m \in Range(o)
        BY <1>7, <1>10, <2>3, <3>1
      <4>2. PICK i \in 1 .. Len(o) : o[i] = m
        BY <1>7, <4>1 DEF Range
      <4>3. i \in 1 .. j - 1 /\ v[i] = m
        BY <1>7, <3>1, <4>2
      <4>4. QED
        BY <4>3
    <3>2. CASE j # Len(o) + 1
      <4>1. j \in DOMAIN o /\ v[j] = o[j]
        BY <1>7, <2>3, <3>2
      <4>2. PICK i \in 1 .. j - 1 : o[i] = m
        BY <2>1, <2>3, <4>1
      <4>3. i \in 1 .. Len(o)
        BY <1>7, <4>1, <4>2
      <4>4. QED
        BY <1>7, <4>2, <4>3
    <3>3. QED
      BY <3>1, <3>2
  <2>4. QED
    BY <1>4, <1>8, <1>9, <2>1, <2>2, <2>3 DEF OrderOK
<1>14. ASSUME NEW m, NEW p \in Int, Above(s, m, p) PROVE Above(r, m, p)
  <2>1. m \in Range(o) \/ \E q \in DOMAIN t : p < q /\ t[q].node = m
    BY <1>14 DEF Above, t, o
  <2>2. CASE m \in Range(o)
    BY <1>4, <1>8, <2>2 DEF Above
  <2>3. ASSUME NEW q \in DOMAIN t, p < q, t[q].node = m PROVE Above(r, m, p)
    <3>1. CASE q = n
      BY <1>4, <1>8, <2>3, <3>1 DEF Above, x
    <3>2. CASE q # n
      <4>1. q \in DOMAIN u /\ u[q] = t[q]
        BY <1>2, <3>2
      <4>2. QED
        BY <1>4, <2>3, <4>1 DEF Above
    <3>3. QED
      BY <3>1, <3>2
  <2>4. QED
    BY <2>1, <2>2, <2>3
<1>15. StillDone(r, sources, start)
  <2>1. \A p \in DOMAIN u : p \in DOMAIN t /\ p \in Int /\ u[p] = t[p]
    BY <1>2
  <2>2. /\ \A p \in DOMAIN t : t[p].leave => \A m \in Range(sources[t[p].node]) : Above(s, m, p)
        /\ \A m \in Range(start) : Above(s, m, 0)
    BY <1>6 DEF StillDone, t
  <2>3. \A p \in DOMAIN u : u[p].leave => \A m \in Range(sources[u[p].node]) : Above(r, m, p)
    BY <1>14, <2>1, <2>2
  <2>4. \A m \in Range(start) : Above(r, m, 0)
    BY <1>14, <2>2
  <2>5. QED
    BY <1>4, <2>3, <2>4 DEF StillDone
<1>16. QED
  BY <1>2, <1>3, <1>4, <1>12, <1>13, <1>15 DEF TakenOff, Walked, t, n

(* A node that is entered and not left stands below only what it needs: an *)
(* entry of a node that was entered before is of one that is in the order. *)
LEMMA PassStep ==
  ASSUME NEW nodes, NEW sources \in [nodes -> Seq(nodes)], NEW start \in Seq(nodes),
         NEW R, StrictOrder(R, nodes), NEW C,
         NEW s \in WalkStates(nodes), s.stack # <<>>,
         ~ Last(s.stack).leave, Last(s.stack).node \in s.visited,
         Walked(s, sources, start, R, C)
  PROVE  TakenOff(DFSStep(s, sources), s, sources, start, R, C)
<1> DEFINE t == s.stack
           n == Len(t)
           x == t[n].node
           u == Front(t)
           o == s.order
           r == [s EXCEPT !.stack = u]
<1>1. t \in Seq(EntryType(nodes)) /\ t # <<>>
  BY DEF WalkStates, EntryType
<1>2. /\ n \in Nat /\ n > 0 /\ DOMAIN t = 1 .. n
      /\ Last(t) = t[n] /\ t[n] \in EntryType(nodes)
      /\ Len(u) = n - 1
      /\ DOMAIN u = 1 .. n - 1
      /\ \A i \in 1 .. n - 1 : u[i] = t[i]
  <2> HIDE DEF t
  <2>2. /\ Len(t) \in Nat /\ Len(t) > 0 /\ DOMAIN t = 1 .. Len(t)
        /\ Last(t) = t[Len(t)] /\ t[Len(t)] \in EntryType(nodes)
        /\ Front(t) \in Seq(EntryType(nodes)) /\ Len(Front(t)) = Len(t) - 1
        /\ DOMAIN Front(t) = 1 .. Len(t) - 1
        /\ \A i \in 1 .. Len(t) - 1 : Front(t)[i] = t[i]
    BY <1>1, Popped
  <2>3. QED
    BY <2>2
<1>3. DFSStep(s, sources) = r
  BY DEF DFSStep
<1>4. r.stack = u /\ r.order = o /\ r.visited = s.visited
  BY <1>2 DEF WalkStates
<1>5. x \in nodes /\ ~ t[n].leave /\ n \in DOMAIN t /\ x \in s.visited
  BY <1>2 DEF EntryType
<1>6. StackOK(s, R, C) /\ OrderOK(s, sources, C) /\ StillDone(s, sources, start)
  BY DEF Walked
<1> HIDE DEF u, x, r, n, t, o
<1>7. /\ \A p \in DOMAIN t : t[p].node \in C
      /\ \A p \in DOMAIN t : t[p].leave => t[p].node \in s.visited /\ t[p].node \notin Range(o)
      /\ \A p, q \in DOMAIN t : p < q /\ t[p].leave => <<t[q].node, t[p].node>> \in R
      /\ \A y \in s.visited : y \notin Range(o) => \E p \in DOMAIN t : t[p].leave /\ t[p].node = y
  BY <1>6 DEF StackOK, t, o
<1>8. x \in Range(o)
  <2> SUFFICES ASSUME x \notin Range(o) PROVE FALSE
    OBVIOUS
  <2>1. PICK p \in DOMAIN t : t[p].leave /\ t[p].node = x
    BY <1>5, <1>7
  <2>2. p < n
    BY <1>2, <1>5, <2>1
  <2>3. <<x, x>> \in R
    BY <1>5, <1>7, <2>1, <2>2 DEF x
  <2>4. QED
    BY <1>5, <2>3 DEF StrictOrder
<1>9. \A p \in DOMAIN u : p \in DOMAIN t /\ p \in 1 .. n - 1 /\ p \in Int /\ u[p] = t[p]
  BY <1>2
<1>10. \A p \in DOMAIN t : p \notin DOMAIN u => p = n
  BY <1>2
<1>11. StackOK(r, R, C)
  <2>1. \A p \in DOMAIN u : u[p].node \in C
    BY <1>7, <1>9
  <2>2. \A p \in DOMAIN u : u[p].leave => u[p].node \in s.visited /\ u[p].node \notin Range(o)
    BY <1>7, <1>9
  <2>3. \A p, q \in DOMAIN u : p < q /\ u[p].leave => <<u[q].node, u[p].node>> \in R
    BY <1>7, <1>9
  <2>4. \A y \in s.visited : y \notin Range(o) => \E p \in DOMAIN u : u[p].leave /\ u[p].node = y
    BY <1>5, <1>7, <1>9, <1>10, SMTT(40)
  <2>5. QED
    BY <1>4, <2>1, <2>2, <2>3, <2>4 DEF StackOK
<1>12. OrderOK(r, sources, C)
  BY <1>4, <1>6 DEF OrderOK, o
<1>13. ASSUME NEW m, NEW p \in Int, Above(s, m, p) PROVE Above(r, m, p)
  <2>1. m \in Range(o) \/ \E q \in DOMAIN t : p < q /\ t[q].node = m
    BY <1>13 DEF Above, t, o
  <2>2. m \in Range(o) \/ \E q \in DOMAIN u : p < q /\ u[q].node = m
    BY <1>8, <1>9, <1>10, <2>1 DEF x
  <2>3. QED
    BY <1>4, <2>2 DEF Above
<1>14. StillDone(r, sources, start)
  <2>1. /\ \A p \in DOMAIN t : t[p].leave => \A m \in Range(sources[t[p].node]) : Above(s, m, p)
        /\ \A m \in Range(start) : Above(s, m, 0)
    BY <1>6 DEF StillDone, t
  <2>2. \A p \in DOMAIN u : u[p].leave => \A m \in Range(sources[u[p].node]) : Above(r, m, p)
    BY <1>9, <1>13, <2>1
  <2>3. \A m \in Range(start) : Above(r, m, 0)
    BY <1>13, <2>1
  <2>4. QED
    BY <1>4, <2>2, <2>3 DEF StillDone
<1>15. QED
  BY <1>2, <1>3, <1>4, <1>11, <1>12, <1>14 DEF TakenOff, Walked, t, n

(* The sources that are not visited yet. *)
LEMMA UnvisitedOf ==
  ASSUME NEW nodes, NEW ns \in Seq(nodes), NEW seen
  PROVE  /\ Unvisited(ns, seen) \in Seq(nodes)
         /\ Len(Unvisited(ns, seen)) <= Len(ns)
         /\ \A m : m \in Range(Unvisited(ns, seen)) <=> m \in Range(ns) /\ m \notin seen
<1> DEFINE places == {i \in DOMAIN ns : ns[i] \notin seen}
           p == Picked(ns, places)
<1>1. places \subseteq DOMAIN ns /\ Unvisited(ns, seen) = p
  BY DEF Unvisited
<1>2. \A i : i \in places <=> i \in DOMAIN ns /\ ns[i] \notin seen
  OBVIOUS
<1>3. DOMAIN ns = 1 .. Len(ns) /\ Len(ns) \in Nat
  OBVIOUS
<1> HIDE DEF places
<1>4. p \in Seq(nodes) /\ Len(p) = Cardinality(places)
  BY <1>1, PickedAt
<1>5. /\ \A i \in places : \E j \in DOMAIN p : p[j] = ns[i]
      /\ \A j \in DOMAIN p : \E i \in places : p[j] = ns[i]
  BY <1>1, PickedRange
<1> HIDE DEF p
<1>6. Cardinality(places) <= Len(ns)
  <2>1. IsFiniteSet(1 .. Len(ns)) /\ Cardinality(1 .. Len(ns)) = Len(ns)
    BY <1>3, FS_Interval
  <2>2. QED
    BY <1>1, <1>3, <2>1, FS_Subset
<1>7. ASSUME NEW m PROVE m \in Range(p) <=> m \in Range(ns) /\ m \notin seen
  <2>1. ASSUME m \in Range(p) PROVE m \in Range(ns) /\ m \notin seen
    <3>1. PICK j \in DOMAIN p : p[j] = m
      BY <2>1 DEF Range
    <3>2. PICK i \in places : ns[i] = m
      BY <1>5, <3>1
    <3>3. QED
      BY <1>2, <3>2 DEF Range
  <2>2. ASSUME m \in Range(ns), m \notin seen PROVE m \in Range(p)
    <3>1. PICK i \in DOMAIN ns : ns[i] = m
      BY <2>2 DEF Range
    <3>2. i \in places
      BY <1>2, <2>2, <3>1
    <3>3. PICK j \in DOMAIN p : p[j] = m
      BY <1>5, <3>1, <3>2
    <3>4. QED
      BY <3>3 DEF Range
  <2>3. QED
    BY <2>1, <2>2
<1>8. QED
  BY <1>1, <1>4, <1>6, <1>7

IsPushed(v, u, x, w) ==
  /\ Len(v) = Len(u) + 1 + Len(w) /\ DOMAIN v = 1 .. Len(u) + 1 + Len(w)
  /\ \A i \in 1 .. Len(u) : v[i] = u[i]
  /\ v[Len(u) + 1] = x
  /\ \A i \in 1 .. Len(w) : v[Len(u) + 1 + i] = w[i]

LEMMA Pushed ==
  ASSUME NEW E, NEW u \in Seq(E), NEW x \in E, NEW w \in Seq(E)
  PROVE  IsPushed(Append(u, x) \o w, u, x, w)
<1> DEFINE a == Append(u, x)
           v == a \o w
<1>1. /\ Len(u) \in Nat /\ Len(w) \in Nat
      /\ a \in Seq(E) /\ Len(a) = Len(u) + 1
      /\ \A i \in 1 .. Len(u) : a[i] = u[i]
      /\ a[Len(u) + 1] = x
  OBVIOUS
<1> HIDE DEF a
<1>2. /\ Len(v) = Len(a) + Len(w) /\ DOMAIN v = 1 .. Len(a) + Len(w)
      /\ \A i \in 1 .. Len(a) + Len(w) : v[i] = IF i <= Len(a) THEN a[i] ELSE w[i - Len(a)]
  BY <1>1, SMTT(40)
<1> HIDE DEF v
<1>3. \A i \in 1 .. Len(w) : (Len(u) + 1 + i) - Len(a) = i /\ ~ (Len(u) + 1 + i <= Len(a))
                             /\ Len(u) + 1 + i \in 1 .. Len(a) + Len(w)
  BY <1>1
<1>4. \A i \in 1 .. Len(u) + 1 : i \in 1 .. Len(a) + Len(w) /\ i <= Len(a)
  BY <1>1
<1>5. /\ Len(v) = Len(u) + 1 + Len(w) /\ DOMAIN v = 1 .. Len(u) + 1 + Len(w)
      /\ \A i \in 1 .. Len(u) : v[i] = u[i]
      /\ v[Len(u) + 1] = x
      /\ \A i \in 1 .. Len(w) : v[Len(u) + 1 + i] = w[i]
  BY <1>1, <1>2, <1>3, <1>4
<1>6. QED
  BY <1>5 DEF v, a, IsPushed

(* A node is entered: it stays on the stack below those of its sources     *)
(* that are not visited.  The others are in the order, as a node that is   *)
(* entered and not left depends on all that comes above it.                *)
LEMMA EnterStep ==
  ASSUME NEW nodes, NEW sources \in [nodes -> Seq(nodes)], NEW start \in Seq(nodes),
         NEW R, StrictOrder(R, nodes), SourcesFirst(R, nodes, sources),
         NEW C, ClosedUnder(C, nodes, sources),
         NEW s \in WalkStates(nodes), s.stack # <<>>,
         ~ Last(s.stack).leave, Last(s.stack).node \notin s.visited,
         Walked(s, sources, start, R, C)
  PROVE  \E x \in nodes \ s.visited :
           /\ Walked(DFSStep(s, sources), sources, start, R, C)
           /\ DFSStep(s, sources).visited = s.visited \cup {x}
           /\ Len(DFSStep(s, sources).stack) <= Len(s.stack) + Len(sources[x])
<1> DEFINE t == s.stack
           n == Len(t)
           x == t[n].node
           u == Front(t)
           o == s.order
           marked == s.visited \cup {x}
           us == Unvisited(sources[x], marked)
           v == Append(u, Leave(x)) \o Entries(us)
           r == [s EXCEPT !.visited = marked, !.stack = v]
<1>1. t \in Seq(EntryType(nodes)) /\ t # <<>>
  BY DEF WalkStates, EntryType
<1>2. /\ n \in Nat /\ n > 0 /\ DOMAIN t = 1 .. n
      /\ Last(t) = t[n] /\ t[n] \in EntryType(nodes)
      /\ u \in Seq(EntryType(nodes)) /\ Len(u) = n - 1
      /\ DOMAIN u = 1 .. n - 1
      /\ \A i \in 1 .. n - 1 : u[i] = t[i]
  <2> HIDE DEF t
  <2>2. /\ Len(t) \in Nat /\ Len(t) > 0 /\ DOMAIN t = 1 .. Len(t)
        /\ Last(t) = t[Len(t)] /\ t[Len(t)] \in EntryType(nodes)
        /\ Front(t) \in Seq(EntryType(nodes)) /\ Len(Front(t)) = Len(t) - 1
        /\ DOMAIN Front(t) = 1 .. Len(t) - 1
        /\ \A i \in 1 .. Len(t) - 1 : Front(t)[i] = t[i]
    BY <1>1, Popped
  <2>3. QED
    BY <2>2
<1>3. DFSStep(s, sources) = r
  BY <1>2 DEF DFSStep
<1>4. r.stack = v /\ r.order = o /\ r.visited = marked
  BY <1>2 DEF WalkStates
<1>5. /\ x \in nodes /\ ~ t[n].leave /\ n \in DOMAIN t /\ x \notin s.visited
      /\ t[n].node = x
  BY <1>2 DEF EntryType
<1>6. StackOK(s, R, C) /\ OrderOK(s, sources, C) /\ StillDone(s, sources, start)
  BY DEF Walked
<1>7. sources[x] \in Seq(nodes)
  BY <1>5
<1>8. \A m : m \in marked <=> m = x \/ m \in s.visited
  OBVIOUS
<1> HIDE DEF u, x, r, n, t, o, marked
<1>9. /\ us \in Seq(nodes) /\ Len(us) <= Len(sources[x])
      /\ \A m : m \in Range(us) <=> m \in Range(sources[x]) /\ m \notin marked
  BY <1>7, UnvisitedOf
<1> HIDE DEF us
<1>10. /\ Len(us) \in Nat /\ DOMAIN us = 1 .. Len(us)
       /\ Entries(us) \in Seq(EntryType(nodes)) /\ Len(Entries(us)) = Len(us)
       /\ \A i \in 1 .. Len(us) : Entries(us)[i] = Enter(us[i])
  <2>1. Len(us) \in Nat /\ DOMAIN us = 1 .. Len(us)
    BY <1>9
  <2>2. Entries(us) \in Seq(EntryType(nodes))
    BY <1>9, EntriesType DEF EntryType
  <2>3. Entries(us) = [i \in 1 .. Len(us) |-> Enter(us[i])]
    BY <2>1 DEF Entries
  <2> DEFINE es == Entries(us)
  <2>4. es \in Seq(EntryType(nodes)) /\ es = [i \in 1 .. Len(us) |-> Enter(us[i])]
    BY <2>2, <2>3
  <2> HIDE DEF es
  <2>5. Len(es) = Len(us) /\ \A i \in 1 .. Len(us) : es[i] = Enter(us[i])
    BY <2>1, <2>4
  <2>6. QED
    BY <2>1, <2>4, <2>5 DEF es
<1>11. Leave(x) \in EntryType(nodes) /\ Leave(x).node = x /\ Leave(x).leave
  BY <1>5 DEF Leave, EntryType
<1>12. /\ Len(v) = n + Len(us) /\ DOMAIN v = 1 .. n + Len(us)
       /\ \A i \in 1 .. n - 1 : v[i] = t[i]
       /\ v[n] = Leave(x)
       /\ \A i \in 1 .. Len(us) : v[n + i] = Enter(us[i])
  <2> DEFINE es == Entries(us)
  <2>1. es \in Seq(EntryType(nodes)) /\ Len(es) = Len(us)
    BY <1>10
  <2>2. v = Append(u, Leave(x)) \o es
    BY DEF v
  <2>3. Len(u) + 1 = n
    BY <1>2
  <2>4. u \in Seq(EntryType(nodes))
    BY <1>2
  <2> HIDE DEF es, v
  <2>5. /\ Len(v) = Len(u) + 1 + Len(es) /\ DOMAIN v = 1 .. Len(u) + 1 + Len(es)
        /\ \A i \in 1 .. Len(u) : v[i] = u[i]
        /\ v[Len(u) + 1] = Leave(x)
        /\ \A i \in 1 .. Len(es) : v[Len(u) + 1 + i] = es[i]
    <3>1. IsPushed(Append(u, Leave(x)) \o es, u, Leave(x), es)
      BY <1>11, <2>1, <2>4, Pushed
    <3>2. QED
      BY <2>2, <3>1 DEF IsPushed
  <2>6. \A i \in 1 .. n - 1 : i \in 1 .. Len(u) /\ u[i] = t[i]
    BY <1>2
  <2>7. \A i \in 1 .. Len(us) : i \in 1 .. Len(es) /\ es[i] = Enter(us[i])
    BY <1>10, <2>1 DEF es
  <2>8. QED
    BY <2>1, <2>3, <2>5, <2>6, <2>7
<1> HIDE DEF v
<1>13. ASSUME NEW i \in DOMAIN v
       PROVE  \/ i \in 1 .. n - 1 /\ i \in DOMAIN t /\ v[i] = t[i] /\ i < n
              \/ i = n /\ v[i].leave /\ v[i].node = x
              \/ i > n /\ ~ v[i].leave /\ v[i].node \in Range(us)
  <2>1. CASE i < n
    BY <1>2, <1>10, <1>12, <2>1
  <2>2. CASE i = n
    BY <1>11, <1>12, <2>2
  <2>3. CASE i > n
    <3>1. i - n \in 1 .. Len(us) /\ n + (i - n) = i
      BY <1>2, <1>10, <1>12, <2>3
    <3>2. v[i] = Enter(us[i - n])
      BY <1>12, <3>1
    <3>3. us[i - n] \in Range(us)
      BY <1>10, <3>1 DEF Range
    <3>4. QED
      BY <2>3, <3>2, <3>3 DEF Enter
  <2>4. QED
    BY <1>2, <1>10, <1>12, <2>1, <2>2, <2>3
<1>14. /\ \A p \in DOMAIN t : t[p].node \in C
       /\ \A p \in DOMAIN t : t[p].leave => t[p].node \in s.visited /\ t[p].node \notin Range(o)
       /\ \A p, q \in DOMAIN t : p < q /\ t[p].leave => <<t[q].node, t[p].node>> \in R
       /\ \A y \in s.visited : y \notin Range(o) => \E p \in DOMAIN t : t[p].leave /\ t[p].node = y
  BY <1>6 DEF StackOK, t, o
<1>15. \A i \in 1 .. n : i \in DOMAIN v /\ i \in DOMAIN t /\ v[i].node = t[i].node
  <2> SUFFICES ASSUME NEW i \in 1 .. n
               PROVE  i \in DOMAIN v /\ i \in DOMAIN t /\ v[i].node = t[i].node
    OBVIOUS
  <2>1. i \in DOMAIN v /\ i \in DOMAIN t
    BY <1>2, <1>10, <1>12
  <2>2. CASE i = n
    BY <1>5, <1>11, <1>12, <2>1, <2>2
  <2>3. CASE i # n
    <3>1. i \in 1 .. n - 1
      BY <1>2, <2>3
    <3>2. QED
      BY <1>12, <2>1, <3>1
  <2>4. QED
    BY <2>2, <2>3
<1>16. \A m \in Range(us) : m \in Range(sources[x]) /\ m \in nodes /\ m \notin marked
  <2>1. \A m \in Range(us) : m \in nodes
    BY <1>9 DEF Range
  <2>2. QED
    BY <1>9, <2>1
<1>17. \A m \in Range(sources[x]) : <<m, x>> \in R /\ m \in nodes /\ m \in C
  <2>1. \A m \in Range(sources[x]) : m \in nodes
    BY <1>7 DEF Range
  <2>2. x \in C
    BY <1>5, <1>14
  <2>3. QED
    BY <1>5, <2>1, <2>2 DEF SourcesFirst, ClosedUnder
<1>18. ASSUME NEW p \in DOMAIN t, p < n, t[p].leave
       PROVE  t[p].node \in nodes /\ <<x, t[p].node>> \in R
  <2>1. t[p] \in EntryType(nodes)
    BY <1>1
  <2>3. t[p].node \in nodes
    BY <2>1 DEF EntryType
  <2>2. QED
    BY <1>5, <1>14, <1>18, <2>3
<1>19. StackOK(r, R, C)
  <2>1. \A p \in DOMAIN v : v[p].node \in C
    <3>1. x \in C
      BY <1>5, <1>14
    <3>2. QED
      BY <1>13, <1>14, <1>16, <1>17, <3>1
  <2>2. x \notin Range(o)
    BY <1>5, <1>6 DEF OrderOK, o
  <2>3. \A p \in DOMAIN v : v[p].leave => v[p].node \in marked /\ v[p].node \notin Range(o)
    BY <1>8, <1>13, <1>14, <2>2
  <2>4. ASSUME NEW p \in DOMAIN v, NEW q \in DOMAIN v, p < q, v[p].leave
        PROVE  <<v[q].node, v[p].node>> \in R
    <3>1. CASE p = n
      <4>1. q > n
        BY <2>4, <3>1
      <4>2. v[q].node \in Range(us)
        BY <1>2, <1>13, <4>1
      <4>3. v[p].node = x
        BY <1>11, <1>12, <3>1
      <4>4. QED
        BY <1>16, <1>17, <4>2, <4>3
    <3>2. CASE p # n
      <4>1. p \in DOMAIN t /\ v[p] = t[p] /\ p < n
        BY <1>13, <2>4, <3>2
      <4>2. t[p].node \in nodes /\ <<x, t[p].node>> \in R
        BY <1>18, <2>4, <4>1
      <4>3. CASE q < n
        <5>3. q \in Int /\ n \in Int
          BY <1>2, <1>10, <1>12
        <5>4. q # n /\ ~ (q > n)
          BY <4>3, <5>3
        <5>1. q \in DOMAIN t /\ v[q] = t[q]
          BY <1>13, <5>4
        <5>2. QED
          BY <1>14, <2>4, <4>1, <5>1
      <4>4. CASE q = n
        BY <1>11, <1>12, <4>1, <4>2, <4>4
      <4>5. CASE q > n
        <5>1. v[q].node \in Range(us)
          BY <1>2, <1>13, <4>5
        <5>2. <<v[q].node, x>> \in R /\ v[q].node \in nodes
          BY <1>16, <1>17, <5>1
        <5>3. QED
          BY <1>5, <4>1, <4>2, <5>2 DEF StrictOrder
      <4>6. QED
        BY <1>2, <1>12, <4>3, <4>4, <4>5
    <3>3. QED
      BY <3>1, <3>2
  <2>5. ASSUME NEW y \in marked, y \notin Range(o)
        PROVE  \E p \in DOMAIN v : v[p].leave /\ v[p].node = y
    <3>1. CASE y = x
      <4>1. n \in DOMAIN v
        BY <1>2, <1>15
      <4>2. QED
        BY <1>11, <1>12, <3>1, <4>1
    <3>2. CASE y # x
      <4>1. PICK p \in DOMAIN t : t[p].leave /\ t[p].node = y
        BY <1>8, <1>14, <2>5, <3>2
      <4>2. p \in 1 .. n - 1
        BY <1>2, <1>5, <4>1
      <4>3. p \in DOMAIN v /\ v[p] = t[p]
        BY <1>2, <1>12, <1>15, <4>2
      <4>4. QED
        BY <4>1, <4>3
    <3>3. QED
      BY <3>1, <3>2
  <2>6. QED
    BY <1>4, <2>1, <2>3, <2>4, <2>5 DEF StackOK
<1>20. OrderOK(r, sources, C)
  <2>1. /\ IsInjective(o) /\ Range(o) \subseteq s.visited /\ Range(o) \subseteq C
        /\ \A j \in DOMAIN o : \A m \in Range(sources[o[j]]) : \E i \in 1 .. j - 1 : o[i] = m
    BY <1>6 DEF OrderOK, o
  <2>2. Range(o) \subseteq marked
    BY <1>8, <2>1
  <2>3. QED
    BY <1>4, <2>1, <2>2 DEF OrderOK
<1>21. ASSUME NEW m, NEW p \in Int, Above(s, m, p) PROVE Above(r, m, p)
  <2>1. m \in Range(o) \/ \E q \in DOMAIN t : p < q /\ t[q].node = m
    BY <1>21 DEF Above, t, o
  <2>2. m \in Range(o) \/ \E q \in DOMAIN v : p < q /\ v[q].node = m
    BY <1>2, <1>15, <2>1
  <2>3. QED
    BY <1>4, <2>2 DEF Above
<1>22. ASSUME NEW m \in Range(sources[x]) PROVE Above(r, m, n)
  <2>1. <<m, x>> \in R /\ m \in nodes
    BY <1>17
  <2>2. CASE m \in Range(us)
    <3>1. PICK i \in 1 .. Len(us) : us[i] = m
      BY <1>10, <2>2 DEF Range
    <3>2. v[n + i].node = m
      <4>1. v[n + i] = Enter(m)
        BY <1>12, <3>1
      <4>2. QED
        BY <4>1 DEF Enter
    <3>4. n + i \in DOMAIN v /\ n < n + i
      BY <1>2, <1>10, <1>12, <3>1
    <3>3. QED
      BY <1>4, <3>2, <3>4 DEF Above
  <2>3. CASE m \notin Range(us)
    <3>1. m \in s.visited
      <4>1. m # x
        BY <2>1 DEF StrictOrder
      <4>2. QED
        BY <1>8, <1>9, <2>3, <4>1
    <3>2. m \in Range(o)
      <4> SUFFICES ASSUME m \notin Range(o) PROVE FALSE
        OBVIOUS
      <4>1. PICK p \in DOMAIN t : t[p].leave /\ t[p].node = m
        BY <1>14, <3>1
      <4>2. p < n
        BY <1>2, <1>5, <4>1
      <4>3. <<x, m>> \in R
        BY <1>18, <4>1, <4>2
      <4>4. QED
        BY <1>5, <2>1, <4>3 DEF StrictOrder
    <3>3. QED
      BY <1>4, <3>2 DEF Above
  <2>4. QED
    BY <2>2, <2>3
<1>23. StillDone(r, sources, start)
  <2>1. /\ \A p \in DOMAIN t : t[p].leave => \A m \in Range(sources[t[p].node]) : Above(s, m, p)
        /\ \A m \in Range(start) : Above(s, m, 0)
    BY <1>6 DEF StillDone, t
  <2>2. ASSUME NEW p \in DOMAIN v, v[p].leave, NEW m \in Range(sources[v[p].node])
        PROVE  Above(r, m, p)
    <3>1. CASE p = n
      <4>1. v[p].node = x
        BY <1>11, <1>12, <3>1
      <4>2. QED
        BY <1>22, <2>2, <3>1, <4>1
    <3>2. CASE p # n
      <4>1. p \in DOMAIN t /\ v[p] = t[p] /\ p \in Int
        BY <1>2, <1>13, <2>2, <3>2
      <4>2. QED
        BY <1>21, <2>1, <2>2, <4>1
    <3>3. QED
      BY <3>1, <3>2
  <2>3. \A m \in Range(start) : Above(r, m, 0)
    BY <1>21, <2>1
  <2>4. QED
    BY <1>4, <2>2, <2>3 DEF StillDone
<1>24. Len(v) <= n + Len(sources[x])
  <2>1. Len(sources[x]) \in Nat
    BY <1>7
  <2>2. QED
    BY <1>2, <1>9, <1>10, <1>12, <2>1
<1>25. Walked(r, sources, start, R, C)
  BY <1>19, <1>20, <1>23 DEF Walked
<1>26. QED
  BY <1>3, <1>4, <1>5, <1>24, <1>25 DEF t, n, marked

(* How many steps the nodes that are visited are worth: one to leave each, *)
(* and one for each of their in-edges.                                     *)
SourcesRead(sources, V) == UNION {{n} \X DOMAIN sources[n] : n \in V}

Worth(sources, start, V) ==
  Len(start) + Cardinality(V) + Cardinality(SourcesRead(sources, V))

LEMMA FiniteImage ==
  ASSUME NEW S, IsFiniteSet(S), NEW f, DOMAIN f = S
  PROVE  IsFiniteSet({f[x] : x \in S})
<1> DEFINE T == {f[x] : x \in S}
<1>1. \A x \in S : f[x] \in T
  OBVIOUS
<1>2. \A y \in T : \E x \in S : f[x] = y
  OBVIOUS
<1> HIDE DEF T
<1>3. [x \in S |-> f[x]] \in Surjection(S, T)
  BY <1>1, <1>2 DEF Surjection
<1>4. IsFiniteSet(T)
  BY <1>3, FS_Surjection
<1>5. QED
  BY <1>4 DEF T

WorthGrows(sources, start, V, x) ==
  /\ IsFiniteSet(SourcesRead(sources, V \cup {x}))
  /\ Worth(sources, start, V \cup {x}) =
       Worth(sources, start, V) + 1 + Len(sources[x])

LEMMA OneMoreRead ==
  ASSUME NEW nodes, IsFiniteSet(nodes), NEW sources \in [nodes -> Seq(nodes)],
         NEW start \in Seq(nodes),
         NEW V \in SUBSET nodes, IsFiniteSet(SourcesRead(sources, V))
  PROVE  /\ Worth(sources, start, V) \in Nat
         /\ \A x \in nodes \ V : WorthGrows(sources, start, V, x)
<1>1. IsFiniteSet(V)
  BY FS_Subset
<1>2. /\ Cardinality(V) \in Nat /\ Len(start) \in Nat
      /\ Cardinality(SourcesRead(sources, V)) \in Nat
  BY <1>1, FS_CardinalityType
<1>3. ASSUME NEW x \in nodes \ V
      PROVE  /\ IsFiniteSet(SourcesRead(sources, V \cup {x}))
             /\ Worth(sources, start, V \cup {x}) =
                  Worth(sources, start, V) + 1 + Len(sources[x])
  <2> DEFINE more == {x} \X DOMAIN sources[x]
             old == SourcesRead(sources, V)
             new == SourcesRead(sources, V \cup {x})
  <2>1. sources[x] \in Seq(nodes)
    OBVIOUS
  <2>2. Len(sources[x]) \in Nat /\ DOMAIN sources[x] = 1 .. Len(sources[x])
    BY <2>1
  <2>3. IsFiniteSet(1 .. Len(sources[x])) /\ Cardinality(1 .. Len(sources[x])) = Len(sources[x])
    <3> DEFINE l == Len(sources[x])
    <3>1. l \in Nat
      BY <2>2
    <3> HIDE DEF l
    <3>2. IsFiniteSet(1 .. l) /\ Cardinality(1 .. l) = IF 1 > l THEN 0 ELSE l - 1 + 1
      BY <3>1, FS_Interval
    <3>3. IsFiniteSet(1 .. l) /\ Cardinality(1 .. l) = l
      BY <3>1, <3>2
    <3>4. QED
      BY <3>3 DEF l
  <2>4. IsFiniteSet({x}) /\ Cardinality({x}) = 1
    BY FS_Singleton
  <2>5. IsFiniteSet(more) /\ Cardinality(more) = Len(sources[x])
    <3>1. /\ IsFiniteSet({x} \X (1 .. Len(sources[x])))
          /\ Cardinality({x} \X (1 .. Len(sources[x]))) = Cardinality({x}) * Cardinality(1 .. Len(sources[x]))
      BY <2>3, <2>4, FS_Product
    <3>2. Cardinality({x}) * Cardinality(1 .. Len(sources[x])) = Len(sources[x])
      BY <2>2, <2>3, <2>4
    <3>3. QED
      BY <2>2, <3>1, <3>2
  <2>6. new = old \cup more
    BY DEF SourcesRead
  <2>7. old \cap more = {}
    <3> SUFFICES ASSUME NEW e \in old, e \in more PROVE FALSE
      OBVIOUS
    <3>1. PICK n \in V : e \in {n} \X DOMAIN sources[n]
      BY DEF SourcesRead
    <3>2. e[1] = n /\ e[1] = x
      BY <3>1
    <3>3. QED
      BY <3>2
  <2> HIDE DEF more, old, new
  <2>8. IsFiniteSet(old)
    BY DEF old
  <2>9. /\ IsFiniteSet(old \cup more)
        /\ Cardinality(old \cup more) =
             Cardinality(old) + Cardinality(more) - Cardinality(old \cap more)
    BY <2>5, <2>8, FS_Union
  <2>10. Cardinality(old \cap more) = 0
    BY <2>7, FS_EmptySet
  <2>11. IsFiniteSet(new) /\ Cardinality(new) = Cardinality(old) + Len(sources[x])
    <3>1. Cardinality(old) \in Nat
      BY <2>8, FS_CardinalityType
    <3>2. QED
      BY <2>2, <2>5, <2>6, <2>9, <2>10, <3>1
  <2>12. Cardinality(V \cup {x}) = Cardinality(V) + 1
    BY <1>1, FS_AddElement
  <2>13. QED
    BY <1>2, <2>2, <2>11, <2>12 DEF Worth, old, new
<1>4. Worth(sources, start, V) \in Nat
  BY <1>2 DEF Worth
<1>5. QED
  BY <1>3, <1>4 DEF WorthGrows

(* The walk from some nodes gives each that they depend on, and no other,  *)
(* once, and after its sources.                                            *)
IsOrderOf(order, sources, start, C) ==
  /\ IsInjective(order) /\ Range(order) \subseteq C
  /\ Range(start) \subseteq Range(order)
  /\ \A j \in DOMAIN order : \A m \in Range(sources[order[j]]) :
       \E i \in 1 .. j - 1 : order[i] = m

LEMMA FirstWalked ==
  ASSUME NEW nodes, NEW sources \in [nodes -> Seq(nodes)],
         NEW start \in Seq(nodes),
         NEW R, NEW C, Range(start) \subseteq C
  PROVE  /\ FirstOf(start) \in WalkStates(nodes)
         /\ Walked(FirstOf(start), sources, start, R, C)
         /\ FirstOf(start).visited = {} /\ Len(FirstOf(start).stack) = Len(start)
<1> DEFINE es == Entries(start)
           r == FirstOf(start)
<1>1. es \in Seq(EntryType(nodes)) /\ Entries(start) \in Seq([node : nodes, leave : BOOLEAN])
  BY EntriesType DEF EntryType
<1>2. <<>> \in Seq(nodes)
  OBVIOUS
<1>3. r \in WalkStates(nodes)
  BY <1>1, <1>2 DEF WalkStates, FirstOf
<1>4. r.stack = es /\ r.visited = {} /\ r.order = <<>>
  BY DEF FirstOf
<1>5. Len(start) \in Nat /\ DOMAIN start = 1 .. Len(start)
  OBVIOUS
<1>6. es = [i \in 1 .. Len(start) |-> Enter(start[i])]
  BY <1>5 DEF Entries
<1> HIDE DEF es, r
<1>7. Len(es) = Len(start) /\ DOMAIN es = 1 .. Len(start)
      /\ \A i \in 1 .. Len(start) : es[i].node = start[i] /\ ~ es[i].leave
  <2>1. \A i \in 1 .. Len(start) : es[i] = Enter(start[i])
    BY <1>6
  <2>2. Len(es) = Len(start) /\ DOMAIN es = 1 .. Len(start)
    BY <1>1, <1>5, <1>6
  <2>3. QED
    BY <2>1, <2>2 DEF Enter
<1>8. \A i \in 1 .. Len(start) : start[i] \in Range(start)
  BY <1>5 DEF Range
<1>9. StackOK(r, R, C)
  BY <1>4, <1>7, <1>8 DEF StackOK
<1>10. DOMAIN <<>> = {} /\ Range(<<>>) = {}
  BY DEF Range
<1>11. OrderOK(r, sources, C)
  <2>1. IsInjective(<<>>)
    BY <1>10 DEF IsInjective
  <2>2. QED
    BY <1>4, <1>10, <2>1 DEF OrderOK
<1>12. StillDone(r, sources, start)
  <2>1. ASSUME NEW m \in Range(start) PROVE Above(r, m, 0)
    <3>1. PICK i \in 1 .. Len(start) : start[i] = m
      BY <1>5 DEF Range
    <3>2. i \in DOMAIN r.stack /\ 0 < i /\ r.stack[i].node = m
      BY <1>4, <1>5, <1>7, <3>1
    <3>3. QED
      BY <3>2 DEF Above
  <2>2. QED
    BY <1>4, <1>7, <2>1 DEF StillDone
<1>13. QED
  BY <1>3, <1>4, <1>7, <1>9, <1>11, <1>12 DEF Walked, r

LEMMA ReadIsFinite ==
  ASSUME NEW N, IsFiniteSet(N), NEW sources \in [N -> Seq(N)], NEW start \in Seq(N)
  PROVE  /\ \A V \in SUBSET N : IsFiniteSet(SourcesRead(sources, V))
         /\ StepsOf(N, sources, start) = Worth(sources, start, N)
<1> DEFINE f == [n \in N |-> {n} \X DOMAIN sources[n]]
           U == {f[n] : n \in N}
<1>1. IsFiniteSet(U)
  <2> HIDE DEF f
  <2>1. DOMAIN f = N
    BY DEF f
  <2>2. QED
    BY <2>1, FiniteImage
<1>2. ASSUME NEW u \in U
      PROVE  IsFiniteSet(u)
  <2>1. PICK n \in N : u = {n} \X DOMAIN sources[n]
    BY <1>2
  <2>2. sources[n] \in Seq(N)
    OBVIOUS
  <2>3. DOMAIN sources[n] = 1 .. Len(sources[n]) /\ Len(sources[n]) \in Nat
    BY <2>2
  <2>4. IsFiniteSet(1 .. Len(sources[n]))
    BY <2>3, FS_Interval
  <2>5. IsFiniteSet({n})
    BY FS_Singleton
  <2>6. IsFiniteSet({n} \X DOMAIN sources[n])
    BY <2>3, <2>4, <2>5, FS_Product
  <2>7. QED
    BY <2>1, <2>6
<1>3. UNION U = SourcesRead(sources, N)
  BY DEF SourcesRead
<1>4. StepsOf(N, sources, start) = Worth(sources, start, N)
  BY DEF StepsOf, Worth, SourcesRead
<1>5. \A V \in SUBSET N : SourcesRead(sources, V) \subseteq SourcesRead(sources, N)
  BY DEF SourcesRead
<1> HIDE DEF U
<1>6. IsFiniteSet(SourcesRead(sources, N))
  BY <1>1, <1>2, <1>3, FS_UNION
<1>7. QED
  BY <1>4, <1>5, <1>6, FS_Subset

(* The walk has not taken more steps than the nodes it has visited are     *)
(* worth.                                                                  *)
InTime(k, s, sources, start) ==
  s.stack = <<>> \/ k + Len(s.stack) <= Worth(sources, start, s.visited)

LEMMA OnwardInTime ==
  ASSUME NEW nodes, IsFiniteSet(nodes), NEW sources \in [nodes -> Seq(nodes)],
         NEW start \in Seq(nodes),
         NEW R, StrictOrder(R, nodes), SourcesFirst(R, nodes, sources),
         NEW C, ClosedUnder(C, nodes, sources),
         NEW k \in Nat, NEW s \in WalkStates(nodes),
         Walked(s, sources, start, R, C), InTime(k, s, sources, start)
  PROVE  /\ Onward(s, sources) \in WalkStates(nodes)
         /\ Walked(Onward(s, sources), sources, start, R, C)
         /\ InTime(k + 1, Onward(s, sources), sources, start)
<1>1. CASE s.stack = <<>>
  BY <1>1 DEF Onward, InTime
<1>2. CASE s.stack # <<>>
  <2> DEFINE r == DFSStep(s, sources)
             L == Len(s.stack)
             W == Worth(sources, start, s.visited)
  <2>1. Onward(s, sources) = r
    BY <1>2 DEF Onward
  <2>2. r \in WalkStates(nodes)
    BY <1>2, DFSStepType
  <2>3. s.visited \in SUBSET nodes /\ L \in Nat /\ Len(r.stack) \in Nat
    BY <2>2 DEF WalkStates
  <2> DEFINE l == Len(r.stack)
  <2> HIDE DEF r, L, W, l
  <2>10. IsFiniteSet(SourcesRead(sources, s.visited))
    BY <2>3, ReadIsFinite
  <2>4. W \in Nat
    BY <2>3, <2>10, OneMoreRead DEF W
  <2>11. \A x \in nodes \ s.visited :
           Worth(sources, start, s.visited \cup {x}) = W + 1 + Len(sources[x])
    <3>1. \A x \in nodes \ s.visited : WorthGrows(sources, start, s.visited, x)
      BY <2>3, <2>10, OneMoreRead
    <3>2. QED
      BY <3>1 DEF W, WorthGrows
  <2>5. k + L <= W
    BY <1>2 DEF InTime, L, W
  <2>12. l \in Nat /\ L \in Nat
    BY <2>3 DEF l, L
  <2>6. CASE Last(s.stack).leave
    <3>1. /\ Walked(r, sources, start, R, C) /\ r.visited = s.visited
          /\ l = L - 1
      <4>1. TakenOff(DFSStep(s, sources), s, sources, start, R, C)
        BY <1>2, <2>6, LeaveStep
      <4>2. QED
        BY <4>1 DEF TakenOff, r, l, L
    <3>2. k + 1 + l <= W
      BY <2>4, <2>5, <2>12, <3>1
    <3>3. QED
      BY <2>1, <2>2, <3>1, <3>2 DEF InTime, l, W
  <2>7. CASE ~ Last(s.stack).leave /\ Last(s.stack).node \in s.visited
    <3>1. /\ Walked(r, sources, start, R, C) /\ r.visited = s.visited
          /\ l = L - 1
      <4>1. TakenOff(DFSStep(s, sources), s, sources, start, R, C)
        BY <1>2, <2>7, PassStep
      <4>2. QED
        BY <4>1 DEF TakenOff, r, l, L
    <3>2. k + 1 + l <= W
      BY <2>4, <2>5, <2>12, <3>1
    <3>3. QED
      BY <2>1, <2>2, <3>1, <3>2 DEF InTime, l, W
  <2>8. CASE ~ Last(s.stack).leave /\ Last(s.stack).node \notin s.visited
    <3>1. PICK x \in nodes \ s.visited :
            /\ Walked(r, sources, start, R, C)
            /\ r.visited = s.visited \cup {x}
            /\ l <= L + Len(sources[x])
      BY <1>2, <2>8, EnterStep DEF r, l, L
    <3>2. sources[x] \in Seq(nodes)
      OBVIOUS
    <3>3. Len(sources[x]) \in Nat
      BY <3>2
    <3>4. Worth(sources, start, r.visited) = W + 1 + Len(sources[x])
      BY <2>11, <3>1
    <3> DEFINE m == Len(sources[x])
               w == Worth(sources, start, r.visited)
    <3>7. m \in Nat /\ w = W + 1 + m /\ l <= L + m
      BY <3>1, <3>3, <3>4
    <3> HIDE DEF m, w
    <3>5. k + 1 + l <= w
      BY <2>4, <2>5, <2>12, <3>7
    <3>6. QED
      BY <2>1, <2>2, <3>1, <3>5 DEF InTime, l, w
  <2>9. QED
    BY <2>6, <2>7, <2>8
<1>3. QED
  BY <1>1, <1>2

(* The number of steps is enough: the walk ends with an empty stack.       *)
LEMMA WalkOrder ==
  ASSUME NEW nodes, IsFiniteSet(nodes), NEW sources \in [nodes -> Seq(nodes)],
         NEW start \in Seq(nodes),
         NEW R, StrictOrder(R, nodes), SourcesFirst(R, nodes, sources),
         NEW C, ClosedUnder(C, nodes, sources), Range(start) \subseteq C
  PROVE  /\ ReverseDFS(nodes, sources, start) \in Seq(nodes)
         /\ IsOrderOf(ReverseDFS(nodes, sources, start), sources, start, C)
<1> DEFINE G == [k \in Nat |-> {s \in WalkStates(nodes) :
                   Walked(s, sources, start, R, C) /\ InTime(k, s, sources, start)}]
           n == StepsOf(nodes, sources, start)
<1>1. /\ \A V \in SUBSET nodes : IsFiniteSet(SourcesRead(sources, V))
      /\ n = Worth(sources, start, nodes)
  BY ReadIsFinite
<1>2. \A V \in SUBSET nodes : Worth(sources, start, V) \in Nat
  BY <1>1, OneMoreRead
<1>3. n \in Nat
  BY <1>1, <1>2
<1>4. \A k \in Nat : \A s : s \in G[k] <=>
        /\ s \in WalkStates(nodes)
        /\ Walked(s, sources, start, R, C) /\ InTime(k, s, sources, start)
  OBVIOUS
<1> HIDE DEF G
<1>5. FirstOf(start) \in G[0]
  <2>1. /\ FirstOf(start) \in WalkStates(nodes)
        /\ Walked(FirstOf(start), sources, start, R, C)
        /\ FirstOf(start).visited = {} /\ Len(FirstOf(start).stack) = Len(start)
    BY FirstWalked
  <2>2. Worth(sources, start, {}) = Len(start) /\ Len(start) \in Nat
    <3>1. SourcesRead(sources, {}) = {}
      BY DEF SourcesRead
    <3>2. Cardinality({}) = 0
      BY FS_EmptySet
    <3>4. Len(start) \in Nat
      OBVIOUS
    <3>5. Worth(sources, start, {}) = Len(start) + 0 + 0
      BY <3>1, <3>2 DEF Worth
    <3>3. QED
      BY <3>4, <3>5
  <2>3. 0 + Len(FirstOf(start).stack) <= Worth(sources, start, FirstOf(start).visited)
    BY <2>1, <2>2
  <2>4. InTime(0, FirstOf(start), sources, start)
    BY <2>3 DEF InTime
  <2>5. QED
    BY <1>4, <2>1, <2>4
<1>6. ASSUME NEW k \in Nat, NEW s \in G[k] PROVE Onward(s, sources) \in G[k + 1]
  <2>1. s \in WalkStates(nodes) /\ Walked(s, sources, start, R, C) /\ InTime(k, s, sources, start)
    BY <1>4, <1>6
  <2>2. /\ Onward(s, sources) \in WalkStates(nodes)
        /\ Walked(Onward(s, sources), sources, start, R, C)
        /\ InTime(k + 1, Onward(s, sources), sources, start)
    BY <1>6, <2>1, OnwardInTime
  <2>3. QED
    BY <1>4, <1>6, <2>2
<1>7. PICK s \in G[n] : ReverseDFS(nodes, sources, start) = s.order
  <2>1. /\ \A k \in Nat : G[k] \subseteq WalkStates(nodes)
        /\ \A k \in Nat : \A s \in G[k] : Onward(s, sources) \in G[k + 1]
    BY <1>4, <1>6
  <2>2. QED
    BY <1>3, <1>5, <2>1, WalkReaches
<1>8. /\ s \in WalkStates(nodes)
      /\ Walked(s, sources, start, R, C) /\ InTime(n, s, sources, start)
  BY <1>3, <1>4, <1>7
<1>9. s.stack \in Seq([node : nodes, leave : BOOLEAN]) /\ s.visited \in SUBSET nodes
      /\ s.order \in Seq(nodes)
  BY <1>8 DEF WalkStates
<1>10. s.stack = <<>>
  <2> SUFFICES ASSUME s.stack # <<>> PROVE FALSE
    OBVIOUS
  <2>1. n + Len(s.stack) <= Worth(sources, start, s.visited)
    BY <1>8 DEF InTime
  <2>2. Worth(sources, start, s.visited) <= Worth(sources, start, nodes)
    <3>1. s.visited \subseteq nodes /\ IsFiniteSet(s.visited)
      BY <1>9, FS_Subset
    <3>2. Cardinality(s.visited) <= Cardinality(nodes)
      BY <3>1, FS_Subset
    <3>3. SourcesRead(sources, s.visited) \subseteq SourcesRead(sources, nodes)
      BY <3>1 DEF SourcesRead
    <3>4. Cardinality(SourcesRead(sources, s.visited)) <= Cardinality(SourcesRead(sources, nodes))
      BY <1>1, <3>3, FS_Subset
    <3>5. /\ Cardinality(s.visited) \in Nat /\ Cardinality(nodes) \in Nat /\ Len(start) \in Nat
          /\ Cardinality(SourcesRead(sources, s.visited)) \in Nat
          /\ Cardinality(SourcesRead(sources, nodes)) \in Nat
      BY <1>1, <3>1, FS_CardinalityType
    <3>6. QED
      BY <3>2, <3>4, <3>5 DEF Worth
  <2>3. Len(s.stack) \in Nat /\ Len(s.stack) > 0
    BY <1>9
  <2>4. Worth(sources, start, s.visited) \in Nat
    BY <1>2, <1>9
  <2>5. QED
    BY <1>1, <1>3, <2>1, <2>2, <2>3, <2>4
<1>11. StackOK(s, R, C) /\ OrderOK(s, sources, C) /\ StillDone(s, sources, start)
  BY <1>8 DEF Walked
<1>12. Range(start) \subseteq Range(s.order)
  <2>1. DOMAIN s.stack = {}
    BY <1>10
  <2>2. \A m \in Range(start) : Above(s, m, 0)
    BY <1>11 DEF StillDone
  <2>3. QED
    BY <2>1, <2>2 DEF Above
<1>13. IsOrderOf(s.order, sources, start, C)
  BY <1>11, <1>12 DEF OrderOK, IsOrderOf
<1>14. QED
  BY <1>7, <1>9, <1>13

EdgesForward(order, es) ==
  \A e \in es : \A j \in DOMAIN order :
    order[j] = e.dst => \E i \in 1 .. j - 1 : order[i] = e.src

(* get_ordered_ops has the nodes that the outputs depend on, once each,    *)
(* and the source of an edge before its target.                            *)
LEMMA OpsAreOrdered ==
  ASSUME NEW nodes, IsFiniteSet(nodes), nodes \subseteq Int,
         NEW edges, \A n \in nodes : InEdges(edges, n) \in Seq(edges),
         \A n \in nodes : Range(InEdges(edges, n)) = {e \in edges : e.dst = n},
         \A e \in edges : e.src \in nodes /\ e.dst \in nodes,
         NEW outputs, outputs \subseteq nodes,
         NEW R, StrictOrder(R, nodes), \A e \in edges : <<e.src, e.dst>> \in R,
         NEW C, outputs \subseteq C, \A e \in edges : e.dst \in C => e.src \in C
  PROVE  LET order == OpsInOrder(nodes, edges, outputs) IN
         /\ order \in Seq(nodes) /\ IsInjective(order) /\ Range(order) \subseteq C
         /\ outputs \subseteq Range(order) /\ EdgesForward(order, edges)
<1> DEFINE sources == [n \in nodes |->
              LET into == InEdges(edges, n) IN [i \in DOMAIN into |-> into[i].src]]
           start == Ascending(outputs)
           order == ReverseDFS(nodes, sources, start)
<1>1. OpsInOrder(nodes, edges, outputs) = order
  BY DEF OpsInOrder
<1>2. ASSUME NEW n \in nodes
      PROVE  /\ sources[n] \in Seq(nodes)
             /\ \A e \in edges : e.dst = n => e.src \in Range(sources[n])
             /\ \A m \in Range(sources[n]) : \E e \in edges : e.src = m /\ e.dst = n
  <2> DEFINE into == InEdges(edges, n)
  <2>1. into \in Seq(edges) /\ Range(into) = {e \in edges : e.dst = n}
    OBVIOUS
  <2>2. sources[n] = [i \in DOMAIN into |-> into[i].src]
    OBVIOUS
  <2> HIDE DEF into, sources
  <2>3. DOMAIN into = 1 .. Len(into) /\ Len(into) \in Nat
    BY <2>1
  <2>4. \A i \in 1 .. Len(into) : into[i] \in edges /\ into[i].dst = n
    <3>1. \A i \in 1 .. Len(into) : into[i] \in Range(into)
      BY <2>3 DEF Range
    <3>2. QED
      BY <2>1, <3>1
  <2>5. \A i \in 1 .. Len(into) : into[i].src \in nodes
    BY <2>4
  <2>6. sources[n] = [i \in 1 .. Len(into) |-> into[i].src]
    BY <2>2, <2>3
  <2>7. sources[n] \in Seq(nodes)
    BY <2>3, <2>5, <2>6
  <2>8. DOMAIN sources[n] = 1 .. Len(into) /\ \A i \in 1 .. Len(into) : sources[n][i] = into[i].src
    BY <2>6
  <2>9. ASSUME NEW e \in edges, e.dst = n PROVE e.src \in Range(sources[n])
    <3>1. e \in Range(into)
      BY <2>1, <2>9
    <3>2. PICK i \in 1 .. Len(into) : into[i] = e
      BY <2>3, <3>1 DEF Range
    <3>3. QED
      BY <2>8, <3>2 DEF Range
  <2>10. ASSUME NEW m \in Range(sources[n]) PROVE \E e \in edges : e.src = m /\ e.dst = n
    <3>1. PICK i \in 1 .. Len(into) : sources[n][i] = m
      BY <2>8 DEF Range
    <3>2. QED
      BY <2>4, <2>8, <3>1
  <2>11. QED
    BY <2>7, <2>9, <2>10
<1>3. sources \in [nodes -> Seq(nodes)]
  BY <1>2
<1>4. start \in Seq(nodes) /\ Range(start) = outputs
  <2>1. outputs \subseteq Int /\ IsFiniteSet(outputs)
    BY FS_Subset
  <2>2. /\ Cardinality(outputs) \in Nat /\ start \in [1 .. Cardinality(outputs) -> outputs]
        /\ \A e \in outputs : \E i \in 1 .. Cardinality(outputs) : start[i] = e
    BY <2>1, AscendingOrder
  <2> HIDE DEF start
  <2>3. start \in [1 .. Cardinality(outputs) -> nodes]
    BY <2>2
  <2>4. Range(start) = outputs
    BY <2>2 DEF Range
  <2>5. QED
    BY <2>2, <2>3, <2>4
<1> HIDE DEF sources, start
<1>5. SourcesFirst(R, nodes, sources)
  BY <1>2, ZenonT(60) DEF SourcesFirst
<1>6. ClosedUnder(C, nodes, sources)
  <2>1. ASSUME NEW n \in C \cap nodes, NEW m \in Range(sources[n]) PROVE m \in C
    <3>1. PICK e \in edges : e.src = m /\ e.dst = n
      BY <1>2, <2>1
    <3>2. QED
      BY <2>1, <3>1
  <2>2. QED
    BY <2>1 DEF ClosedUnder
<1>7. order \in Seq(nodes) /\ IsOrderOf(order, sources, start, C)
  BY <1>3, <1>4, <1>5, <1>6, WalkOrder
<1> HIDE DEF order
<1>8. ASSUME NEW e \in edges, NEW j \in DOMAIN order, order[j] = e.dst
      PROVE  \E i \in 1 .. j - 1 : order[i] = e.src
  <2>1. e.src \in Range(sources[order[j]])
    BY <1>2, <1>8
  <2>2. QED
    BY <1>7, <2>1 DEF IsOrderOf
<1>9. QED
  BY <1>1, <1>4, <1>7, <1>8 DEF IsOrderOf, EdgesForward

(* Where the elements of a flattened sequence come from, and what is       *)
(* before them.                                                            *)
ComesAfter(f, s, j, k, l) ==
  /\ f[j] = s[k][l]
  /\ \A a \in 1 .. k - 1 : \A b \in DOMAIN s[a] : \E i \in 1 .. j - 1 : f[i] = s[a][b]
  /\ \A b \in 1 .. l - 1 : \E i \in 1 .. j - 1 : f[i] = s[k][b]

LEMMA FlattenOrder ==
  ASSUME NEW T, NEW s \in Seq(Seq(T))
  PROVE  \A j \in DOMAIN FlattenSeq(s) :
           \E k \in DOMAIN s : \E l \in DOMAIN s[k] : ComesAfter(FlattenSeq(s), s, j, k, l)
<1> DEFINE Good(t) == \A j \in DOMAIN FlattenSeq(t) :
             \E k \in DOMAIN t : \E l \in DOMAIN t[k] : ComesAfter(FlattenSeq(t), t, j, k, l)
           S == {t \in Seq(Seq(T)) : Good(t)}
<1>1. <<>> \in S
  <2>1. DOMAIN FlattenSeq(<<>>) = {}
    BY FlattenEmpty
  <2>2. QED
    BY <2>1
<1>2. ASSUME NEW t \in Seq(Seq(T)), NEW x \in Seq(T), t \in S
      PROVE  Append(t, x) \in S
  <2> DEFINE u == Append(t, x)
             f == FlattenSeq(t)
             g == FlattenSeq(u)
             m == Len(t)
             n == Len(f)
  <2>1. /\ u \in Seq(Seq(T)) /\ m \in Nat /\ DOMAIN t = 1 .. m /\ DOMAIN u = 1 .. m + 1
        /\ u[m + 1] = x /\ \A a \in 1 .. m : u[a] = t[a]
    OBVIOUS
  <2>2. f \in Seq(T) /\ g = f \o x
    BY FlattenType, FlattenAppend
  <2>3. Good(t)
    BY <1>2
  <2> HIDE DEF u, f, g
  <2>4. /\ n \in Nat /\ Len(x) \in Nat /\ DOMAIN f = 1 .. n /\ DOMAIN x = 1 .. Len(x)
        /\ DOMAIN g = 1 .. n + Len(x)
        /\ \A i \in 1 .. n + Len(x) : g[i] = IF i <= n THEN f[i] ELSE x[i - n]
    BY <2>2
  <2>5. \A j \in DOMAIN f : \E k \in DOMAIN t : \E l \in DOMAIN t[k] : ComesAfter(f, t, j, k, l)
    BY <2>3 DEF f
  <2>6. \A y : y \in Range(f) <=> \E i \in DOMAIN t : y \in Range(t[i])
    BY FlattenRange DEF f
  <2> HIDE DEF m, n
  <2>7. ASSUME NEW j \in DOMAIN g
        PROVE  \E k \in DOMAIN u : \E l \in DOMAIN u[k] : ComesAfter(g, u, j, k, l)
    <3>1. CASE j <= n
      <4>1. j \in DOMAIN f /\ g[j] = f[j]
        BY <2>4, <2>7, <3>1
      <4>2. PICK k \in DOMAIN t : \E l \in DOMAIN t[k] : ComesAfter(f, t, j, k, l)
        BY <2>5, <4>1
      <4>3. PICK l \in DOMAIN t[k] : ComesAfter(f, t, j, k, l)
        BY <4>2
      <4>4. k \in 1 .. m /\ k \in DOMAIN u /\ u[k] = t[k] /\ l \in DOMAIN u[k]
        BY <2>1, <4>2, <4>3
      <4>5. \A i \in 1 .. j - 1 : g[i] = f[i]
        BY <2>4, <4>1
      <4>6. \A a \in 1 .. k - 1 : u[a] = t[a]
        BY <2>1, <4>4
      <4>9. /\ f[j] = t[k][l]
            /\ \A a \in 1 .. k - 1 : \A b \in DOMAIN t[a] : \E i \in 1 .. j - 1 : f[i] = t[a][b]
            /\ \A b \in 1 .. l - 1 : \E i \in 1 .. j - 1 : f[i] = t[k][b]
        BY <4>3 DEF ComesAfter
      <4>10. g[j] = u[k][l]
        BY <4>1, <4>4, <4>9
      <4>11. ASSUME NEW a \in 1 .. k - 1, NEW b \in DOMAIN u[a]
             PROVE  \E i \in 1 .. j - 1 : g[i] = u[a][b]
        <5>1. u[a] = t[a]
          BY <4>6
        <5>2. b \in DOMAIN t[a]
          BY <4>11, <5>1
        <5>3. PICK i \in 1 .. j - 1 : f[i] = t[a][b]
          BY <4>9, <5>2
        <5>4. QED
          BY <4>5, <5>1, <5>3
      <4>12. \A b \in 1 .. l - 1 : \E i \in 1 .. j - 1 : g[i] = u[k][b]
        BY <4>4, <4>5, <4>9
      <4>7. ComesAfter(g, u, j, k, l)
        BY <4>10, <4>11, <4>12 DEF ComesAfter
      <4>8. QED
        BY <4>4, <4>7
    <3>2. CASE j > n
      <4> DEFINE l == j - n
      <4>1. l \in 1 .. Len(x) /\ g[j] = x[l] /\ j = n + l
        BY <2>4, <2>7, <3>2
      <4> HIDE DEF l
      <4>2. m + 1 \in DOMAIN u /\ l \in DOMAIN u[m + 1] /\ u[m + 1] = x
        BY <2>1, <2>4, <4>1
      <4>3. ASSUME NEW a \in 1 .. (m + 1) - 1, NEW b \in DOMAIN u[a]
            PROVE  \E i \in 1 .. j - 1 : g[i] = u[a][b]
        <5>1. a \in DOMAIN t /\ u[a] = t[a]
          BY <2>1, <4>3
        <5>2. u[a][b] \in Range(f)
          BY <2>6, <4>3, <5>1 DEF Range
        <5>3. PICK i \in 1 .. n : f[i] = u[a][b]
          BY <2>4, <5>2 DEF Range
        <5>4. i \in 1 .. j - 1 /\ g[i] = f[i]
          BY <2>4, <4>1, <5>3
        <5>5. QED
          BY <5>3, <5>4
      <4>4. ASSUME NEW b \in 1 .. l - 1
            PROVE  \E i \in 1 .. j - 1 : g[i] = u[m + 1][b]
        <5>1. n + b \in 1 .. j - 1 /\ n + b \in 1 .. n + Len(x) /\ ~ (n + b <= n) /\ (n + b) - n = b
          BY <2>4, <4>1, <4>4
        <5>2. g[n + b] = x[b]
          BY <2>4, <5>1
        <5>3. QED
          BY <4>2, <5>1, <5>2
      <4>5. ComesAfter(g, u, j, m + 1, l)
        BY <4>1, <4>2, <4>3, <4>4 DEF ComesAfter
      <4>6. QED
        BY <4>2, <4>5
    <3>3. j \in Int
      BY <2>4, <2>7
    <3>4. QED
      BY <2>4, <3>1, <3>2, <3>3
  <2>8. QED
    BY <2>1, <2>7 DEF u, g
<1>3. Seq(Seq(T)) \subseteq S
  <2>1. \A t \in Seq(Seq(T)) : \A x \in Seq(T) : t \in S => Append(t, x) \in S
    BY <1>2
  <2> HIDE DEF S
  <2>2. QED
    BY <1>1, <2>1, EverySequence
<1>4. QED
  BY <1>3
=============================================================================
