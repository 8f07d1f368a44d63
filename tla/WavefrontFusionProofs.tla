----------------------- MODULE WavefrontFusionProofs -----------------------
(***************************************************************************)
(* Proofs about WavefrontFusion: the groups hold every kernel to fuse once *)
(* and in an order that the graph allows, however they are split and       *)
(* merged; a node reads what it was made to read, whatever is fused; and   *)
(* the program of the fused graph runs each kernel after its operands.     *)
(***************************************************************************)
EXTENDS WavefrontFusion, StructureProofs

GroupType == [merge : BOOLEAN, parts : Seq(Seq(Nodes))]

GroupedOf(gs) == FlattenSeq([k \in DOMAIN gs |-> KernelsOf(gs[k])])

LEMMA MaxNode == Max(Nodes) \in Nodes /\ Max(Nodes) \in Nat /\ \A n \in Nodes : n <= Max(Nodes)
<1>1. Nodes \subseteq Int /\ Nodes \subseteq Nat /\ IsFiniteSet(Nodes) /\ Nodes # {}
  BY FusionAssumption
<1>2. Max(Nodes) \in Nodes /\ \A n \in Nodes : n <= Max(Nodes)
  BY <1>1, MaxIsGreatest
<1>3. QED
  BY <1>1, <1>2

(***************************************************************************)
(* Groups and their kernels.                                               *)
(***************************************************************************)

LEMMA KernelsType ==
  ASSUME NEW g \in GroupType
  PROVE  KernelsOf(g) \in Seq(Nodes)
<1>1. g.parts \in Seq(Seq(Nodes))
  BY DEF GroupType
<1>2. QED
  BY <1>1, FlattenType DEF KernelsOf

LEMMA GroupedType ==
  ASSUME NEW gs \in Seq(GroupType)
  PROVE  /\ [k \in DOMAIN gs |-> KernelsOf(gs[k])] \in Seq(Seq(Nodes))
         /\ GroupedOf(gs) \in Seq(Nodes)
<1>1. DOMAIN gs = 1 .. Len(gs) /\ Len(gs) \in Nat /\ \A k \in 1 .. Len(gs) : gs[k] \in GroupType
  OBVIOUS
<1>2. \A k \in 1 .. Len(gs) : KernelsOf(gs[k]) \in Seq(Nodes)
  BY <1>1, KernelsType
<1>3. [k \in DOMAIN gs |-> KernelsOf(gs[k])] \in Seq(Seq(Nodes))
  BY <1>1, <1>2
<1>4. QED
  BY <1>3, FlattenType DEF GroupedOf

LEMMA GroupedConcat ==
  ASSUME NEW gs \in Seq(GroupType), NEW hs \in Seq(GroupType)
  PROVE  GroupedOf(gs \o hs) = GroupedOf(gs) \o GroupedOf(hs)
<1> DEFINE a == [k \in DOMAIN gs |-> KernelsOf(gs[k])]
           b == [k \in DOMAIN hs |-> KernelsOf(hs[k])]
           c == [k \in DOMAIN (gs \o hs) |-> KernelsOf((gs \o hs)[k])]
<1>1. a \in Seq(Seq(Nodes)) /\ b \in Seq(Seq(Nodes))
  BY GroupedType
<1>2. /\ DOMAIN gs = 1 .. Len(gs) /\ DOMAIN hs = 1 .. Len(hs)
      /\ Len(gs) \in Nat /\ Len(hs) \in Nat
      /\ DOMAIN (gs \o hs) = 1 .. Len(gs) + Len(hs)
      /\ \A k \in 1 .. Len(gs) + Len(hs) :
           (gs \o hs)[k] = IF k <= Len(gs) THEN gs[k] ELSE hs[k - Len(gs)]
  OBVIOUS
<1>3. Len(a) = Len(gs) /\ Len(b) = Len(hs)
  BY <1>2
<1>4. ASSUME NEW k \in 1 .. Len(gs) + Len(hs)
      PROVE  c[k] = IF k <= Len(a) THEN a[k] ELSE b[k - Len(a)]
  <2>1. c[k] = KernelsOf((gs \o hs)[k])
    BY <1>2
  <2>2. CASE k <= Len(gs)
    <3>1. k \in 1 .. Len(gs)
      BY <1>2, <2>2
    <3>2. QED
      BY <1>2, <1>3, <2>1, <2>2, <3>1
  <2>3. CASE ~(k <= Len(gs))
    <3>1. k - Len(gs) \in 1 .. Len(hs)
      BY <1>2, <2>3
    <3>2. QED
      BY <1>2, <1>3, <2>1, <2>3, <3>1
  <2>4. QED
    BY <2>2, <2>3
<1>5. c \in Seq(Seq(Nodes)) /\ Len(c) = Len(gs) + Len(hs)
  <2>1. gs \o hs \in Seq(GroupType)
    OBVIOUS
  <2>2. c \in Seq(Seq(Nodes))
    BY <2>1, GroupedType
  <2>3. DOMAIN c = 1 .. Len(gs) + Len(hs)
    BY <1>2
  <2>4. QED
    BY <1>2, <2>2, <2>3
<1>6. /\ a \o b \in Seq(Seq(Nodes)) /\ Len(a \o b) = Len(a) + Len(b)
      /\ \A k \in 1 .. Len(a) + Len(b) :
           (a \o b)[k] = IF k <= Len(a) THEN a[k] ELSE b[k - Len(a)]
  <2> HIDE DEF a, b
  <2>1. QED
    BY <1>1, ConcatProperties
<1>7. c = a \o b
  <2> HIDE DEF a, b, c
  <2>1. \A k \in 1 .. Len(c) : c[k] = (a \o b)[k]
    BY <1>3, <1>4, <1>5, <1>6
  <2>2. Len(c) = Len(a \o b)
    BY <1>3, <1>5, <1>6
  <2>3. QED
    BY <1>5, <1>6, <2>1, <2>2, SeqEqual
<1>8. GroupedOf(gs) = FlattenSeq(a) /\ GroupedOf(hs) = FlattenSeq(b)
      /\ GroupedOf(gs \o hs) = FlattenSeq(c)
  BY DEF GroupedOf
<1> HIDE DEF a, b, c
<1>9. FlattenSeq(a \o b) = FlattenSeq(a) \o FlattenSeq(b)
  BY <1>1, FlattenConcat
<1>10. QED
  BY <1>7, <1>8, <1>9

LEMMA GroupedOne ==
  ASSUME NEW g \in GroupType
  PROVE  GroupedOf(<<g>>) = KernelsOf(g)
<1>1. [k \in DOMAIN <<g>> |-> KernelsOf(<<g>>[k])] = <<KernelsOf(g)>>
  OBVIOUS
<1>2. KernelsOf(g) \in Seq(Nodes)
  BY KernelsType
<1>3. QED
  BY <1>1, <1>2, FlattenOne DEF GroupedOf

(* What takes the place of some groups, and holds the same kernels in the  *)
(* same order, changes nothing for the groups together.                    *)
LEMMA GroupedReplace ==
  ASSUME NEW a \in Seq(GroupType), NEW b \in Seq(GroupType), NEW c \in Seq(GroupType),
         NEW d \in Seq(GroupType), GroupedOf(b) = GroupedOf(d)
  PROVE  GroupedOf(a \o b \o c) = GroupedOf(a \o d \o c)
<1>1. a \o b \in Seq(GroupType) /\ a \o d \in Seq(GroupType)
  OBVIOUS
<1>2. /\ GroupedOf(a \o b) = GroupedOf(a) \o GroupedOf(b)
      /\ GroupedOf(a \o d) = GroupedOf(a) \o GroupedOf(d)
  BY GroupedConcat
<1>3. GroupedOf((a \o b) \o c) = GroupedOf(a \o b) \o GroupedOf(c)
  BY <1>1, GroupedConcat
<1>4. GroupedOf((a \o d) \o c) = GroupedOf(a \o d) \o GroupedOf(c)
  BY <1>1, GroupedConcat
<1>5. QED
  BY <1>2, <1>3, <1>4

LEMMA VerifiedSome ==
  ASSUME NEW ns \in Seq(Nodes)
  PROVE  /\ VerifiedOf(ns) \in Seq(Nodes)
         /\ \A n : n \in Range(VerifiedOf(ns)) <=> n \in Range(ns) /\ Verified(n)
         /\ IsInjective(ns) => IsInjective(VerifiedOf(ns))
<1> DEFINE places == {i \in DOMAIN ns : Verified(ns[i])}
           q == Picked(ns, places)
<1>1. q = VerifiedOf(ns) /\ places \subseteq DOMAIN ns
  BY DEF VerifiedOf
<1>2. \A i : i \in places <=> i \in DOMAIN ns /\ Verified(ns[i])
  OBVIOUS
<1> HIDE DEF places, q
<1>3. /\ q \in Seq(Nodes)
      /\ \A i \in places : \E j \in DOMAIN q : q[j] = ns[i]
      /\ \A j \in DOMAIN q : \E i \in places : q[j] = ns[i]
      /\ IsInjective(ns) => IsInjective(q)
  BY <1>1, PickedAt, PickedRange DEF q
<1>4. \A n : n \in Range(q) <=> n \in Range(ns) /\ Verified(n)
  <2> TAKE n
  <2>1. ASSUME n \in Range(q) PROVE n \in Range(ns) /\ Verified(n)
    <3>1. PICK j \in DOMAIN q : n = q[j]
      BY <2>1 DEF Range
    <3>2. PICK i \in places : q[j] = ns[i]
      BY <1>3
    <3>3. QED
      BY <1>2, <3>1, <3>2 DEF Range
  <2>2. ASSUME n \in Range(ns), Verified(n) PROVE n \in Range(q)
    <3>1. PICK i \in DOMAIN ns : n = ns[i]
      BY <2>2 DEF Range
    <3>2. i \in places
      BY <1>2, <2>2, <3>1
    <3>3. PICK j \in DOMAIN q : q[j] = ns[i]
      BY <1>3, <3>2
    <3>4. QED
      BY <3>1, <3>3 DEF Range
  <2>3. QED
    BY <2>1, <2>2
<1>5. QED
  BY <1>1, <1>3, <1>4

LEMMA NonEmptyParts ==
  ASSUME NEW s \in Seq(Seq(Nodes))
  PROVE  /\ NonEmpty(s) \in Seq(Seq(Nodes))
         /\ \A n : n \in Range(FlattenSeq(NonEmpty(s))) <=>
                     \E k \in DOMAIN s : n \in Range(s[k])
         /\ IsInjective(FlattenSeq(s)) => IsInjective(FlattenSeq(NonEmpty(s)))
         /\ NonEmpty(s) # <<>> => FlattenSeq(NonEmpty(s)) # <<>>
<1> DEFINE places == {i \in DOMAIN s : s[i] # <<>>}
           q == Picked(s, places)
<1>1. q = NonEmpty(s) /\ places \subseteq DOMAIN s
  BY DEF NonEmpty
<1>2. \A i : i \in places <=> i \in DOMAIN s /\ s[i] # <<>>
  OBVIOUS
<1> HIDE DEF places, q
<1>3. /\ q \in Seq(Seq(Nodes)) /\ FlattenSeq(q) \in Seq(Nodes)
      /\ \A n : n \in Range(FlattenSeq(q)) <=> \E k \in places : n \in Range(s[k])
      /\ IsInjective(FlattenSeq(s)) => IsInjective(FlattenSeq(q))
  BY <1>1, FlattenPicked DEF q
<1>4. \A k \in DOMAIN s : \A n : n \in Range(s[k]) => k \in places
  BY <1>2 DEF Range
<1>5. \A n : n \in Range(FlattenSeq(q)) <=> \E k \in DOMAIN s : n \in Range(s[k])
  BY <1>2, <1>3, <1>4
<1>6. ASSUME q # <<>> PROVE FlattenSeq(q) # <<>>
  <2>1. PICK j \in DOMAIN q : TRUE
    <3>1. Len(q) \in Nat /\ Len(q) # 0 /\ DOMAIN q = 1 .. Len(q)
      BY <1>3, <1>6
    <3>2. 1 \in DOMAIN q
      BY <3>1
    <3>3. QED
      BY <3>2
  <2>2. PICK i \in places : q[j] = s[i]
    BY <1>1, PickedRange DEF q
  <2>3. s[i] \in Seq(Nodes) /\ s[i] # <<>>
    BY <1>2
  <2>4. s[i][1] \in Range(s[i])
    <3>1. 1 \in DOMAIN s[i]
      BY <2>3
    <3>2. QED
      BY <3>1 DEF Range
  <2>5. s[i][1] \in Range(FlattenSeq(q))
    BY <1>3, <2>4
  <2>6. Range(<<>>) = {}
    BY DEF Range
  <2>7. QED
    BY <2>5, <2>6
<1>7. QED
  BY <1>1, <1>3, <1>5, <1>6

(***************************************************************************)
(* SplitGroup.                                                             *)
(***************************************************************************)

CutType == [from : Nat, to : Nat]

CutState == [cuts : Seq(CutType), start : Nat, end : Nat]

(* The kernels between the cuts. *)
TakenBy(ks, cuts) ==
  FlattenSeq([i \in DOMAIN cuts |-> SubSeq(ks, cuts[i].from + 1, cuts[i].to)])

(* Cuts that are good for some kernels. *)
GoodCuts(ks, cuts) ==
  /\ cuts \in Seq(CutType)
  /\ \A i \in DOMAIN cuts : cuts[i].from < cuts[i].to /\ cuts[i].to <= Len(ks)

LEMMA PartOfKernels ==
  ASSUME NEW ks \in Seq(Nodes), NEW from \in Nat, NEW to \in Nat, to <= Len(ks)
  PROVE  /\ SubSeq(ks, from + 1, to) \in Seq(Nodes)
         /\ from <= to => Len(SubSeq(ks, from + 1, to)) = to - from
<1>1. from + 1 \in Int /\ to \in Int /\ Len(ks) \in Nat
  OBVIOUS
<1>2. \A i \in from + 1 .. to : ks[i] \in Nodes
  <2> TAKE i \in from + 1 .. to
  <2>1. i \in 1 .. Len(ks)
    BY <1>1
  <2>2. QED
    BY <2>1
<1>3. /\ SubSeq(ks, from + 1, to) \in Seq(Nodes)
      /\ Len(SubSeq(ks, from + 1, to)) = IF from + 1 <= to THEN to - (from + 1) + 1 ELSE 0
  BY <1>1, <1>2, SubSeqProperties
<1>4. QED
  BY <1>3

LEMMA PartsOfKernels ==
  ASSUME NEW ks \in Seq(Nodes), NEW cuts, GoodCuts(ks, cuts)
  PROVE  /\ [i \in DOMAIN cuts |-> SubSeq(ks, cuts[i].from + 1, cuts[i].to)] \in Seq(Seq(Nodes))
         /\ TakenBy(ks, cuts) \in Seq(Nodes)
<1>1. /\ cuts \in Seq(CutType) /\ DOMAIN cuts = 1 .. Len(cuts) /\ Len(cuts) \in Nat
      /\ \A i \in 1 .. Len(cuts) : cuts[i] \in CutType /\ cuts[i].to <= Len(ks)
  BY DEF GoodCuts
<1>2. \A i \in 1 .. Len(cuts) : SubSeq(ks, cuts[i].from + 1, cuts[i].to) \in Seq(Nodes)
  <2> TAKE i \in 1 .. Len(cuts)
  <2>1. cuts[i].from \in Nat /\ cuts[i].to \in Nat /\ cuts[i].to <= Len(ks)
    BY <1>1 DEF CutType
  <2>2. QED
    BY <2>1, PartOfKernels
<1>3. [i \in DOMAIN cuts |-> SubSeq(ks, cuts[i].from + 1, cuts[i].to)] \in Seq(Seq(Nodes))
  BY <1>1, <1>2
<1>4. QED
  BY <1>3, FlattenType DEF TakenBy

LEMMA CutMore ==
  ASSUME NEW ks \in Seq(Nodes), NEW cuts, GoodCuts(ks, cuts),
         NEW from \in Nat, NEW to \in Nat, from < to, to <= Len(ks)
  PROVE  /\ GoodCuts(ks, Append(cuts, [from |-> from, to |-> to]))
         /\ TakenBy(ks, Append(cuts, [from |-> from, to |-> to])) =
              TakenBy(ks, cuts) \o SubSeq(ks, from + 1, to)
<1> DEFINE c == [from |-> from, to |-> to]
           more == Append(cuts, c)
           a == [i \in DOMAIN cuts |-> SubSeq(ks, cuts[i].from + 1, cuts[i].to)]
           b == [i \in DOMAIN more |-> SubSeq(ks, more[i].from + 1, more[i].to)]
           last == SubSeq(ks, from + 1, to)
           n == Len(cuts)
<1>1. /\ cuts \in Seq(CutType) /\ c \in CutType /\ c.from = from /\ c.to = to
      /\ \A i \in DOMAIN cuts : cuts[i].from < cuts[i].to /\ cuts[i].to <= Len(ks)
  BY DEF GoodCuts, CutType
<1> HIDE DEF c
<1>2. /\ more \in Seq(CutType) /\ DOMAIN more = 1 .. n + 1 /\ DOMAIN cuts = 1 .. n /\ n \in Nat
      /\ more[n + 1] = c /\ \A i \in 1 .. n : more[i] = cuts[i]
  BY <1>1
<1> HIDE DEF n, more
<1>3. \A i \in 1 .. n + 1 : i \in 1 .. n \/ i = n + 1
  BY <1>2
<1>4. GoodCuts(ks, more)
  <2>1. \A i \in DOMAIN more : more[i].from < more[i].to /\ more[i].to <= Len(ks)
    BY <1>1, <1>2, <1>3
  <2>2. QED
    BY <1>2, <2>1 DEF GoodCuts
<1>5. a \in Seq(Seq(Nodes)) /\ b \in Seq(Seq(Nodes)) /\ last \in Seq(Nodes)
  BY <1>4, PartsOfKernels, PartOfKernels
<1>6. Len(a) = n /\ Len(b) = n + 1
  BY <1>2
<1>7. \A i \in 1 .. n : b[i] = a[i]
  <2> TAKE i \in 1 .. n
  <2>1. i \in DOMAIN cuts /\ i \in DOMAIN more /\ more[i] = cuts[i]
    BY <1>2
  <2>2. a[i] = SubSeq(ks, cuts[i].from + 1, cuts[i].to)
    BY <2>1
  <2>3. b[i] = SubSeq(ks, more[i].from + 1, more[i].to)
    BY <2>1
  <2>4. QED
    BY <2>1, <2>2, <2>3
<1>8. b[n + 1] = last
  <2>1. n + 1 \in DOMAIN more
    BY <1>2
  <2>2. QED
    BY <1>1, <1>2, <2>1
<1>9. b = Append(a, last)
  <2> HIDE DEF a, b, last
  <2>1. /\ Append(a, last) \in Seq(Seq(Nodes)) /\ Len(Append(a, last)) = n + 1
        /\ \A i \in 1 .. n : Append(a, last)[i] = a[i]
        /\ Append(a, last)[n + 1] = last
    BY <1>5, <1>6, AppendProperties
  <2>2. \A i \in 1 .. Len(b) : b[i] = Append(a, last)[i]
    BY <1>3, <1>6, <1>7, <1>8, <2>1
  <2>3. QED
    BY <1>5, <1>6, <2>1, <2>2, SeqEqual
<1>10. TakenBy(ks, cuts) = FlattenSeq(a) /\ TakenBy(ks, more) = FlattenSeq(b)
  BY DEF TakenBy
<1> HIDE DEF a, b, last
<1>11. FlattenSeq(Append(a, last)) = FlattenSeq(a) \o last
  BY <1>5, FlattenAppend
<1>12. QED
  BY <1>4, <1>9, <1>10, <1>11 DEF more, c, last

(* How many chunks a part is cut into, and how long they are.              *)
LEMMA ChunkCount ==
  ASSUME NEW d \in Nat, d # 0
  PROVE  LET n == (d + MaxGroup - 1) \div MaxGroup
         IN  /\ n \in Nat /\ n # 0
             /\ d <= n * MaxGroup
             /\ \A k \in 0 .. n - 1 : k * MaxGroup < d
<1> DEFINE n == (d + MaxGroup - 1) \div MaxGroup
<1>1. MaxGroup \in Nat /\ MaxGroup > 0
  BY FusionAssumption
<1>2. n \in Int /\ n * MaxGroup <= d + MaxGroup - 1 /\ d + MaxGroup - 1 < n * MaxGroup + MaxGroup
  BY <1>1
<1> HIDE DEF n
<1>3. d <= n * MaxGroup
  BY <1>1, <1>2
<1>4. n > 0
  <2>1. CASE n <= 0
    <3>1. n * MaxGroup <= 0
      BY <1>1, <1>2, <2>1
    <3>2. n * MaxGroup \in Int
      BY <1>1, <1>2
    <3>3. QED
      BY <1>3, <3>1, <3>2
  <2>2. QED
    BY <1>2, <2>1
<1>5. \A k \in 0 .. n - 1 : k * MaxGroup < d
  <2> TAKE k \in 0 .. n - 1
  <2>1. PICK r \in Nat : k + r + 1 = n
    <3>1. n - 1 - k \in Nat /\ k + (n - 1 - k) + 1 = n
      BY <1>2
    <3>2. QED
      BY <3>1
  <2>2. r * MaxGroup >= 0
    BY <1>1
  <2>3. n * MaxGroup = k * MaxGroup + r * MaxGroup + MaxGroup
    BY <1>1, <1>2, <2>1
  <2>4. k * MaxGroup \in Int /\ r * MaxGroup \in Int /\ n * MaxGroup \in Int
    BY <1>1, <1>2
  <2>5. QED
    BY <1>1, <1>2, <2>2, <2>3, <2>4
<1>6. QED
  BY <1>2, <1>3, <1>4, <1>5 DEF n

(* The chunks of a part, up to the k-th. *)
LEMMA ChunksTaken ==
  ASSUME NEW ks \in Seq(Nodes), NEW from \in Nat, NEW to \in Nat,
         from < to, to <= Len(ks)
  PROVE  /\ GoodCuts(ks, Chunks(from, to))
         /\ TakenBy(ks, Chunks(from, to)) = SubSeq(ks, from + 1, to)
         /\ Chunks(from, to) \in Seq(CutType)
<1> DEFINE d == to - from
           n == (d + MaxGroup - 1) \div MaxGroup
           LastAt(i) == IF from + i * MaxGroup < to THEN from + i * MaxGroup ELSE to
           chunk(i) == [from |-> from + (i - 1) * MaxGroup, to |-> LastAt(i)]
           upTo(k) == [i \in 1 .. k |-> chunk(i)]
<1>1. MaxGroup \in Nat /\ MaxGroup > 0
  BY FusionAssumption
<1>2. d \in Nat /\ d # 0
  OBVIOUS
<1>3. n \in Nat /\ n # 0 /\ d <= n * MaxGroup /\ \A k \in 0 .. n - 1 : k * MaxGroup < d
  BY <1>2, ChunkCount
<1>4. Chunks(from, to) = upTo(n)
  BY DEF Chunks
<1> HIDE DEF n
<1>5. ASSUME NEW k \in 0 .. n - 1
      PROVE  /\ chunk(k + 1).from = LastAt(k) /\ LastAt(k) \in Nat /\ LastAt(k + 1) \in Nat
             /\ LastAt(k) < LastAt(k + 1) /\ LastAt(k + 1) <= Len(ks)
             /\ chunk(k + 1).to = LastAt(k + 1)
  <2>1. k \in Nat /\ k * MaxGroup \in Nat /\ (k + 1) - 1 = k
    BY <1>1, <1>3
  <2>2. (k + 1) * MaxGroup = k * MaxGroup + MaxGroup
    BY <1>1, <2>1
  <2>3. from + k * MaxGroup < to
    BY <1>3, <2>1
  <2>4. LastAt(k) = from + k * MaxGroup
    BY <2>3
  <2>5. chunk(k + 1).from = from + k * MaxGroup /\ chunk(k + 1).to = LastAt(k + 1)
    BY <2>1
  <2>6. LastAt(k + 1) = IF from + k * MaxGroup + MaxGroup < to THEN from + k * MaxGroup + MaxGroup ELSE to
    <3>1. from + (k + 1) * MaxGroup = from + k * MaxGroup + MaxGroup
      BY <1>1, <2>1, <2>2
    <3>2. QED
      BY <3>1
  <2>7. Len(ks) \in Nat
    OBVIOUS
  <2> HIDE DEF chunk, LastAt
  <2>8. QED
    BY <1>1, <2>1, <2>3, <2>4, <2>5, <2>6, <2>7
<1>6. LastAt(0) = from /\ LastAt(n) = to
  <2>1. 0 * MaxGroup = 0
    BY <1>1
  <2>2. n * MaxGroup \in Nat
    BY <1>1, <1>3
  <2>3. QED
    BY <1>3, <2>1, <2>2
<1> HIDE DEF upTo, chunk, LastAt
<1> DEFINE K == {k \in Nat : k <= n => /\ GoodCuts(ks, upTo(k))
                                       /\ TakenBy(ks, upTo(k)) = SubSeq(ks, from + 1, LastAt(k))}
<1>7. 0 \in K
  <2>1. upTo(0) = <<>>
    BY DEF upTo
  <2>2. GoodCuts(ks, <<>>)
    BY DEF GoodCuts
  <2>3. TakenBy(ks, <<>>) = <<>>
    <3>1. [i \in DOMAIN <<>> |-> SubSeq(ks, <<>>[i].from + 1, <<>>[i].to)] = <<>>
      OBVIOUS
    <3>2. QED
      BY <3>1, FlattenEmpty DEF TakenBy
  <2>4. SubSeq(ks, from + 1, LastAt(0)) = <<>>
    BY <1>6, SubSeqEmpty
  <2>5. QED
    BY <2>1, <2>2, <2>3, <2>4
<1>8. ASSUME NEW k \in Nat, k \in K PROVE k + 1 \in K
  <2> SUFFICES ASSUME k + 1 <= n
               PROVE  /\ GoodCuts(ks, upTo(k + 1))
                      /\ TakenBy(ks, upTo(k + 1)) = SubSeq(ks, from + 1, LastAt(k + 1))
    OBVIOUS
  <2>1. k \in 0 .. n - 1 /\ k <= n
    BY <1>3
  <2>2. GoodCuts(ks, upTo(k)) /\ TakenBy(ks, upTo(k)) = SubSeq(ks, from + 1, LastAt(k))
    BY <1>8, <2>1
  <2>3. /\ chunk(k + 1).from = LastAt(k) /\ LastAt(k) \in Nat /\ LastAt(k + 1) \in Nat
        /\ LastAt(k) < LastAt(k + 1) /\ LastAt(k + 1) <= Len(ks)
        /\ chunk(k + 1).to = LastAt(k + 1)
    BY <1>5, <2>1
  <2>4. chunk(k + 1) = [from |-> LastAt(k), to |-> LastAt(k + 1)]
    BY <2>3 DEF chunk
  <2>5. upTo(k + 1) = Append(upTo(k), chunk(k + 1))
    BY DEF upTo
  <2>6. from <= LastAt(k)
    <3>1. k * MaxGroup \in Nat
      BY <1>1
    <3>2. QED
      BY <3>1 DEF LastAt
  <2>7. /\ GoodCuts(ks, Append(upTo(k), [from |-> LastAt(k), to |-> LastAt(k + 1)]))
        /\ TakenBy(ks, Append(upTo(k), [from |-> LastAt(k), to |-> LastAt(k + 1)])) =
             TakenBy(ks, upTo(k)) \o SubSeq(ks, LastAt(k) + 1, LastAt(k + 1))
    BY <2>2, <2>3, CutMore, ZenonT(60)
  <2>8. SubSeq(ks, from + 1, LastAt(k)) \o SubSeq(ks, LastAt(k) + 1, LastAt(k + 1)) =
          SubSeq(ks, from + 1, LastAt(k + 1))
    <3>1. /\ Len(ks) \in Nat /\ from + 1 \in 1 .. Len(ks) + 1
          /\ LastAt(k) \in (from + 1) - 1 .. Len(ks) /\ LastAt(k + 1) \in LastAt(k) .. Len(ks)
      BY <2>3, <2>6
    <3>2. QED
      BY <3>1, ConcatAdjacentSubSeq
  <2>9. QED
    BY <2>2, <2>4, <2>5, <2>7, <2>8
<1>9. Nat \subseteq K
  <2> HIDE DEF K
  <2>1. QED
    BY <1>7, <1>8, EveryNumber
<1>10. GoodCuts(ks, upTo(n)) /\ TakenBy(ks, upTo(n)) = SubSeq(ks, from + 1, LastAt(n))
  <2>1. n \in Nat /\ n <= n
    BY <1>3
  <2>2. QED
    BY <1>9, <2>1
<1>11. upTo(n) \in Seq(CutType)
  BY <1>10 DEF GoodCuts
<1>12. QED
  BY <1>4, <1>6, <1>10, <1>11

LEMMA CutsConcat ==
  ASSUME NEW ks \in Seq(Nodes), NEW a, NEW b, GoodCuts(ks, a), GoodCuts(ks, b)
  PROVE  GoodCuts(ks, a \o b) /\ TakenBy(ks, a \o b) = TakenBy(ks, a) \o TakenBy(ks, b)
<1> DEFINE part(c) == SubSeq(ks, c.from + 1, c.to)
           pa == [i \in DOMAIN a |-> part(a[i])]
           pb == [i \in DOMAIN b |-> part(b[i])]
           pc == [i \in DOMAIN (a \o b) |-> part((a \o b)[i])]
<1>1. /\ a \in Seq(CutType) /\ b \in Seq(CutType) /\ a \o b \in Seq(CutType)
      /\ DOMAIN a = 1 .. Len(a) /\ DOMAIN b = 1 .. Len(b) /\ Len(a) \in Nat /\ Len(b) \in Nat
      /\ DOMAIN (a \o b) = 1 .. Len(a) + Len(b) /\ Len(a \o b) = Len(a) + Len(b)
      /\ \A i \in 1 .. Len(a) + Len(b) :
           (a \o b)[i] = IF i <= Len(a) THEN a[i] ELSE b[i - Len(a)]
  BY DEF GoodCuts
<1>2. \A i \in 1 .. Len(a) + Len(b) :
        \/ i \in 1 .. Len(a) /\ i <= Len(a)
        \/ i - Len(a) \in 1 .. Len(b) /\ ~(i <= Len(a))
  BY <1>1
<1>3. GoodCuts(ks, a \o b)
  <2>1. \A i \in DOMAIN (a \o b) : (a \o b)[i].from < (a \o b)[i].to /\ (a \o b)[i].to <= Len(ks)
    BY <1>1, <1>2 DEF GoodCuts
  <2>2. QED
    BY <1>1, <2>1 DEF GoodCuts
<1>4. /\ TakenBy(ks, a) = FlattenSeq(pa) /\ TakenBy(ks, b) = FlattenSeq(pb)
      /\ TakenBy(ks, a \o b) = FlattenSeq(pc)
  BY DEF TakenBy
<1>5. pa \in Seq(Seq(Nodes)) /\ pb \in Seq(Seq(Nodes)) /\ pc \in Seq(Seq(Nodes))
  BY <1>3, PartsOfKernels
<1>6. /\ Len(pa) = Len(a) /\ Len(pb) = Len(b) /\ Len(pc) = Len(a) + Len(b)
      /\ \A i \in 1 .. Len(a) : pa[i] = part(a[i])
      /\ \A i \in 1 .. Len(b) : pb[i] = part(b[i])
      /\ \A i \in 1 .. Len(a) + Len(b) : pc[i] = part((a \o b)[i])
  <2> HIDE DEF part
  <2>1. QED
    BY <1>1
<1> HIDE DEF part, pa, pb, pc
<1>7. pa \o pb \in Seq(Seq(Nodes)) /\ Len(pa \o pb) = Len(a) + Len(b)
  BY <1>5, <1>6, ConcatProperties, SMTT(40)
<1>8. \A i \in 1 .. Len(pc) : pc[i] = (pa \o pb)[i]
  <2> TAKE i \in 1 .. Len(pc)
  <2>1. i \in 1 .. Len(a) + Len(b)
    BY <1>6
  <2>2. (pa \o pb)[i] = IF i <= Len(a) THEN pa[i] ELSE pb[i - Len(a)]
    BY <1>5, <1>6, <2>1, ConcatProperties, SMTT(40)
  <2>3. QED
    BY <1>1, <1>2, <1>6, <2>1, <2>2
<1>9. pc = pa \o pb
  BY <1>5, <1>6, <1>7, <1>8, SeqEqual
<1>10. FlattenSeq(pa \o pb) = FlattenSeq(pa) \o FlattenSeq(pb)
  BY <1>5, FlattenConcat
<1>11. QED
  BY <1>3, <1>4, <1>9, <1>10

(* The ends of the parts of a group go up to the number of its kernels.    *)
LEMMA EndsOfParts ==
  ASSUME NEW g \in GroupType
  PROVE  /\ Ends(g) \in Seq(Nat) /\ Len(Ends(g)) = Len(g.parts) + 1
         /\ Ends(g)[Len(g.parts) + 1] = Len(KernelsOf(g))
         /\ \A i \in DOMAIN Ends(g) : Ends(g)[i] <= Len(KernelsOf(g))
         /\ \A i \in 1 .. Len(g.parts) : Ends(g)[i] <= Ends(g)[i + 1]
<1> DEFINE p == g.parts
           n == Len(p)
           upTo(i) == SubSeq(p, 1, i)
           len(i) == Len(FlattenSeq(upTo(i)))
<1>1. p \in Seq(Seq(Nodes)) /\ n \in Nat
  BY DEF GroupType
<1>2. Ends(g) = [i \in 1 .. n + 1 |-> len(i - 1)] /\ KernelsOf(g) = FlattenSeq(p)
  BY DEF Ends, KernelsOf
<1> HIDE DEF p
<1>3. \A i \in 0 .. n : upTo(i) \in Seq(Seq(Nodes))
  <2> TAKE i \in 0 .. n
  <2>1. \A j \in 1 .. i : p[j] \in Seq(Nodes)
    BY <1>1
  <2>2. i \in Int
    BY <1>1
  <2>3. QED
    BY <2>1, <2>2, SubSeqProperties
<1>4. \A i \in 0 .. n : FlattenSeq(upTo(i)) \in Seq(Nodes) /\ len(i) \in Nat
  <2> TAKE i \in 0 .. n
  <2> DEFINE f == FlattenSeq(upTo(i))
  <2>1. f \in Seq(Nodes)
    BY <1>3, FlattenType
  <2> HIDE DEF f
  <2>2. Len(f) \in Nat
    BY <2>1
  <2>3. QED
    BY <2>1, <2>2 DEF f
<1>5. upTo(n) = p
  BY <1>1, SubSeqFull
<1>6. \A i \in 1 .. n : len(i - 1) <= len(i)
  <2> TAKE i \in 1 .. n
  <2>1. i - 1 \in 0 .. n /\ i \in 0 .. n /\ 1 \in 1 .. n /\ i \in 1 .. n /\ p[i] \in Seq(Nodes)
    BY <1>1
  <2>2. upTo(i) = upTo(i - 1) \o <<p[i]>>
    BY <1>1, <2>1, SubSeqRecursiveSecond
  <2>3. upTo(i) = Append(upTo(i - 1), p[i])
    BY <1>3, <2>1, <2>2, AppendIsConcat
  <2>4. FlattenSeq(upTo(i)) = FlattenSeq(upTo(i - 1)) \o p[i]
    BY <1>3, <2>1, <2>3, FlattenAppend
  <2>5. len(i) = len(i - 1) + Len(p[i])
    BY <1>4, <2>1, <2>4, ConcatProperties
  <2>6. Len(p[i]) \in Nat /\ len(i - 1) \in Nat
    BY <1>4, <2>1
  <2> HIDE DEF len
  <2>7. QED
    BY <2>5, <2>6
<1>7. \A i \in 0 .. n : len(i) <= len(n)
  <2> DEFINE S == {k \in Nat : k <= n => len(n - k) <= len(n)}
  <2> HIDE DEF len
  <2>1. 0 \in S
    <3>1. n - 0 = n /\ n \in 0 .. n
      BY <1>1
    <3>2. len(n) \in Nat
      BY <1>4, <3>1
    <3>3. QED
      BY <3>1, <3>2
  <2>2. ASSUME NEW k \in Nat, k \in S PROVE k + 1 \in S
    <3> SUFFICES ASSUME k + 1 <= n PROVE len(n - (k + 1)) <= len(n)
      OBVIOUS
    <3>1. n - k \in 1 .. n /\ (n - k) - 1 = n - (k + 1) /\ k <= n
      BY <1>1
    <3>2. len(n - (k + 1)) <= len(n - k) /\ len(n - k) <= len(n)
      BY <1>6, <2>2, <3>1
    <3>3. n - k \in 0 .. n /\ n - (k + 1) \in 0 .. n /\ n \in 0 .. n
      BY <1>1, <3>1
    <3>4. len(n - k) \in Nat /\ len(n - (k + 1)) \in Nat /\ len(n) \in Nat
      BY <1>4, <3>3
    <3>5. QED
      BY <3>2, <3>4
  <2>3. Nat \subseteq S
    <3> HIDE DEF S
    <3>1. QED
      BY <2>1, <2>2, EveryNumber
  <2>4. TAKE i \in 0 .. n
  <2>5. n - i \in Nat /\ n - i <= n /\ n - (n - i) = i
    BY <1>1
  <2>6. n - i \in S
    BY <2>3, <2>5
  <2>7. QED
    BY <2>5, <2>6
<1>8. len(n) = Len(KernelsOf(g))
  BY <1>2, <1>5
<1> HIDE DEF len, n
<1>9. \A i \in 1 .. n + 1 : Ends(g)[i] = len(i - 1) /\ i - 1 \in 0 .. n
  BY <1>1, <1>2
<1>10. Ends(g) \in Seq(Nat) /\ Len(Ends(g)) = n + 1 /\ DOMAIN Ends(g) = 1 .. n + 1
  <2>1. \A i \in 1 .. n + 1 : len(i - 1) \in Nat
    BY <1>4, <1>9
  <2>2. n + 1 \in Nat
    BY <1>1
  <2>3. QED
    BY <1>2, <2>1, <2>2
<1>11. Ends(g)[n + 1] = Len(KernelsOf(g))
  <2>1. n + 1 \in 1 .. n + 1 /\ (n + 1) - 1 = n
    BY <1>1
  <2>2. QED
    BY <1>8, <1>9, <2>1
<1>12. \A i \in DOMAIN Ends(g) : Ends(g)[i] <= Len(KernelsOf(g))
  BY <1>7, <1>8, <1>9, <1>10
<1>13. \A i \in 1 .. n : Ends(g)[i] <= Ends(g)[i + 1]
  <2> TAKE i \in 1 .. n
  <2>1. i \in 1 .. n + 1 /\ i + 1 \in 1 .. n + 1 /\ (i + 1) - 1 = i
    BY <1>1
  <2>2. Ends(g)[i] = len(i - 1) /\ Ends(g)[i + 1] = len(i)
    BY <1>9, <2>1
  <2>3. QED
    BY <1>6, <2>2
<1>14. QED
  BY <1>10, <1>11, <1>12, <1>13 DEF n, p

(* Where the cutting is when the parts that end by e have been looked at.  *)
CutUpTo(ks, s, e) ==
  /\ s \in CutState /\ GoodCuts(ks, s.cuts)
  /\ s.start <= s.end /\ s.end = e /\ e <= Len(ks)
  /\ TakenBy(ks, s.cuts) = SubSeq(ks, 1, s.start)

LEMMA CutAtType ==
  ASSUME NEW s \in CutState, NEW e \in Nat
  PROVE  CutAt(s, e) \in CutState
<1>1. /\ s.cuts \in Seq(CutType) /\ s.start \in Nat /\ s.end \in Nat
      /\ MaxGroup \in Nat /\ MaxGroup > 0
  BY FusionAssumption DEF CutState
<1>2. CASE e <= MaxGroup + s.start
  BY <1>1, <1>2 DEF CutAt, CutState
<1>3. CASE ~(e <= MaxGroup + s.start) /\ s.start = s.end
  <2>1. s.start < e
    BY <1>1, <1>3
  <2>2. Chunks(s.start, e) \in Seq(CutType)
    <3> DEFINE ks == [i \in 1 .. e |-> Max(Nodes)]
    <3>1. Max(Nodes) \in Nodes
      BY MaxNode
    <3>2. ks \in Seq(Nodes) /\ Len(ks) = e
      BY <3>1
    <3> HIDE DEF ks
    <3>3. e <= Len(ks)
      BY <3>2
    <3>4. QED
      BY <1>1, <2>1, <3>2, <3>3, ChunksTaken
  <2>3. s.cuts \o Chunks(s.start, e) \in Seq(CutType)
    BY <1>1, <2>2
  <2>4. CutAt(s, e) = [cuts |-> s.cuts \o Chunks(s.start, e), start |-> e, end |-> e]
    BY <1>3 DEF CutAt
  <2>5. QED
    BY <2>3, <2>4 DEF CutState
<1>4. CASE ~(e <= MaxGroup + s.start) /\ s.start # s.end
  <2>1. [from |-> s.start, to |-> s.end] \in CutType
    BY <1>1 DEF CutType
  <2>2. Append(s.cuts, [from |-> s.start, to |-> s.end]) \in Seq(CutType)
    BY <1>1, <2>1
  <2>3. CutAt(s, e) = [cuts  |-> Append(s.cuts, [from |-> s.start, to |-> s.end]),
                       start |-> s.end, end |-> e]
    BY <1>4 DEF CutAt
  <2>4. QED
    BY <1>1, <2>2, <2>3 DEF CutState
<1>5. QED
  BY <1>2, <1>3, <1>4

LEMMA CutAtKeeps ==
  ASSUME NEW ks \in Seq(Nodes), NEW s, NEW d \in Nat, CutUpTo(ks, s, d),
         NEW e \in Nat, d <= e, e <= Len(ks)
  PROVE  CutUpTo(ks, CutAt(s, e), e)
<1>1. /\ s \in CutState /\ GoodCuts(ks, s.cuts)
      /\ s.start <= s.end /\ s.end = d
      /\ TakenBy(ks, s.cuts) = SubSeq(ks, 1, s.start)
  BY DEF CutUpTo
<1>2. /\ s.cuts \in Seq(CutType) /\ s.start \in Nat /\ s.end \in Nat
      /\ MaxGroup \in Nat /\ MaxGroup > 0 /\ Len(ks) \in Nat
  BY <1>1, FusionAssumption DEF CutState
<1>3. CutAt(s, e) \in CutState
  BY <1>1, CutAtType
<1>4. ASSUME NEW m \in Nat, s.start <= m, m <= Len(ks)
      PROVE  SubSeq(ks, 1, s.start) \o SubSeq(ks, s.start + 1, m) = SubSeq(ks, 1, m)
  <2>1. 1 \in 1 .. Len(ks) + 1 /\ s.start \in 1 - 1 .. Len(ks) /\ m \in s.start .. Len(ks)
    BY <1>2, <1>4
  <2>2. QED
    BY <2>1, ConcatAdjacentSubSeq
<1>5. CASE e <= MaxGroup + s.start
  <2>1. CutAt(s, e) = [s EXCEPT !.end = e]
    BY <1>5 DEF CutAt
  <2>2. /\ CutAt(s, e).cuts = s.cuts /\ CutAt(s, e).start = s.start /\ CutAt(s, e).end = e
    BY <1>1, <2>1 DEF CutState
  <2>3. s.start <= e
    BY <1>1, <1>2
  <2>4. QED
    BY <1>1, <1>3, <2>2, <2>3 DEF CutUpTo
<1>6. CASE ~(e <= MaxGroup + s.start) /\ s.start = s.end
  <2>1. CutAt(s, e) = [cuts |-> s.cuts \o Chunks(s.start, e), start |-> e, end |-> e]
    BY <1>6 DEF CutAt
  <2>2. s.start < e /\ s.start <= e
    BY <1>2, <1>6
  <2>3. /\ GoodCuts(ks, Chunks(s.start, e))
        /\ TakenBy(ks, Chunks(s.start, e)) = SubSeq(ks, s.start + 1, e)
    BY <1>2, <2>2, ChunksTaken
  <2>4. /\ GoodCuts(ks, s.cuts \o Chunks(s.start, e))
        /\ TakenBy(ks, s.cuts \o Chunks(s.start, e)) =
             TakenBy(ks, s.cuts) \o TakenBy(ks, Chunks(s.start, e))
    BY <1>1, <2>3, CutsConcat
  <2>5. TakenBy(ks, s.cuts \o Chunks(s.start, e)) = SubSeq(ks, 1, e)
    BY <1>1, <1>4, <2>2, <2>3, <2>4
  <2>6. e <= e
    OBVIOUS
  <2>7. QED
    BY <1>3, <2>1, <2>4, <2>5, <2>6 DEF CutUpTo
<1>7. CASE ~(e <= MaxGroup + s.start) /\ s.start # s.end
  <2> DEFINE c == [from |-> s.start, to |-> s.end]
  <2>1. CutAt(s, e) = [cuts |-> Append(s.cuts, c), start |-> s.end, end |-> e]
    BY <1>7 DEF CutAt
  <2>2. s.start < s.end /\ s.start <= s.end /\ s.end <= Len(ks) /\ s.end <= e
    BY <1>1, <1>2, <1>7
  <2>3. /\ GoodCuts(ks, Append(s.cuts, c))
        /\ TakenBy(ks, Append(s.cuts, c)) = TakenBy(ks, s.cuts) \o SubSeq(ks, s.start + 1, s.end)
    <3>1. PICK a \in Nat : a = s.start
      BY <1>2
    <3>2. PICK b \in Nat : b = s.end
      BY <1>2
    <3>3. a < b /\ b <= Len(ks)
      BY <2>2, <3>1, <3>2
    <3>4. PICK cuts : cuts = s.cuts
      OBVIOUS
    <3>5. GoodCuts(ks, cuts)
      BY <1>1, <3>4
    <3>6. /\ GoodCuts(ks, Append(cuts, [from |-> a, to |-> b]))
          /\ TakenBy(ks, Append(cuts, [from |-> a, to |-> b])) =
               TakenBy(ks, cuts) \o SubSeq(ks, a + 1, b)
      BY <3>3, <3>5, CutMore
    <3>7. QED
      BY <3>1, <3>2, <3>4, <3>6
  <2>4. TakenBy(ks, Append(s.cuts, c)) = SubSeq(ks, 1, s.end)
    BY <1>1, <1>2, <1>4, <2>2, <2>3
  <2>5. QED
    BY <1>3, <2>1, <2>2, <2>3, <2>4, SMTT(40) DEF CutUpTo
<1>8. QED
  BY <1>5, <1>6, <1>7

LEMMA CutsOfParts ==
  ASSUME NEW g \in GroupType
  PROVE  CutUpTo(KernelsOf(g), CutsBefore(Ends(g)), Len(KernelsOf(g)))
<1> DEFINE ks == KernelsOf(g)
           ends == Ends(g)
           n == Len(ends)
           first == [cuts |-> <<>>, start |-> 0, end |-> 0]
           step == [i \in Nat |-> [s \in CutState |->
                                     IF i \in 1 .. n THEN CutAt(s, ends[i]) ELSE s]]
           cut == CHOOSE f : f = [i \in 0 .. n |-> IF i = 0 THEN first ELSE CutAt(f[i - 1], ends[i])]
<1>1. ks \in Seq(Nodes) /\ Len(ks) \in Nat
  <2>1. ks \in Seq(Nodes)
    BY KernelsType
  <2> HIDE DEF ks
  <2>2. QED
    BY <2>1
<1>2. /\ ends \in Seq(Nat) /\ n = Len(g.parts) + 1 /\ Len(g.parts) \in Nat
      /\ ends[n] = Len(ks) /\ DOMAIN ends = 1 .. n
      /\ \A i \in 1 .. n : ends[i] <= Len(ks) /\ ends[i] \in Nat
      /\ \A i \in 1 .. Len(g.parts) : ends[i] <= ends[i + 1]
  <2>1. g.parts \in Seq(Seq(Nodes))
    BY DEF GroupType
  <2>2. Len(g.parts) \in Nat
    BY <2>1
  <2>3. /\ ends \in Seq(Nat) /\ n = Len(g.parts) + 1
        /\ ends[Len(g.parts) + 1] = Len(ks)
        /\ \A i \in DOMAIN ends : ends[i] <= Len(ks)
        /\ \A i \in 1 .. Len(g.parts) : ends[i] <= ends[i + 1]
    BY EndsOfParts
  <2> HIDE DEF ends, ks
  <2>4. DOMAIN ends = 1 .. n /\ \A i \in 1 .. n : ends[i] \in Nat
    BY <2>3
  <2>5. QED
    BY <2>2, <2>3, <2>4
<1>3. CutsBefore(ends) = cut[n]
  BY DEF CutsBefore
<1> HIDE DEF ends, n, ks
<1>4. n \in Nat /\ n \in 1 .. n
  BY <1>2
<1>5. first \in CutState
  BY DEF CutState
<1>6. step \in [Nat -> [CutState -> CutState]]
  BY <1>2, CutAtType
<1>7. \A i \in 1 .. n : \A s \in CutState : step[i][s] = CutAt(s, ends[i])
  OBVIOUS
<1> HIDE DEF first, step
<1>8. PICK f \in [0 .. n -> CutState] : StepsOn(f, first, step, n)
  BY <1>4, <1>5, <1>6, StepsExist
<1>9. f = [i \in 0 .. n |-> IF i = 0 THEN first ELSE CutAt(f[i - 1], ends[i])]
  <2>1. f = [i \in 0 .. n |-> IF i = 0 THEN first ELSE step[i][f[i - 1]]]
    BY <1>8 DEF StepsOn
  <2>2. ASSUME NEW i \in 0 .. n, i # 0 PROVE step[i][f[i - 1]] = CutAt(f[i - 1], ends[i])
    <3>1. i \in 1 .. n /\ i - 1 \in 0 .. n
      BY <1>4, <2>2
    <3>2. f[i - 1] \in CutState
      BY <1>8, <3>1
    <3>3. QED
      BY <1>7, <3>1, <3>2
  <2>3. QED
    BY <2>1, <2>2
<1>10. cut = [i \in 0 .. n |-> IF i = 0 THEN first ELSE CutAt(cut[i - 1], ends[i])]
  BY <1>9
<1> HIDE DEF cut
<1> DEFINE at(i) == IF i = 0 THEN 0 ELSE ends[i]
           K == {i \in Nat : i <= n => CutUpTo(ks, cut[i], at(i))}
<1>11. 0 \in K
  <2>1. 0 \in 0 .. n
    BY <1>4
  <2>2. cut[0] = first
    BY <1>10, <2>1
  <2>3. GoodCuts(ks, <<>>)
    BY DEF GoodCuts
  <2>4. TakenBy(ks, <<>>) = <<>>
    <3>1. [i \in DOMAIN <<>> |-> SubSeq(ks, <<>>[i].from + 1, <<>>[i].to)] = <<>>
      OBVIOUS
    <3>2. QED
      BY <3>1, FlattenEmpty DEF TakenBy
  <2>5. SubSeq(ks, 1, 0) = <<>>
    BY SubSeqEmpty
  <2>6. CutUpTo(ks, first, 0)
    <3>1. first.cuts = <<>> /\ first.start = 0 /\ first.end = 0
      BY DEF first
    <3>2. 0 <= Len(ks) /\ 0 <= 0
      BY <1>1
    <3>3. QED
      BY <1>5, <2>3, <2>4, <2>5, <3>1, <3>2 DEF CutUpTo
  <2>7. QED
    BY <2>2, <2>6
<1>12. ASSUME NEW i \in Nat, i \in K PROVE i + 1 \in K
  <2>1. SUFFICES ASSUME i + 1 <= n PROVE CutUpTo(ks, cut[i + 1], at(i + 1))
    <3> HIDE DEF at
    <3>1. QED
      OBVIOUS
  <2>2. i + 1 \in 0 .. n /\ i + 1 \in 1 .. n /\ i + 1 # 0 /\ (i + 1) - 1 = i /\ i <= n
    BY <1>4, <2>1
  <2>3. cut[i + 1] = CutAt(cut[i], ends[i + 1])
    BY <1>10, <2>2
  <2>4. CutUpTo(ks, cut[i], at(i))
    BY <1>12, <2>2
  <2>5. at(i + 1) = ends[i + 1] /\ ends[i + 1] \in Nat /\ ends[i + 1] <= Len(ks)
    BY <1>2, <2>2
  <2>6. at(i) \in Nat /\ at(i) <= ends[i + 1]
    <3>1. i # 0 => i \in 1 .. Len(g.parts) /\ i \in 1 .. n
      BY <1>2, <2>1
    <3>2. QED
      BY <1>2, <2>5, <3>1
  <2> HIDE DEF at
  <2>7. QED
    BY <1>1, <2>3, <2>4, <2>5, <2>6, CutAtKeeps
<1>13. Nat \subseteq K
  <2> HIDE DEF K
  <2>1. QED
    BY <1>11, <1>12, EveryNumber
<1>14. CutUpTo(ks, cut[n], at(n))
  <2>1. n <= n
    BY <1>4
  <2> HIDE DEF at
  <2>2. QED
    BY <1>4, <1>13, <2>1
<1>15. at(n) = Len(ks)
  BY <1>2, <1>4
<1>16. QED
  BY <1>3, <1>14, <1>15 DEF ks, ends

(* A group is split into groups that have its kernels, and each has some.  *)
LEMMA PiecesKeepKernels ==
  ASSUME NEW g \in GroupType, KernelsOf(g) # <<>>
  PROVE  /\ Pieces(g) \in Seq(GroupType)
         /\ GroupedOf(Pieces(g)) = KernelsOf(g)
         /\ \A k \in DOMAIN Pieces(g) : KernelsOf(Pieces(g)[k]) # <<>>
<1> DEFINE ks == KernelsOf(g)
           s == CutsBefore(Ends(g))
           cuts == Cuts(g)
<1>1. ks \in Seq(Nodes) /\ Len(ks) \in Nat
  <2>1. ks \in Seq(Nodes)
    BY KernelsType
  <2> HIDE DEF ks
  <2>2. QED
    BY <2>1
<1>2. CutUpTo(ks, s, Len(ks))
  BY CutsOfParts
<1>3. cuts = IF s.start = Len(ks) THEN s.cuts
             ELSE Append(s.cuts, [from |-> s.start, to |-> s.end])
  BY DEF Cuts
<1>4. Pieces(g) = IF Len(ks) <= MaxGroup THEN <<g>>
                  ELSE [i \in DOMAIN cuts |->
                          [merge |-> FALSE,
                           parts |-> <<SubSeq(ks, cuts[i].from + 1, cuts[i].to)>>]]
  BY DEF Pieces
<1>5. ks # <<>> /\ ks = KernelsOf(g)
  OBVIOUS
<1> HIDE DEF s, cuts, ks
<1>6. /\ GoodCuts(ks, s.cuts) /\ s.start \in Nat /\ s.end \in Nat
      /\ s.start <= s.end /\ s.end = Len(ks)
      /\ TakenBy(ks, s.cuts) = SubSeq(ks, 1, s.start)
  BY <1>2 DEF CutUpTo, CutState
<1>7. GoodCuts(ks, cuts) /\ TakenBy(ks, cuts) = ks
  <2>1. SubSeq(ks, 1, Len(ks)) = ks
    BY <1>1, SubSeqFull
  <2>2. CASE s.start = Len(ks)
    BY <1>3, <1>6, <2>1, <2>2
  <2>3. CASE s.start # Len(ks)
    <3>1. s.start < s.end /\ s.end <= Len(ks)
      BY <1>6, <2>3
    <3>2. /\ GoodCuts(ks, Append(s.cuts, [from |-> s.start, to |-> s.end]))
          /\ TakenBy(ks, Append(s.cuts, [from |-> s.start, to |-> s.end])) =
               TakenBy(ks, s.cuts) \o SubSeq(ks, s.start + 1, s.end)
      BY <1>1, <1>6, <3>1, CutMore
    <3>3. 1 \in 1 .. Len(ks) + 1 /\ s.start \in 1 - 1 .. Len(ks) /\ s.end \in s.start .. Len(ks)
      BY <1>1, <1>6
    <3>4. SubSeq(ks, 1, s.start) \o SubSeq(ks, s.start + 1, s.end) = SubSeq(ks, 1, s.end)
      BY <1>1, <3>3, ConcatAdjacentSubSeq
    <3>5. QED
      BY <1>3, <1>6, <2>1, <2>3, <3>2, <3>4
  <2>4. QED
    BY <2>2, <2>3
<1>8. CASE Len(ks) <= MaxGroup
  <2>1. Pieces(g) = <<g>>
    BY <1>4, <1>8
  <2>2. <<g>> \in Seq(GroupType) /\ \A k \in DOMAIN <<g>> : <<g>>[k] = g
    OBVIOUS
  <2>3. QED
    BY <1>5, <2>1, <2>2, GroupedOne
<1>9. CASE ~(Len(ks) <= MaxGroup)
  <2> DEFINE part(i) == SubSeq(ks, cuts[i].from + 1, cuts[i].to)
             piece(i) == [merge |-> FALSE, parts |-> <<part(i)>>]
  <2>1. Pieces(g) = [i \in DOMAIN cuts |-> piece(i)]
    BY <1>4, <1>9
  <2>2. /\ cuts \in Seq(CutType) /\ DOMAIN cuts = 1 .. Len(cuts) /\ Len(cuts) \in Nat
        /\ \A i \in DOMAIN cuts : cuts[i].from < cuts[i].to /\ cuts[i].to <= Len(ks)
    BY <1>7 DEF GoodCuts
  <2>3. \A i \in DOMAIN cuts : part(i) \in Seq(Nodes) /\ part(i) # <<>>
    <3> TAKE i \in DOMAIN cuts
    <3>1. cuts[i] \in CutType
      BY <2>2
    <3>2. cuts[i].from \in Nat /\ cuts[i].to \in Nat /\ cuts[i].from < cuts[i].to
          /\ cuts[i].to <= Len(ks) /\ cuts[i].from <= cuts[i].to
      BY <2>2, <3>1 DEF CutType
    <3>3. part(i) \in Seq(Nodes) /\ Len(part(i)) = cuts[i].to - cuts[i].from
      BY <1>1, <3>2, PartOfKernels
    <3>4. Len(part(i)) # 0
      BY <3>2, <3>3
    <3>5. Len(<<>>) = 0
      OBVIOUS
    <3>6. QED
      BY <3>3, <3>4, <3>5
  <2> HIDE DEF part
  <2>4. \A i \in DOMAIN cuts : piece(i) \in GroupType /\ KernelsOf(piece(i)) = part(i)
    <3> TAKE i \in DOMAIN cuts
    <3>1. part(i) \in Seq(Nodes)
      BY <2>3
    <3>2. <<part(i)>> \in Seq(Seq(Nodes))
      BY <3>1
    <3>3. piece(i) \in GroupType
      BY <3>2 DEF GroupType
    <3>4. KernelsOf(piece(i)) = FlattenSeq(<<part(i)>>)
      BY DEF KernelsOf
    <3>5. QED
      BY <3>1, <3>3, <3>4, FlattenOne
  <2> HIDE DEF piece
  <2>5. Pieces(g) \in Seq(GroupType) /\ DOMAIN Pieces(g) = DOMAIN cuts
    BY <2>1, <2>2, <2>4
  <2>6. \A k \in DOMAIN cuts : KernelsOf(Pieces(g)[k]) = part(k)
    BY <2>1, <2>4
  <2>7. [k \in DOMAIN Pieces(g) |-> KernelsOf(Pieces(g)[k])] = [i \in DOMAIN cuts |-> part(i)]
    BY <2>5, <2>6
  <2>8. GroupedOf(Pieces(g)) = TakenBy(ks, cuts)
    BY <2>7 DEF GroupedOf, TakenBy, part
  <2>9. QED
    BY <1>5, <1>7, <2>3, <2>5, <2>6, <2>8
<1>10. QED
  BY <1>8, <1>9

(***************************************************************************)
(* What is true between any two steps.                                     *)
(***************************************************************************)

LEMMA GroupedIs == Grouped = GroupedOf(groups)
BY DEF Grouped, GroupedOf

LEMMA EdgesOfNode ==
  ASSUME TypeOK, Shapes, OperandsKept, NEW n
  PROVE  /\ EdgesInto(n) \in Seq(edges) /\ IsInjective(EdgesInto(n))
         /\ Range(EdgesInto(n)) = {e \in edges : e.dst = n}
         /\ EdgesFrom(n) \in Seq(edges) /\ IsInjective(EdgesFrom(n))
         /\ Range(EdgesFrom(n)) = {e \in edges : e.src = n}
<1>1. /\ IsFiniteSet(edges) /\ nodes \subseteq Nat
      /\ \A e \in edges : /\ e \in [src : nodes, out : Nat, dst : nodes, in : Nat]
                          /\ e.out = Control <=> e.in = Control
  BY DEF Shapes, TypeOK
<1>2. \A e \in edges : e.src \in Int /\ e.out \in Int /\ e.dst \in Int /\ e.in \in Int
  <2> TAKE e \in edges
  <2>1. e \in [src : nodes, out : Nat, dst : nodes, in : Nat]
    BY <1>1
  <2>2. e.src \in nodes /\ e.out \in Nat /\ e.dst \in nodes /\ e.in \in Nat
    BY <2>1
  <2>3. e.src \in Nat /\ e.dst \in Nat
    BY <1>1, <2>2
  <2>4. QED
    BY <2>2, <2>3
<1>3. ASSUME NEW d \in edges, NEW e \in edges,
             d.src = e.src, d.out = e.out, d.dst = e.dst, d.in = e.in
      PROVE  d = e
  <2>1. /\ d \in [src : nodes, out : Nat, dst : nodes, in : Nat]
        /\ e \in [src : nodes, out : Nat, dst : nodes, in : Nat]
    BY <1>1
  <2>2. QED
    BY <1>3, <2>1
<1>4. ASSUME NEW d \in edges, NEW e \in edges, d.dst = n, e.dst = n, d.in = e.in, d.src = e.src
      PROVE  d = e
  <2>1. CASE e.in = Control
    <3>1. d.out = Control /\ e.out = Control
      BY <1>1, <1>4, <2>1
    <3>2. QED
      BY <1>3, <1>4, <3>1
  <2>2. CASE e.in # Control
    <3>1. n \in nodes /\ e.in \in DOMAIN ins[n]
      BY <1>4, <2>2 DEF TypeOK
    <3>2. PICK c \in edges : \A b \in edges : b.dst = n /\ b.in = e.in => b = c
      BY <3>1 DEF OperandsKept
    <3>3. QED
      BY <1>4, <3>2
  <2>3. QED
    BY <2>1, <2>2
<1>5. /\ InEdges(edges, n) \in Seq(edges) /\ IsInjective(InEdges(edges, n))
      /\ Range(InEdges(edges, n)) = {e \in edges : e.dst = n}
  BY <1>1, <1>2, <1>4, InEdgesOnce
<1>6. /\ OutEdges(edges, n) \in Seq(edges) /\ IsInjective(OutEdges(edges, n))
      /\ Range(OutEdges(edges, n)) = {e \in edges : e.src = n}
  <2>1. \A e \in edges : e.out \in Int /\ e.dst \in Int /\ e.in \in Int
    BY <1>2
  <2>2. \A d, e \in edges :
          d.src = n /\ e.src = n /\ d.out = e.out /\ d.dst = e.dst /\ d.in = e.in => d = e
    BY <1>3
  <2>3. QED
    BY <1>1, <2>1, <2>2, OutEdgesOnce
<1>7. QED
  BY <1>5, <1>6 DEF EdgesInto, EdgesFrom

LEMMA WaveSame ==
  ASSUME WaveIsReady, UNCHANGED <<fixedVars, waveVars>>,
         phase' # "extract" => phase # "extract"
  PROVE  WaveIsReady'
BY DEF WaveIsReady, Waiting, fixedVars, waveVars

LEMMA GroupsSame ==
  ASSUME GroupsSoFar, UNCHANGED <<fixedVars, waveVars>>, Grouped' = Grouped
  PROVE  GroupsSoFar'
BY DEF GroupsSoFar, Verified, fixedVars, waveVars

LEMMA OperandsSame ==
  ASSUME OperandsKept, UNCHANGED graphVars
  PROVE  OperandsKept'
BY DEF OperandsKept, graphVars

(***************************************************************************)
(* ExtractWave.                                                            *)
(***************************************************************************)

LEMMA ReleasedNodes ==
  ASSUME IInv, phase = "extract", NEW n \in Nodes, NEW seen
  PROVE  /\ Released(n, seen) \in Seq(Nodes)
         /\ IsInjective(Released(n, seen))
         /\ \A m \in Range(Released(n, seen)) :
              /\ \E e \in given.edges : e.src = n /\ e.dst = m
              /\ \A e \in given.edges : e.dst = m => e.src \in seen \cup {n}
<1>1. nodes = Nodes /\ edges = given.edges
  BY DEF IInv, GraphAndPhase
<1>2. OutEdges(edges, n) \in Seq(edges) /\ Range(OutEdges(edges, n)) = {e \in edges : e.src = n}
  BY <1>1, EdgesOfNode DEF IInv, EdgesFrom
<1>3. \A e \in edges : e.dst \in Nodes
  BY <1>1 DEF IInv, TypeOK
<1>4. /\ ReadyAfter(edges, n, seen) \in Seq(Nodes)
      /\ IsInjective(ReadyAfter(edges, n, seen))
      /\ \A m \in Range(ReadyAfter(edges, n, seen)) :
           /\ \E e \in edges : e.src = n /\ e.dst = m
           /\ \A e \in edges : e.dst = m => e.src \in seen \cup {n}
  BY <1>2, <1>3, ReadyAfterSources
<1>5. QED
  BY <1>1, <1>4 DEF Released

(* The nodes of the next wave. *)
LEMMA NextWave ==
  ASSUME IInv, phase = "extract"
  PROVE  LET order == Waiting
             seen(k) == visited \cup {order[j] : j \in 1 .. k - 1}
             next == [k \in DOMAIN order |-> Released(order[k], seen(k))]
         IN  /\ next \in Seq(Seq(Nodes))
             /\ IsInjective(FlattenSeq(next))
             /\ \A k \in DOMAIN next : \A m \in Range(next[k]) :
                  /\ m \notin visited /\ m \notin Range(order)
                  /\ \A e \in given.edges : e.dst = m => e.src \in visited \cup Range(order)
<1> DEFINE order == Waiting
           seen(k) == visited \cup {order[j] : j \in 1 .. k - 1}
           next == [k \in DOMAIN order |-> Released(order[k], seen(k))]
           n == Len(order)
<1>1. order \in Seq(Nodes)
  BY FlattenType DEF IInv, Shapes, Waiting
<1> HIDE DEF order
<1>2. n \in Nat /\ DOMAIN order = 1 .. n /\ \A k \in 1 .. n : order[k] \in Nodes
  BY <1>1
<1>3. /\ IsInjective(order) /\ Range(order) \cap visited = {}
      /\ \A e \in given.edges : e.dst \in visited \cup Range(order) => e.src \in visited
  BY DEF IInv, WaveIsReady, order
<1>4. \A k \in 1 .. n :
        /\ next[k] \in Seq(Nodes) /\ IsInjective(next[k])
        /\ \A m \in Range(next[k]) :
             /\ \E e \in given.edges : e.src = order[k] /\ e.dst = m
             /\ \A e \in given.edges : e.dst = m => e.src \in seen(k) \cup {order[k]}
  <2> TAKE k \in 1 .. n
  <2>1. next[k] = Released(order[k], seen(k))
    BY <1>2
  <2> HIDE DEF next, seen
  <2>2. QED
    BY <1>2, <2>1, ReleasedNodes
<1>5. \A k \in 1 .. n : order[k] \in Range(order) /\ order[k] \notin visited
  BY <1>2, <1>3 DEF Range
<1>6. next \in Seq(Seq(Nodes)) /\ DOMAIN next = 1 .. n
  <2>1. next = [k \in 1 .. n |-> next[k]]
    BY <1>2
  <2> HIDE DEF next
  <2>2. QED
    BY <1>2, <1>4, <2>1
<1>7. \A k \in 1 .. n : \A m \in Range(next[k]) :
        /\ m \notin visited /\ m \notin Range(order)
        /\ \A e \in given.edges : e.dst = m => e.src \in visited \cup Range(order)
  <2> TAKE k \in 1 .. n
  <2> TAKE m \in Range(next[k])
  <2>1. PICK e \in given.edges : e.src = order[k] /\ e.dst = m
    BY <1>4
  <2>2. m \notin visited /\ m \notin Range(order)
    BY <1>3, <1>5, <2>1
  <2>3. seen(k) \cup {order[k]} \subseteq visited \cup Range(order)
    <3>1. \A j \in 1 .. k - 1 : j \in 1 .. n
      BY <1>2
    <3>2. QED
      BY <1>5, <3>1
  <2>4. \A d \in given.edges : d.dst = m => d.src \in visited \cup Range(order)
    BY <1>4, <2>3
  <2>5. QED
    BY <2>2, <2>4
<1>8. ASSUME NEW k \in 1 .. n, NEW l \in 1 .. n, k < l
      PROVE  Range(next[k]) \cap Range(next[l]) = {}
  <2> SUFFICES ASSUME NEW m \in Range(next[k]), m \in Range(next[l]) PROVE FALSE
    OBVIOUS
  <2>1. PICK e \in given.edges : e.src = order[l] /\ e.dst = m
    BY <1>4
  <2>2. order[l] \in seen(k) \cup {order[k]}
    <3> HIDE DEF next, seen
    <3>1. \A d \in given.edges : d.dst = m => d.src \in seen(k) \cup {order[k]}
      BY <1>4
    <3>2. QED
      BY <2>1, <3>1
  <2>3. PICK j \in 1 .. n : order[l] = order[j] /\ j <= k
    <3>1. \A j \in 1 .. k - 1 : j \in 1 .. n /\ j <= k
      BY <1>2
    <3>2. k <= k
      BY <1>2
    <3>3. QED
      BY <1>5, <2>2, <3>1, <3>2
  <2>4. l = j
    BY <1>2, <1>3, <2>3 DEF IsInjective
  <2>5. QED
    BY <1>2, <1>8, <2>3, <2>4
<1>9. \A k, l \in DOMAIN next : k # l => Range(next[k]) \cap Range(next[l]) = {}
  <2> TAKE k, l \in DOMAIN next
  <2>1. k \in 1 .. n /\ l \in 1 .. n
    BY <1>6
  <2>2. k # l => k < l \/ l < k
    BY <1>2, <2>1
  <2> HIDE DEF next
  <2>3. QED
    BY <1>8, <2>1, <2>2
<1>10. IsInjective(FlattenSeq(next))
  <2> HIDE DEF next
  <2>1. \A k \in DOMAIN next : IsInjective(next[k])
    BY <1>4, <1>6
  <2>2. QED
    BY <1>6, <1>9, <2>1, FlattenInjective
<1>11. QED
  BY <1>6, <1>7, <1>10 DEF order

(* The group that a wave gives. *)
LEMMA WaveGroup ==
  ASSUME wave \in Seq(Seq(Nodes)), IsInjective(Waiting)
  PROVE  LET parts == NonEmpty([p \in DOMAIN wave |-> VerifiedOf(wave[p])])
         IN  /\ parts \in Seq(Seq(Nodes))
             /\ IsInjective(FlattenSeq(parts))
             /\ \A n : n \in Range(FlattenSeq(parts)) <=> n \in Range(Waiting) /\ Verified(n)
             /\ parts # <<>> => FlattenSeq(parts) # <<>>
<1> DEFINE v == [p \in DOMAIN wave |-> VerifiedOf(wave[p])]
<1>1. /\ DOMAIN wave = 1 .. Len(wave) /\ Len(wave) \in Nat
      /\ \A p \in DOMAIN wave : wave[p] \in Seq(Nodes)
  OBVIOUS
<1>2. \A p \in DOMAIN wave :
        /\ v[p] \in Seq(Nodes)
        /\ \A n : n \in Range(v[p]) <=> n \in Range(wave[p]) /\ Verified(n)
        /\ IsInjective(wave[p]) => IsInjective(v[p])
  BY <1>1, VerifiedSome
<1>3. v \in Seq(Seq(Nodes)) /\ DOMAIN v = DOMAIN wave
  BY <1>1, <1>2
<1> HIDE DEF v
<1>4. /\ \A p \in DOMAIN wave : IsInjective(wave[p])
      /\ \A p, q \in DOMAIN wave : p # q => Range(wave[p]) \cap Range(wave[q]) = {}
      /\ \A n : n \in Range(Waiting) <=> \E p \in DOMAIN wave : n \in Range(wave[p])
  BY FlattenInjective, FlattenRange DEF Waiting
<1>5. IsInjective(FlattenSeq(v))
  <2>1. \A p \in DOMAIN v : IsInjective(v[p])
    BY <1>2, <1>3, <1>4
  <2>2. \A p, q \in DOMAIN v : p # q => Range(v[p]) \cap Range(v[q]) = {}
    BY <1>2, <1>3, <1>4
  <2>3. QED
    BY <1>3, <2>1, <2>2, FlattenInjective
<1>6. /\ NonEmpty(v) \in Seq(Seq(Nodes))
      /\ \A n : n \in Range(FlattenSeq(NonEmpty(v))) <=> \E k \in DOMAIN v : n \in Range(v[k])
      /\ IsInjective(FlattenSeq(NonEmpty(v)))
      /\ NonEmpty(v) # <<>> => FlattenSeq(NonEmpty(v)) # <<>>
  BY <1>3, <1>5, NonEmptyParts
<1>7. \A n : n \in Range(FlattenSeq(NonEmpty(v))) <=> n \in Range(Waiting) /\ Verified(n)
  BY <1>2, <1>3, <1>4, <1>6
<1>8. QED
  BY <1>6, <1>7 DEF v

LEMMA ExtractKeeps ==
  ASSUME IInv, ExtractWave
  PROVE  IInv'
<1> DEFINE order == Waiting
           seen(k) == visited \cup {order[j] : j \in 1 .. k - 1}
           next == [k \in DOMAIN order |-> Released(order[k], seen(k))]
           parts == NonEmpty([p \in DOMAIN wave |-> VerifiedOf(wave[p])])
           g == [merge |-> \A k \in DOMAIN order : Verified(order[k]), parts |-> parts]
           ks == FlattenSeq(parts)
<1>1. /\ TypeOK /\ Shapes /\ GraphAndPhase /\ WaveIsReady /\ GroupsSoFar /\ OperandsKept
      /\ phase = "extract"
      /\ visited' = visited \cup {order[k] : k \in DOMAIN order}
      /\ wave' = NonEmpty(next)
      /\ groups' = IF parts = <<>> THEN groups ELSE Append(groups, g)
      /\ UNCHANGED <<fixedVars, graphVars, phase, index>>
  BY DEF IInv, ExtractWave, Waiting
<1>2. /\ next \in Seq(Seq(Nodes)) /\ IsInjective(FlattenSeq(next))
      /\ \A k \in DOMAIN next : \A m \in Range(next[k]) :
           /\ m \notin visited /\ m \notin Range(order)
           /\ \A e \in given.edges : e.dst = m => e.src \in visited \cup Range(order)
  BY <1>1, NextWave
<1>3. wave \in Seq(Seq(Nodes)) /\ order \in Seq(Nodes)
  BY <1>1, FlattenType DEF Shapes, Waiting
<1>4. /\ IsInjective(order) /\ Range(order) \cap visited = {}
      /\ \A e \in given.edges : e.dst \in visited \cup Range(order) => e.src \in visited
  BY <1>1 DEF WaveIsReady
<1>5. /\ parts \in Seq(Seq(Nodes)) /\ IsInjective(ks)
      /\ \A n : n \in Range(ks) <=> n \in Range(order) /\ Verified(n)
      /\ parts # <<>> => ks # <<>>
  BY <1>3, <1>4, WaveGroup
<1>6. parts # <<>> => g \in GroupType /\ KernelsOf(g) = ks
  BY <1>5 DEF GroupType, KernelsOf
<1> HIDE DEF next, parts, g, ks
<1>7. visited' = visited \cup Range(order)
  BY <1>1 DEF Range
<1> HIDE DEF order
<1>8. Range(order) \subseteq Nodes /\ visited \subseteq Nodes
  BY <1>1, <1>3, RangeOfSeq DEF TypeOK
<1>9. given' = given /\ active' = active /\ phase' = phase /\ index' = index
      /\ nodes' = nodes /\ edges' = edges /\ ins' = ins /\ outs' = outs /\ kernels' = kernels
  BY <1>1 DEF fixedVars, graphVars
<1>10. /\ wave' \in Seq(Seq(Nodes)) /\ IsInjective(Waiting')
       /\ \A m : m \in Range(Waiting') <=> \E k \in DOMAIN next : m \in Range(next[k])
  BY <1>1, <1>2, NonEmptyParts DEF Waiting
<1>11. WaveIsReady'
  <2>1. Range(Waiting') \cap visited' = {}
    BY <1>2, <1>7, <1>10
  <2>2. ASSUME NEW e \in given.edges, e.dst \in visited' \cup Range(Waiting')
        PROVE  e.src \in visited'
    <3>1. CASE e.dst \in visited \cup Range(order)
      BY <1>4, <1>7, <3>1
    <3>2. CASE e.dst \in Range(Waiting')
      <4>1. PICK k \in DOMAIN next : e.dst \in Range(next[k])
        BY <1>10, <3>2
      <4>2. QED
        BY <1>2, <1>7, <4>1
    <3>3. QED
      BY <1>7, <2>2, <3>1, <3>2
  <2>3. QED
    BY <1>1, <1>9, <1>10, <2>1, <2>2 DEF WaveIsReady
<1>12. groups \in Seq(GroupType) /\ GroupedOf(groups) \in Seq(Nodes)
  <2>1. groups \in Seq(GroupType)
    BY <1>1 DEF Shapes, GroupType
  <2>2. QED
    BY <2>1, GroupedType
<1>13. /\ IsInjective(Grouped) /\ Range(Grouped) = {n \in visited : Verified(n)}
       /\ Grouped = GroupedOf(groups)
       /\ \A e \in given.edges : \A i, j \in DOMAIN Grouped :
            Grouped[i] = e.src /\ Grouped[j] = e.dst => i < j
  BY <1>1, GroupedIs DEF GroupsSoFar
<1>14. \A n : Verified(n)' <=> Verified(n)
  BY <1>9 DEF Verified
<1>15. CASE parts = <<>>
  <2>1. groups' = groups
    BY <1>1, <1>15
  <2>2. Grouped' = Grouped
    BY <2>1 DEF Grouped
  <2>3. \A n \in Range(order) : ~Verified(n)
    <3>1. ks = <<>>
      BY <1>15, FlattenEmpty DEF ks
    <3>2. Range(ks) = {}
      BY <3>1 DEF Range
    <3>3. QED
      BY <1>5, <3>2
  <2>4. Range(Grouped') = {n \in visited' : Verified(n)'}
    BY <1>7, <1>13, <1>14, <2>2, <2>3
  <2>5. GroupsSoFar'
    BY <1>9, <1>13, <2>2, <2>4 DEF GroupsSoFar
  <2>6. TypeOK'
    <3>1. \A k \in DOMAIN wave' : Range(wave'[k]) \subseteq Nodes
      BY <1>10, RangeOfSeq
    <3>2. visited' \subseteq Nodes
      BY <1>7, <1>8
    <3>3. QED
      BY <1>1, <1>9, <2>1, <3>1, <3>2 DEF TypeOK
  <2>7. Shapes'
    BY <1>1, <1>9, <1>10, <2>1 DEF Shapes
  <2>8. GraphAndPhase' /\ OperandsKept'
    BY <1>1, <1>9 DEF GraphAndPhase, OperandsKept
  <2>9. QED
    BY <1>11, <2>5, <2>6, <2>7, <2>8 DEF IInv
<1>16. CASE parts # <<>>
  <2>1. g \in GroupType /\ KernelsOf(g) = ks /\ ks # <<>>
    BY <1>5, <1>6, <1>16
  <2>2. groups' = Append(groups, g) /\ groups' = groups \o <<g>> /\ <<g>> \in Seq(GroupType)
    BY <1>1, <1>12, <1>16, <2>1, AppendIsConcat
  <2>3. /\ groups' \in Seq(GroupType) /\ Len(groups) \in Nat /\ DOMAIN groups = 1 .. Len(groups)
        /\ DOMAIN groups' = 1 .. Len(groups) + 1
        /\ \A k \in 1 .. Len(groups) : groups'[k] = groups[k]
        /\ groups'[Len(groups) + 1] = g
    BY <1>12, <2>1, <2>2
  <2>4. Grouped' = GroupedOf(groups')
    BY DEF Grouped, GroupedOf
  <2>5. Grouped' = Grouped \o ks
    BY <1>12, <1>13, <2>1, <2>2, <2>4, GroupedConcat, GroupedOne
  <2>6. ks \in Seq(Nodes) /\ Grouped \in Seq(Nodes)
    BY <1>12, <1>13, <2>1, KernelsType
  <2>7. Range(Grouped) \cap Range(ks) = {}
    BY <1>4, <1>5, <1>13
  <2>8. IsInjective(Grouped')
    BY <1>5, <1>13, <2>5, <2>6, <2>7, ConcatInjective
  <2>9. Range(Grouped') = {n \in visited' : Verified(n)'}
    <3>1. Range(Grouped') = Range(Grouped) \cup Range(ks)
      BY <2>5, <2>6, RangeConcatenation
    <3>2. QED
      BY <1>5, <1>7, <1>13, <1>14, <3>1
  <2>10. ASSUME NEW e \in given.edges, NEW i \in DOMAIN Grouped', NEW j \in DOMAIN Grouped',
                Grouped'[i] = e.src, Grouped'[j] = e.dst
         PROVE  i < j
    <3> DEFINE n == Len(Grouped)
    <3>1. /\ n \in Nat /\ DOMAIN Grouped = 1 .. n /\ Len(ks) \in Nat /\ DOMAIN ks = 1 .. Len(ks)
          /\ DOMAIN Grouped' = 1 .. n + Len(ks)
          /\ \A k \in 1 .. n + Len(ks) :
               Grouped'[k] = IF k <= n THEN Grouped[k] ELSE ks[k - n]
      BY <2>5, <2>6, ConcatProperties
    <3> HIDE DEF n
    <3>2. \A k \in 1 .. n : Grouped'[k] \in visited
      <4>1. \A k \in 1 .. n : Grouped'[k] = Grouped[k]
        BY <3>1
      <4>2. \A k \in 1 .. n : Grouped[k] \in Range(Grouped)
        BY <3>1 DEF Range
      <4>3. QED
        BY <1>13, <4>1, <4>2
    <3>3. \A k \in 1 .. n + Len(ks) : k \notin 1 .. n => Grouped'[k] \in Range(order)
      <4> TAKE k \in 1 .. n + Len(ks)
      <4> HAVE k \notin 1 .. n
      <4>1. k - n \in 1 .. Len(ks) /\ Grouped'[k] = ks[k - n]
        BY <3>1
      <4>2. ks[k - n] \in Range(ks)
        BY <3>1, <4>1 DEF Range
      <4>3. QED
        BY <1>5, <4>1, <4>2
    <3>4. i \in 1 .. n
      <4>1. e.dst \in visited \cup Range(order)
        BY <2>10, <3>1, <3>2, <3>3
      <4>2. e.src \in visited
        BY <1>4, <4>1
      <4>3. QED
        BY <1>4, <2>10, <3>1, <3>3, <4>2
    <3>5. CASE j \in 1 .. n
      <4>1. Grouped'[i] = Grouped[i] /\ Grouped'[j] = Grouped[j]
        BY <3>1, <3>4, <3>5
      <4>2. QED
        BY <1>13, <2>10, <3>1, <3>4, <3>5, <4>1
    <3>6. CASE j \notin 1 .. n
      BY <3>1, <3>4, <3>6
    <3>7. QED
      BY <3>5, <3>6
  <2>11. GroupsSoFar'
    BY <1>9, <2>8, <2>9, <2>10 DEF GroupsSoFar
  <2>12. TypeOK'
    <3>1. \A k \in DOMAIN wave' : Range(wave'[k]) \subseteq Nodes
      BY <1>10, RangeOfSeq
    <3>2. visited' \subseteq Nodes
      BY <1>7, <1>8
    <3>3. \A k \in DOMAIN groups : groups[k].merge \in BOOLEAN /\ KernelsOf(groups[k]) # <<>>
      BY <1>1 DEF TypeOK
    <3>4. g.merge \in BOOLEAN
      BY <2>1 DEF GroupType
    <3>5. \A k \in 1 .. Len(groups) + 1 : k \in 1 .. Len(groups) \/ k = Len(groups) + 1
      BY <2>3
    <3>6. \A k \in DOMAIN groups' : groups'[k].merge \in BOOLEAN /\ KernelsOf(groups'[k]) # <<>>
      BY <2>1, <2>3, <3>3, <3>4, <3>5
    <3>7. QED
      BY <1>1, <1>9, <3>1, <3>2, <3>6 DEF TypeOK, KernelsOf
  <2>13. Shapes'
    BY <1>1, <1>9, <1>10, <2>3 DEF Shapes, GroupType
  <2>14. GraphAndPhase' /\ OperandsKept'
    BY <1>1, <1>9 DEF GraphAndPhase, OperandsKept
  <2>15. QED
    BY <1>11, <2>11, <2>12, <2>13, <2>14 DEF IInv
<1>17. QED
  BY <1>15, <1>16

(***************************************************************************)
(* The steps on the groups.                                                *)
(***************************************************************************)

LEMMA StartKeeps ==
  ASSUME IInv, StartSplitting
  PROVE  IInv'
<1>1. /\ TypeOK /\ Shapes /\ GraphAndPhase /\ WaveIsReady /\ GroupsSoFar /\ OperandsKept
      /\ phase = "extract" /\ visited = nodes /\ phase' = "split" /\ index' = 1
      /\ UNCHANGED <<fixedVars, graphVars, waveVars, groups>>
  BY DEF IInv, StartSplitting
<1>2. /\ given' = given /\ active' = active /\ visited' = visited /\ wave' = wave
      /\ nodes' = nodes /\ edges' = edges /\ ins' = ins /\ outs' = outs /\ kernels' = kernels
      /\ groups' = groups
  BY <1>1 DEF fixedVars, graphVars, waveVars
<1>3. nodes = Nodes /\ edges = given.edges
  BY <1>1 DEF GraphAndPhase
<1>4. TypeOK'
  BY <1>1, <1>2 DEF TypeOK
<1>5. Shapes' /\ OperandsKept'
  BY <1>1, <1>2 DEF Shapes, OperandsKept
<1>6. GraphAndPhase'
  BY <1>1, <1>2, <1>3 DEF GraphAndPhase
<1>7. WaveIsReady'
  BY <1>1, <1>2, <1>3 DEF WaveIsReady, Waiting
<1>8. GroupsSoFar'
  BY <1>1, <1>2, GroupsSame DEF Grouped
<1>9. QED
  BY <1>4, <1>5, <1>6, <1>7, <1>8 DEF IInv

(* Groups in whose place others come. *)
LEMMA GroupsKeep ==
  ASSUME IInv, UNCHANGED <<fixedVars, graphVars, waveVars>>,
         groups' \in Seq(GroupType), GroupedOf(groups') = GroupedOf(groups),
         \A k \in DOMAIN groups' : KernelsOf(groups'[k]) # <<>>,
         phase \in {"split", "merge"}, phase' \in {"split", "merge", "fuse", "thrown"},
         phase' = "merge" => index' > 1, index' \in Nat \ {0}
  PROVE  IInv'
<1>1. /\ TypeOK /\ Shapes /\ GraphAndPhase /\ WaveIsReady /\ GroupsSoFar /\ OperandsKept
  BY DEF IInv
<1>2. /\ given' = given /\ active' = active /\ visited' = visited /\ wave' = wave
      /\ nodes' = nodes /\ edges' = edges /\ ins' = ins /\ outs' = outs /\ kernels' = kernels
  BY DEF fixedVars, graphVars, waveVars
<1>3. nodes = Nodes /\ edges = given.edges
  BY <1>1 DEF GraphAndPhase
<1>4. Shapes' /\ OperandsKept'
  BY <1>1, <1>2 DEF Shapes, OperandsKept, GroupType
<1>5. GraphAndPhase'
  BY <1>1, <1>2, <1>3 DEF GraphAndPhase
<1>6. WaveIsReady'
  BY <1>1, <1>2 DEF WaveIsReady, Waiting
<1>7. Grouped' = Grouped
  <2>1. Grouped' = GroupedOf(groups')
    BY DEF Grouped, GroupedOf
  <2>2. QED
    BY <2>1, GroupedIs
<1>8. GroupsSoFar'
  BY <1>1, <1>7, GroupsSame
<1>9. TypeOK'
  <2>1. \A k \in DOMAIN groups' : groups'[k].merge \in BOOLEAN
    <3> TAKE k \in DOMAIN groups'
    <3>1. groups'[k] \in GroupType
      OBVIOUS
    <3>2. QED
      BY <3>1 DEF GroupType
  <2>2. \A k \in DOMAIN groups' : KernelsOf(groups'[k]) # <<>>
    OBVIOUS
  <2>3. QED
    BY <1>1, <1>2, <2>1, <2>2 DEF TypeOK, KernelsOf
<1>10. QED
  BY <1>4, <1>5, <1>6, <1>8, <1>9 DEF IInv

(* The groups before and after some, which are given by their places.      *)
LEMMA AroundGroups ==
  ASSUME NEW gs \in Seq(GroupType), NEW i \in 1 .. Len(gs), NEW j \in i .. Len(gs)
  PROVE  /\ SubSeq(gs, 1, i - 1) \in Seq(GroupType)
         /\ SubSeq(gs, i, j) \in Seq(GroupType)
         /\ SubSeq(gs, j + 1, Len(gs)) \in Seq(GroupType)
         /\ gs = SubSeq(gs, 1, i - 1) \o SubSeq(gs, i, j) \o SubSeq(gs, j + 1, Len(gs))
         /\ Len(SubSeq(gs, 1, i - 1)) = i - 1
<1>1. Len(gs) \in Nat /\ \A k \in 1 .. Len(gs) : gs[k] \in GroupType
  OBVIOUS
<1>2. /\ \A k \in 1 .. i - 1 : gs[k] \in GroupType
      /\ \A k \in i .. j : gs[k] \in GroupType
      /\ \A k \in j + 1 .. Len(gs) : gs[k] \in GroupType
  <2>1. \A k \in Int : (k \in 1 .. i - 1 \/ k \in i .. j \/ k \in j + 1 .. Len(gs)) => k \in 1 .. Len(gs)
    BY <1>1
  <2>2. QED
    BY <1>1, <2>1
<1>3. /\ SubSeq(gs, 1, i - 1) \in Seq(GroupType)
      /\ Len(SubSeq(gs, 1, i - 1)) = i - 1
  <2>1. i - 1 \in Int /\ 1 \in Int /\ (IF 1 <= i - 1 THEN (i - 1) - 1 + 1 ELSE 0) = i - 1
    BY <1>1
  <2>2. QED
    BY <1>2, <2>1, SubSeqProperties
<1>4. SubSeq(gs, i, j) \in Seq(GroupType)
  <2>1. i \in Int /\ j \in Int
    BY <1>1
  <2>2. QED
    BY <1>2, <2>1, SubSeqProperties
<1>5. SubSeq(gs, j + 1, Len(gs)) \in Seq(GroupType)
  <2>1. j + 1 \in Int /\ Len(gs) \in Int
    BY <1>1
  <2>2. QED
    BY <1>2, <2>1, SubSeqProperties
<1>6. SubSeq(gs, 1, i - 1) \o SubSeq(gs, i, j) = SubSeq(gs, 1, j)
  <2>1. 1 \in 1 .. Len(gs) + 1 /\ i - 1 \in 1 - 1 .. Len(gs) /\ j \in i - 1 .. Len(gs)
        /\ (i - 1) + 1 = i
    BY <1>1
  <2>2. SubSeq(gs, 1, i - 1) \o SubSeq(gs, (i - 1) + 1, j) = SubSeq(gs, 1, j)
    BY <2>1, ConcatAdjacentSubSeq
  <2>3. QED
    BY <2>1, <2>2
<1>7. SubSeq(gs, 1, j) \o SubSeq(gs, j + 1, Len(gs)) = SubSeq(gs, 1, Len(gs))
  <2>1. 1 \in 1 .. Len(gs) + 1 /\ j \in 1 - 1 .. Len(gs) /\ Len(gs) \in j .. Len(gs)
    BY <1>1
  <2>2. QED
    BY <2>1, ConcatAdjacentSubSeq
<1>8. SubSeq(gs, 1, Len(gs)) = gs
  BY SubSeqFull
<1>9. QED
  BY <1>3, <1>4, <1>5, <1>6, <1>7, <1>8

(* One group, and two, out of a sequence of groups. *)
LEMMA OneGroup ==
  ASSUME NEW gs \in Seq(GroupType), NEW i \in 1 .. Len(gs)
  PROVE  SubSeq(gs, i, i) = <<gs[i]>>
<1> DEFINE s == SubSeq(gs, i, i)
           t == <<gs[i]>>
<1>1. gs[i] \in GroupType /\ i \in Nat
  OBVIOUS
<1>2. s \in Seq(GroupType) /\ Len(s) = 1 /\ s[1] = gs[i]
  BY SubSeqProperties
<1>3. t \in Seq(GroupType) /\ Len(t) = 1 /\ t[1] = gs[i]
  BY <1>1
<1>4. \A k \in 1 .. Len(s) : s[k] = t[k]
  <2> HIDE DEF s, t
  <2>1. \A k \in 1 .. 1 : k = 1
    OBVIOUS
  <2>2. QED
    BY <1>2, <1>3, <2>1
<1> HIDE DEF s, t
<1>5. s = t
  BY <1>2, <1>3, <1>4, SeqEqual
<1>6. QED
  BY <1>5 DEF s, t

LEMMA PairOfGroups ==
  ASSUME NEW g \in GroupType, NEW h \in GroupType
  PROVE  /\ <<g, h>> = <<g>> \o <<h>>
         /\ <<g>> \in Seq(GroupType) /\ <<h>> \in Seq(GroupType)
<1> DEFINE s == <<g, h>>
           a == <<g>>
           b == <<h>>
           t == a \o b
<1>1. /\ s \in Seq(GroupType) /\ Len(s) = 2 /\ s[1] = g /\ s[2] = h
      /\ a \in Seq(GroupType) /\ Len(a) = 1 /\ a[1] = g
      /\ b \in Seq(GroupType) /\ Len(b) = 1 /\ b[1] = h
  OBVIOUS
<1> HIDE DEF a, b, s
<1>2. t \in Seq(GroupType) /\ Len(t) = 2 /\ t[1] = g /\ t[2] = h
  BY <1>1, ConcatProperties, SMTT(40)
<1> HIDE DEF t
<1>3. \A k \in 1 .. Len(s) : s[k] = t[k]
  <2>1. \A k \in 1 .. 2 : k = 1 \/ k = 2
    OBVIOUS
  <2>2. QED
    BY <1>1, <1>2, <2>1
<1>4. s = t
  BY <1>1, <1>2, <1>3, SeqEqual
<1>5. QED
  BY <1>1, <1>4 DEF s, t, a, b

LEMMA TwoGroups ==
  ASSUME NEW gs \in Seq(GroupType), NEW i \in 1 .. Len(gs), i > 1
  PROVE  SubSeq(gs, i - 1, i) = <<gs[i - 1], gs[i]>>
<1> DEFINE s == SubSeq(gs, i - 1, i)
           t == <<gs[i - 1], gs[i]>>
<1>1. gs[i - 1] \in GroupType /\ gs[i] \in GroupType /\ i \in Nat /\ i - 1 \in 1 .. Len(gs)
  OBVIOUS
<1>2. s \in Seq(GroupType) /\ Len(s) = 2 /\ s[1] = gs[i - 1] /\ s[2] = gs[i]
  <2>1. i - 1 \in Int /\ i \in Int /\ i - 1 <= i
    BY <1>1
  <2>2. \A k \in (i - 1) .. i : gs[k] \in GroupType
    BY <1>1
  <2>3. /\ s \in Seq(GroupType)
        /\ Len(s) = i - (i - 1) + 1
        /\ \A k \in 1 .. i - (i - 1) + 1 : s[k] = gs[(i - 1) + k - 1]
    BY <2>1, <2>2, SubSeqProperties
  <2> HIDE DEF s
  <2>4. i - (i - 1) + 1 = 2 /\ (i - 1) + 1 - 1 = i - 1 /\ (i - 1) + 2 - 1 = i
    BY <1>1
  <2>5. 1 \in 1 .. 2 /\ 2 \in 1 .. 2
    OBVIOUS
  <2>6. QED
    BY <2>3, <2>4, <2>5
<1>3. t \in Seq(GroupType) /\ Len(t) = 2 /\ t[1] = gs[i - 1] /\ t[2] = gs[i]
  <2> DEFINE g == gs[i - 1]
             h == gs[i]
  <2>1. g \in GroupType /\ h \in GroupType
    BY <1>1
  <2> HIDE DEF g, h
  <2>2. <<g, h>> \in Seq(GroupType) /\ Len(<<g, h>>) = 2 /\ <<g, h>>[1] = g /\ <<g, h>>[2] = h
    BY <2>1
  <2>3. QED
    BY <2>2 DEF g, h
<1>4. \A k \in 1 .. Len(s) : s[k] = t[k]
  <2> HIDE DEF s, t
  <2>1. \A k \in 1 .. 2 : k = 1 \/ k = 2
    OBVIOUS
  <2>2. QED
    BY <1>2, <1>3, <2>1
<1> HIDE DEF s, t
<1>5. s = t
  BY <1>2, <1>3, <1>4, SeqEqual
<1>6. QED
  BY <1>5 DEF s, t

(* The groups that are in a sequence of three parts. *)
LEMMA InThreeParts ==
  ASSUME NEW a \in Seq(GroupType), NEW b \in Seq(GroupType), NEW c \in Seq(GroupType)
  PROVE  /\ a \o b \o c \in Seq(GroupType)
         /\ \A g : g \in Range(a \o b \o c) <=> g \in Range(a) \/ g \in Range(b) \/ g \in Range(c)
<1>1. a \o b \in Seq(GroupType) /\ (a \o b) \o c \in Seq(GroupType)
  OBVIOUS
<1>2. Range((a \o b) \o c) = (Range(a) \cup Range(b)) \cup Range(c)
  <2>1. Range((a \o b) \o c) = Range(a \o b) \cup Range(c)
    BY <1>1, RangeConcatenation, ZenonT(60)
  <2>2. Range(a \o b) = Range(a) \cup Range(b)
    BY RangeConcatenation
  <2>3. QED
    BY <2>1, <2>2
<1>3. QED
  BY <1>1, <1>2

LEMMA AroundOne ==
  ASSUME NEW gs \in Seq(GroupType), NEW i \in 1 .. Len(gs)
  PROVE  /\ SubSeq(gs, 1, i - 1) \in Seq(GroupType)
         /\ SubSeq(gs, i + 1, Len(gs)) \in Seq(GroupType)
         /\ Len(SubSeq(gs, 1, i - 1)) = i - 1
         /\ gs = SubSeq(gs, 1, i - 1) \o <<gs[i]>> \o SubSeq(gs, i + 1, Len(gs))
<1>1. i \in i .. Len(gs)
  OBVIOUS
<1>2. /\ SubSeq(gs, 1, i - 1) \in Seq(GroupType)
      /\ SubSeq(gs, i + 1, Len(gs)) \in Seq(GroupType)
      /\ Len(SubSeq(gs, 1, i - 1)) = i - 1
      /\ gs = SubSeq(gs, 1, i - 1) \o SubSeq(gs, i, i) \o SubSeq(gs, i + 1, Len(gs))
  BY <1>1, AroundGroups
<1>3. SubSeq(gs, i, i) = <<gs[i]>>
  BY OneGroup
<1>4. QED
  BY <1>2, <1>3

LEMMA AroundTwo ==
  ASSUME NEW gs \in Seq(GroupType), NEW i \in 1 .. Len(gs), i > 1
  PROVE  /\ SubSeq(gs, 1, i - 2) \in Seq(GroupType)
         /\ SubSeq(gs, i + 1, Len(gs)) \in Seq(GroupType)
         /\ Len(SubSeq(gs, 1, i - 2)) = i - 2
         /\ gs = SubSeq(gs, 1, i - 2) \o <<gs[i - 1], gs[i]>> \o SubSeq(gs, i + 1, Len(gs))
<1>1. PICK k \in 1 .. Len(gs) : k = i - 1
  OBVIOUS
<1>2. i \in k .. Len(gs) /\ k - 1 = i - 2
  BY <1>1
<1>3. /\ SubSeq(gs, 1, k - 1) \in Seq(GroupType)
      /\ SubSeq(gs, i + 1, Len(gs)) \in Seq(GroupType)
      /\ Len(SubSeq(gs, 1, k - 1)) = k - 1
      /\ gs = SubSeq(gs, 1, k - 1) \o SubSeq(gs, k, i) \o SubSeq(gs, i + 1, Len(gs))
  BY <1>2, AroundGroups
<1>4. SubSeq(gs, i - 1, i) = <<gs[i - 1], gs[i]>>
  BY TwoGroups
<1>5. QED
  BY <1>1, <1>2, <1>3, <1>4

LEMMA JoinedGroup ==
  ASSUME NEW g \in GroupType, NEW h \in GroupType
  PROVE  LET m == [merge |-> TRUE, parts |-> g.parts \o h.parts]
         IN  /\ m \in GroupType /\ <<m>> \in Seq(GroupType) /\ <<g, h>> \in Seq(GroupType)
             /\ KernelsOf(m) = KernelsOf(g) \o KernelsOf(h)
             /\ GroupedOf(<<g, h>>) = KernelsOf(m) /\ GroupedOf(<<m>>) = KernelsOf(m)
<1> DEFINE m == [merge |-> TRUE, parts |-> g.parts \o h.parts]
<1>1. g.parts \in Seq(Seq(Nodes)) /\ h.parts \in Seq(Seq(Nodes))
  BY DEF GroupType
<1>2. g.parts \o h.parts \in Seq(Seq(Nodes))
  BY <1>1
<1>3. m \in GroupType
  BY <1>2 DEF GroupType
<1>4. FlattenSeq(g.parts \o h.parts) = FlattenSeq(g.parts) \o FlattenSeq(h.parts)
  BY <1>1, FlattenConcat
<1>5. KernelsOf(m) = KernelsOf(g) \o KernelsOf(h)
  BY <1>4 DEF KernelsOf
<1> HIDE DEF m
<1>6. <<g, h>> = <<g>> \o <<h>> /\ <<g>> \in Seq(GroupType) /\ <<h>> \in Seq(GroupType)
  BY PairOfGroups
<1>7. GroupedOf(<<g>> \o <<h>>) = GroupedOf(<<g>>) \o GroupedOf(<<h>>)
  BY <1>6, GroupedConcat
<1>8. /\ <<m>> \in Seq(GroupType) /\ <<g, h>> \in Seq(GroupType)
      /\ GroupedOf(<<m>>) = KernelsOf(m)
  BY <1>3, GroupedOne
<1>9. GroupedOf(<<g>>) = KernelsOf(g) /\ GroupedOf(<<h>>) = KernelsOf(h)
  BY GroupedOne
<1>10. QED
  BY <1>3, <1>5, <1>6, <1>7, <1>8, <1>9 DEF m

LEMMA SplitKeeps ==
  ASSUME IInv, SplitGroup
  PROVE  IInv'
<1> DEFINE a == SubSeq(groups, 1, index - 1)
           g == groups[index]
           c == SubSeq(groups, index + 1, Len(groups))
<1>1. /\ phase = "split" /\ index <= Len(groups)
      /\ groups' = a \o Pieces(g) \o c
      /\ index' = index + Len(Pieces(g))
      /\ UNCHANGED <<fixedVars, graphVars, phase, waveVars>>
  BY DEF SplitGroup
<1>2. groups \in Seq(GroupType) /\ index \in Nat \ {0}
      /\ \A k \in DOMAIN groups : KernelsOf(groups[k]) # <<>>
  BY DEF IInv, Shapes, TypeOK, GroupType
<1>3. /\ index \in 1 .. Len(groups) /\ index \in index .. Len(groups) /\ Len(groups) \in Nat
      /\ DOMAIN groups = 1 .. Len(groups)
  BY <1>1, <1>2
<1>4. g \in GroupType /\ KernelsOf(g) # <<>>
  BY <1>2, <1>3
<1>6. a \in Seq(GroupType) /\ c \in Seq(GroupType) /\ groups = a \o <<g>> \o c
  <2>1. PICK i \in 1 .. Len(groups) : i = index
    BY <1>3
  <2>2. QED
    BY <1>2, <2>1, AroundOne
<1>7. /\ Pieces(g) \in Seq(GroupType)
      /\ GroupedOf(Pieces(g)) = KernelsOf(g)
      /\ \A k \in DOMAIN Pieces(g) : KernelsOf(Pieces(g)[k]) # <<>>
  BY <1>4, PiecesKeepKernels
<1>8. <<g>> \in Seq(GroupType) /\ GroupedOf(<<g>>) = KernelsOf(g)
  BY <1>4, GroupedOne
<1> HIDE DEF a, g, c
<1>9. GroupedOf(groups') = GroupedOf(groups)
  <2>1. GroupedOf(a \o Pieces(g) \o c) = GroupedOf(a \o <<g>> \o c)
    <3> DEFINE b == Pieces(g)
               d == <<g>>
    <3>1. b \in Seq(GroupType) /\ d \in Seq(GroupType) /\ GroupedOf(b) = GroupedOf(d)
      BY <1>7, <1>8
    <3> HIDE DEF b, d
    <3>2. GroupedOf(a \o b \o c) = GroupedOf(a \o d \o c)
      BY <1>6, <3>1, GroupedReplace
    <3>3. QED
      BY <3>2 DEF b, d
  <2>2. QED
    BY <1>1, <1>6, <2>1
<1>10. groups' \in Seq(GroupType)
  BY <1>1, <1>6, <1>7, InThreeParts
<1>11. \A h \in Range(groups') : KernelsOf(h) # <<>>
  <2>1. \A h \in Range(groups) : KernelsOf(h) # <<>>
    BY <1>2 DEF Range
  <2>2. \A h \in Range(Pieces(g)) : KernelsOf(h) # <<>>
    BY <1>7 DEF Range
  <2>3. \A h : h \in Range(groups') => h \in Range(a) \/ h \in Range(Pieces(g)) \/ h \in Range(c)
    BY <1>1, <1>6, <1>7, InThreeParts
  <2>4. \A h : h \in Range(a) \/ h \in Range(c) => h \in Range(groups)
    BY <1>6, <1>8, InThreeParts
  <2>5. QED
    BY <2>1, <2>2, <2>3, <2>4
<1>12. \A k \in DOMAIN groups' : KernelsOf(groups'[k]) # <<>>
  BY <1>11 DEF Range
<1>13. index' \in Nat \ {0}
  <2>1. Len(Pieces(g)) \in Nat
    BY <1>7
  <2>2. QED
    BY <1>1, <1>2, <2>1
<1>14. phase' = "split" /\ phase = "split"
  BY <1>1
<1>15. QED
  BY <1>1, <1>9, <1>10, <1>12, <1>13, <1>14, GroupsKeep

LEMMA EndSplittingKeeps ==
  ASSUME IInv, NEW level \in Levels, EndSplitting(level)
  PROVE  IInv'
<1>1. /\ phase = "split" /\ phase' \in {"fuse", "thrown", "merge"}
      /\ index' \in {1, 2, index} /\ (phase' = "merge" => index' = 2)
      /\ UNCHANGED <<fixedVars, graphVars, waveVars, groups>>
  BY DEF EndSplitting
<1>2. /\ groups \in Seq(GroupType) /\ index \in Nat \ {0}
      /\ \A k \in DOMAIN groups : KernelsOf(groups[k]) # <<>>
  BY DEF IInv, Shapes, TypeOK, GroupType
<1>3. groups' = groups
  BY <1>1
<1>4. /\ groups' \in Seq(GroupType) /\ GroupedOf(groups') = GroupedOf(groups)
      /\ \A k \in DOMAIN groups' : KernelsOf(groups'[k]) # <<>>
  BY <1>2, <1>3
<1>5. index' \in Nat \ {0} /\ (phase' = "merge" => index' > 1)
  BY <1>1, <1>2
<1>6. QED
  BY <1>1, <1>4, <1>5, GroupsKeep

LEMMA MergeKeeps ==
  ASSUME IInv, MergeGroups
  PROVE  IInv'
<1> DEFINE g == groups[index - 1]
           h == groups[index]
           m == [merge |-> TRUE, parts |-> g.parts \o h.parts]
           a == SubSeq(groups, 1, index - 2)
           c == SubSeq(groups, index + 1, Len(groups))
<1>1. /\ phase = "merge" /\ index <= Len(groups)
      /\ \/ groups' = a \o <<m>> \o c /\ UNCHANGED index
         \/ index' = index + 1 /\ UNCHANGED groups
      /\ UNCHANGED <<fixedVars, graphVars, phase, waveVars>>
  BY DEF MergeGroups
<1>2. /\ groups \in Seq(GroupType) /\ index \in Nat \ {0} /\ index > 1
      /\ \A k \in DOMAIN groups : KernelsOf(groups[k]) # <<>>
  BY <1>1 DEF IInv, Shapes, TypeOK, GroupType, GraphAndPhase
<1>3. /\ index - 1 \in 1 .. Len(groups) /\ index \in index - 1 .. Len(groups)
      /\ index \in 1 .. Len(groups) /\ Len(groups) \in Nat
      /\ DOMAIN groups = 1 .. Len(groups) /\ (index - 1) - 1 = index - 2
  BY <1>1, <1>2
<1>4. g \in GroupType /\ h \in GroupType /\ KernelsOf(g) # <<>>
  BY <1>2, <1>3
<1>6. a \in Seq(GroupType) /\ c \in Seq(GroupType) /\ groups = a \o <<g, h>> \o c
  <2>1. PICK i \in 1 .. Len(groups) : i = index /\ i > 1
    BY <1>2, <1>3
  <2>2. QED
    BY <1>2, <2>1, AroundTwo
<1>7. /\ m \in GroupType /\ <<m>> \in Seq(GroupType) /\ <<g, h>> \in Seq(GroupType)
      /\ KernelsOf(m) = KernelsOf(g) \o KernelsOf(h)
      /\ GroupedOf(<<m>>) = GroupedOf(<<g, h>>)
  <2> HIDE DEF g, h
  <2>1. QED
    BY <1>4, JoinedGroup
<1> HIDE DEF a, c, g, h, m
<1>9. phase' = "merge" /\ phase = "merge"
  BY <1>1
<1>10. CASE groups' = a \o <<m>> \o c /\ UNCHANGED index
  <2>1. GroupedOf(groups') = GroupedOf(groups)
    <3> DEFINE b == <<m>>
               d == <<g, h>>
    <3>1. b \in Seq(GroupType) /\ d \in Seq(GroupType) /\ GroupedOf(b) = GroupedOf(d)
      BY <1>7
    <3> HIDE DEF b, d
    <3>2. GroupedOf(a \o b \o c) = GroupedOf(a \o d \o c)
      BY <1>6, <3>1, GroupedReplace
    <3>3. QED
      BY <1>6, <1>10, <3>2 DEF b, d
  <2>2. groups' \in Seq(GroupType)
    BY <1>6, <1>7, <1>10, InThreeParts
  <2>3. KernelsOf(m) # <<>>
    <3>1. KernelsOf(g) \in Seq(Nodes) /\ KernelsOf(h) \in Seq(Nodes)
      BY <1>4, KernelsType
    <3>2. QED
      BY <1>4, <1>7, <3>1
  <2>4. \A k \in Range(groups') : KernelsOf(k) # <<>>
    <3>1. \A k \in Range(groups) : KernelsOf(k) # <<>>
      BY <1>2 DEF Range
    <3>2. \A k \in Range(<<m>>) : k = m
      BY DEF Range
    <3>3. \A k : k \in Range(groups') => k \in Range(a) \/ k \in Range(<<m>>) \/ k \in Range(c)
      BY <1>6, <1>7, <1>10, InThreeParts
    <3>4. \A k : k \in Range(a) \/ k \in Range(c) => k \in Range(groups)
      BY <1>6, <1>7, InThreeParts
    <3>5. QED
      BY <2>3, <3>1, <3>2, <3>3, <3>4
  <2>5. \A k \in DOMAIN groups' : KernelsOf(groups'[k]) # <<>>
    BY <2>4 DEF Range
  <2>6. index' \in Nat \ {0} /\ index' > 1
    BY <1>2, <1>10
  <2>7. QED
    BY <1>1, <1>9, <2>1, <2>2, <2>5, <2>6, GroupsKeep
<1>11. CASE index' = index + 1 /\ UNCHANGED groups
  <2>1. /\ groups' \in Seq(GroupType) /\ GroupedOf(groups') = GroupedOf(groups)
        /\ \A k \in DOMAIN groups' : KernelsOf(groups'[k]) # <<>>
    BY <1>2, <1>11
  <2>2. index' \in Nat \ {0} /\ index' > 1
    BY <1>2, <1>11
  <2>3. QED
    BY <1>1, <1>9, <2>1, <2>2, GroupsKeep
<1>12. QED
  BY <1>1, <1>10, <1>11

LEMMA EndMergingKeeps ==
  ASSUME IInv, EndMerging
  PROVE  IInv'
<1>1. /\ phase = "merge" /\ phase' = "fuse" /\ index' = 1
      /\ UNCHANGED <<fixedVars, graphVars, waveVars, groups>>
  BY DEF EndMerging
<1>2. /\ groups \in Seq(GroupType)
      /\ \A k \in DOMAIN groups : KernelsOf(groups[k]) # <<>>
  BY DEF IInv, Shapes, TypeOK, GroupType
<1>3. /\ groups' \in Seq(GroupType) /\ GroupedOf(groups') = GroupedOf(groups)
      /\ \A k \in DOMAIN groups' : KernelsOf(groups'[k]) # <<>>
  BY <1>1, <1>2
<1>4. index' \in Nat \ {0} /\ (phase' = "merge" => index' > 1)
  BY <1>1
<1>5. QED
  BY <1>1, <1>3, <1>4, GroupsKeep

LEMMA SkipKeeps ==
  ASSUME IInv, SkipGroup
  PROVE  IInv'
<1>1. /\ TypeOK /\ Shapes /\ GraphAndPhase /\ WaveIsReady /\ GroupsSoFar /\ OperandsKept
      /\ phase = "fuse" /\ phase' = phase /\ index' = index + 1
      /\ UNCHANGED <<fixedVars, graphVars, waveVars, groups>>
  BY DEF IInv, SkipGroup
<1>2. /\ given' = given /\ active' = active /\ visited' = visited /\ wave' = wave
      /\ nodes' = nodes /\ edges' = edges /\ ins' = ins /\ outs' = outs /\ kernels' = kernels
      /\ groups' = groups
  BY <1>1 DEF fixedVars, graphVars, waveVars
<1>3. index \in Nat \ {0} /\ index' \in Nat \ {0}
  BY <1>1 DEF TypeOK
<1>4. TypeOK'
  BY <1>1, <1>2, <1>3 DEF TypeOK
<1>5. Shapes' /\ OperandsKept'
  BY <1>1, <1>2 DEF Shapes, OperandsKept
<1>6. GraphAndPhase'
  <2>1. \A i \in 1 .. index - 1 : i \in 1 .. index' - 1
    BY <1>1, <1>3
  <2>2. QED
    BY <1>1, <1>2, <2>1 DEF GraphAndPhase
<1>7. WaveIsReady'
  BY <1>1, <1>2 DEF WaveIsReady, Waiting
<1>8. GroupsSoFar'
  BY <1>1, <1>2, GroupsSame DEF Grouped
<1>9. QED
  BY <1>4, <1>5, <1>6, <1>7, <1>8 DEF IInv

(***************************************************************************)
(* FuseGroup.                                                              *)
(***************************************************************************)

LEMMA PickedEdges ==
  ASSUME NEW E, NEW es \in Seq(E), NEW K,
         NEW places, places \subseteq DOMAIN es,
         \A j \in DOMAIN es : j \in places <=> es[j] \in K
  PROVE  /\ Picked(es, places) \in Seq(E)
         /\ Range(Picked(es, places)) = Range(es) \cap K
         /\ IsInjective(es) => IsInjective(Picked(es, places))
<1> DEFINE p == Picked(es, places)
<1>1. /\ places \subseteq DOMAIN es
      /\ \A j : j \in places <=> j \in DOMAIN es /\ es[j] \in K
  OBVIOUS
<1> HIDE DEF p
<1>2. p \in Seq(E)
  BY <1>1, PickedAt DEF p
<1>3. /\ \A i \in places : \E j \in DOMAIN p : p[j] = es[i]
      /\ \A j \in DOMAIN p : \E i \in places : p[j] = es[i]
      /\ IsInjective(es) => IsInjective(p)
  BY <1>1, PickedRange DEF p
<1>4. \A i \in places : es[i] \in Range(p)
  BY <1>3 DEF Range
<1>5. \A y \in Range(p) : \E i \in places : y = es[i]
  BY <1>3 DEF Range
<1>6. Range(p) = Range(es) \cap K
  <2>1. ASSUME NEW y \in Range(p)
        PROVE  y \in Range(es) \cap K
    BY <1>1, <1>5, <2>1 DEF Range
  <2>2. ASSUME NEW y \in Range(es) \cap K
        PROVE  y \in Range(p)
    <3>1. PICK i \in DOMAIN es : y = es[i]
      BY <2>2 DEF Range
    <3>2. i \in places
      BY <1>1, <2>2, <3>1
    <3>3. QED
      BY <1>4, <3>1, <3>2
  <2>3. QED
    BY <2>1, <2>2
<1>7. QED
  BY <1>2, <1>3, <1>6 DEF p

(* The edges that come into a group are met once each.                     *)
LEMMA IntoEdges ==
  ASSUME TypeOK, Shapes, OperandsKept, NEW ks \in Seq(Nodes)
  PROVE  /\ Into(ks) \in Seq(edges)
         /\ \A e : e \in Range(Into(ks)) <=>
                     e \in edges /\ e.dst \in Range(ks) /\ e.src \notin Range(ks)
<1> DEFINE K == {e \in edges : e.src \notin Range(ks)}
           places(i) == {j \in DOMAIN EdgesInto(ks[i]) : EdgesInto(ks[i])[j].src \notin Range(ks)}
           part == [i \in DOMAIN ks |-> Picked(EdgesInto(ks[i]), places(i))]
<1>1. ASSUME NEW i \in DOMAIN ks
      PROVE  /\ part[i] \in Seq(edges)
             /\ Range(part[i]) = {e \in edges : e.dst = ks[i]} \cap K
  <2>1. /\ EdgesInto(ks[i]) \in Seq(edges)
        /\ Range(EdgesInto(ks[i])) = {e \in edges : e.dst = ks[i]}
    BY EdgesOfNode
  <2> DEFINE es == EdgesInto(ks[i])
             at == places(i)
  <2>2. at \subseteq DOMAIN es /\ \A j \in DOMAIN es : j \in at <=> es[j] \in K
    <3>1. \A j \in DOMAIN es : es[j] \in edges
      <4> HIDE DEF es
      <4>1. es \in Seq(edges)
        BY <2>1 DEF es
      <4>2. QED
        BY <4>1
    <3>2. QED
      BY <3>1
  <2>3. part[i] = Picked(es, at)
    OBVIOUS
  <2> HIDE DEF es, at, K, part
  <2>4. es \in Seq(edges) /\ Range(es) = {e \in edges : e.dst = ks[i]}
    BY <2>1 DEF es
  <2>5. Picked(es, at) \in Seq(edges) /\ Range(Picked(es, at)) = Range(es) \cap K
    <3>1. es \in Seq(edges)
      BY <2>4
    <3>2. Picked(es, at) \in Seq(edges)
      BY <2>2, <3>1, PickedEdges
    <3>3. Range(Picked(es, at)) = Range(es) \cap K
      BY <2>2, <3>1, PickedEdges
    <3>4. QED
      BY <3>2, <3>3
  <2>6. QED
    BY <2>3, <2>4, <2>5
<1>2. DOMAIN part = 1 .. Len(ks) /\ Len(ks) \in Nat /\ DOMAIN ks = DOMAIN part
  OBVIOUS
<1>3. Into(ks) = FlattenSeq(part)
  BY DEF Into
<1>4. part = [i \in 1 .. Len(ks) |-> part[i]]
  OBVIOUS
<1> HIDE DEF part
<1>5. part \in Seq(Seq(edges))
  <2>1. \A i \in 1 .. Len(ks) : part[i] \in Seq(edges)
    BY <1>1, <1>2
  <2>2. QED
    BY <1>2, <1>4, <2>1
<1>6. FlattenSeq(part) \in Seq(edges)
  BY <1>5, FlattenType
<1>7. \A e : e \in Range(FlattenSeq(part)) <=> \E i \in DOMAIN part : e \in Range(part[i])
  BY <1>5, FlattenRange
<1>8. \A e : (\E i \in DOMAIN part : e \in Range(part[i])) <=>
               e \in edges /\ e.dst \in Range(ks) /\ e.src \notin Range(ks)
  <2> TAKE e
  <2>1. (\E i \in DOMAIN part : e \in Range(part[i])) <=>
          \E i \in DOMAIN ks : e \in edges /\ e.dst = ks[i] /\ e.src \notin Range(ks)
    BY <1>1, <1>2
  <2>2. \A n : n \in Range(ks) <=> \E i \in DOMAIN ks : n = ks[i]
    BY DEF Range
  <2>3. QED
    BY <2>1, <2>2
<1>9. QED
  BY <1>3, <1>6, <1>7, <1>8

(* And so are those that leave it. *)
LEMMA FromEdges ==
  ASSUME TypeOK, Shapes, OperandsKept, NEW ks \in Seq(Nodes), IsInjective(ks)
  PROVE  /\ From(ks) \in Seq(edges) /\ IsInjective(From(ks))
         /\ \A e : e \in Range(From(ks)) <=>
                     e \in edges /\ e.src \in Range(ks) /\ e.dst \notin Range(ks)
<1> DEFINE K == {e \in edges : e.dst \notin Range(ks)}
           places(i) == {j \in DOMAIN EdgesFrom(ks[i]) : EdgesFrom(ks[i])[j].dst \notin Range(ks)}
           part == [i \in DOMAIN ks |-> Picked(EdgesFrom(ks[i]), places(i))]
<1>1. ASSUME NEW i \in DOMAIN ks
      PROVE  /\ part[i] \in Seq(edges) /\ IsInjective(part[i])
             /\ Range(part[i]) = {e \in edges : e.src = ks[i]} \cap K
  <2>1. /\ EdgesFrom(ks[i]) \in Seq(edges) /\ IsInjective(EdgesFrom(ks[i]))
        /\ Range(EdgesFrom(ks[i])) = {e \in edges : e.src = ks[i]}
    BY EdgesOfNode
  <2> DEFINE es == EdgesFrom(ks[i])
             at == places(i)
  <2>2. at \subseteq DOMAIN es /\ \A j \in DOMAIN es : j \in at <=> es[j] \in K
    <3>1. \A j \in DOMAIN es : es[j] \in edges
      <4> HIDE DEF es
      <4>1. es \in Seq(edges)
        BY <2>1 DEF es
      <4>2. QED
        BY <4>1
    <3>2. QED
      BY <3>1
  <2>3. part[i] = Picked(es, at)
    OBVIOUS
  <2> HIDE DEF es, at, K, part
  <2>4. es \in Seq(edges) /\ IsInjective(es) /\ Range(es) = {e \in edges : e.src = ks[i]}
    BY <2>1 DEF es
  <2>5. /\ Picked(es, at) \in Seq(edges) /\ IsInjective(Picked(es, at))
        /\ Range(Picked(es, at)) = Range(es) \cap K
    <3>1. es \in Seq(edges)
      BY <2>4
    <3>2. Picked(es, at) \in Seq(edges)
      BY <2>2, <3>1, PickedEdges
    <3>3. Range(Picked(es, at)) = Range(es) \cap K
      BY <2>2, <3>1, PickedEdges
    <3>4. IsInjective(es) => IsInjective(Picked(es, at))
      BY <2>2, <3>1, PickedEdges
    <3>5. QED
      BY <2>4, <3>2, <3>3, <3>4
  <2>6. QED
    BY <2>3, <2>4, <2>5
<1>2. DOMAIN part = 1 .. Len(ks) /\ Len(ks) \in Nat /\ DOMAIN ks = DOMAIN part
  OBVIOUS
<1>3. From(ks) = FlattenSeq(part)
  BY DEF From
<1>4. part = [i \in 1 .. Len(ks) |-> part[i]]
  OBVIOUS
<1> HIDE DEF part
<1>5. part \in Seq(Seq(edges))
  <2>1. \A i \in 1 .. Len(ks) : part[i] \in Seq(edges)
    BY <1>1, <1>2
  <2>2. QED
    BY <1>2, <1>4, <2>1
<1>6. FlattenSeq(part) \in Seq(edges)
  BY <1>5, FlattenType
<1>7. \A e : e \in Range(FlattenSeq(part)) <=> \E i \in DOMAIN part : e \in Range(part[i])
  BY <1>5, FlattenRange
<1>8. \A e : (\E i \in DOMAIN part : e \in Range(part[i])) <=>
               e \in edges /\ e.src \in Range(ks) /\ e.dst \notin Range(ks)
  <2> TAKE e
  <2>1. (\E i \in DOMAIN part : e \in Range(part[i])) <=>
          \E i \in DOMAIN ks : e \in edges /\ e.src = ks[i] /\ e.dst \notin Range(ks)
    BY <1>1, <1>2
  <2>2. \A n : n \in Range(ks) <=> \E i \in DOMAIN ks : n = ks[i]
    BY DEF Range
  <2>3. QED
    BY <2>1, <2>2
<1>9. IsInjective(FlattenSeq(part))
  <2>1. \A i \in DOMAIN part : IsInjective(part[i])
    BY <1>1, <1>2
  <2>2. \A i, j \in DOMAIN part : i # j => Range(part[i]) \cap Range(part[j]) = {}
    <3>1. \A i, j \in DOMAIN ks : i # j => ks[i] # ks[j]
      BY DEF IsInjective
    <3>2. QED
      BY <1>1, <1>2, <3>1
  <2>3. QED
    BY <1>5, <2>1, <2>2, FlattenInjective
<1>10. QED
  BY <1>3, <1>6, <1>7, <1>8, <1>9

(* A slot of data is one of OnlyData, and has one edge. *)
LEMMA SlotOfData ==
  ASSUME NEW T, NEW es \in Seq(T)
  PROVE  /\ OnlyData(es) \in Seq(T)
         /\ \A i \in DOMAIN es : es[i].in # Control =>
              /\ Slot(es, i) \in DOMAIN OnlyData(es) /\ Slot(es, i) \in Nat \ {0}
              /\ OnlyData(es)[Slot(es, i)] = es[i]
         /\ \A i \in DOMAIN es : es[i].in = Control => Slot(es, i) = Control
         /\ \A i, j \in DOMAIN es :
              Slot(es, i) = Slot(es, j) /\ Slot(es, i) # Control => i = j
         /\ \A k \in DOMAIN OnlyData(es) : \E i \in DOMAIN es :
              es[i].in # Control /\ Slot(es, i) = k
<1>1. /\ OnlyData(es) \in Seq(T)
      /\ \A i \in DOMAIN es : es[i].in # Control =>
           /\ Cardinality(DataUpTo(es, i)) \in DOMAIN OnlyData(es)
           /\ OnlyData(es)[Cardinality(DataUpTo(es, i))] = es[i]
      /\ \A i, j \in DOMAIN es :
           /\ es[i].in # Control /\ es[j].in # Control
           /\ Cardinality(DataUpTo(es, i)) = Cardinality(DataUpTo(es, j))
           => i = j
      /\ \A k \in DOMAIN OnlyData(es) : \E i \in DOMAIN es :
           es[i].in # Control /\ Cardinality(DataUpTo(es, i)) = k
  BY DataNumbered
<1>2. \A i : Slot(es, i) = IF es[i].in = Control THEN Control ELSE Cardinality(DataUpTo(es, i))
  BY DEF Slot, DataUpTo
<1>3. DOMAIN OnlyData(es) \subseteq Nat \ {0}
  BY <1>1
<1>4. QED
  BY <1>1, <1>2, <1>3

(* An edge that takes the place of another, and a set of them.             *)
LEMMA OtherTarget ==
  ASSUME NEW N, NEW e \in [src : N, out : Nat, dst : N, in : Nat],
         NEW M, NEW x \in M, NEW y \in Nat, e.src \in M
  PROVE  LET d == [e EXCEPT !.dst = x, !.in = y]
         IN  /\ d \in [src : M, out : Nat, dst : M, in : Nat]
             /\ d.src = e.src /\ d.out = e.out /\ d.dst = x /\ d.in = y
OBVIOUS

LEMMA OtherSource ==
  ASSUME NEW N, NEW e \in [src : N, out : Nat, dst : N, in : Nat],
         NEW M, NEW x \in M, NEW y \in Nat, e.dst \in M
  PROVE  LET d == [e EXCEPT !.src = x, !.out = y]
         IN  /\ d \in [src : M, out : Nat, dst : M, in : Nat]
             /\ d.src = x /\ d.out = y /\ d.dst = e.dst /\ d.in = e.in
OBVIOUS

LEMMA KernelsOnce ==
  ASSUME Shapes, GroupsSoFar, NEW k \in DOMAIN groups
  PROVE  KernelsOf(groups[k]) \in Seq(Nodes) /\ IsInjective(KernelsOf(groups[k]))
<1> DEFINE s == [i \in DOMAIN groups |-> KernelsOf(groups[i])]
<1>1. groups \in Seq(GroupType)
  BY DEF Shapes, GroupType
<1>2. \A i \in DOMAIN groups : KernelsOf(groups[i]) \in Seq(Nodes)
  <2> TAKE i \in DOMAIN groups
  <2>1. groups[i] \in GroupType
    BY <1>1
  <2>2. QED
    BY <2>1, KernelsType
<1>3. s \in Seq(Seq(Nodes)) /\ DOMAIN s = DOMAIN groups /\ s[k] = KernelsOf(groups[k])
  BY <1>1, <1>2
<1>4. IsInjective(FlattenSeq(s))
  BY DEF GroupsSoFar, Grouped
<1> HIDE DEF s
<1>5. \A i \in DOMAIN s : IsInjective(s[i])
  BY <1>3, <1>4, FlattenInjective
<1>6. QED
  BY <1>2, <1>3, <1>5

(* The edges of a fused node lead from and to the nodes around it, and the *)
(* data that they carry is what the edges carried that they replace.       *)
LEMMA FuseKeeps ==
  ASSUME IInv, FuseGroup
  PROVE  IInv'
<1> DEFINE ks         == KernelsOf(groups[index])
           group      == Range(ks)
           into       == Into(ks)
           from       == From(ks)
           left       == nodes \ group
           new        == NewId
           dataIn     == OnlyData(into)
           dataOut    == OnlyData(from)
           newIns     == [i \in DOMAIN dataIn |-> ins[dataIn[i].dst][dataIn[i].in]]
           newOuts    == [i \in DOMAIN dataOut |-> Yielded(dataOut[i])]
           inEdge(i)  == [into[i] EXCEPT !.dst = new, !.in = Slot(into, i)]
           outEdge(i) == [from[i] EXCEPT !.src = new, !.out = Slot(from, i)]
           kept       == EdgesLeft(edges, group)
<1>1. /\ phase = "fuse" /\ index <= Len(groups) /\ index' = index + 1
      /\ nodes' = left \cup {new}
      /\ edges' = kept \cup {inEdge(i) : i \in DOMAIN into} \cup {outEdge(i) : i \in DOMAIN from}
      /\ ins' = [n \in left \cup {new} |-> IF n = new THEN newIns ELSE ins[n]]
      /\ outs' = [n \in left \cup {new} |-> IF n = new THEN newOuts ELSE outs[n]]
      /\ kernels' = [n \in left \cup {new} |-> IF n = new THEN ks ELSE kernels[n]]
      /\ UNCHANGED <<fixedVars, phase, waveVars, groups>>
  BY DEF FuseGroup, WithoutEdgesOf
<1>2. /\ TypeOK /\ Shapes /\ GraphAndPhase /\ WaveIsReady /\ GroupsSoFar /\ OperandsKept
  BY DEF IInv
<1>3. index \in Nat \ {0} /\ groups \in Seq(GroupType) /\ index \in DOMAIN groups
  <2>1. index \in Nat \ {0} /\ groups \in Seq(GroupType)
    BY <1>2 DEF TypeOK, Shapes, GroupType
  <2>2. index <= Len(groups)
    BY <1>1
  <2>3. QED
    BY <2>1, <2>2
<1>4. ks \in Seq(Nodes) /\ IsInjective(ks)
  BY <1>2, <1>3, KernelsOnce
<1>5. new \in Nat /\ new \notin nodes /\ \A n \in left : n # new
  <2>1. new = Max(Nodes) + index /\ Max(Nodes) \in Nat /\ \A n \in Nodes : n <= Max(Nodes) /\ n \in Nat
    BY MaxNode, FusionAssumption DEF NewId
  <2>2. ASSUME NEW n \in nodes
        PROVE  n # new
    <3>1. n \in Nodes \/ \E i \in 1 .. index - 1 : n = Max(Nodes) + i
      BY <1>2 DEF GraphAndPhase
    <3>2. CASE n \in Nodes
      <4>1. n \in Nat /\ n <= Max(Nodes)
        BY <2>1, <3>2
      <4>2. QED
        BY <1>3, <2>1, <4>1
    <3>3. CASE \E i \in 1 .. index - 1 : n = Max(Nodes) + i
      BY <1>3, <2>1, <3>3
    <3>4. QED
      BY <3>1, <3>2, <3>3
  <2>3. QED
    BY <1>3, <2>1, <2>2
<1>6. /\ nodes \subseteq Nat /\ IsFiniteSet(edges)
      /\ \A e \in edges :
           /\ e \in [src : nodes, out : Nat, dst : nodes, in : Nat]
           /\ e.src \in nodes /\ e.dst \in nodes /\ e.out \in Nat /\ e.in \in Nat
           /\ e.out = Control <=> e.in = Control
           /\ e.out \in {Control} \cup DOMAIN outs[e.src]
           /\ e.in \in {Control} \cup DOMAIN ins[e.dst]
      /\ ins \in [nodes -> Seq(Tensors)] /\ outs \in [nodes -> Seq(Tensors)]
  BY <1>2 DEF TypeOK, Shapes
<1>7. /\ into \in Seq(edges)
      /\ \A e : e \in Range(into) <=> e \in edges /\ e.dst \in group /\ e.src \notin group
  BY <1>2, <1>4, IntoEdges
<1>8. /\ from \in Seq(edges) /\ IsInjective(from)
      /\ \A e : e \in Range(from) <=> e \in edges /\ e.src \in group /\ e.dst \notin group
  BY <1>2, <1>4, FromEdges
<1>9. \A n : n \in left <=> n \in nodes /\ n \notin group
  OBVIOUS
<1>10. \A e : e \in kept <=> e \in edges /\ e.src \notin group /\ e.dst \notin group
  BY DEF EdgesLeft
<1> HIDE DEF ks, group, into, from, left, new, dataIn, dataOut, newIns, newOuts, inEdge, outEdge, kept
<1>11. /\ dataIn \in Seq(edges)
       /\ \A i \in DOMAIN into : into[i].in # Control =>
            /\ Slot(into, i) \in DOMAIN dataIn /\ Slot(into, i) \in Nat \ {0}
            /\ dataIn[Slot(into, i)] = into[i]
       /\ \A i \in DOMAIN into : into[i].in = Control => Slot(into, i) = Control
       /\ \A i, j \in DOMAIN into : Slot(into, i) = Slot(into, j) /\ Slot(into, i) # Control => i = j
       /\ \A k \in DOMAIN dataIn : \E i \in DOMAIN into : into[i].in # Control /\ Slot(into, i) = k
  BY <1>7, SlotOfData DEF dataIn
<1>12. /\ dataOut \in Seq(edges)
       /\ \A i \in DOMAIN from : from[i].in # Control =>
            /\ Slot(from, i) \in DOMAIN dataOut /\ Slot(from, i) \in Nat \ {0}
            /\ dataOut[Slot(from, i)] = from[i]
       /\ \A i \in DOMAIN from : from[i].in = Control => Slot(from, i) = Control
       /\ \A i, j \in DOMAIN from : Slot(from, i) = Slot(from, j) /\ Slot(from, i) # Control => i = j
       /\ \A k \in DOMAIN dataOut : \E i \in DOMAIN from : from[i].in # Control /\ Slot(from, i) = k
  BY <1>8, SlotOfData DEF dataOut
<1>13. ASSUME NEW i \in DOMAIN into
       PROVE  /\ into[i] \in edges /\ into[i].dst \in group /\ into[i].src \in left
              /\ inEdge(i).src = into[i].src /\ inEdge(i).out = into[i].out
              /\ inEdge(i).dst = new /\ inEdge(i).in = Slot(into, i)
              /\ inEdge(i) \in [src : left \cup {new}, out : Nat, dst : left \cup {new}, in : Nat]
              /\ inEdge(i).out = Control <=> inEdge(i).in = Control
              /\ inEdge(i).in \in {Control} \cup DOMAIN dataIn
  <2>1. into[i] \in Range(into)
    BY DEF Range
  <2>2. into[i] \in edges /\ into[i].dst \in group /\ into[i].src \in left
    BY <1>6, <1>7, <1>9, <2>1
  <2>3. /\ into[i] \in [src : nodes, out : Nat, dst : nodes, in : Nat]
        /\ into[i].out = Control <=> into[i].in = Control
    BY <1>6, <2>2
  <2>4. /\ Slot(into, i) \in Nat /\ Slot(into, i) \in {Control} \cup DOMAIN dataIn
        /\ Slot(into, i) = Control <=> into[i].in = Control
    BY <1>11 DEF Control
  <2>5. /\ inEdge(i) \in [src : left \cup {new}, out : Nat, dst : left \cup {new}, in : Nat]
        /\ inEdge(i).src = into[i].src /\ inEdge(i).out = into[i].out
        /\ inEdge(i).dst = new /\ inEdge(i).in = Slot(into, i)
    <3> DEFINE M == left \cup {new}
    <3>1. new \in M /\ into[i].src \in M
      BY <2>2
    <3> HIDE DEF M
    <3>2. /\ inEdge(i) \in [src : M, out : Nat, dst : M, in : Nat]
          /\ inEdge(i).src = into[i].src /\ inEdge(i).out = into[i].out
          /\ inEdge(i).dst = new /\ inEdge(i).in = Slot(into, i)
      BY <2>3, <2>4, <3>1, OtherTarget DEF inEdge
    <3>3. QED
      BY <3>2 DEF M
  <2>6. QED
    BY <2>2, <2>3, <2>4, <2>5
<1>14. ASSUME NEW i \in DOMAIN from
       PROVE  /\ from[i] \in edges /\ from[i].src \in group /\ from[i].dst \in left
              /\ outEdge(i).dst = from[i].dst /\ outEdge(i).in = from[i].in
              /\ outEdge(i).src = new /\ outEdge(i).out = Slot(from, i)
              /\ outEdge(i) \in [src : left \cup {new}, out : Nat, dst : left \cup {new}, in : Nat]
              /\ outEdge(i).out = Control <=> outEdge(i).in = Control
              /\ outEdge(i).out \in {Control} \cup DOMAIN dataOut
  <2>1. from[i] \in Range(from)
    BY DEF Range
  <2>2. from[i] \in edges /\ from[i].src \in group /\ from[i].dst \in left
    BY <1>6, <1>8, <1>9, <2>1
  <2>3. /\ from[i] \in [src : nodes, out : Nat, dst : nodes, in : Nat]
        /\ from[i].out = Control <=> from[i].in = Control
    BY <1>6, <2>2
  <2>4. /\ Slot(from, i) \in Nat /\ Slot(from, i) \in {Control} \cup DOMAIN dataOut
        /\ Slot(from, i) = Control <=> from[i].in = Control
    BY <1>12 DEF Control
  <2>5. /\ outEdge(i) \in [src : left \cup {new}, out : Nat, dst : left \cup {new}, in : Nat]
        /\ outEdge(i).dst = from[i].dst /\ outEdge(i).in = from[i].in
        /\ outEdge(i).src = new /\ outEdge(i).out = Slot(from, i)
    <3> DEFINE M == left \cup {new}
    <3>1. new \in M /\ from[i].dst \in M
      BY <2>2
    <3> HIDE DEF M
    <3>2. /\ outEdge(i) \in [src : M, out : Nat, dst : M, in : Nat]
          /\ outEdge(i).dst = from[i].dst /\ outEdge(i).in = from[i].in
          /\ outEdge(i).src = new /\ outEdge(i).out = Slot(from, i)
      BY <2>3, <2>4, <3>1, OtherSource DEF outEdge
    <3>3. QED
      BY <3>2 DEF M
  <2>6. QED
    BY <2>2, <2>3, <2>4, <2>5
<1>15. /\ \A e \in kept : e \in edges' /\ e \in edges /\ e.src \in left /\ e.dst \in left
       /\ \A i \in DOMAIN into : inEdge(i) \in edges'
       /\ \A i \in DOMAIN from : outEdge(i) \in edges'
       /\ \A e \in edges' : \/ e \in kept
                           \/ (\E i \in DOMAIN into : e = inEdge(i))
                           \/ (\E i \in DOMAIN from : e = outEdge(i))
  <2>1. \A e \in kept : e \in edges' /\ e \in edges /\ e.src \in left /\ e.dst \in left
    BY <1>1, <1>6, <1>9, <1>10
  <2>2. \A i \in DOMAIN into : inEdge(i) \in edges'
    BY <1>1
  <2>3. \A i \in DOMAIN from : outEdge(i) \in edges'
    BY <1>1
  <2>4. ASSUME NEW e \in edges', e \notin kept, ~ \E i \in DOMAIN into : e = inEdge(i)
        PROVE  \E i \in DOMAIN from : e = outEdge(i)
    BY <1>1, <2>4
  <2>5. QED
    BY <2>1, <2>2, <2>3, <2>4
<1>16. newIns \in Seq(Tensors) /\ DOMAIN newIns = DOMAIN dataIn
  <2>1. \A i \in DOMAIN dataIn : ins[dataIn[i].dst][dataIn[i].in] \in Tensors
    <3> TAKE i \in DOMAIN dataIn
    <3>1. PICK j \in DOMAIN into : into[j].in # Control /\ Slot(into, j) = i
      BY <1>11
    <3>2. dataIn[i] = into[j]
      BY <1>11, <3>1
    <3>3. into[j] \in edges
      BY <1>13
    <3>4. into[j].dst \in nodes /\ into[j].in \in DOMAIN ins[into[j].dst]
      BY <1>6, <3>1, <3>3
    <3>5. ins[into[j].dst] \in Seq(Tensors)
      BY <1>6, <3>4
    <3>6. ins[into[j].dst][into[j].in] \in Tensors
      BY <3>4, <3>5
    <3>7. QED
      BY <3>2, <3>6
  <2>2. DOMAIN dataIn = 1 .. Len(dataIn) /\ Len(dataIn) \in Nat
    BY <1>11
  <2>3. newIns = [i \in 1 .. Len(dataIn) |-> ins[dataIn[i].dst][dataIn[i].in]]
    BY <2>2 DEF newIns
  <2>4. QED
    BY <2>1, <2>2, <2>3
<1>17. newOuts \in Seq(Tensors) /\ DOMAIN newOuts = DOMAIN dataOut
  <2>1. \A i \in DOMAIN dataOut : outs[dataOut[i].src][dataOut[i].out] \in Tensors
    <3> TAKE i \in DOMAIN dataOut
    <3>1. PICK j \in DOMAIN from : from[j].in # Control /\ Slot(from, j) = i
      BY <1>12
    <3>2. dataOut[i] = from[j]
      BY <1>12, <3>1
    <3>3. from[j] \in edges
      BY <1>14
    <3>4. from[j].src \in nodes /\ from[j].out \in DOMAIN outs[from[j].src]
      BY <1>6, <3>1, <3>3
    <3>5. outs[from[j].src] \in Seq(Tensors)
      BY <1>6, <3>4
    <3>6. outs[from[j].src][from[j].out] \in Tensors
      BY <3>4, <3>5
    <3>7. QED
      BY <3>2, <3>6
  <2>2. DOMAIN dataOut = 1 .. Len(dataOut) /\ Len(dataOut) \in Nat
    BY <1>12
  <2>3. newOuts = [i \in 1 .. Len(dataOut) |-> outs[dataOut[i].src][dataOut[i].out]]
    BY <2>2 DEF newOuts, Yielded
  <2>4. QED
    BY <2>1, <2>2, <2>3
<1>18. /\ DOMAIN ins' = left \cup {new} /\ DOMAIN outs' = left \cup {new}
       /\ DOMAIN kernels' = left \cup {new}
       /\ ins'[new] = newIns /\ outs'[new] = newOuts
       /\ \A n \in left : ins'[n] = ins[n] /\ outs'[n] = outs[n]
  BY <1>1, <1>5
<1>19. TypeOK'
  <2>1. given'.fusable \subseteq Nodes /\ active' \subseteq Nodes /\ visited' \subseteq Nodes
        /\ (\A k \in DOMAIN wave' : Range(wave'[k]) \subseteq Nodes)
        /\ phase' \in {"extract", "split", "merge", "fuse", "thrown"}
        /\ \A k \in DOMAIN groups' : groups'[k].merge \in BOOLEAN /\ KernelsOf(groups'[k]) # <<>>
    BY <1>1, <1>2 DEF TypeOK, fixedVars, waveVars
  <2>2. nodes' \subseteq Nat /\ index' \in Nat \ {0}
    <3>1. index' = index + 1 /\ index \in Nat
      BY <1>1, <1>3
    <3>2. nodes' = left \cup {new} /\ left \subseteq nodes
      BY <1>1, <1>9
    <3>3. QED
      BY <1>5, <1>6, <3>1, <3>2
  <2>3. DOMAIN ins' = nodes' /\ DOMAIN outs' = nodes' /\ DOMAIN kernels' = nodes'
    BY <1>1, <1>18
  <2>4. ASSUME NEW e \in edges'
        PROVE  /\ e.src \in nodes' /\ e.out \in {Control} \cup DOMAIN outs'[e.src]
               /\ e.dst \in nodes' /\ e.in \in {Control} \cup DOMAIN ins'[e.dst]
    <3>1. CASE e \in kept
      <4>1. e \in edges /\ e.src \in left /\ e.dst \in left
        BY <1>15, <3>1
      <4>2. QED
        BY <1>1, <1>6, <1>18, <4>1
    <3>2. CASE \E i \in DOMAIN into : e = inEdge(i)
      <4>1. PICK i \in DOMAIN into : e = inEdge(i)
        BY <3>2
      <4>2. /\ e.src = into[i].src /\ e.out = into[i].out /\ e.dst = new
            /\ into[i] \in edges /\ into[i].src \in left /\ e.in \in {Control} \cup DOMAIN dataIn
        BY <1>13, <4>1
      <4>3. e.out \in {Control} \cup DOMAIN outs[e.src]
        BY <1>6, <4>2
      <4>4. QED
        BY <1>1, <1>16, <1>18, <4>2, <4>3
    <3>3. CASE \E i \in DOMAIN from : e = outEdge(i)
      <4>1. PICK i \in DOMAIN from : e = outEdge(i)
        BY <3>3
      <4>2. /\ e.dst = from[i].dst /\ e.in = from[i].in /\ e.src = new
            /\ from[i] \in edges /\ from[i].dst \in left /\ e.out \in {Control} \cup DOMAIN dataOut
        BY <1>14, <4>1
      <4>3. e.in \in {Control} \cup DOMAIN ins[e.dst]
        BY <1>6, <4>2
      <4>4. QED
        BY <1>1, <1>17, <1>18, <4>2, <4>3
    <3>4. QED
      BY <1>15, <3>1, <3>2, <3>3
  <2>5. QED
    BY <2>1, <2>2, <2>3, <2>4 DEF TypeOK, KernelsOf
<1>20. Shapes'
  <2>1. wave' \in Seq(Seq(Nodes)) /\ groups' \in Seq([merge : BOOLEAN, parts : Seq(Seq(Nodes))])
    BY <1>1, <1>2 DEF Shapes, waveVars
  <2>2. ins' \in [nodes' -> Seq(Tensors)] /\ outs' \in [nodes' -> Seq(Tensors)]
    <3>1. \A n \in left : ins[n] \in Seq(Tensors) /\ outs[n] \in Seq(Tensors)
      BY <1>6, <1>9
    <3>2. QED
      BY <1>1, <1>16, <1>17, <3>1
  <2>3. IsFiniteSet(edges')
    <3>1. IsFiniteSet(kept)
      <4>1. kept \subseteq edges
        BY <1>10
      <4>2. QED
        BY <1>6, <4>1, FS_Subset
    <3>2. IsFiniteSet({inEdge(i) : i \in DOMAIN into})
      <4>1. DOMAIN into = 1 .. Len(into) /\ Len(into) \in Nat
        BY <1>7
      <4>2. IsFiniteSet(1 .. Len(into))
        BY <4>1, FS_Interval
      <4>3. IsFiniteSet(DOMAIN into)
        BY <4>1, <4>2
      <4> DEFINE f == [i \in DOMAIN into |-> inEdge(i)]
      <4>4. {f[i] : i \in DOMAIN into} = {inEdge(i) : i \in DOMAIN into} /\ DOMAIN f = DOMAIN into
        OBVIOUS
      <4> HIDE DEF f
      <4>5. IsFiniteSet({f[i] : i \in DOMAIN into})
        BY <4>3, <4>4, FiniteImage
      <4>6. QED
        BY <4>4, <4>5
    <3>3. IsFiniteSet({outEdge(i) : i \in DOMAIN from})
      <4>1. DOMAIN from = 1 .. Len(from) /\ Len(from) \in Nat
        BY <1>8
      <4>2. IsFiniteSet(1 .. Len(from))
        BY <4>1, FS_Interval
      <4>3. IsFiniteSet(DOMAIN from)
        BY <4>1, <4>2
      <4> DEFINE f == [i \in DOMAIN from |-> outEdge(i)]
      <4>4. {f[i] : i \in DOMAIN from} = {outEdge(i) : i \in DOMAIN from} /\ DOMAIN f = DOMAIN from
        OBVIOUS
      <4> HIDE DEF f
      <4>5. IsFiniteSet({f[i] : i \in DOMAIN from})
        BY <4>3, <4>4, FiniteImage
      <4>6. QED
        BY <4>4, <4>5
    <3>4. QED
      BY <1>1, <3>1, <3>2, <3>3, FS_Union
  <2>4. ASSUME NEW e \in edges'
        PROVE  /\ e \in [src : nodes', out : Nat, dst : nodes', in : Nat]
               /\ e.out = Control <=> e.in = Control
    <3>1. CASE e \in kept
      <4>1. e \in edges /\ e.src \in left /\ e.dst \in left
        BY <1>15, <3>1
      <4>2. /\ e \in [src : nodes, out : Nat, dst : nodes, in : Nat]
            /\ e.out = Control <=> e.in = Control
        BY <1>6, <4>1
      <4>3. QED
        BY <1>1, <4>1, <4>2
    <3>2. CASE \E i \in DOMAIN into : e = inEdge(i)
      BY <1>1, <1>13, <3>2
    <3>3. CASE \E i \in DOMAIN from : e = outEdge(i)
      BY <1>1, <1>14, <3>3
    <3>4. QED
      BY <1>15, <3>1, <3>2, <3>3
  <2>5. QED
    BY <2>1, <2>2, <2>3, <2>4 DEF Shapes
<1>21. GraphAndPhase'
  <2>1. phase' = "fuse"
    BY <1>1
  <2>2. new = Max(Nodes) + index /\ index \in 1 .. index' - 1 /\ \A i \in 1 .. index - 1 : i \in 1 .. index' - 1
    BY <1>1, <1>3 DEF new, NewId
  <2>3. nodes \subseteq Nodes \cup {Max(Nodes) + i : i \in 1 .. index - 1}
    BY <1>2 DEF GraphAndPhase
  <2>4. nodes' \subseteq Nodes \cup {Max(Nodes) + i : i \in 1 .. index' - 1}
    BY <1>1, <1>9, <2>2, <2>3
  <2>5. QED
    BY <2>1, <2>4 DEF GraphAndPhase
<1>22. WaveIsReady'
  BY <1>1, <1>2, WaveSame
<1>23. GroupsSoFar'
  BY <1>1, <1>2, GroupsSame DEF Grouped
<1>24. OperandsKept'
  <2> SUFFICES ASSUME NEW n \in nodes', NEW i \in DOMAIN ins'[n]
               PROVE  \E e \in edges' :
                        /\ e.dst = n /\ e.in = i /\ e.out \in DOMAIN outs'[e.src]
                        /\ outs'[e.src][e.out] = ins'[n][i]
                        /\ \A d \in edges' : d.dst = n /\ d.in = i => d = e
    BY DEF OperandsKept
  <2>1. CASE n = new
    <3>1. i \in DOMAIN dataIn /\ ins'[n][i] = ins[dataIn[i].dst][dataIn[i].in]
      BY <1>16, <1>18, <2>1 DEF newIns
    <3>2. PICK j \in DOMAIN into : into[j].in # Control /\ Slot(into, j) = i
      BY <1>11, <3>1
    <3>3. into[j] \in edges /\ into[j].src \in left /\ dataIn[i] = into[j] /\ i # Control
      BY <1>11, <1>13, <3>2 DEF Control
    <3>4. /\ into[j].dst \in nodes /\ into[j].in \in DOMAIN ins[into[j].dst]
          /\ into[j].out \in DOMAIN outs[into[j].src]
      BY <1>6, <3>2, <3>3
    <3>5. outs[into[j].src][into[j].out] = ins[into[j].dst][into[j].in]
      <4>1. PICK e \in edges :
              /\ outs[e.src][e.out] = ins[into[j].dst][into[j].in]
              /\ \A d \in edges : d.dst = into[j].dst /\ d.in = into[j].in => d = e
        BY <1>2, <3>4 DEF OperandsKept
      <4>2. into[j] = e
        BY <3>3, <4>1
      <4>3. QED
        BY <4>1, <4>2
    <3>6. /\ inEdge(j) \in edges' /\ inEdge(j).dst = n /\ inEdge(j).in = i
          /\ inEdge(j).src = into[j].src /\ inEdge(j).out = into[j].out
      BY <1>13, <1>15, <2>1, <3>2
    <3>7. outs'[inEdge(j).src] = outs[into[j].src]
      BY <1>18, <3>3, <3>6
    <3>8. ASSUME NEW d \in edges', d.dst = n, d.in = i
          PROVE  d = inEdge(j)
      <4>1. d \notin kept
        BY <1>5, <1>15, <2>1, <3>8
      <4>2. ASSUME NEW k \in DOMAIN from
            PROVE  d # outEdge(k)
        BY <1>5, <1>14, <2>1, <3>8
      <4>3. PICK k \in DOMAIN into : d = inEdge(k)
        BY <1>15, <4>1, <4>2
      <4>4. Slot(into, k) = i
        BY <1>13, <3>8, <4>3
      <4>5. k = j
        BY <1>11, <3>2, <3>3, <4>4
      <4>6. QED
        BY <4>3, <4>5
    <3>9. QED
      BY <3>1, <3>3, <3>4, <3>5, <3>6, <3>7, <3>8
  <2>2. CASE n \in left
    <3>1. n \in nodes /\ i \in DOMAIN ins[n] /\ ins'[n] = ins[n] /\ n # new
      BY <1>5, <1>9, <1>18, <2>2
    <3>2. PICK e \in edges : /\ e.dst = n /\ e.in = i /\ e.out \in DOMAIN outs[e.src]
                             /\ outs[e.src][e.out] = ins[n][i]
                             /\ \A d \in edges : d.dst = n /\ d.in = i => d = e
      BY <1>2, <3>1 DEF OperandsKept
    <3>3. i # Control
      <4>1. ins[n] \in Seq(Tensors)
        BY <1>6, <3>1
      <4>2. DOMAIN ins[n] = 1 .. Len(ins[n])
        BY <4>1
      <4>3. QED
        BY <3>1, <4>2 DEF Control
    <3>4. ASSUME NEW k \in DOMAIN into
          PROVE  inEdge(k).dst # n
      BY <1>13, <3>1
    <3>5. ASSUME NEW k \in DOMAIN from, outEdge(k).dst = n, outEdge(k).in = i
          PROVE  from[k] = e
      BY <1>14, <3>2, <3>5
    <3>6. CASE e.src \notin group
      <4>1. e \in kept /\ e \in edges' /\ e.src \in left
        BY <1>6, <1>9, <1>10, <1>15, <2>2, <3>2, <3>6
      <4>2. outs'[e.src] = outs[e.src]
        BY <1>18, <4>1
      <4>3. ASSUME NEW d \in edges', d.dst = n, d.in = i
            PROVE  d = e
        <5>1. CASE d \in kept
          BY <1>15, <3>2, <4>3, <5>1
        <5>2. ASSUME NEW k \in DOMAIN from, d = outEdge(k)
              PROVE  FALSE
          <6>1. from[k] = e
            BY <3>5, <4>3, <5>2
          <6>2. QED
            BY <1>14, <3>6, <6>1
        <5>3. QED
          BY <1>15, <3>4, <4>3, <5>1, <5>2
      <4>4. QED
        BY <3>1, <3>2, <4>1, <4>2, <4>3
    <3>7. CASE e.src \in group
      <4>1. e \in Range(from)
        BY <1>8, <1>9, <2>2, <3>2, <3>7
      <4>2. PICK k \in DOMAIN from : from[k] = e
        BY <4>1 DEF Range
      <4>3. /\ outEdge(k) \in edges' /\ outEdge(k).dst = n /\ outEdge(k).in = i
            /\ outEdge(k).src = new /\ outEdge(k).out = Slot(from, k)
        BY <1>14, <1>15, <3>2, <4>2
      <4>4. Slot(from, k) \in DOMAIN dataOut /\ dataOut[Slot(from, k)] = e
        BY <1>12, <3>2, <3>3, <4>2
      <4>5. /\ outEdge(k).out \in DOMAIN outs'[outEdge(k).src]
            /\ outs'[outEdge(k).src][outEdge(k).out] = outs[e.src][e.out]
        BY <1>17, <1>18, <4>3, <4>4 DEF newOuts, Yielded
      <4>6. ASSUME NEW d \in edges', d.dst = n, d.in = i
            PROVE  d = outEdge(k)
        <5>1. CASE d \in kept
          <6>1. d = e
            BY <1>15, <3>2, <4>6, <5>1
          <6>2. QED
            BY <1>10, <3>7, <5>1, <6>1
        <5>2. ASSUME NEW l \in DOMAIN from, d = outEdge(l)
              PROVE  d = outEdge(k)
          <6>1. from[l] = e
            BY <3>5, <4>6, <5>2
          <6>2. l = k
            BY <1>8, <4>2, <6>1 DEF IsInjective
          <6>3. QED
            BY <5>2, <6>2
        <5>3. QED
          BY <1>15, <3>4, <4>6, <5>1, <5>2
      <4>7. QED
        BY <3>1, <3>2, <4>3, <4>5, <4>6
    <3>8. QED
      BY <3>6, <3>7
  <2>3. QED
    BY <1>1, <2>1, <2>2
<1>25. QED
  BY <1>19, <1>20, <1>21, <1>22, <1>23, <1>24 DEF IInv

(***************************************************************************)
(* The graph as it is given.                                               *)
(***************************************************************************)

LEMMA GivenEdges ==
  ASSUME NEW g, IsGraph(g)
  PROVE  /\ IsFiniteSet(g.edges) /\ g.fusable \subseteq Nodes
         /\ \A n \in Nodes : g.outputs[n] \in Nat
         /\ \A e \in g.edges :
              /\ e \in [src : Nodes, out : Nat, dst : Nodes, in : Nat]
              /\ e.src \in Nodes /\ e.dst \in Nodes /\ e.out \in Nat /\ e.in \in Nat
              /\ e.src \in Int /\ e.dst \in Int /\ e.out \in Int /\ e.in \in Int
              /\ e.out \in {Control} \cup 1 .. g.outputs[e.src]
              /\ e.out = Control <=> e.in = Control
<1>1. /\ IsFiniteSet(g.edges) /\ g.fusable \subseteq Nodes /\ g.outputs \in [Nodes -> Nat]
      /\ \A e \in g.edges :
           /\ e \in [src : Nodes, out : Nat, dst : Nodes, in : Nat]
           /\ e.out <= g.outputs[e.src]
           /\ e.out = Control <=> e.in = Control
  BY DEF IsGraph
<1>2. Nodes \subseteq Nat
  BY FusionAssumption
<1>3. \A n \in Nodes : g.outputs[n] \in Nat
  BY <1>1
<1>4. ASSUME NEW e \in g.edges
      PROVE  /\ e.src \in Nodes /\ e.dst \in Nodes /\ e.out \in Nat /\ e.in \in Nat
             /\ e.src \in Int /\ e.dst \in Int /\ e.out \in Int /\ e.in \in Int
             /\ e.out \in {Control} \cup 1 .. g.outputs[e.src]
  <2>1. e \in [src : Nodes, out : Nat, dst : Nodes, in : Nat]
    BY <1>1
  <2>2. e.src \in Nodes /\ e.dst \in Nodes /\ e.out \in Nat /\ e.in \in Nat
    BY <2>1
  <2>3. e.src \in Nat /\ e.dst \in Nat
    BY <1>2, <2>2
  <2>4. e.out \in {Control} \cup 1 .. g.outputs[e.src]
    <3> DEFINE m == g.outputs[e.src]
    <3>1. m \in Nat /\ e.out <= m
      BY <1>1, <1>3, <2>2
    <3> HIDE DEF m
    <3>2. e.out = 0 \/ e.out \in 1 .. m
      BY <2>2, <3>1
    <3>3. QED
      BY <3>2 DEF Control, m
  <2>5. QED
    BY <2>2, <2>3, <2>4
<1>5. QED
  BY <1>1, <1>3, <1>4

(* The inputs of a node are numbered, and each has one edge.               *)
LEMMA InputsNumbered ==
  ASSUME NEW g, IsGraph(g), NEW n \in Nodes
  PROVE  /\ Cardinality(DataInto(g, n)) \in Nat
         /\ \A e \in DataInto(g, n) : e.in \in 1 .. Cardinality(DataInto(g, n))
         /\ \A i \in 1 .. Cardinality(DataInto(g, n)) : \E e \in DataInto(g, n) : e.in = i
         /\ \A d, e \in DataInto(g, n) : d.in = e.in => d = e
<1> DEFINE D == DataInto(g, n)
           c == Cardinality(D)
           f == [e \in D |-> e.in]
<1>1. IsFiniteSet(D)
  <2>1. D \subseteq g.edges
    BY DEF DataInto
  <2>2. IsFiniteSet(g.edges)
    BY GivenEdges
  <2>3. QED
    BY <2>1, <2>2, FS_Subset
<1>2. c \in Nat
  BY <1>1, FS_CardinalityType
<1>3. {e.in : e \in D} = 1 .. c
  BY DEF IsGraph
<1> HIDE DEF D
<1>4. \A e \in D : e.in \in 1 .. c
  BY <1>3
<1>5. \A i \in 1 .. c : \E e \in D : e.in = i
  BY <1>3
<1> HIDE DEF c
<1>6. f \in Surjection(D, 1 .. c)
  BY <1>4, <1>5 DEF Surjection
<1>7. Cardinality(1 .. c) = c
  BY <1>2, FS_Interval
<1>8. f \in Injection(D, 1 .. c)
  <2>1. Cardinality(D) = Cardinality(1 .. c)
    BY <1>7 DEF c
  <2> HIDE DEF f
  <2>2. QED
    BY <1>1, <1>6, <2>1, FS_Surjection
<1>9. \A d, e \in D : d.in = e.in => d = e
  BY <1>8 DEF Injection, IsInjective
<1>10. QED
  BY <1>2, <1>4, <1>5, <1>9 DEF c, D

LEMMA GivenInEdges ==
  ASSUME NEW g, IsGraph(g), NEW n \in Nodes
  PROVE  /\ InEdges(g.edges, n) \in Seq(g.edges)
         /\ Range(InEdges(g.edges, n)) = {e \in g.edges : e.dst = n}
<1>1. \A e \in g.edges : e.in \in Int /\ e.src \in Int
  BY GivenEdges
<1>2. ASSUME NEW d \in g.edges, NEW e \in g.edges, d.dst = n, e.dst = n,
             d.in = e.in, d.src = e.src
      PROVE  d = e
  <2>1. /\ d \in [src : Nodes, out : Nat, dst : Nodes, in : Nat]
        /\ e \in [src : Nodes, out : Nat, dst : Nodes, in : Nat]
        /\ (d.out = Control <=> d.in = Control) /\ (e.out = Control <=> e.in = Control)
    BY GivenEdges
  <2>2. CASE d.in = Control
    <3>1. d.out = e.out
      BY <1>2, <2>1, <2>2
    <3>2. QED
      BY <1>2, <2>1, <3>1
  <2>3. CASE d.in # Control
    <3>1. d \in DataInto(g, n) /\ e \in DataInto(g, n)
      BY <1>2, <2>3 DEF DataInto
    <3>2. QED
      BY <1>2, <3>1, InputsNumbered
  <2>4. QED
    BY <2>2, <2>3
<1>3. IsFiniteSet(g.edges)
  BY GivenEdges
<1>4. QED
  BY <1>1, <1>2, <1>3, InEdgesOnce

(* The order in which the given graph runs: it has what the outputs need.  *)
LEMMA OrderOfGiven ==
  ASSUME NEW g, IsGraph(g), NEW outputs, outputs \subseteq Nodes
  PROVE  /\ OpsInOrder(Nodes, g.edges, outputs) \in Seq(Nodes)
         /\ \A C : outputs \subseteq C /\ (\A e \in g.edges : e.dst \in C => e.src \in C) =>
              Range(OpsInOrder(Nodes, g.edges, outputs)) \subseteq C
<1> DEFINE R == {p \in Nodes \X Nodes : p[1] < p[2]}
           order == OpsInOrder(Nodes, g.edges, outputs)
<1>1. Nodes \subseteq Int /\ IsFiniteSet(Nodes)
  BY FusionAssumption
<1>2. \A e \in g.edges : e.src \in Nodes /\ e.dst \in Nodes /\ e.src < e.dst
  BY GivenEdges DEF IsGraph
<1>3. StrictOrder(R, Nodes)
  BY <1>1 DEF StrictOrder
<1>4. \A e \in g.edges : <<e.src, e.dst>> \in R
  BY <1>2
<1>5. /\ \A n \in Nodes : InEdges(g.edges, n) \in Seq(g.edges)
      /\ \A n \in Nodes : Range(InEdges(g.edges, n)) = {e \in g.edges : e.dst = n}
  BY GivenInEdges
<1> HIDE DEF R
<1>6. ASSUME NEW C, outputs \subseteq C, \A e \in g.edges : e.dst \in C => e.src \in C
      PROVE  order \in Seq(Nodes) /\ Range(order) \subseteq C
  BY <1>1, <1>2, <1>3, <1>4, <1>5, <1>6, OpsAreOrdered
<1>7. order \in Seq(Nodes)
  BY <1>2, <1>6
<1>8. QED
  BY <1>6, <1>7

(* One part for each node of a list. *)
LEMMA OneEach ==
  ASSUME NEW S, S \subseteq Nodes, NEW c \in Nat, NEW f \in [1 .. c -> S],
         \A x \in S : \E i \in 1 .. c : f[i] = x,
         \A i, j \in 1 .. c : i # j => f[i] # f[j],
         NEW w, IsList(w, c), \A i \in 1 .. c : w[i] = <<f[i]>>
  PROVE  /\ w \in Seq(Seq(Nodes))
         /\ IsInjective(FlattenSeq(w)) /\ Range(FlattenSeq(w)) = S
<1>1. DOMAIN w = 1 .. c /\ \A i \in 1 .. c : w[i] = <<f[i]>> /\ f[i] \in Nodes
  BY DEF IsList
<1>2. w \in Seq(Seq(Nodes))
  <2>1. \A i \in 1 .. c : <<f[i]>> \in Seq(Nodes)
    <3> TAKE i \in 1 .. c
    <3> DEFINE x == f[i]
    <3>1. x \in Nodes
      BY <1>1
    <3> HIDE DEF x
    <3>2. <<x>> \in Seq(Nodes)
      BY <3>1
    <3>3. QED
      BY <3>2 DEF x
  <2>2. \A i \in 1 .. c : w[i] \in Seq(Nodes)
    BY <1>1, <2>1
  <2>3. w \in [1 .. c -> Seq(Nodes)]
    BY <2>2 DEF IsList
  <2>4. QED
    BY <2>3
<1>3. \A i \in 1 .. c : IsInjective(w[i]) /\ Range(w[i]) = {f[i]}
  BY <1>1 DEF IsInjective, Range
<1>4. IsInjective(FlattenSeq(w))
  <2>1. \A i \in DOMAIN w : IsInjective(w[i])
    BY <1>1, <1>3
  <2>2. \A i, j \in DOMAIN w : i # j => Range(w[i]) \cap Range(w[j]) = {}
    BY <1>1, <1>3
  <2>3. QED
    BY <1>2, <2>1, <2>2, FlattenInjective
<1>5. \A y : y \in Range(FlattenSeq(w)) <=> \E i \in DOMAIN w : y \in Range(w[i])
  BY <1>2, FlattenRange
<1>6. \A y : y \in Range(FlattenSeq(w)) <=> \E i \in 1 .. c : y = f[i]
  <2>1. \A i \in 1 .. c : \A y : y \in Range(w[i]) <=> y = f[i]
    <3>1. TAKE i \in 1 .. c
    <3>2. Range(w[i]) = {f[i]}
      BY <1>3
    <3>3. QED
      BY <3>2
  <2>2. DOMAIN w = 1 .. c
    BY <1>1
  <2> HIDE DEF Range
  <2>3. QED
    BY <1>5, <2>1, <2>2
<1>7. Range(FlattenSeq(w)) = S
  <2> DEFINE R == Range(FlattenSeq(w))
  <2>1. (\A y : y \in R <=> \E i \in 1 .. c : y = f[i]) /\ \A i \in 1 .. c : f[i] \in S
    BY <1>6
  <2> HIDE DEF R
  <2>2. \A y \in R : y \in S
    BY <2>1
  <2>3. \A y \in S : y \in R
    BY <2>1
  <2>4. R = S
    BY <2>2, <2>3
  <2>5. QED
    BY <2>4 DEF R
<1>8. QED
  BY <1>2, <1>4, <1>7

LEMMA InitIInv ==
  ASSUME Init
  PROVE  IInv
<1> DEFINE S     == {n \in Nodes : SourcesOf({n}) = {}}
           first == Ascending(S)
           count(n) == Cardinality(DataInto(given, n))
           at(n, i) == CHOOSE e \in DataInto(given, n) : e.in = i
           reads(n)  == [i \in 1 .. count(n) |-> <<at(n, i).src, at(n, i).out>>]
           yields(n) == [k \in 1 .. given.outputs[n] |-> <<n, k>>]
<1>1. /\ IsGraph(given) /\ nodes = Nodes /\ edges = given.edges
      /\ ins = [n \in Nodes |-> reads(n)]
      /\ outs = [n \in Nodes |-> yields(n)] /\ kernels = [n \in Nodes |-> <<n>>]
      /\ active = Range(OrderedOps)
      /\ phase = "extract" /\ visited = {} /\ groups = <<>> /\ index = 1
      /\ wave = [i \in DOMAIN first |-> <<first[i]>>]
  <2>1. given \in Graphs /\ \A g \in Graphs : IsGraph(g)
    BY FusionAssumption DEF Init
  <2>2. IsGraph(given)
    BY <2>1
  <2>3. QED
    BY <2>2 DEF Init
<1>2. /\ IsFiniteSet(edges) /\ given.fusable \subseteq Nodes
      /\ \A n \in Nodes : given.outputs[n] \in Nat
      /\ \A e \in edges :
           /\ e \in [src : Nodes, out : Nat, dst : Nodes, in : Nat]
           /\ e.src \in Nodes /\ e.dst \in Nodes /\ e.out \in Nat /\ e.in \in Nat
           /\ e.out \in {Control} \cup 1 .. given.outputs[e.src]
           /\ e.out = Control <=> e.in = Control
  <2>1. edges = given.edges
    BY <1>1
  <2>2. QED
    BY <1>1, <2>1, GivenEdges
<1>3. Nodes \subseteq Nat /\ IsFiniteSet(Nodes) /\ Nodes \subseteq Int
  BY FusionAssumption
<1>4. ASSUME NEW n \in Nodes
      PROVE  /\ count(n) \in Nat /\ reads(n) \in Seq(Tensors) /\ DOMAIN reads(n) = 1 .. count(n)
             /\ \A e \in edges : e.dst = n /\ e.in # Control => e.in \in 1 .. count(n)
             /\ \A i \in 1 .. count(n) : \E e \in edges :
                  /\ e.dst = n /\ e.in = i /\ e.in # Control /\ reads(n)[i] = <<e.src, e.out>>
                  /\ \A d \in edges : d.dst = n /\ d.in = i => d = e
  <2> DEFINE D == DataInto(given, n)
             c == count(n)
  <2>1. /\ c \in Nat /\ \A e \in D : e.in \in 1 .. c
        /\ \A i \in 1 .. c : \E e \in D : e.in = i
        /\ \A d, e \in D : d.in = e.in => d = e
    BY <1>1, InputsNumbered
  <2>2. \A e : e \in D <=> e \in edges /\ e.dst = n /\ e.in # Control
    BY <1>1 DEF DataInto
  <2>3. reads(n) = [i \in 1 .. c |-> <<(CHOOSE e \in D : e.in = i).src,
                                        (CHOOSE e \in D : e.in = i).out>>]
    OBVIOUS
  <2> HIDE DEF D, c, reads, count
  <2>4. \A i \in 1 .. c : i # Control
    BY DEF Control
  <2>5. ASSUME NEW i \in 1 .. c
        PROVE  \E e \in edges :
                 /\ e.dst = n /\ e.in = i /\ e.in # Control /\ reads(n)[i] = <<e.src, e.out>>
                 /\ \A d \in edges : d.dst = n /\ d.in = i => d = e
    <3> DEFINE e == CHOOSE x \in D : x.in = i
    <3>1. \E x \in D : x.in = i
      BY <2>1
    <3>2. e \in D /\ e.in = i
      BY <3>1
    <3>3. reads(n)[i] = <<e.src, e.out>>
      BY <2>3
    <3> HIDE DEF e
    <3>4. e \in edges /\ e.dst = n /\ e.in # Control
      BY <2>2, <3>2
    <3>5. ASSUME NEW d \in edges, d.dst = n, d.in = i
          PROVE  d = e
      <4>1. d \in D
        BY <2>2, <2>4, <3>5
      <4>2. QED
        BY <2>1, <3>2, <3>5, <4>1
    <3>6. QED
      BY <3>2, <3>3, <3>4, <3>5
  <2>6. \A i \in 1 .. c : reads(n)[i] \in Tensors
    BY <1>2, <2>5 DEF Tensors
  <2>7. reads(n) = [i \in 1 .. c |-> reads(n)[i]] /\ DOMAIN reads(n) = 1 .. c
    BY <2>3
  <2>8. reads(n) \in Seq(Tensors)
    BY <2>1, <2>6, <2>7
  <2>9. QED
    BY <2>1, <2>2, <2>5, <2>7, <2>8 DEF c
<1>5. active \subseteq Nodes
  <2>1. OrderedOps = OpsInOrder(Nodes, given.edges, Outputs)
    BY <1>1 DEF OrderedOps
  <2>2. Outputs \subseteq Nodes
    BY DEF Outputs
  <2>3. OrderedOps \in Seq(Nodes)
    BY <1>1, <2>1, <2>2, OrderOfGiven
  <2>4. QED
    BY <1>1, <2>3 DEF Range
<1>6. /\ wave \in Seq(Seq(Nodes))
      /\ IsInjective(Waiting) /\ Range(Waiting) = S
  <2> DEFINE c == Cardinality(S)
  <2>1. S \subseteq Nodes /\ S \subseteq Int /\ IsFiniteSet(S)
    <3>1. S \subseteq Nodes
      OBVIOUS
    <3> HIDE DEF S
    <3>2. QED
      BY <1>3, <3>1, FS_Subset
  <2> HIDE DEF S
  <2>2. /\ c \in Nat /\ first \in [1 .. c -> S]
        /\ \A i, j \in 1 .. c : i < j <=> first[i] < first[j]
        /\ \A x \in S : \E i \in 1 .. c : first[i] = x
    BY <2>1, AscendingOrder
  <2> HIDE DEF c, first
  <2>3. \A i, j \in 1 .. c : i # j => first[i] # first[j]
    <3> SUFFICES ASSUME NEW i \in 1 .. c, NEW j \in 1 .. c, i # j
                 PROVE  first[i] # first[j]
      OBVIOUS
    <3>1. first[i] \in Int /\ first[j] \in Int
      BY <2>1, <2>2
    <3>2. i < j \/ j < i
      BY <2>2
    <3>3. QED
      BY <2>2, <3>1, <3>2
  <2>4. DOMAIN first = 1 .. c
    BY <2>2
  <2>5. DOMAIN wave = 1 .. c /\ (\A i \in 1 .. c : wave[i] = <<first[i]>>)
        /\ IsList(wave, c)
    BY <1>1, <2>4 DEF IsList
  <2>6. /\ wave \in Seq(Seq(Nodes))
        /\ IsInjective(FlattenSeq(wave)) /\ Range(FlattenSeq(wave)) = S
    <3>1. S \subseteq Nodes /\ c \in Nat /\ first \in [1 .. c -> S]
      BY <2>1, <2>2
    <3>2. \A x \in S : \E i \in 1 .. c : first[i] = x
      BY <2>2
    <3>3. IsList(wave, c)
      BY <2>5
    <3>4. \A i \in 1 .. c : wave[i] = <<first[i]>>
      BY <2>5
    <3>5. wave \in Seq(Seq(Nodes))
      BY <2>3, <3>1, <3>2, <3>3, <3>4, OneEach
    <3>6. IsInjective(FlattenSeq(wave))
      BY <2>3, <3>1, <3>2, <3>3, <3>4, OneEach
    <3>7. Range(FlattenSeq(wave)) = S
      BY <2>3, <3>1, <3>2, <3>3, <3>4, OneEach
    <3>8. QED
      BY <3>5, <3>6, <3>7
  <2>7. QED
    BY <2>6 DEF Waiting
<1> HIDE DEF S, first, count, at, reads, yields
<1>7. /\ DOMAIN ins = Nodes /\ \A n \in Nodes : ins[n] = reads(n)
  BY <1>1
<1>8. /\ DOMAIN outs = Nodes /\ DOMAIN kernels = Nodes
      /\ \A n \in Nodes : outs[n] = yields(n)
  BY <1>1
<1>9. ASSUME NEW n \in Nodes
      PROVE  /\ yields(n) \in Seq(Tensors) /\ DOMAIN yields(n) = 1 .. given.outputs[n]
             /\ \A k \in 1 .. given.outputs[n] : yields(n)[k] = <<n, k>>
  <2> DEFINE m == given.outputs[n]
  <2>1. m \in Nat
    BY <1>2
  <2>2. yields(n) = [k \in 1 .. m |-> <<n, k>>]
    BY DEF yields
  <2> HIDE DEF m
  <2>3. \A k \in 1 .. m : <<n, k>> \in Tensors
    BY <2>1 DEF Tensors
  <2>4. yields(n) \in Seq(Tensors)
    BY <2>1, <2>2, <2>3
  <2>5. QED
    BY <2>2, <2>4 DEF m
<1>10. \A e \in edges : /\ e.out \in {Control} \cup DOMAIN outs[e.src]
                        /\ e.in \in {Control} \cup DOMAIN ins[e.dst]
  <2> TAKE e \in edges
  <2>1. e.src \in Nodes /\ e.dst \in Nodes /\ e.out \in {Control} \cup 1 .. given.outputs[e.src]
    BY <1>2
  <2>2. DOMAIN outs[e.src] = 1 .. given.outputs[e.src]
    BY <1>8, <1>9, <2>1
  <2>3. e.in \in {Control} \cup DOMAIN ins[e.dst]
    BY <1>4, <1>7, <2>1
  <2>4. QED
    BY <2>1, <2>2, <2>3
<1>11. TypeOK
  <2>1. \A k \in DOMAIN wave : Range(wave[k]) \subseteq Nodes
    <3> TAKE k \in DOMAIN wave
    <3>1. wave[k] \in Seq(Nodes)
      BY <1>6
    <3>2. QED
      BY <3>1 DEF Range
  <2>2. DOMAIN ins = nodes /\ DOMAIN outs = nodes /\ DOMAIN kernels = nodes
    BY <1>1, <1>7, <1>8
  <2>3. \A k \in DOMAIN groups : groups[k].merge \in BOOLEAN /\ KernelsOf(groups[k]) # <<>>
    BY <1>1
  <2>4. QED
    BY <1>1, <1>2, <1>3, <1>5, <1>10, <2>1, <2>2, <2>3 DEF TypeOK
<1>12. Shapes
  <2>1. ins \in [nodes -> Seq(Tensors)]
    <3>1. ins = [n \in Nodes |-> ins[n]]
      BY <1>1
    <3>2. \A n \in Nodes : ins[n] \in Seq(Tensors)
      BY <1>4, <1>7
    <3>3. QED
      BY <1>1, <3>1, <3>2
  <2>2. outs \in [nodes -> Seq(Tensors)]
    <3>1. outs = [n \in Nodes |-> outs[n]]
      BY <1>1
    <3>2. \A n \in Nodes : outs[n] \in Seq(Tensors)
      BY <1>8, <1>9
    <3>3. QED
      BY <1>1, <3>1, <3>2
  <2>3. groups \in Seq([merge : BOOLEAN, parts : Seq(Seq(Nodes))])
    BY <1>1
  <2>4. \A e \in edges : /\ e \in [src : nodes, out : Nat, dst : nodes, in : Nat]
                         /\ e.out = Control <=> e.in = Control
    BY <1>1, <1>2
  <2>5. QED
    BY <1>2, <1>6, <2>1, <2>2, <2>3, <2>4 DEF Shapes
<1>13. GraphAndPhase
  BY <1>1 DEF GraphAndPhase
<1>14. WaveIsReady
  <2>1. ASSUME NEW e \in given.edges, e.dst \in visited \cup Range(Waiting)
        PROVE  e.src \in visited
    <3>1. e.dst \in S
      BY <1>1, <1>6, <2>1
    <3>2. SourcesOf({e.dst}) = {}
      BY <3>1 DEF S
    <3>3. e.src \in SourcesOf({e.dst})
      BY <1>1 DEF SourcesOf
    <3>4. QED
      BY <3>2, <3>3
  <2>2. Range(Waiting) \cap visited = {}
    BY <1>1
  <2>3. QED
    BY <1>1, <1>6, <2>1, <2>2 DEF WaveIsReady
<1>15. GroupsSoFar
  <2>1. Grouped = <<>>
    <3>1. [k \in DOMAIN groups |-> KernelsOf(groups[k])] = <<>>
      BY <1>1
    <3>2. QED
      BY <3>1, FlattenEmpty DEF Grouped
  <2>2. DOMAIN <<>> = {}
    OBVIOUS
  <2>3. IsInjective(<<>>) /\ Range(<<>>) = {}
    BY <2>2 DEF IsInjective, Range
  <2>4. {n \in visited : Verified(n)} = {}
    BY <1>1
  <2>5. QED
    BY <2>1, <2>2, <2>3, <2>4 DEF GroupsSoFar
<1>16. OperandsKept
  <2> SUFFICES ASSUME NEW n \in nodes, NEW i \in DOMAIN ins[n]
               PROVE  \E e \in edges :
                        /\ e.dst = n /\ e.in = i /\ e.out \in DOMAIN outs[e.src]
                        /\ outs[e.src][e.out] = ins[n][i]
                        /\ \A d \in edges : d.dst = n /\ d.in = i => d = e
    BY DEF OperandsKept
  <2>6. n \in Nodes
    BY <1>1
  <2>7. i \in 1 .. count(n)
    BY <1>4, <1>7, <2>6
  <2>1. PICK e \in edges : /\ e.dst = n /\ e.in = i /\ e.in # Control /\ reads(n)[i] = <<e.src, e.out>>
                           /\ \A d \in edges : d.dst = n /\ d.in = i => d = e
    BY <1>4, <2>6, <2>7
  <2>2. e.src \in Nodes /\ e.out \in 1 .. given.outputs[e.src]
    BY <1>2, <2>1
  <2>3. e.out \in DOMAIN outs[e.src] /\ outs[e.src][e.out] = <<e.src, e.out>>
    BY <1>8, <1>9, <2>2
  <2>4. ins[n][i] = <<e.src, e.out>>
    BY <1>7, <2>1, <2>6
  <2>5. QED
    BY <2>1, <2>3, <2>4
<1>17. QED
  BY <1>11, <1>12, <1>13, <1>14, <1>15, <1>16 DEF IInv

(***************************************************************************)
(* The theorems.                                                           *)
(***************************************************************************)

LEMMA StutterKeeps ==
  ASSUME IInv, UNCHANGED vars
  PROVE  IInv'
<1>1. /\ given' = given /\ active' = active /\ visited' = visited /\ wave' = wave
      /\ nodes' = nodes /\ edges' = edges /\ ins' = ins /\ outs' = outs /\ kernels' = kernels
      /\ phase' = phase /\ groups' = groups /\ index' = index
  BY DEF vars, fixedVars, graphVars, waveVars
<1>2. /\ TypeOK /\ Shapes /\ GraphAndPhase /\ WaveIsReady /\ GroupsSoFar /\ OperandsKept
  BY DEF IInv
<1>3. TypeOK'
  BY <1>1, <1>2 DEF TypeOK
<1>4. Shapes' /\ GraphAndPhase' /\ OperandsKept'
  BY <1>1, <1>2 DEF Shapes, GraphAndPhase, OperandsKept
<1>5. WaveIsReady' /\ GroupsSoFar'
  BY <1>1, <1>2 DEF WaveIsReady, Waiting, GroupsSoFar, Grouped, Verified
<1>6. QED
  BY <1>3, <1>4, <1>5 DEF IInv

(* Between any two steps the invariant is true: whatever the graph, the    *)
(* limit of a group and the choices of the profiler are.                   *)
THEOREM AlwaysIInv == Spec => []IInv
<1>1. Init => IInv
  BY InitIInv
<1>2. IInv /\ [Next]_vars => IInv'
  <2> SUFFICES ASSUME IInv, [Next]_vars
               PROVE  IInv'
    OBVIOUS
  <2>1. CASE ExtractWave
    BY <2>1, ExtractKeeps
  <2>2. CASE StartSplitting
    BY <2>2, StartKeeps
  <2>3. CASE SplitGroup
    BY <2>3, SplitKeeps
  <2>4. CASE \E level \in Levels : EndSplitting(level)
    BY <2>4, EndSplittingKeeps
  <2>5. CASE MergeGroups
    BY <2>5, MergeKeeps
  <2>6. CASE EndMerging
    BY <2>6, EndMergingKeeps
  <2>7. CASE SkipGroup
    BY <2>7, SkipKeeps
  <2>8. CASE FuseGroup
    BY <2>8, FuseKeeps
  <2>9. CASE UNCHANGED vars
    BY <2>9, StutterKeeps
  <2>10. QED
    BY <2>1, <2>2, <2>3, <2>4, <2>5, <2>6, <2>7, <2>8, <2>9 DEF Next
<1>3. QED
  BY <1>1, <1>2, PTL DEF Spec

(* The values of the variables are those that the steps may give them:     *)
(* every edge joins two nodes of the graph at slots that they have.        *)
THEOREM WavefrontTypes == Spec => []TypeOK
<1>1. IInv => TypeOK
  BY DEF IInv
<1>2. QED
  BY <1>1, AlwaysIInv, PTL

(* Once ExtractFusionGroups is done, the groups have every kernel that can *)
(* be fused once, and no kernel before one that it depends on; SplitGroup  *)
(* and MergeGroups keep it so.                                             *)
THEOREM GroupsAreInOrder == Spec => []GroupsInOrder
<1>1. IInv => GroupsInOrder
  BY DEF IInv, WaveIsReady, GroupsSoFar, GroupsInOrder
<1>2. QED
  BY <1>1, AlwaysIInv, PTL

(* Whatever FuseGroupOnGraph has replaced by now, each input of each node  *)
(* has one edge, from an output that is the tensor the input was made to   *)
(* read.                                                                   *)
THEOREM OperandsAreKept == Spec => []OperandsKept
<1>1. IInv => OperandsKept
  BY DEF IInv
<1>2. QED
  BY <1>1, AlwaysIInv, PTL

(***************************************************************************)
(* The program of the fused graph: where the paths from a group lead.      *)
(***************************************************************************)

LEMMA KernelSets ==
  ASSUME NEW gs \in Seq(GroupType)
  PROVE  /\ \A k \in DOMAIN gs : KernelSet(gs, k) \subseteq Nodes
         /\ \A x : x \in Range(GroupedOf(gs)) <=> \E k \in DOMAIN gs : x \in KernelSet(gs, k)
         /\ IsInjective(GroupedOf(gs)) =>
              /\ \A k \in DOMAIN gs : IsInjective(KernelsOf(gs[k]))
              /\ \A j, k \in DOMAIN gs : j # k => KernelSet(gs, j) \cap KernelSet(gs, k) = {}
<1> DEFINE s == [k \in DOMAIN gs |-> KernelsOf(gs[k])]
<1>1. s \in Seq(Seq(Nodes)) /\ GroupedOf(gs) = FlattenSeq(s)
  BY GroupedType DEF GroupedOf
<1>2. DOMAIN s = DOMAIN gs /\ \A k \in DOMAIN gs : s[k] = KernelsOf(gs[k])
  OBVIOUS
<1> HIDE DEF s
<1>3. \A k \in DOMAIN gs : KernelSet(gs, k) = Range(s[k]) /\ s[k] \in Seq(Nodes)
  BY <1>1, <1>2 DEF KernelSet
<1>4. \A k \in DOMAIN gs : KernelSet(gs, k) \subseteq Nodes
  BY <1>3, RangeOfSeq
<1>5. \A x : x \in Range(FlattenSeq(s)) <=> \E k \in DOMAIN s : x \in Range(s[k])
  BY <1>1, FlattenRange
<1>6. IsInjective(FlattenSeq(s)) =>
        /\ \A k \in DOMAIN s : IsInjective(s[k])
        /\ \A k, l \in DOMAIN s : k # l => Range(s[k]) \cap Range(s[l]) = {}
  BY <1>1, FlattenInjective
<1>7. QED
  BY <1>1, <1>2, <1>3, <1>4, <1>5, <1>6

(* Reached is what the name says: each step of it goes on, or all that can *)
(* be reached is there already, so as many steps as there are nodes do.    *)
LEMMA ReachedClosed ==
  ASSUME IsFiniteSet(nodes), \A e \in edges : e.src \in nodes /\ e.dst \in nodes,
         NEW ns \in SUBSET nodes
  PROVE  /\ ns \subseteq Reached(ns) /\ Reached(ns) \subseteq nodes
         /\ \A e \in edges : e.src \in Reached(ns) => e.dst \in Reached(ns)
         /\ \A U : ns \subseteq U /\ (\A e \in edges : e.src \in U => e.dst \in U) =>
              Reached(ns) \subseteq U
<1> DEFINE n == Cardinality(nodes)
           More(A) == A \cup ReadersOf(A)
           W == SUBSET nodes
           step == [k \in Nat |-> [A \in W |-> More(A)]]
           reach == CHOOSE f : f = [k \in 0 .. n |-> IF k = 0 THEN ns ELSE More(f[k - 1])]
           Closed(A) == \A e \in edges : e.src \in A => e.dst \in A
<1>1. Reached(ns) = reach[n]
  BY DEF Reached
<1>2. n \in Nat
  BY FS_CardinalityType
<1>3. \A A \in W : More(A) \in W
  BY DEF ReadersOf
<1>4. step \in [Nat -> [W -> W]] /\ \A k \in Nat : \A A \in W : step[k][A] = More(A)
  BY <1>3
<1>5. /\ \A A : A \subseteq More(A)
      /\ \A A : (\A e \in edges : e.src \in A => e.dst \in More(A))
      /\ \A A : More(A) = A => Closed(A)
      /\ \A A : Closed(A) => More(A) = A
      /\ \A A, U : A \subseteq U /\ Closed(U) => More(A) \subseteq U
  BY DEF ReadersOf
<1>6. ns \in W
  OBVIOUS
<1> HIDE DEF n, More, step, W
<1>7. PICK f \in [0 .. n -> W] : StepsOn(f, ns, step, n)
  BY <1>2, <1>4, <1>6, StepsExist
<1>8. f = [k \in 0 .. n |-> IF k = 0 THEN ns ELSE More(f[k - 1])]
  <2>1. f = [k \in 0 .. n |-> IF k = 0 THEN ns ELSE step[k][f[k - 1]]]
    BY <1>7 DEF StepsOn
  <2>2. ASSUME NEW k \in 0 .. n, k # 0 PROVE step[k][f[k - 1]] = More(f[k - 1])
    <3>1. k \in Nat /\ k - 1 \in 0 .. n
      BY <1>2, <2>2
    <3>2. f[k - 1] \in W
      BY <1>7, <3>1
    <3>3. QED
      BY <1>4, <3>1, <3>2
  <2>3. QED
    BY <2>1, <2>2
<1>9. reach = [k \in 0 .. n |-> IF k = 0 THEN ns ELSE More(reach[k - 1])]
  BY <1>8
<1> HIDE DEF reach
<1>10. /\ reach[0] = ns
       /\ \A k \in Nat : k + 1 <= n => reach[k + 1] = More(reach[k])
  <2>1. 0 \in 0 .. n
    BY <1>2
  <2>2. ASSUME NEW k \in Nat, k + 1 <= n PROVE reach[k + 1] = More(reach[k])
    <3>1. k + 1 \in 0 .. n /\ k + 1 # 0 /\ (k + 1) - 1 = k
      BY <1>2, <2>2
    <3>2. QED
      BY <1>9, <3>1
  <2>3. reach[0] = ns
    BY <1>9, <2>1
  <2>4. QED
    BY <2>2, <2>3
<1> DEFINE K == {k \in Nat : k <= n =>
                   /\ reach[k] \in W /\ ns \subseteq reach[k]
                   /\ \A U : ns \subseteq U /\ Closed(U) => reach[k] \subseteq U
                   /\ Closed(reach[k]) \/ Cardinality(reach[k]) >= k}
<1>11. 0 \in K
  <2>1. IsFiniteSet(ns)
    BY FS_Subset
  <2>2. Cardinality(ns) >= 0
    BY <2>1, FS_CardinalityType
  <2>3. QED
    BY <1>6, <1>10, <2>2
<1>12. ASSUME NEW k \in Nat, k \in K PROVE k + 1 \in K
  <2> SUFFICES ASSUME k + 1 <= n
               PROVE  /\ reach[k + 1] \in W /\ ns \subseteq reach[k + 1]
                      /\ \A U : ns \subseteq U /\ Closed(U) => reach[k + 1] \subseteq U
                      /\ Closed(reach[k + 1]) \/ Cardinality(reach[k + 1]) >= k + 1
    OBVIOUS
  <2> DEFINE A == reach[k]
             B == reach[k + 1]
  <2>1. k <= n
    BY <1>2
  <2>2. /\ A \in W /\ ns \subseteq A
        /\ \A U : ns \subseteq U /\ Closed(U) => A \subseteq U
        /\ Closed(A) \/ Cardinality(A) >= k
    BY <1>12, <2>1
  <2>3. B = More(A)
    BY <1>10
  <2> HIDE DEF A, B, Closed
  <2>4. B \in W /\ A \subseteq B
    BY <1>3, <1>5, <2>2, <2>3
  <2>5. ASSUME NEW U, ns \subseteq U, Closed(U) PROVE B \subseteq U
    BY <1>5, <2>2, <2>3, <2>5
  <2>6. Closed(B) \/ Cardinality(B) >= k + 1
    <3>1. CASE B = A
      BY <1>5, <2>3, <3>1
    <3>2. CASE B # A
      <4>1. ~ Closed(A)
        BY <1>5, <2>3, <3>2
      <4>2. Cardinality(A) >= k
        BY <2>2, <4>1
      <4>3. IsFiniteSet(B)
        BY <2>4, FS_Subset DEF W
      <4>4. Cardinality(A) <= Cardinality(B) /\ Cardinality(B) # Cardinality(A)
            /\ IsFiniteSet(A)
        BY <2>4, <3>2, <4>3, FS_Subset
      <4>5. Cardinality(A) \in Nat /\ Cardinality(B) \in Nat
        BY <4>3, <4>4, FS_CardinalityType
      <4>6. QED
        BY <4>2, <4>4, <4>5
    <3>3. QED
      BY <3>1, <3>2
  <2>7. QED
    BY <2>2, <2>4, <2>5, <2>6 DEF A, B
<1>13. Nat \subseteq K
  <2> HIDE DEF K
  <2>1. QED
    BY <1>11, <1>12, EveryNumber
<1>14. /\ reach[n] \in W /\ ns \subseteq reach[n]
       /\ \A U : ns \subseteq U /\ Closed(U) => reach[n] \subseteq U
       /\ Closed(reach[n]) \/ Cardinality(reach[n]) >= n
  <2>1. n <= n
    BY <1>2
  <2>2. QED
    BY <1>2, <1>13, <2>1
<1>15. Closed(reach[n])
  <2>1. CASE Cardinality(reach[n]) >= n
    <3>1. reach[n] \subseteq nodes
      BY <1>14 DEF W
    <3>2. Cardinality(reach[n]) <= n /\ Cardinality(reach[n]) \in Nat
      <4>1. IsFiniteSet(reach[n])
        BY <3>1, FS_Subset
      <4>2. QED
        BY <3>1, <4>1, FS_Subset, FS_CardinalityType DEF n
    <3>3. reach[n] = nodes
      <4>1. Cardinality(nodes) = Cardinality(reach[n])
        BY <1>2, <2>1, <3>2 DEF n
      <4>2. QED
        BY <3>1, <4>1, FS_Subset
    <3>4. QED
      BY <3>3
  <2>2. QED
    BY <1>14, <2>1
<1>16. QED
  BY <1>1, <1>14, <1>15 DEF W

LEMMA InThreePlaces ==
  ASSUME NEW T, NEW a \in Seq(T), NEW b \in Seq(T), NEW c \in Seq(T)
  PROVE  /\ DOMAIN (a \o b \o c) = 1 .. Len(a) + Len(b) + Len(c)
         /\ \A i \in 1 .. Len(a) : (a \o b \o c)[i] = a[i]
         /\ \A i \in 1 .. Len(b) : (a \o b \o c)[Len(a) + i] = b[i]
         /\ \A i \in 1 .. Len(c) : (a \o b \o c)[Len(a) + Len(b) + i] = c[i]
<1> DEFINE d == a \o b
           s == d \o c
<1>0. d \in Seq(T)
  OBVIOUS
<1>1. /\ Len(a) \in Nat /\ Len(b) \in Nat /\ Len(c) \in Nat
      /\ Len(d) = Len(a) + Len(b)
      /\ \A i \in 1 .. Len(a) + Len(b) : d[i] = IF i <= Len(a) THEN a[i] ELSE b[i - Len(a)]
  OBVIOUS
<1> HIDE DEF d
<1>2. /\ DOMAIN s = 1 .. Len(d) + Len(c)
      /\ \A i \in 1 .. Len(d) + Len(c) : s[i] = IF i <= Len(d) THEN d[i] ELSE c[i - Len(d)]
  BY <1>0
<1> HIDE DEF s
<1>3. ASSUME NEW i \in 1 .. Len(a) PROVE s[i] = a[i]
  BY <1>1, <1>2, <1>3
<1>4. ASSUME NEW i \in 1 .. Len(b) PROVE s[Len(a) + i] = b[i]
  <2>1. /\ Len(a) + i \in 1 .. Len(a) + Len(b) /\ ~ (Len(a) + i <= Len(a))
        /\ (Len(a) + i) - Len(a) = i /\ Len(a) + i <= Len(d)
        /\ Len(a) + i \in 1 .. Len(d) + Len(c)
    BY <1>1, <1>4
  <2>2. QED
    BY <1>1, <1>2, <2>1
<1>5. ASSUME NEW i \in 1 .. Len(c) PROVE s[Len(a) + Len(b) + i] = c[i]
  <2>1. /\ ~ (Len(a) + Len(b) + i <= Len(d)) /\ (Len(a) + Len(b) + i) - Len(d) = i
        /\ Len(a) + Len(b) + i \in 1 .. Len(d) + Len(c)
    BY <1>1, <1>5
  <2>2. QED
    BY <1>2, <2>1
<1>6. DOMAIN s = 1 .. Len(a) + Len(b) + Len(c)
  BY <1>1, <1>2
<1>7. QED
  BY <1>3, <1>4, <1>5, <1>6 DEF s, d

(* What has to be shown of groups that take the place of others, to which  *)
(* they give no more nodes: nothing changes for the groups around them.    *)
TakesPlace(d, b, es, a, joined) ==
  \A i \in DOMAIN d :
    /\ KernelSet(d, i) \subseteq Range(GroupedOf(b))
    /\ \E after \in SUBSET Nodes :
         /\ \A e \in es : e.src \in after => e.dst \in after
         /\ \A e \in es : e.src \in KernelSet(d, i) =>
              e.dst \in after \/ (joined /\ e.dst \in KernelSet(d, i))
         /\ \A j \in DOMAIN a : KernelSet(a, j) \cap after = {}
         /\ Range(GroupedOf(b)) \cap after = {}

LEMMA OthersGoOn ==
  ASSUME NEW a \in Seq(GroupType), NEW b \in Seq(GroupType), NEW c \in Seq(GroupType),
         NEW d \in Seq(GroupType), NEW es, NEW joined,
         AllGoOn(es, a \o b \o c, joined), TakesPlace(d, b, es, a, joined)
  PROVE  AllGoOn(es, a \o d \o c, joined)
<1> DEFINE s == a \o b \o c
           t == a \o d \o c
           A == Len(a)
           B == Len(b)
           C == Len(c)
           D == Len(d)
<1>1. /\ A \in Nat /\ B \in Nat /\ C \in Nat /\ D \in Nat
      /\ DOMAIN a = 1 .. A /\ DOMAIN b = 1 .. B /\ DOMAIN c = 1 .. C /\ DOMAIN d = 1 .. D
  OBVIOUS
<1>2. /\ DOMAIN s = 1 .. A + B + C
      /\ \A i \in 1 .. A : s[i] = a[i]
      /\ \A i \in 1 .. B : s[A + i] = b[i]
      /\ \A i \in 1 .. C : s[A + B + i] = c[i]
  BY InThreePlaces
<1>3. /\ DOMAIN t = 1 .. A + D + C
      /\ \A i \in 1 .. A : t[i] = a[i]
      /\ \A i \in 1 .. D : t[A + i] = d[i]
      /\ \A i \in 1 .. C : t[A + D + i] = c[i]
  BY InThreePlaces
<1>4. \A x : x \in Range(GroupedOf(b)) <=> \E i \in 1 .. B : x \in KernelSet(b, i)
  BY <1>1, KernelSets
<1>5. AllGoOn(es, s, joined)
  OBVIOUS
<1> HIDE DEF s, t, A, B, C, D
<1>6. /\ \A i \in 1 .. A : KernelSet(s, i) = KernelSet(a, i) /\ KernelSet(t, i) = KernelSet(a, i)
      /\ \A i \in 1 .. B : KernelSet(s, A + i) = KernelSet(b, i)
      /\ \A i \in 1 .. D : KernelSet(t, A + i) = KernelSet(d, i)
      /\ \A i \in 1 .. C : KernelSet(s, A + B + i) = KernelSet(c, i)
      /\ \A i \in 1 .. C : KernelSet(t, A + D + i) = KernelSet(c, i)
  BY <1>2, <1>3 DEF KernelSet
<1>7. \A k \in 1 .. A + D + C :
        \/ k \in 1 .. A
        \/ \E i \in 1 .. D : k = A + i
        \/ \E i \in 1 .. C : k = A + D + i
  <2> TAKE k \in 1 .. A + D + C
  <2>1. \/ k \in 1 .. A
        \/ k - A \in 1 .. D /\ k = A + (k - A)
        \/ k - A - D \in 1 .. C /\ k = A + D + (k - A - D)
    BY <1>1
  <2>2. QED
    BY <2>1
<1>8. ASSUME NEW k \in 1 .. A
      PROVE  \E after \in SUBSET Nodes : GoesOnIn(after, es, t, k, joined)
  <2>1. k \in DOMAIN s
    BY <1>1, <1>2
  <2>2. PICK after \in SUBSET Nodes : GoesOnIn(after, es, s, k, joined)
    BY <1>5, <2>1 DEF AllGoOn
  <2>3. ASSUME NEW j \in 1 .. k PROVE KernelSet(t, j) = KernelSet(s, j)
    <3>1. j \in 1 .. A
      BY <1>1
    <3>2. KernelSet(t, j) = KernelSet(a, j) /\ KernelSet(s, j) = KernelSet(a, j)
      BY <1>6, <3>1
    <3>3. QED
      BY <3>2
  <2>4. k \in 1 .. k
    BY <1>1
  <2>5. GoesOnIn(after, es, t, k, joined)
    BY <2>2, <2>3, <2>4 DEF GoesOnIn
  <2>6. QED
    BY <2>5
<1>9. ASSUME NEW i \in 1 .. D
      PROVE  \E after \in SUBSET Nodes : GoesOnIn(after, es, t, A + i, joined)
  <2>1. PICK after \in SUBSET Nodes :
          /\ \A e \in es : e.src \in after => e.dst \in after
          /\ \A e \in es : e.src \in KernelSet(d, i) =>
               e.dst \in after \/ (joined /\ e.dst \in KernelSet(d, i))
          /\ \A j \in DOMAIN a : KernelSet(a, j) \cap after = {}
          /\ Range(GroupedOf(b)) \cap after = {}
    BY <1>1 DEF TakesPlace
  <2>2. ASSUME NEW j \in 1 .. A + i PROVE KernelSet(t, j) \cap after = {}
    <3>1. CASE j \in 1 .. A
      BY <1>1, <1>6, <2>1, <3>1
    <3>2. CASE j \notin 1 .. A
      <4>1. j - A \in 1 .. D /\ j = A + (j - A)
        BY <1>1, <1>9, <2>2, <3>2
      <4>2. KernelSet(t, j) = KernelSet(d, j - A)
        BY <1>6, <4>1
      <4>3. KernelSet(d, j - A) \subseteq Range(GroupedOf(b))
        BY <1>1, <4>1 DEF TakesPlace
      <4>4. QED
        BY <2>1, <4>2, <4>3
    <3>3. QED
      BY <3>1, <3>2
  <2>3. KernelSet(t, A + i) = KernelSet(d, i)
    BY <1>6
  <2>4. GoesOnIn(after, es, t, A + i, joined)
    BY <2>1, <2>2, <2>3 DEF GoesOnIn
  <2>5. QED
    BY <2>4
<1>10. ASSUME NEW i \in 1 .. C
       PROVE  \E after \in SUBSET Nodes : GoesOnIn(after, es, t, A + D + i, joined)
  <2>1. A + B + i \in DOMAIN s
    BY <1>1, <1>2
  <2>2. PICK after \in SUBSET Nodes : GoesOnIn(after, es, s, A + B + i, joined)
    BY <1>5, <2>1 DEF AllGoOn
  <2>3. KernelSet(t, A + D + i) = KernelSet(c, i) /\ KernelSet(s, A + B + i) = KernelSet(c, i)
    BY <1>6
  <2>4. \A j \in 1 .. A + B + i : KernelSet(s, j) \cap after = {}
    BY <2>2 DEF GoesOnIn
  <2>5. Range(GroupedOf(b)) \cap after = {}
    <3>1. \A j \in 1 .. B : KernelSet(b, j) \cap after = {}
      <4> TAKE j \in 1 .. B
      <4>1. A + j \in 1 .. A + B + i
        BY <1>1
      <4>2. QED
        BY <1>6, <2>4, <4>1
    <3>2. QED
      BY <1>4, <3>1
  <2>6. ASSUME NEW j \in 1 .. A + D + i PROVE KernelSet(t, j) \cap after = {}
    <3>1. CASE j \in 1 .. A
      <4>1. j \in 1 .. A + B + i
        BY <1>1, <3>1
      <4>2. QED
        BY <1>6, <2>4, <3>1, <4>1
    <3>2. ASSUME NEW l \in 1 .. D, j = A + l PROVE KernelSet(t, j) \cap after = {}
      <4>1. KernelSet(t, j) = KernelSet(d, l)
        BY <1>6, <3>2
      <4>2. KernelSet(d, l) \subseteq Range(GroupedOf(b))
        BY <1>1 DEF TakesPlace
      <4>3. QED
        BY <2>5, <4>1, <4>2
    <3>3. ASSUME NEW l \in 1 .. C, j = A + D + l PROVE KernelSet(t, j) \cap after = {}
      <4>1. A + B + l \in 1 .. A + B + i
        BY <1>1, <2>6, <3>3
      <4>2. KernelSet(t, j) = KernelSet(s, A + B + l)
        BY <1>6, <3>3
      <4>3. QED
        BY <2>4, <4>1, <4>2
    <3>4. j \in 1 .. A + D + C
      BY <1>1, <2>6
    <3>5. QED
      BY <1>7, <3>1, <3>2, <3>3, <3>4
  <2>7. GoesOnIn(after, es, t, A + D + i, joined)
    BY <2>2, <2>3, <2>6 DEF GoesOnIn
  <2>8. QED
    BY <2>7
<1>11. \A k \in DOMAIN t : \E after \in SUBSET Nodes : GoesOnIn(after, es, t, k, joined)
  BY <1>3, <1>7, <1>8, <1>9, <1>10
<1>12. QED
  BY <1>11 DEF AllGoOn, t

LEMMA OneMoreGoesOn ==
  ASSUME NEW gs \in Seq(GroupType), NEW g \in GroupType, NEW es, NEW joined,
         AllGoOn(es, gs, joined),
         NEW after \in SUBSET Nodes,
         \A e \in es : e.src \in after => e.dst \in after,
         \A e \in es : e.src \in Range(KernelsOf(g)) => e.dst \in after,
         Range(GroupedOf(Append(gs, g))) \cap after = {}
  PROVE  AllGoOn(es, Append(gs, g), joined)
<1> DEFINE t == Append(gs, g)
           n == Len(gs)
<1>1. /\ n \in Nat /\ DOMAIN gs = 1 .. n /\ DOMAIN t = 1 .. n + 1 /\ t \in Seq(GroupType)
      /\ t[n + 1] = g /\ \A j \in 1 .. n : t[j] = gs[j]
  OBVIOUS
<1>2. Range(GroupedOf(t)) \cap after = {}
  OBVIOUS
<1> HIDE DEF t, n
<1>3. /\ \A j \in 1 .. n : KernelSet(t, j) = KernelSet(gs, j)
      /\ KernelSet(t, n + 1) = Range(KernelsOf(g))
  BY <1>1 DEF KernelSet
<1>4. ASSUME NEW k \in 1 .. n PROVE \E s \in SUBSET Nodes : GoesOnIn(s, es, t, k, joined)
  <2>1. PICK s \in SUBSET Nodes : GoesOnIn(s, es, gs, k, joined)
    BY <1>1 DEF AllGoOn
  <2>2. ASSUME NEW j \in 1 .. k PROVE KernelSet(t, j) = KernelSet(gs, j)
    <3>1. j \in 1 .. n
      BY <1>1
    <3>2. QED
      BY <1>3, <3>1
  <2>3. GoesOnIn(s, es, t, k, joined)
    BY <1>3, <2>1, <2>2 DEF GoesOnIn
  <2>4. QED
    BY <2>3
<1>5. GoesOnIn(after, es, t, n + 1, joined)
  <2>1. \A x : x \in Range(GroupedOf(t)) <=> \E k \in DOMAIN t : x \in KernelSet(t, k)
    BY <1>1, KernelSets
  <2>2. \A j \in 1 .. n + 1 : KernelSet(t, j) \cap after = {}
    BY <1>1, <1>2, <2>1
  <2>3. QED
    BY <1>3, <2>2 DEF GoesOnIn
<1>6. \A k \in DOMAIN t : k \in 1 .. n \/ k = n + 1
  BY <1>1
<1>7. AllGoOn(es, t, joined)
  BY <1>4, <1>5, <1>6 DEF AllGoOn
<1>8. QED
  BY <1>7 DEF t

LEMMA ExtractFollows ==
  ASSUME IInv, IInv', GroupsFollow, ExtractWave
  PROVE  GroupsFollow'
<1> DEFINE order == Waiting
           parts == NonEmpty([p \in DOMAIN wave |-> VerifiedOf(wave[p])])
           g == [merge |-> \A k \in DOMAIN order : Verified(order[k]), parts |-> parts]
           ks == FlattenSeq(parts)
<1>1. /\ TypeOK /\ Shapes /\ GraphAndPhase /\ WaveIsReady /\ phase = "extract"
      /\ visited' = visited \cup {order[k] : k \in DOMAIN order}
      /\ groups' = IF parts = <<>> THEN groups ELSE Append(groups, g)
      /\ UNCHANGED <<fixedVars, graphVars, phase, index>>
  BY DEF IInv, ExtractWave, Waiting
<1>2. /\ IsInjective(order) /\ Range(order) \cap visited = {}
      /\ \A e \in given.edges : e.dst \in visited \cup Range(order) => e.src \in visited
  BY <1>1 DEF WaveIsReady
<1>3. /\ parts \in Seq(Seq(Nodes))
      /\ \A n : n \in Range(ks) <=> n \in Range(order) /\ Verified(n)
  BY <1>1, <1>2, WaveGroup DEF Shapes
<1>4. g \in GroupType /\ KernelsOf(g) = ks
  BY <1>3 DEF GroupType, KernelsOf
<1>5. /\ given' = given /\ phase' = phase
      /\ visited' = visited \cup Range(order)
      /\ \A e \in given.edges : e.dst \in Nodes
  BY <1>1 DEF fixedVars, GraphAndPhase, TypeOK, Range
<1>6. groups \in Seq(GroupType) /\ groups' \in Seq(GroupType)
  BY DEF IInv, Shapes, GroupType
<1> HIDE DEF parts, g, ks, order
<1>7. AllGoOn(given.edges, groups, FALSE)
  BY <1>1 DEF GroupsFollow
<1>8. CASE parts = <<>>
  BY <1>1, <1>5, <1>7, <1>8 DEF GroupsFollow
<1>9. CASE parts # <<>>
  <2> DEFINE after == Nodes \ visited'
  <2>1. groups' = Append(groups, g)
    BY <1>1, <1>9
  <2>2. \A e \in given.edges : e.src \in after => e.dst \in after
    <3>1. \A e \in given.edges : e.dst \in visited' => e.src \in visited'
      BY <1>5 DEF IInv, WaveIsReady
    <3>2. QED
      BY <1>5, <3>1
  <2>3. ASSUME NEW e \in given.edges, e.src \in Range(KernelsOf(g)) PROVE e.dst \in after
    <3>1. e.src \in Range(order)
      BY <1>3, <1>4, <2>3
    <3>2. e.src \notin visited
      BY <1>2, <3>1
    <3>3. e.dst \notin visited \cup Range(order)
      BY <1>2, <3>2
    <3>4. QED
      BY <1>5, <3>3
  <2>4. Range(GroupedOf(groups')) \subseteq visited'
    <3>1. Range(Grouped') \subseteq visited'
      BY DEF IInv, GroupsSoFar
    <3>2. Grouped' = GroupedOf(groups')
      BY DEF Grouped, GroupedOf
    <3>3. QED
      BY <3>1, <3>2
  <2>5. after \in SUBSET Nodes /\ Range(GroupedOf(groups')) \cap after = {}
    BY <2>4
  <2> HIDE DEF after
  <2>6. AllGoOn(given.edges, groups', FALSE)
    BY <1>4, <1>6, <1>7, <2>1, <2>2, <2>3, <2>5, OneMoreGoesOn
  <2>7. QED
    BY <1>1, <1>5, <2>6 DEF GroupsFollow
<1>10. QED
  BY <1>8, <1>9

(* Edges between the nodes of a group are of no concern later.             *)
LEMMA SameFollow ==
  ASSUME GroupsFollow, given' = given, groups' = groups,
         phase \notin {"extract", "split"} => phase' \notin {"extract", "split"}
  PROVE  GroupsFollow'
<1> DEFINE j == phase \notin {"extract", "split"}
           k == phase' \notin {"extract", "split"}
<1>1. AllGoOn(given.edges, groups, j)
  BY DEF GroupsFollow
<1>2. j => k
  OBVIOUS
<1>3. GroupsFollow' <=> AllGoOn(given.edges, groups, k)
  BY DEF GroupsFollow
<1> HIDE DEF j, k
<1>4. \A es, gs, i, after : GoesOnIn(after, es, gs, i, j) => GoesOnIn(after, es, gs, i, k)
  BY <1>2 DEF GoesOnIn
<1>5. QED
  BY <1>1, <1>3, <1>4 DEF AllGoOn

LEMMA SplitFollows ==
  ASSUME IInv, GroupsFollow, SplitGroup
  PROVE  GroupsFollow'
<1> DEFINE a == SubSeq(groups, 1, index - 1)
           g == groups[index]
           c == SubSeq(groups, index + 1, Len(groups))
           b == <<g>>
           d == Pieces(g)
           es == given.edges
<1>1. /\ phase = "split" /\ phase' = "split" /\ given' = given
      /\ groups' = a \o d \o c
      /\ groups \in Seq(GroupType) /\ index \in 1 .. Len(groups) /\ index \in DOMAIN groups
      /\ index \in Nat
      /\ \A k \in DOMAIN groups : KernelsOf(groups[k]) # <<>>
  <2>1. /\ phase = "split" /\ phase' = "split" /\ given' = given /\ index <= Len(groups)
        /\ groups' = a \o d \o c
    BY DEF SplitGroup, fixedVars
  <2>2. /\ groups \in Seq(GroupType) /\ index \in Nat \ {0}
        /\ \A k \in DOMAIN groups : KernelsOf(groups[k]) # <<>>
    BY DEF IInv, Shapes, TypeOK, GroupType
  <2>3. Len(groups) \in Nat /\ DOMAIN groups = 1 .. Len(groups)
    BY <2>2
  <2>4. index \in 1 .. Len(groups) /\ index \in Nat
    BY <2>1, <2>2, <2>3
  <2>5. QED
    BY <2>1, <2>2, <2>3, <2>4
<1>2. g \in GroupType /\ KernelsOf(g) # <<>>
  BY <1>1
<1>3. PICK i \in 1 .. Len(groups) : i = index
  BY <1>1
<1>4. a \in Seq(GroupType) /\ c \in Seq(GroupType) /\ Len(a) = index - 1
      /\ groups = a \o b \o c
  BY <1>1, <1>3, AroundOne
<1>5. d \in Seq(GroupType) /\ GroupedOf(d) = KernelsOf(g)
  BY <1>2, PiecesKeepKernels
<1>6. b \in Seq(GroupType) /\ GroupedOf(b) = KernelsOf(g)
  BY <1>2, GroupedOne
<1>7. AllGoOn(es, groups, FALSE)
  BY <1>1 DEF GroupsFollow
<1>8. PICK after \in SUBSET Nodes : GoesOnIn(after, es, groups, index, FALSE)
  BY <1>1, <1>7 DEF AllGoOn
<1>9. KernelSet(groups, index) = Range(KernelsOf(g))
  BY DEF KernelSet
<1> HIDE DEF g
<1>10. Range(KernelsOf(g)) \cap after = {} /\ \A e \in es : e.src \in Range(KernelsOf(g)) => e.dst \in after
  <2>1. index \in 1 .. index
    BY <1>1
  <2>2. QED
    BY <1>8, <1>9, <2>1 DEF GoesOnIn
<1> HIDE DEF a, b, c, d, es
<1>11. ASSUME NEW j \in DOMAIN a PROVE KernelSet(a, j) \cap after = {}
  <2>1. /\ \A k \in 1 .. Len(a) : (a \o b \o c)[k] = a[k]
        /\ DOMAIN a = 1 .. Len(a)
    BY <1>4, <1>6, InThreePlaces
  <2>2. groups[j] = a[j] /\ j \in 1 .. index
    BY <1>1, <1>4, <2>1
  <2>3. QED
    BY <1>8, <2>2 DEF GoesOnIn, KernelSet
<1>12. \A k \in DOMAIN d : KernelSet(d, k) \subseteq Range(GroupedOf(b))
  BY <1>5, <1>6, KernelSets
<1>13. \A e \in es : e.src \in after => e.dst \in after
  BY <1>8 DEF GoesOnIn
<1>14. TakesPlace(d, b, es, a, FALSE)
  <2> SUFFICES ASSUME NEW k \in DOMAIN d
               PROVE  \A e \in es : e.src \in KernelSet(d, k) => e.dst \in after
    BY <1>6, <1>10, <1>11, <1>12, <1>13 DEF TakesPlace
  <2>1. QED
    BY <1>6, <1>10, <1>12
<1>15. AllGoOn(es, a \o d \o c, FALSE)
  <2>1. AllGoOn(es, a \o b \o c, FALSE)
    BY <1>4, <1>7
  <2>2. QED
    BY <1>4, <1>5, <1>6, <1>14, <2>1, OthersGoOn
<1>16. QED
  BY <1>1, <1>15 DEF GroupsFollow, es

LEMMA MergeFollows ==
  ASSUME IInv, GroupsFollow, MergeGroups
  PROVE  GroupsFollow'
<1> DEFINE g == groups[index - 1]
           h == groups[index]
           m == [merge |-> TRUE, parts |-> g.parts \o h.parts]
           a == SubSeq(groups, 1, index - 2)
           b == <<g, h>>
           c == SubSeq(groups, index + 1, Len(groups))
           d == <<m>>
           es == given.edges
           G == Range(KernelsOf(g))
           H == Range(KernelsOf(h))
<1>1. /\ phase = "merge" /\ phase' = "merge" /\ given' = given /\ index <= Len(groups)
      /\ \/ groups' = a \o d \o c /\ CheckGroupMergeable(g, h)
         \/ groups' = groups
  BY DEF MergeGroups, fixedVars
<1>2. CASE groups' = groups
  BY <1>1, <1>2, SameFollow
<1>3. CASE groups' = a \o d \o c /\ CheckGroupMergeable(g, h)
  <2>1. /\ groups \in Seq(GroupType) /\ index \in Nat /\ index > 1
        /\ index \in 1 .. Len(groups) /\ index \in DOMAIN groups /\ index - 1 \in DOMAIN groups
        /\ nodes = Nodes /\ edges = es
    BY <1>1 DEF IInv, Shapes, TypeOK, GroupType, GraphAndPhase
  <2>2. g \in GroupType /\ h \in GroupType
    BY <2>1
  <2>3. PICK i \in 1 .. Len(groups) : i = index /\ i > 1
    BY <2>1
  <2>4. a \in Seq(GroupType) /\ c \in Seq(GroupType) /\ Len(a) = index - 2
        /\ groups = a \o b \o c
    BY <2>1, <2>3, AroundTwo
  <2>5. KernelSet(groups, index - 1) = G /\ KernelSet(groups, index) = H
    BY DEF KernelSet
  <2> HIDE DEF g, h
  <2>6. /\ d \in Seq(GroupType) /\ b \in Seq(GroupType)
        /\ KernelsOf(m) = KernelsOf(g) \o KernelsOf(h)
        /\ GroupedOf(b) = KernelsOf(m) /\ GroupedOf(d) = KernelsOf(m)
    BY <2>2, JoinedGroup
  <2>7. Range(KernelsOf(m)) = G \cup H /\ G \subseteq Nodes /\ H \subseteq Nodes
    <3>1. KernelsOf(g) \in Seq(Nodes) /\ KernelsOf(h) \in Seq(Nodes)
      BY <2>2, KernelsType
    <3> DEFINE x == KernelsOf(g)
               y == KernelsOf(h)
    <3>2. x \in Seq(Nodes) /\ y \in Seq(Nodes) /\ KernelsOf(m) = x \o y
      BY <2>6, <3>1
    <3>3. G = Range(x) /\ H = Range(y)
      OBVIOUS
    <3> HIDE DEF x, y, G, H, m
    <3>4. Range(x \o y) = Range(x) \cup Range(y)
      BY <3>2, RangeConcatenation
    <3>5. Range(x) \subseteq Nodes /\ Range(y) \subseteq Nodes
      BY <3>2, RangeOfSeq
    <3>6. QED
      BY <3>2, <3>3, <3>4, <3>5
  <2> HIDE DEF m, a, b, c, d
  <2>8. AllGoOn(es, groups, TRUE)
    BY <1>1 DEF GroupsFollow
  <2>9. PICK ag \in SUBSET Nodes : GoesOnIn(ag, es, groups, index - 1, TRUE)
    BY <2>1, <2>8 DEF AllGoOn
  <2>10. PICK ah \in SUBSET Nodes : GoesOnIn(ah, es, groups, index, TRUE)
    BY <2>1, <2>8 DEF AllGoOn
  <2>11. /\ \A e \in es : e.src \in ag => e.dst \in ag
         /\ \A e \in es : e.src \in G => e.dst \in ag \/ e.dst \in G
         /\ G \cap ag = {} /\ \A j \in 1 .. index - 1 : KernelSet(groups, j) \cap ag = {}
    <3>1. index - 1 \in 1 .. index - 1
      BY <2>1
    <3>2. QED
      BY <2>5, <2>9, <3>1 DEF GoesOnIn
  <2>12. /\ \A e \in es : e.src \in ah => e.dst \in ah
         /\ \A e \in es : e.src \in H => e.dst \in ah \/ e.dst \in H
         /\ G \cap ah = {} /\ H \cap ah = {}
         /\ \A j \in 1 .. index : KernelSet(groups, j) \cap ah = {}
    <3>1. index - 1 \in 1 .. index /\ index \in 1 .. index
      BY <2>1
    <3>2. QED
      BY <2>5, <2>10, <3>1 DEF GoesOnIn
  <2> DEFINE F == Frontier(g, h)
             R == Reached(F)
             after == R \cup ah
  <2>13. /\ \A e \in es : e.src \in G => e.dst \in F \/ e.dst \in G \cup H
         /\ F \subseteq nodes /\ F \subseteq ag
    <3>1. F = {e.dst : e \in {e \in edges : e.src \in G}} \ (G \cup H)
      BY DEF Frontier, ReadersOf
    <3>2. \A e \in edges : e.dst \in nodes
      BY DEF IInv, TypeOK
    <3> HIDE DEF F, G, H, es
    <3>3. QED
      BY <2>1, <2>11, <3>1, <3>2
  <2>14. /\ F \subseteq R /\ R \subseteq nodes
         /\ \A e \in edges : e.src \in R => e.dst \in R
         /\ R \subseteq ag
    <3>1. IsFiniteSet(nodes) /\ \A e \in edges : e.src \in nodes /\ e.dst \in nodes
      BY <2>1, FusionAssumption DEF IInv, TypeOK
    <3>2. F \in SUBSET nodes /\ F \subseteq ag /\ \A e \in edges : e.src \in ag => e.dst \in ag
      BY <2>1, <2>11, <2>13
    <3> HIDE DEF F
    <3>3. QED
      BY <3>1, <3>2, ReachedClosed
  <2>15. R \cap H = {}
    BY <1>3 DEF CheckGroupMergeable
  <2> HIDE DEF R, F, G, H, es
  <2>16. /\ after \in SUBSET Nodes
         /\ \A e \in es : e.src \in after => e.dst \in after
         /\ \A e \in es : e.src \in G \cup H => e.dst \in after \/ e.dst \in G \cup H
         /\ (G \cup H) \cap after = {}
    <3>1. after \in SUBSET Nodes
      BY <2>1, <2>14
    <3>2. \A e \in es : e.src \in after => e.dst \in after
      BY <2>1, <2>12, <2>14
    <3>3. \A e \in es : e.src \in G \cup H => e.dst \in after \/ e.dst \in G \cup H
      BY <2>12, <2>13, <2>14
    <3>4. (G \cup H) \cap after = {}
      BY <2>11, <2>12, <2>14, <2>15
    <3>5. QED
      BY <3>1, <3>2, <3>3, <3>4
  <2>17. ASSUME NEW j \in DOMAIN a PROVE KernelSet(a, j) \cap after = {}
    <3>1. /\ \A k \in 1 .. Len(a) : (a \o b \o c)[k] = a[k]
          /\ DOMAIN a = 1 .. Len(a)
      BY <2>4, <2>6, InThreePlaces
    <3>2. groups[j] = a[j] /\ j \in 1 .. index /\ j \in 1 .. index - 1
      BY <2>1, <2>4, <3>1
    <3>3. KernelSet(groups, j) = KernelSet(a, j)
      BY <3>2 DEF KernelSet
    <3>4. QED
      BY <2>11, <2>12, <2>14, <3>2, <3>3
  <2> HIDE DEF after
  <2>18. \A k \in DOMAIN d : KernelSet(d, k) = G \cup H
    BY <2>7 DEF KernelSet, d
  <2>19. TakesPlace(d, b, es, a, TRUE)
    <3> SUFFICES ASSUME NEW k \in DOMAIN d
                 PROVE  /\ KernelSet(d, k) \subseteq Range(GroupedOf(b))
                        /\ \A e \in es : e.src \in KernelSet(d, k) =>
                             e.dst \in after \/ e.dst \in KernelSet(d, k)
                        /\ Range(GroupedOf(b)) \cap after = {}
      BY <2>16, <2>17 DEF TakesPlace
    <3>1. Range(GroupedOf(b)) = G \cup H /\ KernelSet(d, k) = G \cup H
      BY <2>6, <2>7, <2>18
    <3>2. QED
      BY <2>16, <3>1
  <2>20. AllGoOn(es, a \o d \o c, TRUE)
    <3>1. AllGoOn(es, a \o b \o c, TRUE)
      BY <2>4, <2>8
    <3>2. QED
      BY <2>4, <2>6, <2>19, <3>1, OthersGoOn
  <2>21. QED
    BY <1>1, <1>3, <2>20 DEF GroupsFollow, es
<1>4. QED
  BY <1>1, <1>2, <1>3

(***************************************************************************)
(* The graph while it is fused.                                            *)
(***************************************************************************)

(* What FuseGroup makes of a node: one for all those of the group.         *)
PutAs(n, K, new) == IF n \in K THEN new ELSE n

LEMMA FuseIndex ==
  ASSUME IInv, FuseGroup
  PROVE  index \in Nat \ {0} /\ groups \in Seq(GroupType) /\ index \in DOMAIN groups
<1>1. index \in Nat \ {0} /\ groups \in Seq(GroupType)
  BY DEF IInv, TypeOK, Shapes, GroupType
<1>2. index <= Len(groups)
  BY DEF FuseGroup
<1>3. QED
  BY <1>1, <1>2

LEMMA FuseEdges ==
  ASSUME IInv, FuseGroup
  PROVE  /\ \A e \in edges' : \E d \in edges :
              /\ e.src = PutAs(d.src, KernelSet(groups, index), NewId)
              /\ e.dst = PutAs(d.dst, KernelSet(groups, index), NewId)
              /\ ~ (d.src \in KernelSet(groups, index) /\ d.dst \in KernelSet(groups, index))
         /\ \A d \in edges :
              ~ (d.src \in KernelSet(groups, index) /\ d.dst \in KernelSet(groups, index)) =>
                \E e \in edges' : /\ e.src = PutAs(d.src, KernelSet(groups, index), NewId)
                                  /\ e.dst = PutAs(d.dst, KernelSet(groups, index), NewId)
<1> DEFINE ks         == KernelsOf(groups[index])
           K          == Range(ks)
           into       == Into(ks)
           from       == From(ks)
           new        == NewId
           inEdge(i)  == [into[i] EXCEPT !.dst = new, !.in = Slot(into, i)]
           outEdge(i) == [from[i] EXCEPT !.src = new, !.out = Slot(from, i)]
           kept       == EdgesLeft(edges, K)
<1>1. edges' = kept \cup {inEdge(i) : i \in DOMAIN into} \cup {outEdge(i) : i \in DOMAIN from}
  BY DEF FuseGroup, WithoutEdgesOf
<1>2. /\ TypeOK /\ Shapes /\ GroupsSoFar /\ OperandsKept
      /\ index \in DOMAIN groups
  BY FuseIndex DEF IInv
<1>3. ks \in Seq(Nodes) /\ IsInjective(ks)
  BY <1>2, KernelsOnce
<1>4. \A e \in edges : e \in [src : nodes, out : Nat, dst : nodes, in : Nat]
  BY <1>2 DEF Shapes
<1>5. KernelSet(groups, index) = K
  BY DEF KernelSet
<1> HIDE DEF ks
<1>6. /\ into \in Seq(edges)
      /\ \A e : e \in Range(into) <=> e \in edges /\ e.dst \in K /\ e.src \notin K
  BY <1>2, <1>3, IntoEdges
<1>7. /\ from \in Seq(edges)
      /\ \A e : e \in Range(from) <=> e \in edges /\ e.src \in K /\ e.dst \notin K
  BY <1>2, <1>3, FromEdges
<1>8. \A e : e \in kept <=> e \in edges /\ e.src \notin K /\ e.dst \notin K
  BY DEF EdgesLeft
<1> HIDE DEF K, into, from, new, kept
<1>9. ASSUME NEW i \in DOMAIN into
      PROVE  /\ into[i] \in edges /\ into[i].dst \in K /\ into[i].src \notin K
             /\ inEdge(i).src = into[i].src /\ inEdge(i).dst = new
  <2>1. into[i] \in Range(into)
    BY DEF Range
  <2>2. into[i] \in edges /\ into[i].dst \in K /\ into[i].src \notin K
    BY <1>6, <2>1
  <2>3. into[i] \in [src : nodes, out : Nat, dst : nodes, in : Nat]
    BY <1>4, <2>2
  <2>4. QED
    BY <2>2, <2>3
<1>10. ASSUME NEW i \in DOMAIN from
       PROVE  /\ from[i] \in edges /\ from[i].src \in K /\ from[i].dst \notin K
              /\ outEdge(i).src = new /\ outEdge(i).dst = from[i].dst
  <2>1. from[i] \in Range(from)
    BY DEF Range
  <2>2. from[i] \in edges /\ from[i].src \in K /\ from[i].dst \notin K
    BY <1>7, <2>1
  <2>3. from[i] \in [src : nodes, out : Nat, dst : nodes, in : Nat]
    BY <1>4, <2>2
  <2>4. QED
    BY <2>2, <2>3
<1> HIDE DEF inEdge, outEdge
<1>11. ASSUME NEW e \in edges'
       PROVE  \E d \in edges : /\ e.src = PutAs(d.src, K, new) /\ e.dst = PutAs(d.dst, K, new)
                               /\ ~ (d.src \in K /\ d.dst \in K)
  <2>1. CASE e \in kept
    BY <1>8, <2>1 DEF PutAs
  <2>2. CASE \E i \in DOMAIN into : e = inEdge(i)
    BY <1>9, <2>2 DEF PutAs
  <2>3. CASE \E i \in DOMAIN from : e = outEdge(i)
    BY <1>10, <2>3 DEF PutAs
  <2>4. QED
    BY <1>1, <2>1, <2>2, <2>3
<1>12. ASSUME NEW d \in edges, ~ (d.src \in K /\ d.dst \in K)
       PROVE  \E e \in edges' : e.src = PutAs(d.src, K, new) /\ e.dst = PutAs(d.dst, K, new)
  <2>1. CASE d.src \notin K /\ d.dst \notin K
    <3>1. d \in edges'
      BY <1>1, <1>8, <2>1
    <3>2. d.src = PutAs(d.src, K, new) /\ d.dst = PutAs(d.dst, K, new)
      BY <2>1 DEF PutAs
    <3>3. QED
      BY <3>1, <3>2
  <2>2. CASE d.src \notin K /\ d.dst \in K
    <3>1. d \in Range(into)
      BY <1>6, <2>2
    <3>2. PICK i \in DOMAIN into : d = into[i]
      BY <3>1 DEF Range
    <3>3. inEdge(i) \in edges'
      BY <1>1
    <3>4. inEdge(i).src = PutAs(d.src, K, new) /\ inEdge(i).dst = PutAs(d.dst, K, new)
      BY <1>9, <2>2, <3>2 DEF PutAs
    <3>5. QED
      BY <3>3, <3>4
  <2>3. CASE d.src \in K /\ d.dst \notin K
    <3>1. d \in Range(from)
      BY <1>7, <2>3
    <3>2. PICK i \in DOMAIN from : d = from[i]
      BY <3>1 DEF Range
    <3>3. outEdge(i) \in edges'
      BY <1>1
    <3>4. outEdge(i).src = PutAs(d.src, K, new) /\ outEdge(i).dst = PutAs(d.dst, K, new)
      BY <1>10, <2>3, <3>2 DEF PutAs
    <3>5. QED
      BY <3>3, <3>4
  <2>4. QED
    BY <1>12, <2>1, <2>2, <2>3
<1>13. QED
  BY <1>5, <1>11, <1>12 DEF new

(* The nodes of a group that is to be fused are still those of the given   *)
(* graph, and the kernels of other fused nodes are not among them.         *)
LEMMA FuseNodes ==
  ASSUME IInv, KernelsPlaced, FuseGroup
  PROVE  LET K == KernelSet(groups, index)
         IN  /\ index \in Nat \ {0} /\ groups \in Seq(GroupType) /\ index \in DOMAIN groups
             /\ K \subseteq nodes /\ K \subseteq Nodes
             /\ NewId \notin nodes /\ NewId \notin Nodes
             /\ nodes' = (nodes \ K) \cup {NewId}
             /\ kernels' = [n \in nodes' |-> IF n = NewId THEN KernelsOf(groups[index])
                                             ELSE kernels[n]]
             /\ \A n \in nodes \ Nodes : Range(kernels[n]) \cap K = {}
             /\ UNCHANGED <<given, active, phase, groups>> /\ index' = index + 1
<1> DEFINE ks == KernelsOf(groups[index])
           K == KernelSet(groups, index)
<1>1. /\ index \in Nat \ {0} /\ groups \in Seq(GroupType) /\ index \in DOMAIN groups
  BY FuseIndex
<1>2. /\ \A j \in DOMAIN groups : j # index => KernelSet(groups, j) \cap K = {}
      /\ K \subseteq Nodes
  <2>1. IsInjective(GroupedOf(groups))
    BY GroupedIs DEF IInv, GroupsSoFar
  <2>2. QED
    BY <1>1, <2>1, KernelSets
<1>3. K = Range(ks)
  BY DEF KernelSet
<1>4. /\ nodes' = (nodes \ K) \cup {NewId}
      /\ kernels' = [n \in (nodes \ K) \cup {NewId} |-> IF n = NewId THEN ks ELSE kernels[n]]
      /\ UNCHANGED <<given, active, phase, groups>> /\ index' = index + 1
  BY <1>3 DEF FuseGroup, fixedVars
<1> HIDE DEF ks, K
<1>5. \A n \in nodes \ Nodes : Range(kernels[n]) \cap K = {}
  <2> SUFFICES ASSUME NEW n \in nodes \ Nodes, NEW x \in Range(kernels[n]), x \in K
               PROVE  FALSE
    OBVIOUS
  <2>1. PICK j \in DOMAIN groups : j < index /\ x \in KernelSet(groups, j)
    BY DEF KernelsPlaced
  <2>2. j # index
    BY <1>1, <2>1
  <2>3. QED
    BY <1>2, <2>1, <2>2
<1>6. K \subseteq nodes
  <2> SUFFICES ASSUME NEW x \in K PROVE x \in nodes
    OBVIOUS
  <2>1. PICK n \in nodes : x \in Range(kernels[n])
    BY <1>2 DEF KernelsPlaced
  <2>2. n \in Nodes
    BY <1>5, <2>1
  <2>3. kernels[n] = <<n>>
    BY <2>2 DEF KernelsPlaced
  <2>4. QED
    BY <2>1, <2>3 DEF Range
<1>7. NewId \notin Nodes /\ NewId \notin nodes
  <2>1. NewId = Max(Nodes) + index /\ Max(Nodes) \in Nat
        /\ \A n \in Nodes : n <= Max(Nodes) /\ n \in Nat
    BY MaxNode, FusionAssumption DEF NewId
  <2>2. nodes \subseteq Nodes \cup {Max(Nodes) + i : i \in 1 .. index - 1}
    BY DEF IInv, GraphAndPhase
  <2> DEFINE m == Max(Nodes)
             new == NewId
  <2> HIDE DEF m, new
  <2>3. \A n \in Nodes : n # new
    BY <1>1, <2>1 DEF m, new
  <2>4. \A i \in 1 .. index - 1 : m + i # new
    BY <1>1, <2>1 DEF m, new
  <2>5. QED
    BY <2>2, <2>3, <2>4 DEF m, new
<1>8. QED
  BY <1>1, <1>2, <1>4, <1>5, <1>6, <1>7 DEF K, ks

(* The kernels of a group are in the order of the groups. *)
LEMMA GroupInGivenOrder ==
  ASSUME IInv, NEW k \in DOMAIN groups, NEW e \in given.edges,
         NEW i \in DOMAIN KernelsOf(groups[k]), NEW j \in DOMAIN KernelsOf(groups[k]),
         KernelsOf(groups[k])[i] = e.src, KernelsOf(groups[k])[j] = e.dst
  PROVE  i < j
<1> DEFINE a == SubSeq(groups, 1, k - 1)
           g == groups[k]
           c == SubSeq(groups, k + 1, Len(groups))
<1>1. groups \in Seq(GroupType) /\ k \in 1 .. Len(groups)
  BY DEF IInv, Shapes, GroupType
<1>2. g \in GroupType
  BY <1>1
<1>3. a \in Seq(GroupType) /\ c \in Seq(GroupType) /\ groups = a \o <<g>> \o c
  BY <1>1, AroundOne
<1>4. <<g>> \in Seq(GroupType) /\ GroupedOf(<<g>>) = KernelsOf(g)
  BY <1>2, GroupedOne
<1> DEFINE b == <<g>>
           x == GroupedOf(a)
           y == KernelsOf(g)
           z == GroupedOf(c)
<1>5. x \in Seq(Nodes) /\ y \in Seq(Nodes) /\ z \in Seq(Nodes)
  BY <1>2, <1>3, GroupedType, KernelsType
<1>6. y[i] = e.src /\ y[j] = e.dst /\ i \in DOMAIN y /\ j \in DOMAIN y
  OBVIOUS
<1>7. b \in Seq(GroupType) /\ GroupedOf(b) = y /\ groups = a \o b \o c
  BY <1>3, <1>4
<1> HIDE DEF a, b, c, g
<1>8. GroupedOf(groups) = x \o y \o z
  <2>1. a \o b \in Seq(GroupType)
    BY <1>3, <1>7
  <2>2. GroupedOf(a \o b) = x \o y
    BY <1>3, <1>7, GroupedConcat
  <2>3. GroupedOf((a \o b) \o c) = GroupedOf(a \o b) \o z
    BY <1>3, <2>1, GroupedConcat
  <2>4. QED
    BY <1>7, <2>2, <2>3
<1> HIDE DEF x, y, z
<1>9. /\ DOMAIN Grouped = 1 .. Len(x) + Len(y) + Len(z)
      /\ \A l \in 1 .. Len(y) : Grouped[Len(x) + l] = y[l]
      /\ Len(x) \in Nat /\ Len(y) \in Nat /\ Len(z) \in Nat /\ DOMAIN y = 1 .. Len(y)
  BY <1>5, <1>8, GroupedIs, InThreePlaces
<1>10. Len(x) + i \in DOMAIN Grouped /\ Len(x) + j \in DOMAIN Grouped /\ i \in Nat /\ j \in Nat
  BY <1>6, <1>9
<1>11. Grouped[Len(x) + i] = e.src /\ Grouped[Len(x) + j] = e.dst
  BY <1>6, <1>9
<1>12. Len(x) + i < Len(x) + j
  BY <1>10, <1>11 DEF IInv, GroupsSoFar
<1>13. QED
  BY <1>9, <1>10, <1>12

LEMMA FuseKernels ==
  ASSUME IInv, KernelsPlaced, FuseGroup
  PROVE  KernelsPlaced'
<1> DEFINE K == KernelSet(groups, index)
           new == NewId
           ks == KernelsOf(groups[index])
           kern == [n \in nodes' |-> IF n = new THEN ks ELSE kernels[n]]
<1>1. /\ index \in Nat \ {0} /\ groups \in Seq(GroupType) /\ index \in DOMAIN groups
      /\ K \subseteq nodes /\ K \subseteq Nodes /\ new \notin nodes /\ new \notin Nodes
      /\ nodes' = (nodes \ K) \cup {new} /\ kernels' = kern
      /\ \A n \in nodes \ Nodes : Range(kernels[n]) \cap K = {}
      /\ given' = given /\ groups' = groups /\ index' = index + 1
  BY FuseNodes
<1>2. ks \in Seq(Nodes) /\ IsInjective(ks)
  BY <1>1, KernelsOnce DEF IInv
<1>3. K = Range(ks)
  BY DEF KernelSet
<1>4. \A e \in given.edges : \A i, j \in DOMAIN ks : ks[i] = e.src /\ ks[j] = e.dst => i < j
  BY <1>1, GroupInGivenOrder
<1> HIDE DEF K, ks
<1>5. /\ DOMAIN kernels' = nodes'
      /\ new \in nodes' /\ kernels'[new] = ks
      /\ \A n \in nodes' : n # new =>
           /\ n \in nodes /\ n \notin K /\ kernels'[n] = kernels[n]
      /\ \A n \in nodes : n \notin K => n \in nodes' /\ n # new /\ kernels'[n] = kernels[n]
  BY <1>1
<1>6. kernels' \in [nodes' -> Seq(Nodes)]
  <2>1. \A n \in nodes' : kernels'[n] \in Seq(Nodes)
    BY <1>2, <1>5 DEF KernelsPlaced
  <2>2. kernels' = [n \in nodes' |-> kernels'[n]]
    BY <1>1
  <2>3. QED
    BY <2>1, <2>2
<1> HIDE DEF new, kern
<1>7. ASSUME NEW n \in nodes', n # new
      PROVE  Range(kernels'[n]) \cap K = {}
  <2>1. n \in nodes /\ n \notin K /\ kernels'[n] = kernels[n]
    BY <1>5, <1>7
  <2>2. CASE n \in Nodes
    <3>1. kernels[n] = <<n>>
      BY <2>1, <2>2 DEF KernelsPlaced
    <3>2. QED
      BY <2>1, <3>1 DEF Range
  <2>3. CASE n \notin Nodes
    BY <1>1, <2>1, <2>3
  <2>4. QED
    BY <2>2, <2>3
<1>8. \A n \in nodes' : IsInjective(kernels'[n])
  BY <1>2, <1>5 DEF KernelsPlaced
<1>9. \A n \in nodes' \cap Nodes : kernels'[n] = <<n>>
  BY <1>1, <1>5 DEF KernelsPlaced
<1>10. ASSUME NEW n \in nodes' \ Nodes, NEW x \in Range(kernels'[n])
       PROVE  \E j \in DOMAIN groups' : j < index' /\ x \in KernelSet(groups', j)
  <2>1. CASE n = new
    <3>1. x \in KernelSet(groups, index)
      BY <1>3, <1>5, <2>1 DEF K
    <3>2. index < index'
      BY <1>1
    <3>3. QED
      BY <1>1, <3>1, <3>2
  <2>2. CASE n # new
    <3>1. PICK j \in DOMAIN groups : j < index /\ x \in KernelSet(groups, j)
      BY <1>5, <2>2 DEF KernelsPlaced
    <3>2. j \in Nat
      BY <1>1
    <3>3. j < index'
      BY <1>1, <3>1, <3>2
    <3>4. QED
      BY <1>1, <3>1, <3>3
  <2>3. QED
    BY <2>1, <2>2
<1>11. ASSUME NEW x \in Nodes PROVE \E n \in nodes' : x \in Range(kernels'[n])
  <2>1. PICK n \in nodes : x \in Range(kernels[n])
    BY DEF KernelsPlaced
  <2>2. CASE n \in K
    <3>1. n \in Nodes
      BY <1>1, <2>2
    <3>2. kernels[n] = <<n>>
      BY <3>1 DEF KernelsPlaced
    <3>3. x = n
      BY <2>1, <3>2 DEF Range
    <3>4. QED
      BY <1>3, <1>5, <2>2, <3>3
  <2>3. CASE n \notin K
    BY <1>5, <2>1, <2>3
  <2>4. QED
    BY <2>2, <2>3
<1>12. ASSUME NEW m \in nodes', NEW n \in nodes',
              Range(kernels'[m]) \cap Range(kernels'[n]) # {}
       PROVE  m = n
  <2>1. CASE m # new /\ n # new
    <3>1. m \in nodes /\ n \in nodes /\ kernels'[m] = kernels[m] /\ kernels'[n] = kernels[n]
      BY <1>5, <2>1
    <3>2. QED
      BY <1>12, <3>1 DEF KernelsPlaced
  <2>2. CASE m = new /\ n # new
    BY <1>3, <1>5, <1>7, <1>12, <2>2
  <2>3. CASE m # new /\ n = new
    BY <1>3, <1>5, <1>7, <1>12, <2>3
  <2>4. QED
    BY <2>1, <2>2, <2>3
<1>13. \A n \in nodes' : \A e \in given'.edges : \A i, j \in DOMAIN kernels'[n] :
         kernels'[n][i] = e.src /\ kernels'[n][j] = e.dst => i < j
  <2> TAKE n \in nodes'
  <2> TAKE e \in given'.edges
  <2>1. e \in given.edges
    BY <1>1
  <2>2. CASE n = new
    BY <1>4, <1>5, <2>1, <2>2
  <2>3. CASE n # new
    BY <1>5, <2>1, <2>3 DEF KernelsPlaced
  <2>4. QED
    BY <2>2, <2>3
<1>14. QED
  BY <1>6, <1>8, <1>9, <1>10, <1>11, <1>12, <1>13 DEF KernelsPlaced

(* The kernels of a node are among those of the node that it becomes.      *)
LEMMA FuseHolds ==
  ASSUME IInv, KernelsPlaced, FuseGroup
  PROVE  LET q(n) == PutAs(n, KernelSet(groups, index), NewId)
         IN  /\ \A n \in nodes : q(n) \in nodes' /\ Range(kernels[n]) \subseteq Range(kernels'[q(n)])
             /\ \A u \in nodes' : \A x \in Range(kernels'[u]) :
                  \E n \in nodes : q(n) = u /\ x \in Range(kernels[n])
<1> DEFINE K == KernelSet(groups, index)
           new == NewId
           ks == KernelsOf(groups[index])
           q(n) == PutAs(n, K, new)
<1>1. /\ K \subseteq nodes /\ K \subseteq Nodes /\ new \notin nodes
      /\ nodes' = (nodes \ K) \cup {new}
      /\ kernels' = [n \in nodes' |-> IF n = new THEN ks ELSE kernels[n]]
  BY FuseNodes
<1>2. K = Range(ks)
  BY DEF KernelSet
<1>3. \A n \in K : Range(kernels[n]) = {n}
  <2>1. \A n \in K : kernels[n] = <<n>>
    BY <1>1 DEF KernelsPlaced
  <2>2. \A n : Range(<<n>>) = {n}
    BY DEF Range
  <2> HIDE DEF K, Range
  <2>3. QED
    BY <2>1, <2>2
<1> HIDE DEF K, ks, new
<1>4. \A n : (n \in K => q(n) = new) /\ (n \notin K => q(n) = n)
  BY DEF PutAs
<1> HIDE DEF q
<1>5. ASSUME NEW n \in nodes
      PROVE  q(n) \in nodes' /\ Range(kernels[n]) \subseteq Range(kernels'[q(n)])
  <2>1. CASE n \in K
    <3>1. q(n) = new /\ new \in nodes' /\ kernels'[new] = ks
      BY <1>1, <1>4, <2>1
    <3>2. Range(kernels[n]) = {n}
      BY <1>3, <2>1
    <3>3. QED
      BY <1>2, <2>1, <3>1, <3>2
  <2>2. CASE n \notin K
    BY <1>1, <1>4, <2>2
  <2>3. QED
    BY <2>1, <2>2
<1>6. ASSUME NEW u \in nodes', NEW x \in Range(kernels'[u])
      PROVE  \E n \in nodes : q(n) = u /\ x \in Range(kernels[n])
  <2>1. CASE u = new
    <3>1. x \in K
      BY <1>1, <1>2, <2>1
    <3>2. x \in nodes /\ x \in Range(kernels[x]) /\ q(x) = u
      BY <1>1, <1>3, <1>4, <2>1, <3>1
    <3>3. QED
      BY <3>2
  <2>2. CASE u # new
    <3>1. u \in nodes /\ u \notin K /\ kernels'[u] = kernels[u]
      BY <1>1, <2>2
    <3>2. QED
      BY <1>4, <3>1
  <2>3. QED
    BY <2>1, <2>2
<1>7. QED
  BY <1>5, <1>6 DEF q, K, new

LEMMA FuseEdgesPlaced ==
  ASSUME IInv, KernelsPlaced, EdgesPlaced, FuseGroup
  PROVE  EdgesPlaced'
<1> DEFINE K == KernelSet(groups, index)
           new == NewId
           q(n) == PutAs(n, K, new)
<1>1. /\ \A n \in nodes : q(n) \in nodes' /\ Range(kernels[n]) \subseteq Range(kernels'[q(n)])
      /\ \A u \in nodes' : \A x \in Range(kernels'[u]) :
           \E n \in nodes : q(n) = u /\ x \in Range(kernels[n])
  BY FuseHolds
<1>2. /\ \A e \in edges' : \E d \in edges : e.src = q(d.src) /\ e.dst = q(d.dst)
      /\ \A d \in edges : ~ (d.src \in K /\ d.dst \in K) =>
           \E e \in edges' : e.src = q(d.src) /\ e.dst = q(d.dst)
  BY FuseEdges
<1>3. \A m, n : m \in K /\ n \in K => q(m) = q(n)
  BY DEF PutAs
<1>4. /\ \A e \in edges : e.src \in nodes /\ e.dst \in nodes
      /\ given' = given
  BY DEF IInv, TypeOK, FuseGroup, fixedVars
<1> HIDE DEF q, K, new
<1>5. ASSUME NEW e \in edges'
      PROVE  \E d \in given.edges : d.src \in Range(kernels'[e.src]) /\ d.dst \in Range(kernels'[e.dst])
  <2>1. PICK c \in edges : e.src = q(c.src) /\ e.dst = q(c.dst)
    BY <1>2
  <2>2. PICK d \in given.edges : d.src \in Range(kernels[c.src]) /\ d.dst \in Range(kernels[c.dst])
    BY DEF EdgesPlaced
  <2>3. QED
    BY <1>1, <1>4, <2>1, <2>2
<1>6. ASSUME NEW d \in given.edges, NEW u \in nodes', NEW v \in nodes', u # v,
             d.src \in Range(kernels'[u]), d.dst \in Range(kernels'[v])
      PROVE  \E e \in edges' : e.src = u /\ e.dst = v
  <2>1. PICK m \in nodes : q(m) = u /\ d.src \in Range(kernels[m])
    BY <1>1, <1>6
  <2>2. PICK n \in nodes : q(n) = v /\ d.dst \in Range(kernels[n])
    BY <1>1, <1>6
  <2>3. m # n
    BY <1>6, <2>1, <2>2
  <2>4. PICK c \in edges : c.src = m /\ c.dst = n
    BY <2>1, <2>2, <2>3 DEF EdgesPlaced
  <2>5. ~ (c.src \in K /\ c.dst \in K)
    BY <1>3, <1>6, <2>1, <2>2, <2>4
  <2>6. QED
    BY <1>2, <2>1, <2>2, <2>4, <2>5
<1>7. QED
  BY <1>4, <1>5, <1>6 DEF EdgesPlaced

(* A node that is fused already is before what comes after the next group, *)
(* and what the group leads to is after it.                                *)
LEMMA AfterGroup ==
  ASSUME IInv, GroupsFollow, KernelsPlaced, EdgesPlaced, FuseGroup
  PROVE  \E after \in SUBSET nodes :
           /\ KernelSet(groups, index) \cap after = {}
           /\ \A e \in edges : e.src \in after => e.dst \in after
           /\ \A e \in edges : e.src \in KernelSet(groups, index) =>
                e.dst \in after \/ e.dst \in KernelSet(groups, index)
<1> DEFINE K == KernelSet(groups, index)
<1>1. /\ index \in Nat \ {0} /\ groups \in Seq(GroupType) /\ index \in DOMAIN groups
      /\ K \subseteq nodes /\ K \subseteq Nodes
      /\ \A n \in nodes \ Nodes : Range(kernels[n]) \cap K = {}
  BY FuseNodes
<1>2. AllGoOn(given.edges, groups, TRUE)
  BY DEF FuseGroup, GroupsFollow
<1>3. PICK s \in SUBSET Nodes : GoesOnIn(s, given.edges, groups, index, TRUE)
  BY <1>1, <1>2 DEF AllGoOn
<1> HIDE DEF K
<1>4. /\ \A d \in given.edges : d.src \in s => d.dst \in s
      /\ \A d \in given.edges : d.src \in K => d.dst \in s \/ d.dst \in K
      /\ K \cap s = {}
  <2>1. index \in 1 .. index
    BY <1>1
  <2>2. QED
    BY <1>3, <2>1 DEF GoesOnIn, K
<1>5. \A n \in nodes \ Nodes : Range(kernels[n]) \cap s = {}
  <2> SUFFICES ASSUME NEW n \in nodes \ Nodes, NEW x \in Range(kernels[n]), x \in s
               PROVE  FALSE
    OBVIOUS
  <2>1. PICK j \in DOMAIN groups : j < index /\ x \in KernelSet(groups, j)
    BY DEF KernelsPlaced
  <2>2. j \in 1 .. index
    BY <1>1, <2>1
  <2>3. QED
    BY <1>3, <2>1, <2>2 DEF GoesOnIn
<1>6. \A n \in nodes \cap Nodes : Range(kernels[n]) = {n}
  <2>1. \A n \in nodes \cap Nodes : kernels[n] = <<n>>
    BY DEF KernelsPlaced
  <2>2. \A n : Range(<<n>>) = {n}
    BY DEF Range
  <2> HIDE DEF Range
  <2>3. QED
    BY <2>1, <2>2
<1> DEFINE after == s \cap nodes
<1>7. \A e \in edges : e.src \in nodes /\ e.dst \in nodes
  BY DEF IInv, TypeOK
<1>8. ASSUME NEW e \in edges, e.src \in after \/ e.src \in K
      PROVE  \E d \in given.edges : /\ d.src = e.src
                                    /\ d.dst \in s \/ d.dst \in K => d.dst = e.dst
  <2>1. PICK d \in given.edges : d.src \in Range(kernels[e.src]) /\ d.dst \in Range(kernels[e.dst])
    BY DEF EdgesPlaced
  <2>2. e.src \in nodes \cap Nodes
    BY <1>1, <1>8
  <2>3. d.src = e.src
    BY <1>6, <2>1, <2>2
  <2>4. d.dst \in s \/ d.dst \in K => d.dst = e.dst
    <3>1. CASE e.dst \in Nodes
      BY <1>6, <1>7, <2>1, <3>1
    <3>2. CASE e.dst \notin Nodes
      BY <1>1, <1>5, <1>7, <2>1, <3>2
    <3>3. QED
      BY <3>1, <3>2
  <2>5. QED
    BY <2>3, <2>4
<1>9. \A e \in edges : e.src \in after => e.dst \in after
  <2> TAKE e \in edges
  <2> HAVE e.src \in after
  <2>1. PICK d \in given.edges : d.src = e.src /\ (d.dst \in s \/ d.dst \in K => d.dst = e.dst)
    BY <1>8
  <2>2. d.dst \in s
    BY <1>4, <2>1
  <2>3. QED
    BY <1>7, <2>1, <2>2
<1>10. \A e \in edges : e.src \in K => e.dst \in after \/ e.dst \in K
  <2> TAKE e \in edges
  <2> HAVE e.src \in K
  <2>1. PICK d \in given.edges : d.src = e.src /\ (d.dst \in s \/ d.dst \in K => d.dst = e.dst)
    BY <1>8
  <2>2. d.dst \in s \/ d.dst \in K
    BY <1>4, <2>1
  <2>3. QED
    BY <1>7, <2>1, <2>2
<1>11. K \cap after = {}
  BY <1>4
<1>12. after \in SUBSET nodes
  OBVIOUS
<1> HIDE DEF after
<1>13. QED
  BY <1>9, <1>10, <1>11, <1>12 DEF K

(* An order of the fused graph: first what is not after the group, then    *)
(* the fused node, then the rest, and otherwise as before.                 *)
LEMMA FuseNoCycle ==
  ASSUME IInv, GroupsFollow, KernelsPlaced, EdgesPlaced, NoCycle, FuseGroup
  PROVE  NoCycle'
<1> DEFINE K == KernelSet(groups, index)
           new == NewId
           q(n) == PutAs(n, K, new)
<1>1. /\ K \subseteq nodes /\ new \notin nodes
      /\ nodes' = (nodes \ K) \cup {new}
  BY FuseNodes
<1>2. PICK after \in SUBSET nodes :
        /\ K \cap after = {}
        /\ \A e \in edges : e.src \in after => e.dst \in after
        /\ \A e \in edges : e.src \in K => e.dst \in after \/ e.dst \in K
  BY AfterGroup
<1>3. PICK R \in SUBSET (nodes \X nodes) :
        /\ \A e \in edges : <<e.src, e.dst>> \in R
        /\ \A x \in nodes : <<x, x>> \notin R
        /\ \A x, y, z \in nodes : <<x, y>> \in R /\ <<y, z>> \in R => <<x, z>> \in R
  BY DEF NoCycle
<1>4. \A e \in edges' : \E d \in edges :
         e.src = q(d.src) /\ e.dst = q(d.dst) /\ ~ (d.src \in K /\ d.dst \in K)
  BY FuseEdges
<1>5. /\ \A n : (n \in K => q(n) = new) /\ (n \notin K => q(n) = n)
      /\ \A e \in edges : e.src \in nodes /\ e.dst \in nodes
  BY DEF PutAs, IInv, TypeOK
<1> HIDE DEF q, K, new
<1> DEFINE layer(n) == IF n = new THEN 1 ELSE IF n \in after THEN 2 ELSE 0
           less(x, y) == layer(x) < layer(y) \/ (layer(x) = layer(y) /\ <<x, y>> \in R)
           S == {p \in nodes' \X nodes' : less(p[1], p[2])}
<1>6. \A n : layer(n) \in {0, 1, 2}
  OBVIOUS
<1>7. /\ layer(new) = 1
      /\ \A n \in nodes' : n # new => n \in nodes /\ layer(n) = (IF n \in after THEN 2 ELSE 0)
      /\ \A n : layer(n) = 1 => n = new
  BY <1>1
<1>8. \A x, y \in nodes' : <<x, y>> \in S <=> less(x, y)
  OBVIOUS
<1>9. ASSUME NEW e \in edges' PROVE <<e.src, e.dst>> \in S
  <2>1. PICK d \in edges :
          e.src = q(d.src) /\ e.dst = q(d.dst) /\ ~ (d.src \in K /\ d.dst \in K)
    BY <1>4
  <2>2. e.src \in nodes' /\ e.dst \in nodes'
    BY <1>1, <1>5, <2>1
  <2>3. d.src \in nodes /\ d.dst \in nodes /\ <<d.src, d.dst>> \in R
    BY <1>3, <1>5
  <2>4. d.src # new /\ d.dst # new
    BY <1>1, <2>3
  <2>5. less(e.src, e.dst)
    <3>1. CASE d.src \in K
      <4>1. d.dst \notin K /\ d.dst \in after
        BY <1>2, <2>1, <3>1
      <4>2. layer(e.src) = 1 /\ layer(e.dst) = 2
        BY <1>5, <2>1, <2>4, <3>1, <4>1
      <4>3. QED
        BY <4>2
    <3>2. CASE d.src \notin K /\ d.dst \in K
      <4>1. d.src \notin after
        BY <1>2, <3>2
      <4>2. layer(e.src) = 0 /\ layer(e.dst) = 1
        BY <1>5, <2>1, <2>4, <3>2, <4>1
      <4>3. QED
        BY <4>2
    <3>3. CASE d.src \notin K /\ d.dst \notin K
      <4>1. e.src = d.src /\ e.dst = d.dst
        BY <1>5, <2>1, <3>3
      <4>2. d.src \in after => d.dst \in after
        BY <1>2
      <4>3. \/ layer(e.src) = layer(e.dst)
            \/ layer(e.src) = 0 /\ layer(e.dst) = 2
        BY <2>4, <4>1, <4>2
      <4>4. QED
        BY <2>3, <4>1, <4>3
    <3>4. QED
      BY <3>1, <3>2, <3>3
  <2> HIDE DEF S, less
  <2>6. QED
    BY <1>8, <2>2, <2>5
<1>10. ASSUME NEW x \in nodes' PROVE <<x, x>> \notin S
  <2>1. <<x, x>> \notin R
    BY <1>1, <1>3
  <2>2. ~ (layer(x) < layer(x))
    BY <1>6
  <2> HIDE DEF S, layer
  <2>3. QED
    BY <1>8, <2>1, <2>2
<1>11. ASSUME NEW x \in nodes', NEW y \in nodes', NEW z \in nodes',
              <<x, y>> \in S, <<y, z>> \in S
       PROVE  <<x, z>> \in S
  <2>1. less(x, y) /\ less(y, z)
    <3> HIDE DEF S, less
    <3>1. QED
      BY <1>8, <1>11
  <2>2. layer(x) \in {0, 1, 2} /\ layer(y) \in {0, 1, 2} /\ layer(z) \in {0, 1, 2}
    BY <1>6
  <2>3. <<x, y>> \in R /\ <<y, z>> \in R => <<x, z>> \in R
    BY <1>3
  <2> HIDE DEF S, layer
  <2>4. less(x, z)
    <3>1. CASE layer(x) = layer(y) /\ layer(y) = layer(z)
      BY <2>1, <2>2, <2>3, <3>1
    <3>2. CASE ~ (layer(x) = layer(y) /\ layer(y) = layer(z))
      <4>1. layer(x) < layer(z)
        BY <2>1, <2>2, <3>2
      <4>2. QED
        BY <4>1
    <3>3. QED
      BY <3>1, <3>2
  <2> HIDE DEF less
  <2>5. QED
    BY <1>8, <2>4
<1>12. S \in SUBSET (nodes' \X nodes')
  OBVIOUS
<1> HIDE DEF S
<1>13. QED
  BY <1>9, <1>10, <1>11, <1>12 DEF NoCycle

(* The steps that do not change the graph. *)
LEMMA GraphStays ==
  ASSUME KernelsPlaced, EdgesPlaced, NoCycle, UNCHANGED <<given, graphVars>>,
         nodes \subseteq Nodes \/ (groups' = groups /\ index' >= index /\ index \in Nat /\ index' \in Nat
                                   /\ DOMAIN groups \subseteq Nat)
  PROVE  KernelsPlaced' /\ EdgesPlaced' /\ NoCycle'
<1>1. /\ nodes' = nodes /\ edges' = edges /\ kernels' = kernels /\ given' = given
  BY DEF graphVars
<1>2. EdgesPlaced'
  BY <1>1 DEF EdgesPlaced
<1>3. NoCycle'
  BY <1>1 DEF NoCycle
<1>4. ASSUME NEW n \in nodes \ Nodes, NEW x \in Range(kernels[n])
      PROVE  \E j \in DOMAIN groups' : j < index' /\ x \in KernelSet(groups', j)
  <2>1. groups' = groups /\ index' >= index /\ index \in Nat /\ index' \in Nat
        /\ DOMAIN groups \subseteq Nat
    OBVIOUS
  <2>2. PICK j \in DOMAIN groups : j < index /\ x \in KernelSet(groups, j)
    BY DEF KernelsPlaced
  <2>3. j \in Nat
    BY <2>1
  <2>4. j < index'
    BY <2>1, <2>2, <2>3
  <2>5. QED
    BY <2>1, <2>2, <2>4
<1>5. KernelsPlaced'
  <2>1. /\ kernels \in [nodes -> Seq(Nodes)]
        /\ \A n \in nodes : IsInjective(kernels[n])
        /\ \A n \in nodes \cap Nodes : kernels[n] = <<n>>
        /\ \A x \in Nodes : \E n \in nodes : x \in Range(kernels[n])
        /\ \A m, n \in nodes : Range(kernels[m]) \cap Range(kernels[n]) # {} => m = n
        /\ \A n \in nodes : \A e \in given.edges : \A i, j \in DOMAIN kernels[n] :
             kernels[n][i] = e.src /\ kernels[n][j] = e.dst => i < j
    BY DEF KernelsPlaced
  <2> HIDE DEF Range, IsInjective, KernelSet
  <2>2. QED
    BY <1>1, <1>4, <2>1 DEF KernelsPlaced
<1>6. QED
  BY <1>2, <1>3, <1>5

(***************************************************************************)
(* The order of the program.                                               *)
(***************************************************************************)

LEMMA InitRInv ==
  ASSUME Init
  PROVE  RInv
<1>1. /\ IsGraph(given) /\ nodes = Nodes /\ edges = given.edges
      /\ kernels = [n \in Nodes |-> <<n>>] /\ active = Range(OrderedOps)
      /\ phase = "extract" /\ groups = <<>> /\ index = 1
  <2>1. given \in Graphs /\ \A g \in Graphs : IsGraph(g)
    BY FusionAssumption DEF Init
  <2>2. IsGraph(given)
    BY <2>1
  <2>3. QED
    BY <2>2 DEF Init
<1>2. \A e \in given.edges : e.src \in Nodes /\ e.dst \in Nodes /\ e.src < e.dst
  BY <1>1, GivenEdges DEF IsGraph
<1>3. Nodes \subseteq Int
  BY FusionAssumption
<1>4. GroupsFollow
  BY <1>1 DEF GroupsFollow, AllGoOn
<1>5. \A n \in Nodes : /\ kernels[n] = <<n>> /\ kernels[n] \in Seq(Nodes)
                       /\ DOMAIN kernels[n] = {1} /\ kernels[n][1] = n
  BY <1>1
<1>6. \A n \in Nodes : Range(kernels[n]) = {n} /\ IsInjective(kernels[n])
  BY <1>5 DEF Range, IsInjective
<1>7. KernelsPlaced
  <2>1. \A n \in Nodes : \A e \in given.edges : \A i, j \in DOMAIN kernels[n] :
          kernels[n][i] = e.src /\ kernels[n][j] = e.dst => i < j
    <3> SUFFICES ASSUME NEW n \in Nodes, NEW e \in given.edges,
                        NEW i \in DOMAIN kernels[n], NEW j \in DOMAIN kernels[n],
                        kernels[n][i] = e.src, kernels[n][j] = e.dst
                 PROVE  FALSE
      OBVIOUS
    <3>1. e.src = n /\ e.dst = n
      BY <1>5
    <3>2. e.src < e.dst /\ n \in Int
      BY <1>2, <1>3
    <3>3. QED
      BY <3>1, <3>2
  <2>2. kernels \in [nodes -> Seq(Nodes)]
    BY <1>1, <1>5
  <2>3. /\ \A n \in nodes \ Nodes : FALSE
        /\ \A x \in Nodes : \E n \in nodes : x \in Range(kernels[n])
        /\ \A m, n \in nodes : Range(kernels[m]) \cap Range(kernels[n]) # {} => m = n
    BY <1>1, <1>6
  <2>4. QED
    BY <1>1, <1>5, <1>6, <2>1, <2>2, <2>3 DEF KernelsPlaced
<1>8. EdgesPlaced
  <2> HIDE DEF Range
  <2>1. \A e \in edges : \E d \in given.edges :
          d.src \in Range(kernels[e.src]) /\ d.dst \in Range(kernels[e.dst])
    BY <1>1, <1>2, <1>6
  <2>2. \A d \in given.edges : \A m, n \in nodes :
          m # n /\ d.src \in Range(kernels[m]) /\ d.dst \in Range(kernels[n]) =>
            \E e \in edges : e.src = m /\ e.dst = n
    BY <1>1, <1>6
  <2>3. QED
    BY <2>1, <2>2 DEF EdgesPlaced
<1>9. NoCycle
  <2> DEFINE R == {p \in nodes \X nodes : p[1] < p[2]}
  <2>1. \A e \in edges : <<e.src, e.dst>> \in R
    BY <1>1, <1>2
  <2>2. /\ \A x \in nodes : <<x, x>> \notin R
        /\ \A x, y, z \in nodes : <<x, y>> \in R /\ <<y, z>> \in R => <<x, z>> \in R
    BY <1>1, <1>3
  <2>3. R \in SUBSET (nodes \X nodes)
    OBVIOUS
  <2> HIDE DEF R
  <2>4. QED
    BY <2>1, <2>2, <2>3 DEF NoCycle
<1>10. ActiveNeeded
  <2> SUFFICES ASSUME NEW C \in SUBSET Nodes, Outputs \subseteq C,
                      \A e \in given.edges : e.dst \in C => e.src \in C
               PROVE  active \subseteq C
    BY DEF ActiveNeeded
  <2>1. OrderedOps = OpsInOrder(Nodes, given.edges, Outputs)
    BY <1>1 DEF OrderedOps
  <2>2. Outputs \subseteq Nodes
    BY DEF Outputs
  <2>3. Range(OrderedOps) \subseteq C
    BY <1>1, <2>1, <2>2, OrderOfGiven
  <2>4. QED
    BY <1>1, <2>3
<1>11. QED
  BY <1>4, <1>7, <1>8, <1>9, <1>10, InitIInv DEF RInv

(* The outputs of the graph are no part of a group. *)
LEMMA OutputsLeft ==
  ASSUME IInv, KernelsPlaced
  PROVE  Outputs \subseteq nodes
<1> SUFFICES ASSUME NEW n \in Outputs, n \notin nodes PROVE FALSE
  OBVIOUS
<1>1. n \in Nodes /\ n \notin given.fusable
  BY DEF Outputs
<1>2. PICK m \in nodes : n \in Range(kernels[m])
  BY <1>1 DEF KernelsPlaced
<1>3. CASE m \in Nodes
  <2>1. kernels[m] = <<m>>
    BY <1>3 DEF KernelsPlaced
  <2>2. QED
    BY <1>2, <2>1 DEF Range
<1>4. CASE m \notin Nodes
  <2>1. PICK j \in DOMAIN groups : n \in KernelSet(groups, j)
    BY <1>2, <1>4 DEF KernelsPlaced
  <2>2. groups \in Seq(GroupType)
    BY DEF IInv, Shapes, GroupType
  <2>3. n \in Range(GroupedOf(groups))
    BY <2>1, <2>2, KernelSets
  <2>4. Range(GroupedOf(groups)) \subseteq given.fusable
    BY GroupedIs DEF IInv, GroupsSoFar, Verified
  <2>5. QED
    BY <1>1, <2>3, <2>4
<1>5. QED
  BY <1>3, <1>4

(* get_ordered_ops returns each node of the fused graph after its sources. *)
LEMMA OpsOfFused ==
  ASSUME IInv, KernelsPlaced, NoCycle
  PROVE  /\ OrderedOps \in Seq(nodes) /\ IsInjective(OrderedOps)
         /\ Outputs \subseteq Range(OrderedOps) /\ EdgesForward(OrderedOps, edges)
<1>1. PICK R \in SUBSET (nodes \X nodes) :
        /\ \A e \in edges : <<e.src, e.dst>> \in R
        /\ \A x \in nodes : <<x, x>> \notin R
        /\ \A x, y, z \in nodes : <<x, y>> \in R /\ <<y, z>> \in R => <<x, z>> \in R
  BY DEF NoCycle
<1>2. StrictOrder(R, nodes)
  BY <1>1 DEF StrictOrder
<1>3. nodes \subseteq Int /\ IsFiniteSet(nodes)
  <2> DEFINE more == {Max(Nodes) + i : i \in 1 .. index - 1}
  <2>1. nodes \subseteq Nodes \cup more /\ nodes \subseteq Nat /\ index \in Nat
    BY DEF IInv, GraphAndPhase, TypeOK
  <2>2. IsFiniteSet(more)
    <3> DEFINE f == [i \in 1 .. index - 1 |-> Max(Nodes) + i]
    <3>1. {f[i] : i \in 1 .. index - 1} = more /\ DOMAIN f = 1 .. index - 1
      OBVIOUS
    <3>2. IsFiniteSet(1 .. index - 1)
      BY <2>1, FS_Interval
    <3> HIDE DEF f, more
    <3>3. IsFiniteSet({f[i] : i \in 1 .. index - 1})
      BY <3>1, <3>2, FiniteImage
    <3>4. QED
      BY <3>1, <3>3
  <2> HIDE DEF more
  <2>3. IsFiniteSet(Nodes \cup more)
    BY <2>2, FusionAssumption, FS_Union
  <2>4. IsFiniteSet(nodes)
    BY <2>1, <2>3, FS_Subset
  <2>5. QED
    BY <2>1, <2>4
<1>4. /\ \A n \in nodes : InEdges(edges, n) \in Seq(edges)
      /\ \A n \in nodes : Range(InEdges(edges, n)) = {e \in edges : e.dst = n}
  BY EdgesOfNode DEF IInv, EdgesInto
<1>5. \A e \in edges : e.src \in nodes /\ e.dst \in nodes
  BY DEF IInv, TypeOK
<1>6. Outputs \subseteq nodes
  BY OutputsLeft
<1>7. OrderedOps = OpsInOrder(nodes, edges, Outputs)
  BY DEF OrderedOps
<1> DEFINE out == Outputs
           order == OrderedOps
<1>8. out \subseteq nodes /\ order = OpsInOrder(nodes, edges, out)
  BY <1>6, <1>7
<1> HIDE DEF out, order
<1>9. \A e \in edges : e.dst \in nodes => e.src \in nodes
  BY <1>5
<1>12. \A e \in edges : <<e.src, e.dst>> \in R
  BY <1>1
<1> DEFINE ops == OpsInOrder(nodes, edges, out)
<1>10. /\ ops \in Seq(nodes) /\ IsInjective(ops)
       /\ out \subseteq Range(ops) /\ EdgesForward(ops, edges)
  <2>1. out \subseteq nodes
    BY <1>8
  <2>2. PICK C : C = nodes
    OBVIOUS
  <2>3. out \subseteq C /\ \A e \in edges : e.dst \in C => e.src \in C
    BY <1>5, <2>1, <2>2
  <2>4. QED
    BY <1>2, <1>3, <1>4, <1>5, <1>12, <2>1, <2>3, OpsAreOrdered
<1>11. order = ops
  BY <1>8
<1> HIDE DEF ops
<1>13. QED
  BY <1>10, <1>11 DEF out, order

LEMMA RunsInOrder ==
  ASSUME RInv
  PROVE  RunsTheGraph
<1> SUFFICES ASSUME phase = "fuse"
             PROVE  /\ IsInjective(Executed) /\ active \subseteq Range(Executed)
                    /\ \A e \in given.edges : \A j \in DOMAIN Executed :
                         Executed[j] = e.dst => \E i \in 1 .. j - 1 : Executed[i] = e.src
  BY DEF RunsTheGraph
<1> DEFINE order == OrderedOps
           s == [i \in DOMAIN order |-> kernels[order[i]]]
           f == Executed
<1>1. IInv /\ KernelsPlaced /\ EdgesPlaced /\ NoCycle /\ ActiveNeeded
  BY DEF RInv
<1>2. /\ order \in Seq(nodes) /\ IsInjective(order)
      /\ Outputs \subseteq Range(order)
      /\ \A e \in edges : \A j \in DOMAIN order :
           order[j] = e.dst => \E i \in 1 .. j - 1 : order[i] = e.src
  BY <1>1, OpsOfFused DEF EdgesForward
<1>3. f = FlattenSeq(s)
  BY DEF Executed
<1> HIDE DEF order, f
<1>4. /\ DOMAIN order = 1 .. Len(order) /\ Len(order) \in Nat
      /\ \A i \in DOMAIN order : order[i] \in nodes
  BY <1>2
<1>5. \A i \in DOMAIN order : kernels[order[i]] \in Seq(Nodes)
  BY <1>1, <1>4 DEF KernelsPlaced
<1>6. /\ s \in Seq(Seq(Nodes)) /\ DOMAIN s = DOMAIN order
      /\ \A i \in DOMAIN order : s[i] = kernels[order[i]]
  BY <1>4, <1>5
<1> HIDE DEF s
<1>7. f \in Seq(Nodes) /\ \A x : x \in Range(f) <=> \E k \in DOMAIN s : x \in Range(s[k])
  BY <1>3, <1>6, FlattenType, FlattenRange
<1>8. IsInjective(f)
  <2>1. \A k \in DOMAIN s : IsInjective(s[k])
    BY <1>1, <1>4, <1>6 DEF KernelsPlaced
  <2>2. ASSUME NEW k \in DOMAIN s, NEW l \in DOMAIN s, k # l
        PROVE  Range(s[k]) \cap Range(s[l]) = {}
    <3>1. order[k] # order[l]
      BY <1>2, <1>6, <2>2 DEF IsInjective
    <3>2. order[k] \in nodes /\ order[l] \in nodes
      BY <1>4, <1>6
    <3>3. Range(kernels[order[k]]) \cap Range(kernels[order[l]]) = {}
      BY <1>1, <3>1, <3>2 DEF KernelsPlaced
    <3>4. s[k] = kernels[order[k]] /\ s[l] = kernels[order[l]]
      BY <1>6
    <3> HIDE DEF Range
    <3>5. QED
      BY <3>3, <3>4
  <2>3. QED
    BY <1>3, <1>6, <2>1, <2>2, FlattenInjective
<1>9. visited = Nodes
      /\ \A e \in given.edges : e.dst \in visited => e.src \in visited
  BY <1>1 DEF IInv, WaveIsReady
<1>10. ASSUME NEW e \in given.edges, NEW j \in DOMAIN f, f[j] = e.dst
       PROVE  \E i \in 1 .. j - 1 : f[i] = e.src
  <2>1. e.dst \in Nodes
    BY <1>7, <1>10
  <2>2. PICK m \in nodes : e.src \in Range(kernels[m])
    BY <1>1, <1>9, <2>1 DEF KernelsPlaced
  <2>10. PICK k \in DOMAIN s : \E l \in DOMAIN s[k] : ComesAfter(f, s, j, k, l)
    BY <1>3, <1>6, FlattenOrder
  <2>3. PICK l \in DOMAIN s[k] : ComesAfter(f, s, j, k, l)
    BY <2>10
  <2>4. /\ f[j] = s[k][l]
        /\ \A a \in 1 .. k - 1 : \A b \in DOMAIN s[a] : \E i \in 1 .. j - 1 : f[i] = s[a][b]
        /\ \A b \in 1 .. l - 1 : \E i \in 1 .. j - 1 : f[i] = s[k][b]
    BY <2>3 DEF ComesAfter
  <2> DEFINE n == order[k]
  <2>5. n \in nodes /\ s[k] = kernels[n] /\ k \in DOMAIN order /\ k \in 1 .. Len(order)
    BY <1>4, <1>6
  <2>6. e.dst \in Range(kernels[n])
    BY <1>10, <2>4, <2>5 DEF Range
  <2>7. CASE m = n
    <3>1. PICK b \in DOMAIN kernels[n] : kernels[n][b] = e.src
      BY <2>2, <2>7 DEF Range
    <3>2. b < l
      <4>1. l \in DOMAIN kernels[n] /\ kernels[n][l] = e.dst
        BY <1>10, <2>4, <2>5
      <4>2. \A c \in given.edges : \A x, y \in DOMAIN kernels[n] :
              kernels[n][x] = c.src /\ kernels[n][y] = c.dst => x < y
        BY <1>1, <2>5 DEF KernelsPlaced
      <4> HIDE DEF n
      <4>3. QED
        BY <3>1, <4>1, <4>2
    <3>3. b \in 1 .. Len(kernels[n]) /\ l \in 1 .. Len(kernels[n]) /\ Len(kernels[n]) \in Nat
      BY <1>1, <2>3, <2>5, <3>1 DEF KernelsPlaced
    <3>4. b \in 1 .. l - 1
      BY <3>2, <3>3
    <3>5. QED
      BY <2>4, <2>5, <3>1, <3>4
  <2>8. CASE m # n
    <3>1. PICK c \in edges : c.src = m /\ c.dst = n
      BY <1>1, <2>2, <2>5, <2>6, <2>8 DEF EdgesPlaced
    <3>2. PICK a \in 1 .. k - 1 : order[a] = m
      BY <1>2, <2>5, <3>1
    <3>3. a \in DOMAIN order
      BY <1>4, <2>5
    <3>4. s[a] = kernels[m]
      BY <1>6, <3>2, <3>3
    <3>5. PICK b \in DOMAIN s[a] : s[a][b] = e.src
      BY <2>2, <3>4 DEF Range
    <3>6. QED
      BY <2>4, <3>5
  <2>9. QED
    BY <2>7, <2>8
<1>11. active \subseteq Range(f)
  <2>1. Range(f) \in SUBSET Nodes
    BY <1>7, RangeOfSeq
  <2>2. ASSUME NEW n \in Outputs PROVE n \in Range(f)
    <3>1. PICK i \in DOMAIN order : order[i] = n
      BY <1>2 DEF Range
    <3>2. n \in nodes \cap Nodes
      BY <1>4, <3>1 DEF Outputs
    <3>3. s[i] = <<n>> /\ i \in DOMAIN s
      BY <1>1, <1>6, <3>1, <3>2 DEF KernelsPlaced
    <3>4. n \in Range(s[i])
      BY <3>3 DEF Range
    <3>5. QED
      BY <1>7, <3>3, <3>4
  <2>3. ASSUME NEW e \in given.edges, e.dst \in Range(f) PROVE e.src \in Range(f)
    <3>1. PICK j \in DOMAIN f : f[j] = e.dst
      BY <2>3 DEF Range
    <3>2. PICK i \in 1 .. j - 1 : f[i] = e.src
      BY <1>10, <3>1
    <3>3. i \in DOMAIN f
      BY <1>7
    <3>4. QED
      BY <3>2, <3>3 DEF Range
  <2>4. QED
    BY <1>1, <2>1, <2>2, <2>3 DEF ActiveNeeded
<1>12. QED
  BY <1>8, <1>10, <1>11 DEF f

LEMMA ActiveStays ==
  ASSUME ActiveNeeded, UNCHANGED fixedVars
  PROVE  ActiveNeeded'
BY DEF ActiveNeeded, fixedVars, Outputs

(* As long as the groups change, the graph does not.                       *)
LEMMA GroupingKeepsGraph ==
  ASSUME RInv, phase # "fuse", UNCHANGED <<fixedVars, graphVars>>
  PROVE  KernelsPlaced' /\ EdgesPlaced' /\ NoCycle' /\ ActiveNeeded'
<1>1. nodes \subseteq Nodes
  BY DEF RInv, IInv, GraphAndPhase
<1>2. UNCHANGED <<given, graphVars>>
  BY DEF fixedVars
<1>3. KernelsPlaced' /\ EdgesPlaced' /\ NoCycle'
  BY <1>1, <1>2, GraphStays DEF RInv
<1>4. ActiveNeeded'
  BY ActiveStays DEF RInv
<1>5. QED
  BY <1>3, <1>4

LEMMA ExtractRuns ==
  ASSUME RInv, ExtractWave
  PROVE  RInv'
<1>1. IInv'
  BY ExtractKeeps DEF RInv
<1>2. GroupsFollow'
  BY <1>1, ExtractFollows DEF RInv
<1>3. phase # "fuse" /\ UNCHANGED <<fixedVars, graphVars>>
  BY DEF ExtractWave
<1>4. QED
  BY <1>1, <1>2, <1>3, GroupingKeepsGraph DEF RInv

LEMMA StartRuns ==
  ASSUME RInv, StartSplitting
  PROVE  RInv'
<1>1. IInv'
  BY StartKeeps DEF RInv
<1>2. phase = "extract" /\ groups' = groups /\ UNCHANGED <<fixedVars, graphVars>>
  BY DEF StartSplitting
<1>3. GroupsFollow'
  BY <1>2, SameFollow DEF RInv, fixedVars
<1>4. phase # "fuse"
  BY <1>2
<1>5. QED
  BY <1>1, <1>2, <1>3, <1>4, GroupingKeepsGraph DEF RInv

LEMMA SplitRuns ==
  ASSUME RInv, SplitGroup
  PROVE  RInv'
<1>1. IInv'
  BY SplitKeeps DEF RInv
<1>2. GroupsFollow'
  BY SplitFollows DEF RInv
<1>3. phase # "fuse" /\ UNCHANGED <<fixedVars, graphVars>>
  BY DEF SplitGroup
<1>4. QED
  BY <1>1, <1>2, <1>3, GroupingKeepsGraph DEF RInv

LEMMA EndSplittingRuns ==
  ASSUME RInv, NEW level \in Levels, EndSplitting(level)
  PROVE  RInv'
<1>1. IInv'
  BY EndSplittingKeeps DEF RInv
<1>2. phase = "split" /\ groups' = groups /\ UNCHANGED <<fixedVars, graphVars>>
  BY DEF EndSplitting
<1>3. GroupsFollow'
  BY <1>2, SameFollow DEF RInv, fixedVars
<1>4. phase # "fuse"
  BY <1>2
<1>5. QED
  BY <1>1, <1>2, <1>3, <1>4, GroupingKeepsGraph DEF RInv

LEMMA MergeRuns ==
  ASSUME RInv, MergeGroups
  PROVE  RInv'
<1>1. IInv'
  BY MergeKeeps DEF RInv
<1>2. GroupsFollow'
  BY MergeFollows DEF RInv
<1>3. phase # "fuse" /\ UNCHANGED <<fixedVars, graphVars>>
  BY DEF MergeGroups
<1>4. QED
  BY <1>1, <1>2, <1>3, GroupingKeepsGraph DEF RInv

LEMMA EndMergingRuns ==
  ASSUME RInv, EndMerging
  PROVE  RInv'
<1>1. IInv'
  BY EndMergingKeeps DEF RInv
<1>2. /\ phase = "merge" /\ phase' = "fuse" /\ groups' = groups
      /\ UNCHANGED <<fixedVars, graphVars>>
  BY DEF EndMerging
<1>3. GroupsFollow'
  BY <1>2, SameFollow DEF RInv, fixedVars
<1>4. phase # "fuse"
  BY <1>2
<1>5. QED
  BY <1>1, <1>2, <1>3, <1>4, GroupingKeepsGraph DEF RInv

LEMMA SkipRuns ==
  ASSUME RInv, SkipGroup
  PROVE  RInv'
<1>1. IInv'
  BY SkipKeeps DEF RInv
<1>2. /\ phase' = phase /\ groups' = groups /\ given' = given /\ index' = index + 1
      /\ UNCHANGED fixedVars /\ UNCHANGED <<given, graphVars>>
  BY DEF SkipGroup, fixedVars
<1>3. GroupsFollow'
  BY <1>2, SameFollow DEF RInv
<1>4. groups \in Seq(GroupType) /\ index \in Nat
  BY DEF RInv, IInv, Shapes, TypeOK, GroupType
<1>5. /\ groups' = groups /\ index' >= index /\ index' \in Nat /\ DOMAIN groups \subseteq Nat
  BY <1>2, <1>4
<1>6. KernelsPlaced' /\ EdgesPlaced' /\ NoCycle'
  BY <1>2, <1>4, <1>5, GraphStays DEF RInv
<1>7. ActiveNeeded'
  BY <1>2, ActiveStays DEF RInv
<1>8. QED
  BY <1>1, <1>3, <1>6, <1>7 DEF RInv

LEMMA FuseRuns ==
  ASSUME RInv, FuseGroup
  PROVE  RInv'
<1>1. IInv'
  BY FuseKeeps DEF RInv
<1>2. phase' = phase /\ groups' = groups /\ given' = given /\ UNCHANGED fixedVars
  BY DEF FuseGroup, fixedVars
<1>3. GroupsFollow'
  BY <1>2, SameFollow DEF RInv
<1>4. KernelsPlaced' /\ EdgesPlaced' /\ NoCycle'
  BY FuseKernels, FuseEdgesPlaced, FuseNoCycle DEF RInv
<1>5. ActiveNeeded'
  BY <1>2, ActiveStays DEF RInv
<1>6. QED
  BY <1>1, <1>3, <1>4, <1>5 DEF RInv

LEMMA StutterRuns ==
  ASSUME RInv, UNCHANGED vars
  PROVE  RInv'
<1>1. IInv'
  BY StutterKeeps DEF RInv
<1>2. /\ phase' = phase /\ groups' = groups /\ given' = given /\ index' = index
      /\ UNCHANGED fixedVars /\ UNCHANGED <<given, graphVars>>
  BY DEF vars, fixedVars
<1>3. GroupsFollow'
  BY <1>2, SameFollow DEF RInv
<1>4. groups \in Seq(GroupType) /\ index \in Nat
  BY DEF RInv, IInv, Shapes, TypeOK, GroupType
<1>5. /\ groups' = groups /\ index' >= index /\ index' \in Nat /\ DOMAIN groups \subseteq Nat
  BY <1>2, <1>4
<1>6. KernelsPlaced' /\ EdgesPlaced' /\ NoCycle'
  BY <1>2, <1>4, <1>5, GraphStays DEF RInv
<1>7. ActiveNeeded'
  BY <1>2, ActiveStays DEF RInv
<1>8. QED
  BY <1>1, <1>3, <1>6, <1>7 DEF RInv

(* Between any two steps no path that leaves a group comes back to it or   *)
(* to one that is fused before it, and the graph is the given one with     *)
(* some of its nodes put together, without a cycle.                        *)
THEOREM AlwaysRInv == Spec => []RInv
<1>1. Init => RInv
  BY InitRInv
<1>2. RInv /\ [Next]_vars => RInv'
  <2> SUFFICES ASSUME RInv, [Next]_vars
               PROVE  RInv'
    OBVIOUS
  <2>1. CASE ExtractWave
    BY <2>1, ExtractRuns
  <2>2. CASE StartSplitting
    BY <2>2, StartRuns
  <2>3. CASE SplitGroup
    BY <2>3, SplitRuns
  <2>4. CASE \E level \in Levels : EndSplitting(level)
    BY <2>4, EndSplittingRuns
  <2>5. CASE MergeGroups
    BY <2>5, MergeRuns
  <2>6. CASE EndMerging
    BY <2>6, EndMergingRuns
  <2>7. CASE SkipGroup
    BY <2>7, SkipRuns
  <2>8. CASE FuseGroup
    BY <2>8, FuseRuns
  <2>9. CASE UNCHANGED vars
    BY <2>9, StutterRuns
  <2>10. QED
    BY <2>1, <2>2, <2>3, <2>4, <2>5, <2>6, <2>7, <2>8, <2>9 DEF Next
<1>3. QED
  BY <1>1, <1>2, PTL DEF Spec

(* While FuseGroupOnGraph replaces groups by fused nodes, and when it is   *)
(* done, the program that get_ordered_ops makes of the graph runs every    *)
(* live kernel, no kernel twice, and each after those it depends on: no    *)
(* sequence of groups, splits, merges and fusions makes a cycle that the   *)
(* walk would break at an arbitrary place.                                 *)
THEOREM GraphIsRun == Spec => []RunsTheGraph
<1>1. RInv => RunsTheGraph
  BY RunsInOrder
<1>2. QED
  BY <1>1, AlwaysRInv, PTL
=============================================================================
