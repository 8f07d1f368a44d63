------------------------- MODULE KernelFusionProofs -------------------------
(***************************************************************************)
(* What the stages of the pass keep: the extraction of groups, the search  *)
(* for broadcasts, the splitting into connected parts, the fusing.  No     *)
(* node is in two groups when they are fused, for every graph (KInv).  For *)
(* every graph that IsPlain, what is fused fits together, operands are     *)
(* kept and the program of the graph stays in order (PInv).                *)
(***************************************************************************)
EXTENDS KernelFusion, StructureProofs

(***************************************************************************)
(* Sequences.                                                              *)
(***************************************************************************)

(* An element of a range is at some place.                                 *)
LEMMA InRange ==
  ASSUME NEW f
  PROVE  \A y : y \in Range(f) <=> \E x \in DOMAIN f : f[x] = y
BY DEF Range

(* A sequence of one element.                                              *)
LEMMA OneElement ==
  ASSUME NEW S, NEW x \in S
  PROVE  /\ <<x>> \in Seq(S) /\ <<x>>[1] = x /\ DOMAIN <<x>> = {1} /\ Len(<<x>>) = 1
         /\ Range(<<x>>) = {x} /\ IsInjective(<<x>>)
<1>1. <<x>> \in Seq(S) /\ <<x>>[1] = x /\ Len(<<x>>) = 1 /\ DOMAIN <<x>> = {1}
  OBVIOUS
<1>2. QED
  BY <1>1 DEF Range, IsInjective

(* What two sequences have together.                                       *)
LEMMA ConcatRange ==
  ASSUME NEW T, NEW s \in Seq(T), NEW t \in Seq(T)
  PROVE  s \o t \in Seq(T) /\ Range(s \o t) = Range(s) \cup Range(t)
<1> DEFINE m == Len(s)
           n == Len(t)
           u == s \o t
<1>1. /\ m \in Nat /\ n \in Nat /\ u \in Seq(T)
      /\ DOMAIN s = 1 .. m /\ DOMAIN t = 1 .. n /\ DOMAIN u = 1 .. m + n
      /\ \A i \in 1 .. m + n : u[i] = IF i <= m THEN s[i] ELSE t[i - m]
  OBVIOUS
<1> HIDE DEF m, n, u
<1>2. \A i \in 1 .. m : i \in 1 .. m + n /\ u[i] = s[i]
  BY <1>1
<1>3. \A i \in 1 .. n : m + i \in 1 .. m + n /\ u[m + i] = t[i]
  <2> TAKE i \in 1 .. n
  <2>1. m + i \in 1 .. m + n /\ ~(m + i <= m) /\ (m + i) - m = i
    BY <1>1
  <2>2. QED
    BY <1>1, <2>1
<1>4. \A i \in 1 .. m + n : i \in 1 .. m \/ \E j \in 1 .. n : i = m + j
  <2> TAKE i \in 1 .. m + n
  <2>1. i \in 1 .. m \/ (i - m \in 1 .. n /\ i = m + (i - m))
    BY <1>1
  <2>2. QED
    BY <2>1
<1>5. Range(u) \subseteq Range(s) \cup Range(t)
  <2> SUFFICES ASSUME NEW i \in 1 .. m + n PROVE u[i] \in Range(s) \/ u[i] \in Range(t)
    BY <1>1, InRange
  <2>1. CASE i \in 1 .. m
    BY <1>1, <1>2, <2>1, InRange
  <2>2. CASE \E j \in 1 .. n : i = m + j
    BY <1>1, <1>3, <2>2, InRange
  <2>3. QED
    BY <1>4, <2>1, <2>2
<1>6. Range(s) \subseteq Range(u) /\ Range(t) \subseteq Range(u)
  <2>1. \A i \in 1 .. m : s[i] \in Range(u)
    BY <1>1, <1>2, InRange
  <2>2. \A i \in 1 .. n : t[i] \in Range(u)
    BY <1>1, <1>3, InRange
  <2>3. QED
    BY <1>1, <2>1, <2>2, InRange
<1>7. QED
  BY <1>1, <1>5, <1>6 DEF u

(* Append adds the last element.                                           *)
LEMMA AppendRange ==
  ASSUME NEW T, NEW s \in Seq(T), NEW x \in T
  PROVE  /\ Append(s, x) \in Seq(T) /\ Range(Append(s, x)) = Range(s) \cup {x}
         /\ IsInjective(Append(s, x)) <=> IsInjective(s) /\ x \notin Range(s)
<1>1. Append(s, x) = s \o <<x>> /\ <<x>> \in Seq(T)
  OBVIOUS
<1>2. Range(<<x>>) = {x} /\ IsInjective(<<x>>)
  BY DEF Range, IsInjective
<1>3. Range(s \o <<x>>) = Range(s) \cup Range(<<x>>)
  BY <1>1, ConcatRange, ZenonT(60)
<1>4. IsInjective(s \o <<x>>) <=> IsInjective(s) /\ IsInjective(<<x>>) /\ Range(s) \cap Range(<<x>>) = {}
  BY <1>1, ConcatInjective
<1>5. QED
  BY <1>1, <1>2, <1>3, <1>4

(* Reverse moves elements, and loses none.                                 *)
LEMMA ReverseRange ==
  ASSUME NEW T, NEW s \in Seq(T)
  PROVE  /\ Reverse(s) \in Seq(T) /\ Range(Reverse(s)) = Range(s)
         /\ IsInjective(s) => IsInjective(Reverse(s))
<1> DEFINE n == Len(s)
           r == Reverse(s)
<1>1. n \in Nat /\ DOMAIN s = 1 .. n /\ \A i \in 1 .. n : s[i] \in T
  OBVIOUS
<1>2. r = [i \in 1 .. n |-> s[(n - i) + 1]]
  BY DEF Reverse
<1> HIDE DEF n, r
<1>3. \A i \in 1 .. n : (n - i) + 1 \in 1 .. n /\ (n - ((n - i) + 1)) + 1 = i
  BY <1>1
<1>4. DOMAIN r = 1 .. n /\ \A i \in 1 .. n : r[i] = s[(n - i) + 1]
  BY <1>2
<1>5. r \in Seq(T)
  BY <1>1, <1>2, <1>3
<1>6. Range(r) \subseteq Range(s)
  BY <1>1, <1>3, <1>4 DEF Range
<1>7. \A i \in 1 .. n : \E j \in 1 .. n : r[j] = s[i]
  BY <1>3, <1>4
<1>8. Range(s) \subseteq Range(r)
  <2> SUFFICES ASSUME NEW i \in 1 .. n PROVE s[i] \in Range(r)
    BY <1>1, InRange
  <2>1. PICK j \in 1 .. n : r[j] = s[i]
    BY <1>7
  <2>2. QED
    BY <1>4, <2>1, InRange
<1>9. IsInjective(s) => IsInjective(r)
  <2> SUFFICES ASSUME IsInjective(s), NEW i \in 1 .. n, NEW j \in 1 .. n, r[i] = r[j]
               PROVE  i = j
    BY <1>4 DEF IsInjective
  <2>1. (n - i) + 1 = (n - j) + 1
    BY <1>1, <1>3, <1>4 DEF IsInjective
  <2>2. QED
    BY <1>1, <2>1
<1>10. QED
  BY <1>5, <1>6, <1>8, <1>9 DEF r

(* What Among leaves of a sequence is in the order of the sequence.        *)
LEMMA AmongIs ==
  ASSUME NEW T, NEW s \in Seq(T), NEW S
  PROVE  /\ Among(s, S) \in Seq(T) /\ Range(Among(s, S)) = Range(s) \cap S
         /\ IsInjective(s) => IsInjective(Among(s, S))
         /\ \A a, b \in DOMAIN Among(s, S) : a < b =>
              \E i, j \in DOMAIN s : i < j /\ Among(s, S)[a] = s[i] /\ Among(s, S)[b] = s[j]
<1> DEFINE places == {i \in DOMAIN s : s[i] \in S}
           at == Ascending(places)
           p == Picked(s, places)
           k == Cardinality(places)
<1>1. places \subseteq DOMAIN s
  OBVIOUS
<1>2. \A i : i \in places <=> i \in DOMAIN s /\ s[i] \in S
  OBVIOUS
<1>3. Among(s, S) = p
  BY DEF Among
<1> HIDE DEF places
<1>4. /\ p \in Seq(T) /\ DOMAIN p = 1 .. k /\ k \in Nat
      /\ at \in [1 .. k -> places]
      /\ \A i \in 1 .. k : p[i] = s[at[i]]
      /\ \A i, j \in 1 .. k : i < j <=> at[i] < at[j]
  BY <1>1, PickedAt
<1>5. /\ \A i \in places : \E j \in DOMAIN p : p[j] = s[i]
      /\ \A j \in DOMAIN p : \E i \in places : p[j] = s[i]
      /\ IsInjective(s) => IsInjective(p)
  BY <1>1, PickedRange
<1> HIDE DEF p, k, at
<1>6. Range(p) = Range(s) \cap S
  BY <1>2, <1>5 DEF Range
<1>7. ASSUME NEW a \in DOMAIN p, NEW b \in DOMAIN p, a < b
      PROVE  \E i, j \in DOMAIN s : i < j /\ p[a] = s[i] /\ p[b] = s[j]
  BY <1>1, <1>4, <1>7
<1>8. QED
  BY <1>3, <1>4, <1>5, <1>6, <1>7

(* All that n makes ready is found. *)
LEMMA ReadyAfterAll ==
  ASSUME NEW edges, NEW n, NEW seen,
         OutEdges(edges, n) \in Seq(edges),
         Range(OutEdges(edges, n)) = {e \in edges : e.src = n},
         NEW e \in edges, e.src = n,
         \A d \in edges : d.dst = e.dst => d.src \in seen \cup {n}
  PROVE  e.dst \in Range(ReadyAfter(edges, n, seen))
<1> DEFINE out == OutEdges(edges, n)
           final == {i \in DOMAIN out :
                       /\ \A j \in i + 1 .. Len(out) : out[j].dst # out[i].dst
                       /\ \A d \in edges : d.dst = out[i].dst => d.src \in seen \cup {n}}
           at == Ascending(final)
           k == Cardinality(final)
           r == ReadyAfter(edges, n, seen)
<1>1. /\ out \in Seq(edges) /\ DOMAIN out = 1 .. Len(out) /\ Len(out) \in Nat
      /\ Range(out) = {d \in edges : d.src = n}
  OBVIOUS
<1>2. r = [i \in DOMAIN at |-> out[at[i]].dst]
  BY DEF ReadyAfter
<1>3. \A i : i \in final <=>
        /\ i \in DOMAIN out
        /\ \A j \in i + 1 .. Len(out) : out[j].dst # out[i].dst
        /\ \A d \in edges : d.dst = out[i].dst => d.src \in seen \cup {n}
  OBVIOUS
<1> HIDE DEF out, final, r
<1> DEFINE to == {i \in DOMAIN out : out[i].dst = e.dst}
<1>4. to # {} /\ to \subseteq Int /\ IsFiniteSet(to)
  <2>1. e \in Range(out)
    BY <1>1
  <2>2. \E i \in DOMAIN out : out[i] = e
    BY <2>1 DEF Range
  <2>3. IsFiniteSet(1 .. Len(out))
    BY <1>1, FS_Interval
  <2>4. to \subseteq 1 .. Len(out)
    BY <1>1
  <2>5. QED
    BY <1>1, <2>2, <2>3, <2>4, FS_Subset
<1>5. PICK i \in to : \A j \in to : j <= i
  BY <1>4, MaxIsGreatest
<1>6. i \in final
  <2>1. \A j \in i + 1 .. Len(out) : out[j].dst # out[i].dst
    <3> SUFFICES ASSUME NEW j \in i + 1 .. Len(out), out[j].dst = out[i].dst PROVE FALSE
      OBVIOUS
    <3>1. j \in DOMAIN out /\ out[i].dst = e.dst /\ i \in Nat /\ ~ (j <= i)
      BY <1>1, <1>5
    <3>2. j \in to
      BY <3>1
    <3>3. QED
      BY <1>5, <3>1, <3>2
  <2>2. i \in DOMAIN out /\ out[i].dst = e.dst
    BY <1>5
  <2>3. QED
    BY <1>3, <2>1, <2>2
<1>7. /\ k \in Nat /\ at \in [1 .. k -> final]
      /\ \A x \in final : \E j \in 1 .. k : at[j] = x
  <2>1. final \subseteq DOMAIN out
    BY <1>3
  <2>2. QED
    BY <1>1, <2>1, PickedAt
<1> HIDE DEF at, k
<1>8. PICK j \in 1 .. k : at[j] = i
  BY <1>6, <1>7
<1>9. DOMAIN at = 1 .. k /\ DOMAIN r = 1 .. k
  BY <1>2, <1>7
<1>10. r[j] = out[i].dst /\ out[i].dst = e.dst
  BY <1>2, <1>5, <1>8, <1>9
<1>11. e.dst \in Range(r)
  BY <1>9, <1>10 DEF Range
<1>12. QED
  BY <1>11 DEF r

(* To append is to concatenate a sequence of one element.                  *)
LEMMA AppendConcat ==
  ASSUME NEW T, NEW s \in Seq(T), NEW t \in Seq(T), NEW x \in T
  PROVE  s \o Append(t, x) = Append(s \o t, x) /\ s \o <<x>> = Append(s, x)
<1>1. <<x>> \in Seq(T) /\ \A u \in Seq(T) : Append(u, x) = u \o <<x>>
  OBVIOUS
<1>2. s \o t \in Seq(T)
  OBVIOUS
<1>3. (s \o t) \o <<x>> = s \o (t \o <<x>>)
  BY <1>1, ConcatAssociative
<1>4. QED
  BY <1>1, <1>2, <1>3

(***************************************************************************)
(* Graphs.                                                                 *)
(***************************************************************************)

EdgesAt(g, n) ==
  /\ InEdges(g.edges, n) \in Seq(g.edges) /\ IsInjective(InEdges(g.edges, n))
  /\ Range(InEdges(g.edges, n)) = {e \in g.edges : e.dst = n}
  /\ OutEdges(g.edges, n) \in Seq(g.edges) /\ IsInjective(OutEdges(g.edges, n))
  /\ Range(OutEdges(g.edges, n)) = {e \in g.edges : e.src = n}

(* get_in_edges and get_out_edges list the edges of a node, each once.     *)
LEMMA EdgesListed ==
  ASSUME NEW h, NEW g, IsGraphOf(h, g), NEW n
  PROVE  EdgesAt(g, n)
<1> DEFINE E == g.edges
<1>1. /\ IsFiniteSet(E) /\ NodesOf(g) \subseteq Int
      /\ \A e \in E : /\ e \in [src : NodesOf(g), out : Nat, dst : NodesOf(g), in : Nat]
                      /\ e.in = Control <=> e.out = Control
      /\ \A d, e \in E : d.dst = e.dst /\ d.in = e.in /\ e.in # Control => d = e
  BY DEF IsGraphOf
<1> HIDE DEF E
<1>2. \A e \in E : e.src \in Int /\ e.out \in Int /\ e.dst \in Int /\ e.in \in Int
  BY <1>1
<1>3. ASSUME NEW d \in E, NEW e \in E, d.dst = e.dst, d.in = e.in, d.src = e.src
      PROVE  d = e
  <2>1. CASE e.in # Control
    BY <1>1, <1>3, <2>1
  <2>2. CASE e.in = Control
    <3>1. d.out = Control /\ e.out = Control
      BY <1>1, <1>3, <2>2
    <3>2. /\ d = [src |-> d.src, out |-> d.out, dst |-> d.dst, in |-> d.in]
          /\ e = [src |-> e.src, out |-> e.out, dst |-> e.dst, in |-> e.in]
      BY <1>1
    <3>3. QED
      BY <1>3, <3>1, <3>2
  <2>3. QED
    BY <2>1, <2>2
<1>4. /\ InEdges(E, n) \in Seq(E) /\ IsInjective(InEdges(E, n))
      /\ Range(InEdges(E, n)) = {e \in E : e.dst = n}
  BY <1>1, <1>2, <1>3, InEdgesOnce
<1>5. /\ OutEdges(E, n) \in Seq(E) /\ IsInjective(OutEdges(E, n))
      /\ Range(OutEdges(E, n)) = {e \in E : e.src = n}
  BY <1>1, <1>2, <1>3, OutEdgesOnce
<1>6. QED
  BY <1>4, <1>5 DEF E, EdgesAt

(* So they do in a graph that the pass is given.                           *)
LEMMA GivenEdges ==
  ASSUME NEW h, IsGraph(h)
  PROVE  /\ \A e \in h.edges :
              /\ e \in [src : DOMAIN h.kind, out : Nat, dst : DOMAIN h.kind, in : Nat]
              /\ e.src < e.dst /\ (e.in = Control <=> e.out = Control)
              /\ e.in # Control =>
                   e.in \in 1 .. Cardinality({d \in h.edges : d.dst = e.dst /\ d.in # Control})
              /\ e.in # Control /\ h.kind[e.src] # "other" => e.out = 1
              /\ (e.in # Control /\ h.kind[e.dst] \in FusableKinds /\ h.kind[e.src] # "other") =>
                   h.size[e.src] = h.size[e.dst]
         /\ \A n \in DOMAIN h.kind : h.kind[n] = "broadcast" =>
              \E e \in h.edges : e.dst = n /\ e.in = 1
<1>1. ASSUME NEW n
      PROVE  Cardinality({d \in h.edges : d.dst = n /\ d.in # Control}) \in Nat
  <2>1. IsFiniteSet(h.edges)
    BY DEF IsGraph
  <2>2. IsFiniteSet({d \in h.edges : d.dst = n /\ d.in # Control})
    BY <2>1, FS_Subset
  <2>3. QED
    BY <2>2, FS_CardinalityType
<1>2. ASSUME NEW e \in h.edges
      PROVE  /\ e \in [src : DOMAIN h.kind, out : Nat, dst : DOMAIN h.kind, in : Nat]
             /\ e.src < e.dst /\ (e.in = Control <=> e.out = Control)
             /\ e.in # Control =>
                  e.in \in 1 .. Cardinality({d \in h.edges : d.dst = e.dst /\ d.in # Control})
             /\ e.in # Control /\ h.kind[e.src] # "other" => e.out = 1
             /\ (e.in # Control /\ h.kind[e.dst] \in FusableKinds /\ h.kind[e.src] # "other") =>
                  h.size[e.src] = h.size[e.dst]
  <2> DEFINE c == Cardinality({d \in h.edges : d.dst = e.dst /\ d.in # Control})
  <2>1. c \in Nat
    BY <1>1
  <2>2. /\ e \in [src : DOMAIN h.kind, out : Nat, dst : DOMAIN h.kind, in : Nat]
        /\ e.src < e.dst
        /\ \/ e.in = Control /\ e.out = Control
           \/ /\ e.in \in 1 .. c
              /\ e.out # Control /\ (h.kind[e.src] # "other" => e.out = 1)
              /\ h.kind[e.dst] \in FusableKinds /\ h.kind[e.src] # "other" =>
                   h.size[e.src] = h.size[e.dst]
    BY DEF IsGraph
  <2> HIDE DEF c
  <2>3. e.in \in 1 .. c => e.in # Control
    BY <2>1 DEF Control
  <2>4. QED
    BY <2>2, <2>3 DEF c
<1>3. ASSUME NEW n \in DOMAIN h.kind, h.kind[n] = "broadcast"
      PROVE  \E e \in h.edges : e.dst = n /\ e.in = 1
  <2> DEFINE D == {d \in h.edges : d.dst = n /\ d.in # Control}
  <2>1. Cardinality(D) = 1
    BY <1>3 DEF IsGraph
  <2>2. PICK e \in D : TRUE
    <3>1. D # {}
      BY <2>1, FS_EmptySet
    <3>2. QED
      BY <3>1
  <2>3. e.in \in 1 .. Cardinality(D) /\ e.dst = n
    BY <1>2, <2>2
  <2>4. e.in = 1
    BY <2>1, <2>3
  <2>5. QED
    BY <2>2, <2>3, <2>4
<1>4. QED
  BY <1>2, <1>3

(* What the pass may expect of the graph it is given.                      *)
LEMMA AboutGiven == given \in Graphs => IsGraph(given)
BY KernelFusionAssumption

(* The edges of g are in an order in which nothing is before itself.       *)
NoCycle(g) ==
  \E R \in SUBSET (NodesOf(g) \X NodesOf(g)) :
    /\ \A e \in g.edges : <<e.src, e.dst>> \in R
    /\ \A x \in NodesOf(g) : <<x, x>> \notin R
    /\ \A x, y, z \in NodesOf(g) : <<x, y>> \in R /\ <<y, z>> \in R => <<x, z>> \in R

(* The order of the nodes, as long as nothing goes round.                  *)
LEMMA OpsOfGraph ==
  ASSUME NEW h, NEW g, IsGraphOf(h, g), NoCycle(g),
         NEW C, {n \in DOMAIN h.kind : h.kind[n] = "result"} \subseteq C,
         \A e \in g.edges : e.dst \in C => e.src \in C
  PROVE  LET order == OpsInOrder(NodesOf(g), g.edges, {n \in DOMAIN h.kind : h.kind[n] = "result"})
         IN  /\ order \in Seq(NodesOf(g)) /\ IsInjective(order) /\ Range(order) \subseteq C
             /\ {n \in DOMAIN h.kind : h.kind[n] = "result"} \subseteq Range(order)
             /\ EdgesForward(order, g.edges)
<1> DEFINE N == NodesOf(g)
           E == g.edges
           out == {n \in DOMAIN h.kind : h.kind[n] = "result"}
<1>1. /\ N \subseteq Int /\ IsFiniteSet(N) /\ out \subseteq N
      /\ \A e \in E : e.src \in N /\ e.dst \in N
  <2>1. g.last \in Nat /\ N \subseteq 1 .. g.last /\ out \subseteq N
    BY DEF IsGraphOf
  <2>2. IsFiniteSet(1 .. g.last)
    BY <2>1, FS_Interval
  <2>3. \A e \in E : e \in [src : N, out : Nat, dst : N, in : Nat]
    BY DEF IsGraphOf
  <2>4. \A e \in E : e.src \in N /\ e.dst \in N
    BY <2>3
  <2>5. QED
    BY <2>1, <2>2, <2>4, FS_Subset
<1>2. /\ \A n \in N : InEdges(E, n) \in Seq(E)
      /\ \A n \in N : Range(InEdges(E, n)) = {e \in E : e.dst = n}
  <2>1. \A n \in N : EdgesAt(g, n)
    BY EdgesListed
  <2>2. QED
    BY <2>1 DEF EdgesAt
<1>3. PICK R \in SUBSET (N \X N) :
        /\ \A e \in E : <<e.src, e.dst>> \in R
        /\ \A x \in N : <<x, x>> \notin R
        /\ \A x, y, z \in N : <<x, y>> \in R /\ <<y, z>> \in R => <<x, z>> \in R
  BY DEF NoCycle
<1>4. StrictOrder(R, N)
  BY <1>3 DEF StrictOrder
<1>5. out \subseteq C /\ \A e \in E : e.dst \in C => e.src \in C
  OBVIOUS
<1> HIDE DEF N, E, out
<1>6. /\ OpsInOrder(N, E, out) \in Seq(N) /\ IsInjective(OpsInOrder(N, E, out))
      /\ Range(OpsInOrder(N, E, out)) \subseteq C
      /\ out \subseteq Range(OpsInOrder(N, E, out)) /\ EdgesForward(OpsInOrder(N, E, out), E)
  BY <1>1, <1>2, <1>3, <1>4, <1>5, OpsAreOrdered
<1>7. QED
  BY <1>6 DEF N, E, out

(* Nothing goes round while edges go from lower to higher kernels. *)
LEMMA UnfusedNoCycle ==
  ASSUME NEW h, IsGraph(h), NEW g, IsGraphOf(h, g), Unfused(h, g)
  PROVE  NoCycle(g)
<1> DEFINE N == NodesOf(g)
           R == {p \in N \X N : First(g, p[1]) < First(g, p[2])}
<1>1. \A n \in N : First(g, n) \in Nat
  <2> TAKE n \in N
  <2>1. g.kernels[n] \in Seq(DOMAIN h.kind) /\ g.kernels[n] = <<First(g, n)>>
    BY DEF IsGraphOf, Unfused
  <2>2. g.kernels[n][1] \in DOMAIN h.kind
    <3> DEFINE K == DOMAIN h.kind
               s == g.kernels[n]
    <3>1. Len(s) = 1 /\ s \in Seq(K)
      BY <2>1
    <3> HIDE DEF K, s
    <3>2. s[1] \in K
      BY <3>1, ElementOfSeq
    <3>3. QED
      BY <3>2 DEF K, s
  <2>3. DOMAIN h.kind \subseteq Nat
    BY DEF IsGraph
  <2>4. QED
    BY <2>2, <2>3 DEF First
<1>2. \A e \in g.edges : e.src \in N /\ e.dst \in N
  BY DEF IsGraphOf
<1>3. ASSUME NEW e \in g.edges PROVE <<e.src, e.dst>> \in R
  <2>1. PICK d \in h.edges : d.src = First(g, e.src) /\ d.dst = First(g, e.dst)
    BY DEF Unfused
  <2>2. d.src < d.dst
    BY GivenEdges
  <2>3. QED
    BY <1>2, <2>1, <2>2
<1>4. \A x, y \in N : <<x, y>> \in R <=> First(g, x) < First(g, y)
  OBVIOUS
<1>5. R \in SUBSET (N \X N)
  OBVIOUS
<1> HIDE DEF R, N
<1>6. \A x \in N : <<x, x>> \notin R
  BY <1>1, <1>4
<1>7. \A x, y, z \in N : <<x, y>> \in R /\ <<y, z>> \in R => <<x, z>> \in R
  BY <1>1, <1>4
<1>8. QED
  BY <1>3, <1>5, <1>6, <1>7 DEF NoCycle, N

(***************************************************************************)
(* Which nodes the groups have.                                            *)
(***************************************************************************)

(* The graph that is given, as the pass keeps it. *)
GivenIn(h, g) ==
  /\ g.edges = h.edges /\ NodesOf(g) = DOMAIN h.kind
  /\ \A n \in DOMAIN h.kind : g.kernels[n] = <<n>>
  /\ g.last = Max(DOMAIN h.kind)
  /\ DOMAIN g.ins = DOMAIN h.kind /\ DOMAIN g.outs = DOMAIN h.kind

(* The first graph is the given one.                                       *)
LEMMA GivenUnfused ==
  ASSUME NEW h, IsGraph(h), NEW g, GivenIn(h, g)
  PROVE  IsGraphOf(h, g) /\ Unfused(h, g)
<1> DEFINE N == DOMAIN h.kind
<1>1. /\ g.edges = h.edges /\ NodesOf(g) = N
      /\ \A n \in N : g.kernels[n] = <<n>>
      /\ g.last = Max(N) /\ DOMAIN g.ins = N /\ DOMAIN g.outs = N
  BY DEF GivenIn
<1>2. /\ N \subseteq Nat \ {0} /\ IsFiniteSet(N) /\ N # {} /\ IsFiniteSet(h.edges)
      /\ \A d, e \in h.edges : d.dst = e.dst /\ d.in = e.in /\ e.in # Control => d = e
  BY DEF IsGraph
<1>3. /\ \A e \in h.edges :
              /\ e \in [src : N, out : Nat, dst : N, in : Nat]
              /\ e.src < e.dst /\ (e.in = Control <=> e.out = Control)
      /\ \A n \in N : h.kind[n] = "broadcast" => \E e \in h.edges : e.dst = n /\ e.in = 1
  BY GivenEdges
<1>4. \A n \in N : First(g, n) = n /\ g.kernels[n] = <<First(g, n)>> /\ g.kernels[n] \in Seq(N)
  <2> TAKE n \in N
  <2>1. g.kernels[n] = <<n>>
    BY <1>1
  <2>2. <<n>> \in Seq(N) /\ <<n>>[1] = n
    BY OneElement
  <2>3. QED
    BY <2>1, <2>2 DEF First
<1>5. g.last \in Nat /\ N \subseteq 1 .. g.last
  <2>1. N \subseteq Int
    BY <1>2
  <2>2. Max(N) \in N /\ \A n \in N : n <= Max(N)
    BY <1>2, <2>1, MaxIsGreatest
  <2>3. QED
    BY <1>1, <1>2, <2>2
<1>6. {n \in DOMAIN h.kind : h.kind[n] = "result"} \subseteq N
  OBVIOUS
<1> HIDE DEF N
<1>7. IsGraphOf(h, g)
  BY <1>1, <1>2, <1>3, <1>4, <1>5, <1>6 DEF IsGraphOf, N
<1>8. \A e \in g.edges : \E d \in h.edges :
       d.src = First(g, e.src) /\ d.dst = First(g, e.dst) /\ d.in = e.in
  <2> TAKE e \in g.edges
  <2>1. e \in h.edges /\ e.src \in N /\ e.dst \in N
    BY <1>1, <1>3
  <2>2. QED
    BY <1>4, <2>1
<1>9. Unfused(h, g)
  BY <1>1, <1>3, <1>4, <1>8 DEF Unfused, N
<1>10. QED
  BY <1>7, <1>9

(* The invariant holds when the pass starts.                               *)
LEMMA InitKInv == Init => KInv
<1> SUFFICES ASSUME Init PROVE KInv
  OBVIOUS
<1> DEFINE N == DOMAIN given.kind
<1>1. given \in Graphs /\ level \in Levels /\ IsGraph(given)
  BY AboutGiven DEF Init
<1>2. GivenIn(given, graph)
  BY DEF Init, GivenIn, NodesOf
<1>3. IsGraphOf(given, graph) /\ Unfused(given, graph)
  BY <1>1, <1>2, GivenUnfused
<1>4. graph.edges = given.edges /\ NodesOf(graph) = N
  BY <1>2 DEF GivenIn
<1>5. NoCycle(graph)
  BY <1>1, <1>3, UnfusedNoCycle
<1>6. /\ tagged = Range(OrderedOps)
      /\ ready = Among(OrderedOps, {n \in tagged : InEdges(given.edges, n) = <<>>})
      /\ phase = "ready" /\ visited = {} /\ elements = <<>> /\ open = <<>>
      /\ group = <<>> /\ groups = <<>> /\ index = 1
  BY DEF Init
<1>7. /\ OrderedOps \in Seq(N) /\ IsInjective(OrderedOps)
      /\ EdgesForward(OrderedOps, given.edges)
  <2> DEFINE C == NodesOf(graph)
  <2>1. /\ {n \in DOMAIN given.kind : given.kind[n] = "result"} \subseteq C
        /\ \A e \in graph.edges : e.dst \in C => e.src \in C
    BY <1>3 DEF IsGraphOf
  <2> HIDE DEF C
  <2>2. LET order == OpsInOrder(NodesOf(graph), graph.edges,
                       {n \in DOMAIN given.kind : given.kind[n] = "result"})
        IN  order \in Seq(NodesOf(graph)) /\ IsInjective(order) /\ EdgesForward(order, graph.edges)
    BY <1>3, <1>5, <2>1, OpsOfGraph
  <2>3. QED
    BY <1>4, <2>2 DEF OrderedOps, Results
<1> HIDE DEF N
<1>8. \A e \in given.edges : e.src \in N /\ e.dst \in N
  BY <1>1, GivenEdges DEF N
<1>9. tagged \subseteq N /\ OrderedOps \in Seq(tagged)
  <2> DEFINE o == OrderedOps
  <2>1. o \in Seq(N) /\ tagged = Range(o)
    BY <1>6, <1>7
  <2> HIDE DEF o
  <2>2. o \in [DOMAIN o -> Range(o)] /\ DOMAIN o = 1 .. Len(o) /\ Len(o) \in Nat
    BY <2>1, InRange
  <2>3. Range(o) \subseteq N
    BY <2>1 DEF Range
  <2>4. o \in Seq(Range(o))
    BY <2>2
  <2>5. QED
    BY <2>1, <2>3, <2>4 DEF o
<1>10. \A e \in given.edges : e.dst \in tagged => e.src \in tagged
  <2> TAKE e \in given.edges
  <2> HAVE e.dst \in tagged
  <2>1. PICK j \in DOMAIN OrderedOps : OrderedOps[j] = e.dst
    BY <1>6, InRange
  <2>2. PICK i \in 1 .. j - 1 : OrderedOps[i] = e.src
    BY <1>7, <2>1 DEF EdgesForward
  <2>3. i \in DOMAIN OrderedOps
    BY <1>7, <2>1, <2>2
  <2>4. QED
    BY <1>6, <2>2, <2>3, InRange
<1>11. \A n \in N : InEdges(given.edges, n) = <<>> <=> \A e \in given.edges : e.dst # n
  <2> TAKE n \in N
  <2>1. /\ InEdges(given.edges, n) \in Seq(given.edges)
        /\ Range(InEdges(given.edges, n)) = {e \in given.edges : e.dst = n}
    <3>1. EdgesAt(graph, n)
      BY <1>3, EdgesListed
    <3>2. QED
      BY <1>4, <3>1 DEF EdgesAt
  <2> DEFINE s == InEdges(given.edges, n)
             E == given.edges
  <2>2. s \in Seq(E) /\ Range(s) = {e \in E : e.dst = n}
    BY <2>1
  <2> HIDE DEF s, E
  <2>3. s = <<>> => Range(s) = {}
    BY DEF Range
  <2>4. s # <<>> => s[1] \in Range(s)
    <3>1. s # <<>> => 1 \in DOMAIN s
      BY <2>2
    <3>2. QED
      BY <3>1, InRange
  <2>5. s = <<>> <=> \A e \in E : e.dst # n
    BY <2>2, <2>3, <2>4
  <2>6. QED
    BY <2>5 DEF s, E
<1>12. /\ ready \in Seq(tagged) /\ IsInjective(ready)
       /\ Range(ready) = {n \in tagged : \A e \in given.edges : e.dst # n}
  <2> DEFINE S == {n \in tagged : InEdges(given.edges, n) = <<>>}
  <2>1. ready = Among(OrderedOps, S)
    BY <1>6
  <2>2. S = {n \in tagged : \A e \in given.edges : e.dst # n}
    BY <1>9, <1>11
  <2> HIDE DEF S
  <2>3. ready \in Seq(tagged) /\ IsInjective(ready) /\ Range(ready) = Range(OrderedOps) \cap S
    BY <1>7, <1>9, <2>1, AmongIs
  <2>4. QED
    BY <1>6, <2>2, <2>3
<1>13. /\ IsInjective(elements) /\ Range(elements) = {} /\ elements \in Seq(tagged)
  BY <1>6 DEF Range, IsInjective
<1>14. Queues
  BY <1>4, <1>6, <1>8, <1>9, <1>10, <1>12, <1>13 DEF Queues, N
<1>15. GroupsGather
  <2>1. Gathered = <<<<>>>>
    BY <1>6 DEF Gathered
  <2>2. <<>> \in Seq(N)
    OBVIOUS
  <2>3. FlattenSeq(Gathered) = <<>>
    BY <2>1, <2>2, FlattenOne
  <2>4. IsInjective(<<>>) /\ Range(<<>>) = {}
    BY DEF IsInjective, Range
  <2>5. groups \in Seq(Seq(N)) /\ group \in Seq(Seq(N)) /\ open \in Seq(N)
    BY <1>6
  <2>6. QED
    BY <1>6, <2>3, <2>4, <2>5 DEF GroupsGather, N
<1>16. QED
  BY <1>1, <1>3, <1>4, <1>6, <1>14, <1>15 DEF KInv, Extracting, Fusing, N

(* What the head of a sequence leaves behind.                              *)
LEMMA HeadTail ==
  ASSUME NEW T, NEW s \in Seq(T), s # <<>>, IsInjective(s)
  PROVE  /\ Tail(s) \in Seq(T) /\ IsInjective(Tail(s)) /\ Head(s) \in Range(s)
         /\ Range(Tail(s)) = Range(s) \ {Head(s)}
<1> DEFINE n == Len(s)
           t == Tail(s)
<1>1. /\ n \in Nat /\ n > 0 /\ DOMAIN s = 1 .. n /\ t \in Seq(T) /\ Head(s) = s[1]
      /\ DOMAIN t = 1 .. n - 1 /\ \A i \in 1 .. n - 1 : t[i] = s[i + 1]
  OBVIOUS
<1> HIDE DEF n, t
<1>2. \A i, j \in 1 .. n : s[i] = s[j] => i = j
  BY <1>1 DEF IsInjective
<1>3. ASSUME NEW i \in 1 .. n - 1
      PROVE  t[i] = s[i + 1] /\ i + 1 \in 1 .. n /\ s[i + 1] # s[1]
  <2>1. i + 1 \in 1 .. n /\ 1 \in 1 .. n /\ i + 1 # 1
    BY <1>1
  <2>2. QED
    BY <1>1, <1>2, <2>1
<1>4. IsInjective(t)
  <2> SUFFICES ASSUME NEW i \in 1 .. n - 1, NEW j \in 1 .. n - 1, t[i] = t[j] PROVE i = j
    BY <1>1 DEF IsInjective
  <2>1. i + 1 = j + 1
    BY <1>2, <1>3
  <2>2. QED
    BY <1>1, <2>1
<1>5. 1 \in DOMAIN s
  BY <1>1
<1>6. Range(t) \subseteq Range(s) \ {s[1]}
  <2> SUFFICES ASSUME NEW i \in 1 .. n - 1 PROVE t[i] \in Range(s) /\ t[i] # s[1]
    BY <1>1, InRange
  <2>1. QED
    BY <1>1, <1>3, InRange
<1>7. Range(s) \ {s[1]} \subseteq Range(t)
  <2> SUFFICES ASSUME NEW i \in 1 .. n, s[i] # s[1] PROVE s[i] \in Range(t)
    BY <1>1, InRange
  <2>1. i - 1 \in 1 .. n - 1 /\ (i - 1) + 1 = i
    BY <1>1
  <2>2. t[i - 1] = s[i]
    BY <1>1, <2>1
  <2>3. QED
    BY <1>1, <2>1, <2>2, InRange
<1>8. QED
  BY <1>1, <1>4, <1>5, <1>6, <1>7, InRange DEF t

(* Until nodes are fused, KindOf is the kind of the given node.            *)
LEMMA KindsGiven ==
  ASSUME KInv, Extracting
  PROVE  \A n \in DOMAIN given.kind : KindOf(n) = given.kind[n] /\ First(graph, n) = n
<1>1. Unfused(given, graph)
  BY DEF KInv, Extracting, Fusing
<1>2. \A n \in DOMAIN given.kind : First(graph, n) = n
  BY <1>1 DEF Unfused
<1>3. QED
  BY <1>2 DEF KindOf, First

(* What is left of the queues without n, and what n makes ready. *)
TakenOut(n, readyRest, elementsRest) ==
  /\ n \in tagged \ visited /\ \A e \in given.edges : e.dst = n => e.src \in visited
  /\ readyRest \in Seq(tagged) /\ elementsRest \in Seq(tagged)
  /\ IsInjective(readyRest) /\ IsInjective(elementsRest)
  /\ Range(readyRest) \cap Range(elementsRest) = {}
  /\ Range(readyRest) \cup Range(elementsRest) =
       {m \in tagged \ (visited \cup {n}) : \A e \in given.edges : e.dst = m => e.src \in visited}
  /\ \A m \in Range(elementsRest) : given.kind[m] \in FusableKinds

(* AddNodeToReadyQueues keeps the queues complete and without repetition.  *)
LEMMA QueuesKeep ==
  ASSUME KInv, Extracting, NEW n, NEW readyRest, NEW elementsRest,
         TakenOut(n, readyRest, elementsRest), AddNodeToReadyQueues(n, readyRest, elementsRest),
         UNCHANGED <<given, graph, tagged>>
  PROVE  Queues'
<1> DEFINE E == given.edges
           r == ReadyAfter(E, n, visited)
           new == Among(r, tagged)
           fusable == {m \in tagged : given.kind[m] \in FusableKinds}
           others == tagged \ fusable
           a == Among(new, others)
           b == Reverse(Among(new, fusable))
<1>1. Queues /\ graph.edges = E /\ IsGraphOf(given, graph)
  BY DEF KInv, Extracting, Fusing
<1>2. /\ n \in tagged \ visited /\ \A e \in E : e.dst = n => e.src \in visited
      /\ readyRest \in Seq(tagged) /\ elementsRest \in Seq(tagged)
      /\ IsInjective(readyRest) /\ IsInjective(elementsRest)
      /\ Range(readyRest) \cap Range(elementsRest) = {}
      /\ Range(readyRest) \cup Range(elementsRest) =
           {m \in tagged \ (visited \cup {n}) : \A e \in E : e.dst = m => e.src \in visited}
      /\ \A m \in Range(elementsRest) : given.kind[m] \in FusableKinds
  BY DEF TakenOut
<1>3. /\ visited \subseteq tagged /\ tagged \subseteq DOMAIN given.kind
      /\ \A e \in E : /\ e.dst \in tagged => e.src \in tagged
                      /\ e.dst \in visited => e.src \in visited
  BY <1>1 DEF Queues
<1>4. {m \in tagged : KindOf(m) \in FusableKinds} = fusable
  BY <1>3, KindsGiven
<1>5. visited' = visited \cup {n} /\ ready' = readyRest \o a /\ elements' = b \o elementsRest
  BY <1>1, <1>4 DEF AddNodeToReadyQueues, Newly
<1>6. /\ OutEdges(E, n) \in Seq(E) /\ Range(OutEdges(E, n)) = {e \in E : e.src = n}
  <2>1. EdgesAt(graph, n)
    BY <1>1, EdgesListed
  <2>2. QED
    BY <1>1, <2>1 DEF EdgesAt
<1> DEFINE N == DOMAIN given.kind
<1>7. \A e \in E : e.dst \in N
  <2>1. IsGraph(given)
    BY AboutGiven DEF KInv
  <2>2. QED
    BY <2>1, GivenEdges
<1> HIDE DEF E, N
<1>8. /\ r \in Seq(N) /\ IsInjective(r)
      /\ \A m \in Range(r) : /\ \E e \in E : e.src = n /\ e.dst = m
                             /\ \A e \in E : e.dst = m => e.src \in visited \cup {n}
  <2>1. OutEdges(E, n) \in Seq(E)
    BY <1>6
  <2>2. Range(OutEdges(E, n)) = {e \in E : e.src = n}
    BY <1>6
  <2>3. QED
    BY <1>7, <2>1, <2>2, ReadyAfterSources
<1>9. \A e \in E : e.src = n /\ (\A d \in E : d.dst = e.dst => d.src \in visited \cup {n}) =>
        e.dst \in Range(r)
  BY <1>6, ReadyAfterAll
<1> HIDE DEF r
<1>10. IsInjective(new) /\ Range(new) = Range(r) \cap tagged /\ new \in Seq(tagged)
  <2>1. new \in Seq(N) /\ IsInjective(new) /\ Range(new) = Range(r) \cap tagged
    BY <1>8, AmongIs
  <2> HIDE DEF new
  <2>2. \A i \in DOMAIN new : new[i] \in tagged
    BY <2>1, InRange
  <2>3. DOMAIN new = 1 .. Len(new) /\ Len(new) \in Nat /\ new = [i \in 1 .. Len(new) |-> new[i]]
    BY <2>1
  <2>4. new \in Seq(tagged)
    BY <2>2, <2>3
  <2>5. QED
    BY <2>1, <2>4
<1> HIDE DEF new
<1>11. a \in Seq(tagged) /\ IsInjective(a) /\ Range(a) = Range(new) \cap others
  BY <1>10, AmongIs
<1>12. b \in Seq(tagged) /\ IsInjective(b) /\ Range(b) = Range(new) \cap fusable
  <2>1. /\ Among(new, fusable) \in Seq(tagged) /\ IsInjective(Among(new, fusable))
        /\ Range(Among(new, fusable)) = Range(new) \cap fusable
    BY <1>10, AmongIs
  <2>2. QED
    BY <2>1, ReverseRange
<1>13. fusable \subseteq tagged /\ others \cap fusable = {} /\ others \cup fusable = tagged
  OBVIOUS
<1>14. \A m \in fusable : given.kind[m] \in FusableKinds
  OBVIOUS
<1> HIDE DEF a, b, fusable, others
(* What n makes ready has waited for it. *)
<1>15. Range(new) \cap (Range(readyRest) \cup Range(elementsRest)) = {}
  <2> SUFFICES ASSUME NEW m \in Range(new), m \in Range(readyRest) \cup Range(elementsRest)
               PROVE  FALSE
    OBVIOUS
  <2>1. PICK e \in E : e.src = n /\ e.dst = m
    BY <1>8, <1>10
  <2>2. n \in visited
    BY <1>2, <2>1
  <2>3. QED
    BY <1>2, <2>2
<1>16. Range(new) \cup Range(readyRest) \cup Range(elementsRest) =
         {m \in tagged \ visited' : \A e \in E : e.dst = m => e.src \in visited'}
  <2>1. ASSUME NEW m \in Range(new)
        PROVE  m \in tagged \ visited' /\ \A e \in E : e.dst = m => e.src \in visited'
    <3>1. PICK e \in E : e.src = n /\ e.dst = m
      BY <1>8, <1>10, <2>1
    <3>2. m \notin visited
      BY <1>2, <1>3, <3>1
    <3>3. m # n
      BY <1>2, <3>1
    <3>4. QED
      BY <1>5, <1>8, <1>10, <2>1, <3>2, <3>3
  <2>2. ASSUME NEW m \in tagged \ visited', \A e \in E : e.dst = m => e.src \in visited'
        PROVE  m \in Range(new) \cup Range(readyRest) \cup Range(elementsRest)
    <3>1. CASE \E e \in E : e.dst = m /\ e.src = n
      BY <1>5, <1>9, <1>10, <2>2, <3>1
    <3>2. CASE ~ \E e \in E : e.dst = m /\ e.src = n
      BY <1>2, <1>5, <2>2, <3>2
    <3>3. QED
      BY <3>1, <3>2
  <2>3. \A m \in Range(readyRest) \cup Range(elementsRest) :
          m \in tagged \ visited' /\ \A e \in E : e.dst = m => e.src \in visited'
    BY <1>2, <1>5
  <2>4. QED
    BY <2>1, <2>2, <2>3
<1>17. /\ ready' \in Seq(tagged) /\ Range(ready') = Range(readyRest) \cup Range(a)
       /\ IsInjective(ready')
  <2>1. Range(readyRest) \cap Range(a) = {}
    BY <1>11, <1>15
  <2>2. QED
    BY <1>2, <1>5, <1>11, <2>1, ConcatRange, ConcatInjective
<1>18. /\ elements' \in Seq(tagged) /\ Range(elements') = Range(b) \cup Range(elementsRest)
       /\ IsInjective(elements')
  <2>1. Range(b) \cap Range(elementsRest) = {}
    BY <1>12, <1>15
  <2>2. QED
    BY <1>2, <1>5, <1>12, <2>1, ConcatRange, ConcatInjective
<1>19. Range(ready') \cup Range(elements') =
         Range(new) \cup Range(readyRest) \cup Range(elementsRest)
  BY <1>10, <1>11, <1>12, <1>13, <1>17, <1>18
<1>20. Range(ready') \cap Range(elements') = {}
  BY <1>2, <1>11, <1>12, <1>13, <1>15, <1>17, <1>18
<1>21. \A m \in Range(elements') : given.kind[m] \in FusableKinds
  BY <1>2, <1>12, <1>14, <1>18
<1>22. visited' \subseteq tagged
  BY <1>2, <1>3, <1>5
<1>23. \A e \in E : e.dst \in visited' => e.src \in visited'
  BY <1>2, <1>3, <1>5
<1>24. given' = given /\ tagged' = tagged
  OBVIOUS
<1>25. QED
  BY <1>3, <1>16, <1>17, <1>18, <1>19, <1>20, <1>21, <1>22, <1>23, <1>24 DEF Queues, E

(* The groups so far, flattened. *)
LEMMA GatheredFlat ==
  ASSUME GroupsGather
  PROVE  /\ groups \o group \in Seq(Seq(DOMAIN given.kind)) /\ Gathered \in Seq(Seq(DOMAIN given.kind))
         /\ Gathered = Append(groups \o group, open)
         /\ FlattenSeq(Gathered) \in Seq(DOMAIN given.kind)
         /\ FlattenSeq(Gathered) = FlattenSeq(groups \o group) \o open
         /\ FlattenSeq(groups \o group) \in Seq(DOMAIN given.kind)
<1> DEFINE N == DOMAIN given.kind
           p == groups \o group
<1>1. groups \in Seq(Seq(N)) /\ group \in Seq(Seq(N)) /\ open \in Seq(N)
  BY DEF GroupsGather
<1> HIDE DEF N
<1>2. p \in Seq(Seq(N))
  BY <1>1
<1>3. Gathered = p \o <<open>>
  BY DEF Gathered
<1> HIDE DEF p
<1>4. Gathered = Append(p, open) /\ Gathered \in Seq(Seq(N))
  BY <1>1, <1>2, <1>3
<1>5. FlattenSeq(Gathered) = FlattenSeq(p) \o open
  BY <1>1, <1>2, <1>4, FlattenAppend
<1>6. FlattenSeq(Gathered) \in Seq(N) /\ FlattenSeq(p) \in Seq(N)
  BY <1>2, <1>4, FlattenType
<1>7. QED
  BY <1>2, <1>4, <1>5, <1>6 DEF N, p

(* A step of the walk that visits a node of ready.                         *)
LEMMA VisitReadyKeeps ==
  ASSUME KInv, VisitReady
  PROVE  KInv'
<1> DEFINE n == Head(ready)
<1>1. /\ phase = "ready" /\ ready # <<>>
      /\ AddNodeToReadyQueues(n, Tail(ready), elements)
      /\ UNCHANGED <<given, level, graph, phase, tagged, open, group, groups, index>>
  BY DEF VisitReady
<1>2. Extracting /\ Queues /\ GroupsGather
  BY <1>1 DEF KInv, Extracting
<1>3. /\ ready \in Seq(tagged) /\ elements \in Seq(tagged)
      /\ IsInjective(ready) /\ IsInjective(elements) /\ Range(ready) \cap Range(elements) = {}
      /\ Range(ready) \cup Range(elements) =
           {m \in tagged \ visited : \A e \in given.edges : e.dst = m => e.src \in visited}
      /\ \A m \in Range(elements) : given.kind[m] \in FusableKinds
  BY <1>2 DEF Queues
<1>4. /\ Tail(ready) \in Seq(tagged) /\ IsInjective(Tail(ready)) /\ n \in Range(ready)
      /\ Range(Tail(ready)) = Range(ready) \ {n}
  BY <1>1, <1>3, HeadTail
<1> HIDE DEF n
<1>5. TakenOut(n, Tail(ready), elements)
  BY <1>3, <1>4 DEF TakenOut
<1>6. Queues'
  BY <1>1, <1>2, <1>5, QueuesKeep
<1>7. visited' = visited \cup {n}
  BY <1>1 DEF AddNodeToReadyQueues
<1>8. GroupsGather'
  BY <1>1, <1>2, <1>7 DEF GroupsGather, Gathered
<1>9. QED
  BY <1>1, <1>6, <1>8 DEF KInv, Extracting, Fusing

(* One that visits a node of elem_ready and puts it into a group.          *)
LEMMA VisitElementKeeps ==
  ASSUME KInv, VisitElement
  PROVE  KInv'
<1> DEFINE n == Head(elements)
           N == DOMAIN given.kind
<1>1. /\ phase = "elements" /\ elements # <<>>
      /\ \/ open' = Append(open, n) /\ group' = group
         \/ open' = <<n>> /\ group' = Append(group, open)
      /\ AddNodeToReadyQueues(n, ready, Tail(elements))
      /\ UNCHANGED <<given, level, graph, phase, tagged, groups, index>>
  BY DEF VisitElement
<1>2. Extracting /\ Queues /\ GroupsGather
  BY <1>1 DEF KInv, Extracting
<1>3. /\ ready \in Seq(tagged) /\ elements \in Seq(tagged) /\ tagged \subseteq N
      /\ IsInjective(ready) /\ IsInjective(elements) /\ Range(ready) \cap Range(elements) = {}
      /\ Range(ready) \cup Range(elements) =
           {m \in tagged \ visited : \A e \in given.edges : e.dst = m => e.src \in visited}
      /\ \A m \in Range(elements) : given.kind[m] \in FusableKinds
  BY <1>2 DEF Queues
<1>4. /\ Tail(elements) \in Seq(tagged) /\ IsInjective(Tail(elements)) /\ n \in Range(elements)
      /\ Range(Tail(elements)) = Range(elements) \ {n}
  BY <1>1, <1>3, HeadTail
<1> HIDE DEF n
<1>5. TakenOut(n, ready, Tail(elements))
  BY <1>3, <1>4 DEF TakenOut
<1>6. Queues'
  BY <1>1, <1>2, <1>5, QueuesKeep
<1>7. visited' = visited \cup {n}
  BY <1>1 DEF AddNodeToReadyQueues
<1>8. n \in N /\ n \notin visited /\ given.kind[n] \in FusableKinds
  BY <1>3, <1>4
<1> DEFINE p == groups \o group
           f == FlattenSeq(Gathered)
<1>9. /\ groups \in Seq(Seq(N)) /\ group \in Seq(Seq(N)) /\ open \in Seq(N)
      /\ IsInjective(f) /\ Range(f) \subseteq {m \in visited : given.kind[m] \in FusableKinds}
      /\ p \in Seq(Seq(N)) /\ Gathered \in Seq(Seq(N)) /\ Gathered = Append(p, open)
      /\ f \in Seq(N) /\ f = FlattenSeq(p) \o open /\ FlattenSeq(p) \in Seq(N)
  BY <1>2, GatheredFlat DEF GroupsGather
<1> HIDE DEF N
<1>10. open' \in Seq(N) /\ group' \in Seq(Seq(N))
  <2>1. Append(open, n) \in Seq(N) /\ <<n>> \in Seq(N)
    BY <1>8, <1>9
  <2>2. Append(group, open) \in Seq(Seq(N))
    BY <1>9
  <2>3. QED
    BY <1>1, <1>9, <2>1, <2>2
<1>11. FlattenSeq(Gathered') = Append(f, n)
  <2>1. CASE open' = Append(open, n) /\ group' = group
    <3>1. Gathered' = p \o <<Append(open, n)>>
      BY <1>1, <2>1 DEF Gathered
    <3> HIDE DEF p
    <3>2. Append(open, n) \in Seq(N)
      BY <1>8, <1>9
    <3>3. Gathered' = Append(p, Append(open, n))
      BY <1>9, <3>1, <3>2
    <3>4. FlattenSeq(Gathered') = FlattenSeq(p) \o Append(open, n)
      BY <1>9, <3>2, <3>3, FlattenAppend
    <3> DEFINE q == FlattenSeq(p)
    <3>5. q \in Seq(N) /\ f = q \o open /\ FlattenSeq(Gathered') = q \o Append(open, n)
      BY <1>9, <3>4
    <3> HIDE DEF q, f
    <3>6. q \o Append(open, n) = Append(q \o open, n)
      BY <1>8, <1>9, <3>5, AppendConcat, SMTT(40)
    <3>7. QED
      BY <3>5, <3>6
  <2>2. CASE open' = <<n>> /\ group' = Append(group, open)
    <3>1. Gathered' = groups \o Append(group, open) \o <<<<n>>>>
      BY <1>1, <2>2 DEF Gathered
    <3>2. groups \o Append(group, open) = Append(p, open)
      BY <1>9, AppendConcat
    <3>3. <<n>> \in Seq(N)
      BY <1>8
    <3>4. Gathered' = Gathered \o <<<<n>>>>
      BY <1>9, <3>1, <3>2
    <3>8. Gathered' = Append(Gathered, <<n>>)
      BY <1>9, <3>3, <3>4, AppendConcat
    <3>5. FlattenSeq(Gathered') = f \o <<n>>
      BY <1>9, <3>3, <3>8, FlattenAppend
    <3> HIDE DEF f
    <3>6. QED
      BY <1>8, <1>9, <3>5, AppendConcat
  <2>3. QED
    BY <1>1, <2>1, <2>2
<1> HIDE DEF f
<1>12. IsInjective(Append(f, n)) /\ Range(Append(f, n)) = Range(f) \cup {n}
  BY <1>8, <1>9, AppendRange
<1>13. Range(Append(f, n)) \subseteq {m \in visited' : given.kind[m] \in FusableKinds}
  BY <1>7, <1>8, <1>9, <1>12
<1>14. GroupsGather'
  BY <1>1, <1>9, <1>10, <1>11, <1>12, <1>13 DEF GroupsGather, N
<1>15. QED
  BY <1>1, <1>6, <1>14 DEF KInv, Extracting, Fusing

(* The turn to elem_ready.                                                 *)
LEMMA StartElementsKeeps ==
  ASSUME KInv, StartElements
  PROVE  KInv'
BY DEF StartElements, walkVars, KInv, Extracting, Fusing, GroupsGather, Gathered, Queues

(* The end of a group.                                                     *)
LEMMA CloseGroupKeeps ==
  ASSUME KInv, CloseGroup
  PROVE  KInv'
<1> DEFINE N == DOMAIN given.kind
           f == FlattenSeq(Gathered)
<1>1. /\ phase = "elements" /\ open' = <<>> /\ group' = <<>> /\ phase' = "ready"
      /\ groups' = groups \/ groups' = groups \o Append(group, open)
      /\ UNCHANGED <<given, level, graph, tagged, visited, ready, elements, index>>
  BY DEF CloseGroup
<1>2. Extracting /\ Queues /\ GroupsGather
  BY <1>1 DEF KInv, Extracting
<1>3. /\ groups \in Seq(Seq(N)) /\ group \in Seq(Seq(N)) /\ open \in Seq(N)
      /\ IsInjective(f) /\ Range(f) \subseteq {m \in visited : given.kind[m] \in FusableKinds}
      /\ Gathered \in Seq(Seq(N)) /\ Gathered = Append(groups \o group, open)
      /\ f = FlattenSeq(groups \o group) \o open /\ FlattenSeq(groups \o group) \in Seq(N)
  BY <1>2, GatheredFlat DEF GroupsGather
<1> HIDE DEF N
<1>4. groups \o Append(group, open) = Gathered
  BY <1>3, AppendConcat
<1>5. groups' \in Seq(Seq(N))
  BY <1>1, <1>3, <1>4
<1>6. FlattenSeq(Gathered') = FlattenSeq(groups')
  <2>1. Gathered' = Append(groups', <<>>)
    BY <1>1, <1>5 DEF Gathered
  <2>2. <<>> \in Seq(N)
    OBVIOUS
  <2>3. FlattenSeq(Gathered') = FlattenSeq(groups') \o <<>>
    BY <1>5, <2>1, <2>2, FlattenAppend
  <2>4. FlattenSeq(groups') \in Seq(N)
    BY <1>5, FlattenType
  <2>5. QED
    BY <2>3, <2>4
<1>7. IsInjective(FlattenSeq(groups')) /\ Range(FlattenSeq(groups')) \subseteq Range(f)
  <2>1. CASE groups' = groups
    <3> DEFINE a == FlattenSeq(groups)
               b == FlattenSeq(group)
    <3>1. /\ FlattenSeq(groups \o group) = a \o b /\ a \in Seq(N) /\ b \in Seq(N)
      BY <1>3, FlattenConcat, FlattenType
    <3> HIDE DEF a, b, f
    <3>2. f = (a \o b) \o open /\ a \o b \in Seq(N)
      BY <1>3, <3>1
    <3> DEFINE c == a \o b
    <3>6. c \in Seq(N) /\ f = c \o open /\ IsInjective(c \o open)
      BY <1>3, <3>2
    <3> HIDE DEF c
    <3>7. IsInjective(c) /\ Range(c) \subseteq Range(f)
      BY <1>3, <3>6, ConcatInjective, ConcatRange
    <3>3. IsInjective(a \o b) /\ Range(a \o b) \subseteq Range(f)
      BY <3>7 DEF c
    <3>4. IsInjective(a) /\ Range(a) \subseteq Range(f)
      BY <3>1, <3>3, ConcatInjective, ConcatRange
    <3>5. QED
      BY <2>1, <3>4 DEF a
  <2>2. CASE groups' = groups \o Append(group, open)
    BY <1>3, <1>4, <2>2
  <2>3. QED
    BY <1>1, <2>1, <2>2
<1>8. GroupsGather'
  <2>1. <<>> \in Seq(N) /\ <<>> \in Seq(Seq(N))
    OBVIOUS
  <2> HIDE DEF f
  <2>2. Range(FlattenSeq(Gathered')) \subseteq {m \in visited : given.kind[m] \in FusableKinds}
    BY <1>3, <1>6, <1>7
  <2>3. QED
    BY <1>1, <1>5, <1>6, <1>7, <2>1, <2>2 DEF GroupsGather, N
<1>9. Queues'
  BY <1>1, <1>2 DEF Queues
<1>10. QED
  BY <1>1, <1>8, <1>9 DEF KInv, Extracting, Fusing

(* Without a node that waits there is none that is not visited. *)
LEMMA AllVisited ==
  ASSUME KInv, Extracting, Range(ready) = {}, Range(elements) = {}
  PROVE  visited = tagged
<1> DEFINE N == DOMAIN given.kind
           S == {k \in Nat : \A m \in tagged : m < k => m \in visited}
<1>1. /\ visited \subseteq tagged /\ tagged \subseteq N
      /\ \A e \in given.edges : e.dst \in tagged => e.src \in tagged
      /\ {n \in tagged \ visited : \A e \in given.edges : e.dst = n => e.src \in visited} = {}
  BY DEF KInv, Queues
<1>2. N \subseteq Nat /\ \A e \in given.edges : e.src < e.dst
  <2>1. IsGraph(given)
    BY AboutGiven DEF KInv
  <2>2. QED
    BY <2>1, GivenEdges DEF IsGraph
<1> HIDE DEF N
<1>3. 0 \in S
  BY <1>1, <1>2
<1>4. ASSUME NEW k \in Nat, k \in S PROVE k + 1 \in S
  <2> SUFFICES ASSUME NEW m \in tagged, m < k + 1, m \notin visited PROVE FALSE
    OBVIOUS
  <2>1. m = k
    BY <1>1, <1>2, <1>4
  <2>2. ASSUME NEW e \in given.edges, e.dst = m PROVE e.src \in visited
    <3>1. e.src \in tagged /\ e.src < k
      BY <1>1, <1>2, <2>1, <2>2
    <3>2. QED
      BY <1>4, <3>1
  <2>3. QED
    BY <1>1, <2>2
<1> HIDE DEF S
<1>5. Nat \subseteq S
  BY <1>3, <1>4, EveryNumber
<1>6. ASSUME NEW m \in tagged PROVE m \in visited
  <2>1. m \in Nat /\ m + 1 \in S /\ m < m + 1
    BY <1>1, <1>2, <1>5
  <2>2. QED
    BY <2>1 DEF S
<1>7. QED
  BY <1>1, <1>6

(* The end of ExtractFusionGroups: all live nodes have been visited.       *)
LEMMA EndExtractionKeeps ==
  ASSUME KInv, EndExtraction
  PROVE  KInv'
<1> DEFINE N == DOMAIN given.kind
<1>1. /\ phase = "ready" /\ ready = <<>> /\ elements = <<>>
      /\ phase' \in {"done", "fuse", "absorb"}
      /\ UNCHANGED <<given, level, graph, tagged, visited, ready, elements, open, group, groups, index>>
  BY DEF EndExtraction, walkVars
<1>2. Extracting /\ GroupsGather /\ index = 1 /\ NodesOf(graph) = N
  BY <1>1 DEF KInv, Extracting
<1>3. visited = tagged
  <2>1. Range(<<>>) = {}
    BY DEF Range
  <2>2. QED
    BY <1>1, <1>2, <2>1, AllVisited
<1>4. /\ groups \in Seq(Seq(N)) /\ IsInjective(FlattenSeq(groups))
      /\ Range(FlattenSeq(groups)) \subseteq {m \in visited : given.kind[m] \in FusableKinds}
  <2>1. group = <<>> /\ open = <<>> /\ groups \in Seq(Seq(N))
    BY <1>1, <1>2 DEF GroupsGather
  <2> HIDE DEF N
  <2>2. Gathered = Append(groups, <<>>)
    BY <2>1 DEF Gathered
  <2>3. <<>> \in Seq(N)
    OBVIOUS
  <2>4. FlattenSeq(Gathered) = FlattenSeq(groups) \o <<>>
    BY <2>1, <2>2, <2>3, FlattenAppend
  <2>5. FlattenSeq(groups) \in Seq(N)
    BY <2>1, FlattenType
  <2>6. FlattenSeq(Gathered) = FlattenSeq(groups)
    BY <2>4, <2>5
  <2>7. QED
    BY <1>2, <2>1, <2>6 DEF GroupsGather, N
<1>5. Disjoint(groups)
  BY <1>4, FlattenInjective DEF Disjoint
<1>6. Absorbing(given, graph, groups, 1 .. index - 1)
  <2>1. ASSUME NEW k \in DOMAIN groups, NEW n \in Range(groups[k])
        PROVE  n \in N /\ given.kind[n] \in FusableKinds
    <3>1. n \in Range(FlattenSeq(groups))
      BY <1>4, <2>1, FlattenRange
    <3>2. groups[k] \in Seq(N)
      BY <1>4
    <3>3. n \in N
      BY <3>2, InRange
    <3>4. QED
      BY <1>4, <3>1, <3>3
  <2>2. QED
    BY <2>1 DEF Absorbing
<1>7. QED
  BY <1>1, <1>2, <1>3, <1>4, <1>5, <1>6 DEF KInv, Extracting, Fusing

(***************************************************************************)
(* Broadcasts that are taken into a group.                                 *)
(***************************************************************************)

(* A function with one value more. *)
IsWith(f2, f, N, x, y) ==
  /\ DOMAIN f2 = {x} \cup N /\ f2[x] = y
  /\ \A z \in N : f2[z] = f[z]

(* With adds one value and keeps the others.                               *)
LEMMA WithIs ==
  ASSUME NEW f, NEW N, DOMAIN f = N, NEW x, x \notin N, NEW y
  PROVE  IsWith(With(f, x, y), f, N, x, y)
BY DEF With, IsWith

(* A copy, in the graph g2, of the broadcast that is read over the edge e  *)
(* of the graph g; the edge `from` is that over which the broadcast reads. *)
CopyOf(g, e)    == [src |-> g.last + 1, out |-> 1, dst |-> e.dst, in |-> e.in]
CopyReads(g, d) == [src |-> d.src, out |-> 1, dst |-> g.last + 1, in |-> 1]

IsCopy(g, g2, e, from) ==
  /\ from \in g.edges /\ from.dst = e.src /\ from.in = 1
  /\ DOMAIN g2 = {"edges", "ins", "outs", "kernels", "last"} /\ g2.last = g.last + 1
  /\ g2.edges = (g.edges \ {e}) \cup {CopyOf(g, e), CopyReads(g, from)}
  /\ NodesOf(g2) = NodesOf(g) \cup {g.last + 1}
  /\ DOMAIN g2.ins = NodesOf(g2) /\ DOMAIN g2.outs = NodesOf(g2)
  /\ \A n \in NodesOf(g) : g2.kernels[n] = g.kernels[n]
  /\ g2.kernels[g.last + 1] = g.kernels[e.src]
  /\ \A n \in NodesOf(g) : g2.ins[n] = g.ins[n] /\ g2.outs[n] = g.outs[n]
  /\ g2.ins[g.last + 1] = <<g.outs[from.src][1]>>
  /\ g2.outs[g.last + 1] = IF g.outs[from.src][1] = g.ins[e.src][1] THEN g.outs[e.src]
                           ELSE <<<<g.last + 1, 1>>>>

(* What the copy of a broadcast reads and yields.                          *)
LEMMA DuplicatedIs ==
  ASSUME NEW h, NEW g, IsGraphOf(h, g), Unfused(h, g), NEW e \in g.edges,
         h.kind[First(g, e.src)] = "broadcast"
  PROVE  \E from \in g.edges : IsCopy(g, Duplicated(g, e), e, from)
<1> DEFINE id == g.last + 1
           from == CHOOSE d \in g.edges : d.dst = e.src /\ d.in = 1
           read == g.outs[from.src][1]
           g2 == Duplicated(g, e)
<1>1. /\ g.last \in Nat /\ NodesOf(g) \subseteq 1 .. g.last
      /\ e \in [src : NodesOf(g), out : Nat, dst : NodesOf(g), in : Nat]
  BY DEF IsGraphOf
<1>2. id \notin NodesOf(g)
  BY <1>1
<1>3. \E d \in g.edges : d.dst = e.src /\ d.in = 1
  BY <1>1 DEF Unfused
<1>4. from \in g.edges /\ from.dst = e.src /\ from.in = 1
  BY <1>3
<1>17. DOMAIN g2 = {"edges", "ins", "outs", "kernels", "last"}
  BY DEF Duplicated
<1>5. /\ g2.edges = (g.edges \ {e}) \cup {[src |-> id, out |-> 1, dst |-> e.dst, in |-> e.in],
                                          [src |-> from.src, out |-> 1, dst |-> id, in |-> 1]}
      /\ g2.ins = With(g.ins, id, <<read>>)
      /\ g2.outs = With(g.outs, id, IF read = g.ins[e.src][1] THEN g.outs[e.src] ELSE <<<<id, 1>>>>)
      /\ g2.kernels = With(g.kernels, id, g.kernels[e.src])
      /\ g2.last = id
  BY DEF Duplicated
<1> HIDE DEF from, read, g2, id
<1>7. DOMAIN g.kernels = NodesOf(g) /\ DOMAIN g.ins = NodesOf(g) /\ DOMAIN g.outs = NodesOf(g)
  BY DEF NodesOf, IsGraphOf
<1> DEFINE write == IF read = g.ins[e.src][1] THEN g.outs[e.src] ELSE <<<<id, 1>>>>
<1>15. g2.outs = With(g.outs, id, write)
  BY <1>5
<1> HIDE DEF write
<1>16. /\ IsWith(g2.kernels, g.kernels, NodesOf(g), id, g.kernels[e.src])
       /\ IsWith(g2.ins, g.ins, NodesOf(g), id, <<read>>)
       /\ IsWith(g2.outs, g.outs, NodesOf(g), id, write)
  <2>1. IsWith(With(g.kernels, id, g.kernels[e.src]), g.kernels, NodesOf(g), id, g.kernels[e.src])
    BY <1>2, <1>7, WithIs
  <2>2. IsWith(With(g.ins, id, <<read>>), g.ins, NodesOf(g), id, <<read>>)
    BY <1>2, <1>7, WithIs
  <2>3. IsWith(With(g.outs, id, write), g.outs, NodesOf(g), id, write)
    BY <1>2, <1>7, WithIs
  <2>4. QED
    BY <1>5, <1>15, <2>1, <2>2, <2>3
<1>8. /\ DOMAIN g2.kernels = {id} \cup NodesOf(g) /\ g2.kernels[id] = g.kernels[e.src]
      /\ \A n \in NodesOf(g) : g2.kernels[n] = g.kernels[n]
  BY <1>16 DEF IsWith
<1>9. /\ DOMAIN g2.ins = {id} \cup NodesOf(g) /\ g2.ins[id] = <<read>>
      /\ \A n \in NodesOf(g) : g2.ins[n] = g.ins[n]
  BY <1>16 DEF IsWith
<1>10. /\ DOMAIN g2.outs = {id} \cup NodesOf(g) /\ g2.outs[id] = write
       /\ \A n \in NodesOf(g) : g2.outs[n] = g.outs[n]
  BY <1>16 DEF IsWith
<1>11. NodesOf(g2) = NodesOf(g) \cup {id}
  BY <1>8 DEF NodesOf
<1>12. g2.edges = (g.edges \ {e}) \cup {CopyOf(g, e), CopyReads(g, from)}
  BY <1>5 DEF CopyOf, CopyReads, id
<1>13. IsCopy(g, g2, e, from)
  <2>1. g2.last = g.last + 1
    BY <1>5 DEF id
  <2>2. NodesOf(g2) = NodesOf(g) \cup {g.last + 1} /\ g2.kernels[g.last + 1] = g.kernels[e.src]
    BY <1>8, <1>11 DEF id
  <2>3. g2.ins[g.last + 1] = <<g.outs[from.src][1]>>
    BY <1>9 DEF id, read
  <2>4. g2.outs[g.last + 1] = IF g.outs[from.src][1] = g.ins[e.src][1] THEN g.outs[e.src]
                              ELSE <<<<g.last + 1, 1>>>>
    BY <1>10 DEF id, read, write
  <2>5. QED
    BY <1>4, <1>8, <1>9, <1>10, <1>11, <1>12, <1>17, <2>1, <2>2, <2>3, <2>4 DEF IsCopy
<1>14. QED
  BY <1>4, <1>13 DEF g2

(* A graph with a copy is a graph in which no node is fused.               *)
LEMMA CopyKeepsShape ==
  ASSUME NEW h, NEW g, IsGraphOf(h, g), Unfused(h, g), NEW e \in g.edges,
         h.kind[First(g, e.src)] = "broadcast", e.in # Control,
         NEW g2, NEW from, IsCopy(g, g2, e, from)
  PROVE  /\ IsGraphOf(h, g2) /\ Unfused(h, g2)
         /\ \A n \in NodesOf(g) : First(g2, n) = First(g, n)
         /\ First(g2, g.last + 1) = First(g, e.src)
<1> DEFINE id == g.last + 1
           N == NodesOf(g)
           E == g.edges
           c == CopyOf(g, e)
           r == CopyReads(g, from)
<1>1. /\ g.last \in Nat /\ N \subseteq 1 .. g.last
      /\ DOMAIN h.kind # {} /\ \A n \in N : g.kernels[n] \in Seq(DOMAIN h.kind)
      /\ IsFiniteSet(E)
      /\ \A d \in E : /\ d \in [src : N, out : Nat, dst : N, in : Nat]
                      /\ d.in = Control <=> d.out = Control
      /\ \A d, f \in E : d.dst = f.dst /\ d.in = f.in /\ f.in # Control => d = f
      /\ {n \in DOMAIN h.kind : h.kind[n] = "result"} \subseteq N
  BY DEF IsGraphOf
<1>2. /\ DOMAIN h.kind \subseteq N
      /\ \A n \in N : g.kernels[n] = <<First(g, n)>>
      /\ \A n \in DOMAIN h.kind : First(g, n) = n
      /\ \A n \in N \ DOMAIN h.kind : h.kind[First(g, n)] = "broadcast"
      /\ \A f \in E : \E d \in h.edges :
           d.src = First(g, f.src) /\ d.dst = First(g, f.dst) /\ d.in = f.in
      /\ \A n \in N : h.kind[First(g, n)] = "broadcast" => \E f \in E : f.dst = n /\ f.in = 1
  BY DEF Unfused
<1>3. /\ from \in E /\ from.dst = e.src /\ from.in = 1
      /\ g2.last = id /\ g2.edges = (E \ {e}) \cup {c, r}
      /\ NodesOf(g2) = N \cup {id}
      /\ DOMAIN g2.ins = NodesOf(g2) /\ DOMAIN g2.outs = NodesOf(g2)
      /\ \A n \in N : g2.kernels[n] = g.kernels[n]
      /\ g2.kernels[id] = g.kernels[e.src]
  BY DEF IsCopy
<1>4. /\ c = [src |-> id, out |-> 1, dst |-> e.dst, in |-> e.in]
      /\ r = [src |-> from.src, out |-> 1, dst |-> id, in |-> 1]
  BY DEF CopyOf, CopyReads
<1>5. \A n \in N : First(g2, n) = First(g, n)
  BY <1>3 DEF First
<1>6. First(g2, id) = First(g, e.src)
  BY <1>3 DEF First
<1> HIDE DEF id, N, E, c, r
<1>7. id \notin N /\ id \in Nat /\ id = g.last + 1
  BY <1>1 DEF id
<1>8. e \in E /\ e.src \in N /\ e.dst \in N /\ e.in \in Nat /\ from.src \in N
  BY <1>1, <1>3 DEF E
<1>9. /\ c.src = id /\ c.out = 1 /\ c.dst = e.dst /\ c.in = e.in
      /\ r.src = from.src /\ r.out = 1 /\ r.dst = id /\ r.in = 1
  BY <1>4
<1>10. /\ c \in [src : NodesOf(g2), out : Nat, dst : NodesOf(g2), in : Nat]
       /\ r \in [src : NodesOf(g2), out : Nat, dst : NodesOf(g2), in : Nat]
  BY <1>3, <1>4, <1>7, <1>8
<1>11. \A d \in g2.edges : /\ d \in [src : NodesOf(g2), out : Nat, dst : NodesOf(g2), in : Nat]
                           /\ d.in = Control <=> d.out = Control
  <2>1. ASSUME NEW d \in E
        PROVE  /\ d \in [src : NodesOf(g2), out : Nat, dst : NodesOf(g2), in : Nat]
               /\ d.in = Control <=> d.out = Control
    BY <1>1, <1>3, <2>1
  <2>2. /\ c.in # Control /\ c.out # Control
        /\ r.in # Control /\ r.out # Control
    BY <1>9 DEF Control
  <2>3. QED
    BY <1>3, <1>10, <2>1, <2>2
<1>12. \A d, f \in g2.edges : d.dst = f.dst /\ d.in = f.in /\ f.in # Control => d = f
  <2> TAKE d, f \in g2.edges
  <2> HAVE d.dst = f.dst /\ d.in = f.in /\ f.in # Control
  <2>1. \A x \in E \ {e} : x.dst # id /\ ~ (x.dst = e.dst /\ x.in = e.in)
    BY <1>1, <1>7, <1>8
  <2>2. e.dst # id
    BY <1>7, <1>8
  <2>3. CASE d \in E \ {e} /\ f \in E \ {e}
    BY <1>1, <2>3
  <2>4. CASE d \in {c, r} /\ f \in E \ {e}
    BY <1>9, <2>1, <2>4
  <2>5. CASE d \in E \ {e} /\ f \in {c, r}
    BY <1>9, <2>1, <2>5
  <2>6. CASE d \in {c, r} /\ f \in {c, r}
    BY <1>9, <2>2, <2>6
  <2>7. QED
    BY <1>3, <2>3, <2>4, <2>5, <2>6
<1>13. IsFiniteSet(g2.edges)
  <2>1. IsFiniteSet(E \ {e})
    BY <1>1, FS_Subset
  <2>2. IsFiniteSet((E \ {e}) \cup {c})
    BY <2>1, FS_AddElement
  <2>3. IsFiniteSet(((E \ {e}) \cup {c}) \cup {r})
    BY <2>2, FS_AddElement
  <2>4. g2.edges = ((E \ {e}) \cup {c}) \cup {r}
    BY <1>3
  <2>5. QED
    BY <2>3, <2>4
<1>14. IsGraphOf(h, g2)
  <2>1. g2.last \in Nat /\ NodesOf(g2) \subseteq 1 .. g2.last
    <3>1. 1 .. g.last \subseteq 1 .. id /\ id \in 1 .. id
      BY <1>1, <1>7
    <3>2. QED
      BY <1>1, <1>3, <1>7, <3>1
  <2>2. \A n \in NodesOf(g2) : g2.kernels[n] \in Seq(DOMAIN h.kind)
    BY <1>1, <1>3, <1>8
  <2>3. {n \in DOMAIN h.kind : h.kind[n] = "result"} \subseteq NodesOf(g2)
    BY <1>1, <1>3
  <2>4. QED
    BY <1>1, <1>3, <1>11, <1>12, <1>13, <2>1, <2>2, <2>3 DEF IsGraphOf
<1>15. \A f \in g2.edges : \E d \in h.edges :
         d.src = First(g2, f.src) /\ d.dst = First(g2, f.dst) /\ d.in = f.in
  <2>1. ASSUME NEW f \in E
        PROVE  \E d \in h.edges : d.src = First(g2, f.src) /\ d.dst = First(g2, f.dst) /\ d.in = f.in
    <3>1. f.src \in N /\ f.dst \in N
      BY <1>1, <2>1
    <3>2. First(g2, f.src) = First(g, f.src) /\ First(g2, f.dst) = First(g, f.dst)
      BY <1>5, <3>1
    <3>3. QED
      BY <1>2, <2>1, <3>2
  <2>2. \E d \in h.edges : d.src = First(g2, c.src) /\ d.dst = First(g2, c.dst) /\ d.in = c.in
    <3>1. PICK d \in h.edges : d.src = First(g2, e.src) /\ d.dst = First(g2, e.dst) /\ d.in = e.in
      BY <1>8, <2>1
    <3>2. First(g2, c.src) = First(g2, e.src) /\ c.dst = e.dst /\ c.in = e.in
      BY <1>5, <1>6, <1>8, <1>9
    <3>3. QED
      BY <3>1, <3>2
  <2>3. \E d \in h.edges : d.src = First(g2, r.src) /\ d.dst = First(g2, r.dst) /\ d.in = r.in
    <3>1. PICK d \in h.edges : d.src = First(g2, from.src) /\ d.dst = First(g2, from.dst) /\ d.in = from.in
      BY <1>3, <2>1
    <3>2. First(g2, r.dst) = First(g2, from.dst) /\ r.src = from.src /\ r.in = from.in
      BY <1>3, <1>5, <1>6, <1>8, <1>9
    <3>3. QED
      BY <3>1, <3>2
  <2>4. QED
    BY <1>3, <2>1, <2>2, <2>3
<1>16. \A n \in NodesOf(g2) : h.kind[First(g2, n)] = "broadcast" =>
         \E f \in g2.edges : f.dst = n /\ f.in = 1
  <2> TAKE n \in NodesOf(g2)
  <2> HAVE h.kind[First(g2, n)] = "broadcast"
  <2>1. CASE n = id
    BY <1>3, <1>9, <2>1
  <2>2. CASE n \in N
    <3>1. PICK f \in E : f.dst = n /\ f.in = 1
      BY <1>2, <1>5, <2>2
    <3>2. CASE f # e
      BY <1>3, <3>1, <3>2
    <3>3. CASE f = e
      BY <1>3, <1>9, <3>1, <3>3
    <3>4. QED
      BY <3>2, <3>3
  <2>3. QED
    BY <1>3, <2>1, <2>2
<1>17. /\ DOMAIN h.kind \subseteq NodesOf(g2)
       /\ \A n \in NodesOf(g2) : g2.kernels[n] = <<First(g2, n)>>
       /\ \A n \in DOMAIN h.kind : First(g2, n) = n
       /\ \A n \in NodesOf(g2) \ DOMAIN h.kind : h.kind[First(g2, n)] = "broadcast"
  <2>1. ASSUME NEW n \in NodesOf(g2) PROVE g2.kernels[n] = <<First(g2, n)>>
    <3>1. CASE n = id
      BY <1>2, <1>3, <1>6, <1>8, <3>1
    <3>2. CASE n \in N
      BY <1>2, <1>3, <1>5, <3>2
    <3>3. QED
      BY <1>3, <3>1, <3>2
  <2>2. DOMAIN h.kind \subseteq NodesOf(g2) /\ \A n \in DOMAIN h.kind : First(g2, n) = n
    BY <1>2, <1>3, <1>5
  <2>3. \A n \in NodesOf(g2) \ DOMAIN h.kind : h.kind[First(g2, n)] = "broadcast"
    BY <1>2, <1>3, <1>5, <1>6
  <2>4. QED
    BY <2>1, <2>2, <2>3
<1>18. Unfused(h, g2)
  BY <1>15, <1>16, <1>17 DEF Unfused
<1>19. QED
  BY <1>5, <1>6, <1>14, <1>18 DEF N, id

(* The edges that bring data to nodes. *)
LEMMA OnlyDataRange ==
  ASSUME NEW T, NEW es \in Seq(T)
  PROVE  /\ OnlyData(es) \in Seq(T) /\ Range(OnlyData(es)) = {e \in Range(es) : e.in # Control}
         /\ IsInjective(es) => IsInjective(OnlyData(es))
<1> DEFINE places == {i \in DOMAIN es : es[i].in # Control}
           p == Picked(es, places)
<1>1. places \subseteq DOMAIN es /\ OnlyData(es) = p
  BY DEF OnlyData
<1>2. \A i : i \in places <=> i \in DOMAIN es /\ es[i].in # Control
  OBVIOUS
<1> HIDE DEF places
<1>3. p \in Seq(T)
  BY <1>1, PickedAt
<1>4. /\ \A i \in places : \E j \in DOMAIN p : p[j] = es[i]
      /\ \A j \in DOMAIN p : \E i \in places : p[j] = es[i]
      /\ IsInjective(es) => IsInjective(p)
  BY <1>1, PickedRange
<1> HIDE DEF p
<1>5. Range(p) = {e \in Range(es) : e.in # Control}
  BY <1>2, <1>4 DEF Range
<1>6. QED
  BY <1>1, <1>3, <1>4, <1>5

(* DataInto lists the data edges into some nodes, each once.               *)
LEMMA DataListed ==
  ASSUME NEW h, IsGraphOf(h, graph), NEW T, NEW ns \in Seq(T), IsInjective(ns)
  PROVE  /\ DataInto(ns) \in Seq(graph.edges) /\ IsInjective(DataInto(ns))
         /\ \A e : e \in Range(DataInto(ns)) <=>
                     e \in graph.edges /\ e.dst \in Range(ns) /\ e.in # Control
<1> DEFINE E == graph.edges
           q == [i \in DOMAIN ns |-> OnlyData(InEdges(E, ns[i]))]
<1>1. DOMAIN ns = 1 .. Len(ns) /\ Len(ns) \in Nat
  OBVIOUS
<1>2. ASSUME NEW i \in DOMAIN ns
      PROVE  /\ q[i] \in Seq(E) /\ IsInjective(q[i])
             /\ Range(q[i]) = {e \in E : e.dst = ns[i] /\ e.in # Control}
  <2> DEFINE s == InEdges(E, ns[i])
  <2>1. s \in Seq(E) /\ IsInjective(s) /\ Range(s) = {e \in E : e.dst = ns[i]}
    <3>1. EdgesAt(graph, ns[i])
      BY EdgesListed
    <3>2. QED
      BY <3>1 DEF EdgesAt
  <2>2. q[i] = OnlyData(s)
    BY <1>2
  <2> HIDE DEF s, E, q
  <2>3. /\ OnlyData(s) \in Seq(E) /\ IsInjective(OnlyData(s))
        /\ Range(OnlyData(s)) = {e \in Range(s) : e.in # Control}
    BY <2>1, OnlyDataRange
  <2>4. QED
    BY <2>1, <2>2, <2>3
<1>3. DataInto(ns) = FlattenSeq(q)
  BY DEF DataInto
<1>4. DOMAIN q = DOMAIN ns
  OBVIOUS
<1> HIDE DEF q, E
<1>5. q \in Seq(Seq(E))
  <2>1. q \in [1 .. Len(ns) -> Seq(E)]
    <3>1. \A i \in 1 .. Len(ns) : q[i] \in Seq(E)
      BY <1>1, <1>2
    <3>2. q = [i \in 1 .. Len(ns) |-> q[i]]
      BY <1>1 DEF q
    <3>3. QED
      BY <3>1, <3>2
  <2>2. QED
    BY <1>1, <2>1
<1>6. FlattenSeq(q) \in Seq(E)
  BY <1>5, FlattenType
<1>7. \A e : e \in Range(FlattenSeq(q)) <=> \E k \in DOMAIN q : e \in Range(q[k])
  BY <1>5, FlattenRange
<1>8. IsInjective(FlattenSeq(q))
  <2>1. \A k \in DOMAIN q : IsInjective(q[k])
    BY <1>2, <1>4
  <2>2. ASSUME NEW k \in DOMAIN q, NEW l \in DOMAIN q, k # l
        PROVE  Range(q[k]) \cap Range(q[l]) = {}
    <3>1. ns[k] # ns[l]
      BY <1>4, <2>2 DEF IsInjective
    <3>2. QED
      BY <1>2, <1>4, <3>1
  <2>3. QED
    BY <1>5, <2>1, <2>2, FlattenInjective
<1>9. \A e : e \in Range(FlattenSeq(q)) <=> e \in E /\ e.dst \in Range(ns) /\ e.in # Control
  <2> TAKE e
  <2>1. ASSUME NEW k \in DOMAIN ns PROVE e \in Range(q[k]) <=> e \in E /\ e.dst = ns[k] /\ e.in # Control
    BY <1>2
  <2>2. e.dst \in Range(ns) <=> \E k \in DOMAIN ns : ns[k] = e.dst
    BY InRange
  <2>3. QED
    BY <1>4, <1>7, <2>1, <2>2
<1>10. QED
  BY <1>3, <1>6, <1>8, <1>9 DEF E

(* The steps of Absorbed. *)
AbsorbedBy(over, es, n) ==
  over = [k \in 0 .. n |-> IF k = 0 THEN [graph |-> graph, front |-> <<>>]
                           ELSE AbsorbOver(over[k - 1], es[k])]

(* There is a function with the recursion of Absorbed.                     *)
LEMMA AbsorbedExists ==
  ASSUME NEW es
  PROVE  \A n \in Nat : \E f : AbsorbedBy(f, es, n)
<1> DEFINE S == {n \in Nat : \E f : AbsorbedBy(f, es, n)}
           first == [graph |-> graph, front |-> <<>>]
<1>1. 0 \in S
  <2> DEFINE f == [k \in 0 .. 0 |-> first]
             g == [k \in 0 .. 0 |-> IF k = 0 THEN first ELSE AbsorbOver(f[k - 1], es[k])]
  <2>1. \A k \in 0 .. 0 : k = 0
    OBVIOUS
  <2>2. f = g
    BY <2>1
  <2>3. AbsorbedBy(f, es, 0)
    BY <2>2 DEF AbsorbedBy
  <2>4. QED
    BY <2>3
<1>2. ASSUME NEW n \in Nat, n \in S PROVE n + 1 \in S
  <2>1. PICK f : AbsorbedBy(f, es, n)
    BY <1>2
  <2> DEFINE g == [k \in 0 .. n + 1 |-> IF k = n + 1 THEN AbsorbOver(f[n], es[n + 1]) ELSE f[k]]
             h == [k \in 0 .. n + 1 |-> IF k = 0 THEN first ELSE AbsorbOver(g[k - 1], es[k])]
  <2> HIDE DEF first
  <2>2. ASSUME NEW k \in 0 .. n + 1 PROVE g[k] = h[k]
    <3>1. CASE k = n + 1
      <4>1. n \in 0 .. n + 1 /\ n # n + 1 /\ k # 0 /\ k - 1 = n
        BY <3>1
      <4>2. g[k - 1] = f[n]
        BY <4>1
      <4>3. g[k] = AbsorbOver(f[n], es[k])
        BY <3>1
      <4>4. h[k] = AbsorbOver(g[k - 1], es[k])
        BY <4>1
      <4>5. QED
        BY <4>2, <4>3, <4>4
    <3>2. CASE k # n + 1
      <4>1. k \in 0 .. n
        BY <3>2
      <4>2. f[k] = IF k = 0 THEN first ELSE AbsorbOver(f[k - 1], es[k])
        BY <2>1, <4>1 DEF AbsorbedBy, first
      <4>3. k # 0 => k - 1 \in 0 .. n + 1 /\ k - 1 # n + 1
        BY <4>1
      <4>4. k # 0 => g[k - 1] = f[k - 1]
        BY <4>3
      <4>5. QED
        BY <3>2, <4>2, <4>4
    <3>3. QED
      BY <3>1, <3>2
  <2>3. g = h
    BY <2>2
  <2>4. AbsorbedBy(g, es, n + 1)
    BY <2>3 DEF AbsorbedBy, first
  <2>5. QED
    BY <2>4
<1>3. Nat \subseteq S
  <2> HIDE DEF S
  <2>1. QED
    BY <1>1, <1>2, EveryNumber
<1>4. QED
  BY <1>3

(* What every step keeps holds when all edges have been looked at. *)
LEMMA AbsorbedIs ==
  ASSUME NEW T, NEW es \in Seq(T)
  PROVE  \E over : AbsorbedBy(over, es, Len(es)) /\ Absorbed(es) = over[Len(es)]
<1> DEFINE over == CHOOSE over : AbsorbedBy(over, es, Len(es))
<1>1. AbsorbedBy(over, es, Len(es))
  BY AbsorbedExists
<1>2. Absorbed(es) = over[Len(es)]
  BY DEF Absorbed, AbsorbedBy
<1> HIDE DEF over
<1>3. QED
  BY <1>1, <1>2

(* What a step of Absorbed does. *)
AbsorbedStep(h, s, s2, e) ==
  \/ s2 = s
  \/ /\ h.kind[First(s.graph, e.src)] = "broadcast"
     /\ h.home[First(s.graph, e.src)] = h.home[First(s.graph, e.dst)]
     /\ \/ /\ \E from \in s.graph.edges : IsCopy(s.graph, s2.graph, e, from)
           /\ s2.front = Append(s.front, s.graph.last + 1)
        \/ /\ s2.graph = s.graph /\ ReadersOf(s.graph, e.src) = {e}
           /\ s2.front = Append(s.front, e.src)

IsState(s) == s = [graph |-> s.graph, front |-> s.front]

(* The three cases of a step of Absorbed.                                  *)
LEMMA AbsorbOverIs ==
  ASSUME NEW s, IsState(s), IsGraphOf(given, s.graph), Unfused(given, s.graph),
         NEW e \in s.graph.edges, e.in # Control,
         First(s.graph, e.src) = First(graph, e.src), First(s.graph, e.dst) = First(graph, e.dst)
  PROVE  IsState(AbsorbOver(s, e)) /\ AbsorbedStep(given, s, AbsorbOver(s, e), e)
<1> DEFINE g == s.graph
           n == e.src
           s2 == AbsorbOver(s, e)
<1>1. KindOf(n) = given.kind[First(g, n)] /\ HomeOf(n) = given.home[First(g, n)]
      /\ HomeOf(e.dst) = given.home[First(g, e.dst)]
  BY DEF KindOf, HomeOf, First
<1>2. s = [graph |-> s.graph, front |-> s.front]
  BY DEF IsState
<1>3. CASE ~(KindOf(n) = "broadcast" /\ HomeOf(n) = HomeOf(e.dst))
  <2>1. s2 = s
    BY <1>3 DEF AbsorbOver
  <2> HIDE DEF s2
  <2>2. IsState(s2) /\ AbsorbedStep(given, s, s2, e)
    BY <2>1 DEF IsState, AbsorbedStep
  <2>3. QED
    BY <2>2 DEF s2
<1>4. CASE KindOf(n) = "broadcast" /\ HomeOf(n) = HomeOf(e.dst) /\ IsShared(g, n)
  <2> DEFINE g2 == Duplicated(g, e)
  <2>1. s2 = [graph |-> g2, front |-> Append(s.front, g2.last)]
    BY <1>4 DEF AbsorbOver
  <2>2. \E from \in g.edges : IsCopy(g, g2, e, from)
    BY <1>1, <1>4, DuplicatedIs
  <2> HIDE DEF g2, s2
  <2>3. g2.last = g.last + 1
    BY <2>2 DEF IsCopy
  <2>4. s2.graph = g2 /\ s2.front = Append(s.front, g.last + 1) /\ IsState(s2)
    BY <2>1, <2>3 DEF IsState
  <2>5. AbsorbedStep(given, s, s2, e)
    BY <1>1, <1>4, <2>2, <2>4 DEF AbsorbedStep
  <2>6. QED
    BY <2>4, <2>5 DEF s2
<1>5. CASE KindOf(n) = "broadcast" /\ HomeOf(n) = HomeOf(e.dst) /\ ~IsShared(g, n)
  <2>1. s2 = [s EXCEPT !.front = Append(@, n)]
    BY <1>5 DEF AbsorbOver
  <2>2. s2 = [graph |-> g, front |-> Append(s.front, n)]
    BY <1>2, <2>1
  <2>3. ReadersOf(g, n) = {e}
    <3> DEFINE R == ReadersOf(g, n)
    <3>1. e \in R /\ R \subseteq g.edges
      BY DEF ReadersOf
    <3>2. IsFiniteSet(g.edges)
      BY DEF IsGraphOf
    <3> HIDE DEF R
    <3>3. IsFiniteSet(R)
      BY <3>1, <3>2, FS_Subset
    <3>4. Cardinality(R) \in Nat /\ (Cardinality(R) = 0 <=> R = {})
      BY <3>3, FS_CardinalityType, FS_EmptySet
    <3>5. ~ (Cardinality(R) > 1)
      BY <1>5 DEF IsShared, R
    <3>6. Cardinality(R) = 1
      BY <3>1, <3>4, <3>5
    <3>7. PICK d : R = {d}
      BY <3>3, <3>6, FS_Singleton
    <3>8. QED
      BY <3>1, <3>7 DEF R
  <2> HIDE DEF s2
  <2>4. s2.graph = g /\ s2.front = Append(s.front, n) /\ IsState(s2)
    BY <2>2 DEF IsState
  <2>5. AbsorbedStep(given, s, s2, e)
    BY <1>1, <1>5, <2>3, <2>4 DEF AbsorbedStep
  <2>6. QED
    BY <2>4, <2>5 DEF s2
<1>6. QED
  BY <1>3, <1>4, <1>5

(***************************************************************************)
(* What the steps of Absorbed keep, for the i-th of the groups gs, of      *)
(* which K is kept, and the edges es that bring data into K.               *)
(***************************************************************************)
KeptOf(h, g, gs, i, K, es) ==
  /\ gs \in Seq(Seq(NodesOf(g))) /\ Disjoint(gs) /\ i \in DOMAIN gs
  /\ K \subseteq Range(gs[i]) /\ \A n \in K : n \in DOMAIN h.kind /\ h.kind[n] \in FusableKinds
  /\ es \in Seq(g.edges) /\ IsInjective(es)
  /\ \A e \in Range(es) : e.in # Control /\ e.dst \in K

Absorbs(h, g, gs, i, K, es, k, s) ==
  /\ IsState(s) /\ IsGraphOf(h, s.graph) /\ Unfused(h, s.graph)
  /\ NodesOf(g) \subseteq NodesOf(s.graph)
  /\ \A n \in NodesOf(g) : First(s.graph, n) = First(g, n)
  /\ \A j \in k + 1 .. Len(es) : es[j] \in s.graph.edges
  /\ s.front \in Seq(NodesOf(s.graph)) /\ IsInjective(s.front)
  /\ \A n \in Range(s.front) : /\ h.kind[First(s.graph, n)] = "broadcast"
                               /\ \A e \in ReadersOf(s.graph, n) : e.dst \in K
                               /\ \A j \in k + 1 .. Len(es) : es[j].src # n
  /\ \A m \in DOMAIN gs : m # i => Range(gs[m]) \cap Range(s.front) = {}
  /\ Absorbing(h, s.graph, gs, 1 .. i - 1)

(* Before the first edge nothing is absorbed.                              *)
LEMMA AbsorbsFirst ==
  ASSUME NEW h, NEW g, IsGraphOf(h, g), Unfused(h, g), NEW gs, NEW i, NEW K, NEW es,
         KeptOf(h, g, gs, i, K, es), Absorbing(h, g, gs, 1 .. i - 1)
  PROVE  Absorbs(h, g, gs, i, K, es, 0, [graph |-> g, front |-> <<>>])
<1> DEFINE s == [graph |-> g, front |-> <<>>]
<1>1. s.graph = g /\ s.front = <<>> /\ IsState(s)
  BY DEF IsState
<1> HIDE DEF s
<1>2. <<>> \in Seq(NodesOf(g)) /\ IsInjective(<<>>) /\ Range(<<>>) = {}
  BY DEF IsInjective, Range
<1>3. \A j \in 0 + 1 .. Len(es) : es[j] \in g.edges
  BY DEF KeptOf
<1>4. Absorbs(h, g, gs, i, K, es, 0, s)
  BY <1>1, <1>2, <1>3 DEF Absorbs
<1>5. QED
  BY <1>4 DEF s

(* The edges of a copied graph. *)
LEMMA CopyEdges ==
  ASSUME NEW h, NEW g, IsGraphOf(h, g), Unfused(h, g), NEW e \in g.edges,
         h.kind[First(g, e.src)] = "broadcast", e.in # Control,
         NEW g2, NEW from, IsCopy(g, g2, e, from)
  PROVE  /\ g.last + 1 \notin NodesOf(g) /\ NodesOf(g2) = NodesOf(g) \cup {g.last + 1}
         /\ from \in g.edges /\ from.in # Control
         /\ h.kind[First(g, from.dst)] = "broadcast"
         /\ \A d \in g2.edges :
              \/ d \in g.edges /\ d # e
              \/ d.src = g.last + 1 /\ d.dst = e.dst /\ d.in = e.in
              \/ d.src = from.src /\ d.dst = g.last + 1 /\ d.in # Control
         /\ \A d \in g.edges : d # e => d \in g2.edges
<1>1. /\ from \in g.edges /\ from.dst = e.src /\ from.in = 1
      /\ g2.edges = (g.edges \ {e}) \cup {CopyOf(g, e), CopyReads(g, from)}
      /\ NodesOf(g2) = NodesOf(g) \cup {g.last + 1}
  BY DEF IsCopy
<1>2. /\ CopyOf(g, e).src = g.last + 1 /\ CopyOf(g, e).dst = e.dst /\ CopyOf(g, e).in = e.in
      /\ CopyReads(g, from).src = from.src /\ CopyReads(g, from).dst = g.last + 1
      /\ CopyReads(g, from).in = 1
  BY DEF CopyOf, CopyReads
<1>3. g.last + 1 \notin NodesOf(g)
  <2>1. g.last \in Nat /\ NodesOf(g) \subseteq 1 .. g.last
    BY DEF IsGraphOf
  <2>2. QED
    BY <2>1
<1>4. QED
  BY <1>1, <1>2, <1>3 DEF Control

(* A step that copies a broadcast. *)
LEMMA AbsorbsCopy ==
  ASSUME NEW h, NEW g, NEW gs, NEW i, NEW K, NEW es, KeptOf(h, g, gs, i, K, es),
         NEW k \in Nat, k + 1 \in 1 .. Len(es), NEW s, Absorbs(h, g, gs, i, K, es, k, s),
         NEW s2, IsState(s2), NEW e, e = es[k + 1],
         h.kind[First(s.graph, e.src)] = "broadcast",
         NEW from, IsCopy(s.graph, s2.graph, e, from),
         s2.front = Append(s.front, s.graph.last + 1)
  PROVE  Absorbs(h, g, gs, i, K, es, k + 1, s2)
<1> DEFINE a == s.graph
           b == s2.graph
           id == a.last + 1
           N == NodesOf(a)
<1>1. /\ gs \in Seq(Seq(NodesOf(g))) /\ i \in DOMAIN gs
      /\ \A n \in K : n \in DOMAIN h.kind /\ h.kind[n] \in FusableKinds
      /\ es \in Seq(g.edges) /\ IsInjective(es)
      /\ \A d \in Range(es) : d.in # Control /\ d.dst \in K
  BY DEF KeptOf
<1>2. /\ IsGraphOf(h, a) /\ Unfused(h, a) /\ NodesOf(g) \subseteq N
      /\ \A n \in NodesOf(g) : First(a, n) = First(g, n)
      /\ \A j \in k + 1 .. Len(es) : es[j] \in a.edges
      /\ s.front \in Seq(N) /\ IsInjective(s.front)
      /\ \A n \in Range(s.front) : /\ h.kind[First(a, n)] = "broadcast"
                                   /\ \A d \in ReadersOf(a, n) : d.dst \in K
                                   /\ \A j \in k + 1 .. Len(es) : es[j].src # n
      /\ \A m \in DOMAIN gs : m # i => Range(gs[m]) \cap Range(s.front) = {}
      /\ Absorbing(h, a, gs, 1 .. i - 1)
  BY DEF Absorbs
<1>3. e \in a.edges /\ e.in # Control /\ e.dst \in K
  <2>1. k + 1 \in k + 1 .. Len(es) /\ k + 1 \in DOMAIN es
    BY <1>1
  <2>2. e \in Range(es)
    BY <2>1, InRange
  <2>3. QED
    BY <1>1, <1>2, <2>1, <2>2
<1>4. /\ IsGraphOf(h, b) /\ Unfused(h, b)
      /\ \A n \in N : First(b, n) = First(a, n)
      /\ First(b, id) = First(a, e.src)
  BY <1>2, <1>3, CopyKeepsShape
<1>5. /\ id \notin N /\ NodesOf(b) = N \cup {id}
      /\ from \in a.edges /\ from.in # Control /\ h.kind[First(a, from.dst)] = "broadcast"
      /\ \A d \in b.edges :
           \/ d \in a.edges /\ d # e
           \/ d.src = id /\ d.dst = e.dst /\ d.in = e.in
           \/ d.src = from.src /\ d.dst = id /\ d.in # Control
      /\ \A d \in a.edges : d # e => d \in b.edges
  BY <1>2, <1>3, CopyEdges
<1>6. \A n \in DOMAIN h.kind : n \in N /\ First(a, n) = n
  BY <1>2 DEF Unfused
<1>16. \A d \in a.edges : d.src \in N /\ d.dst \in N
  BY <1>2 DEF IsGraphOf
<1> HIDE DEF a, b, id, N
<1>7. \A j \in (k + 1) + 1 .. Len(es) : es[j] \in b.edges /\ es[j].src \in N
  <2> TAKE j \in (k + 1) + 1 .. Len(es)
  <2>3. Len(es) \in Nat /\ DOMAIN es = 1 .. Len(es)
    BY <1>1
  <2>1. j \in k + 1 .. Len(es) /\ j # k + 1 /\ j \in DOMAIN es /\ k + 1 \in DOMAIN es
    BY <2>3
  <2>2. es[j] # e
    BY <1>1, <2>1 DEF IsInjective
  <2>4. QED
    BY <1>2, <1>5, <1>16, <2>1, <2>2
<1>8. /\ s2.front \in Seq(NodesOf(b)) /\ Range(s2.front) = Range(s.front) \cup {id}
      /\ IsInjective(s2.front) /\ Range(s.front) \subseteq N
  <2>1. Range(s.front) \subseteq N
    BY <1>2 DEF Range
  <2>2. s.front \in Seq(NodesOf(b))
    BY <1>2, <1>5
  <2>3. id \notin Range(s.front) /\ id \in NodesOf(b)
    BY <1>5, <2>1
  <2>4. s2.front = Append(s.front, id)
    BY DEF id, a
  <2>5. QED
    BY <1>2, <2>1, <2>2, <2>3, <2>4, AppendRange
(* Who reads in the old graph what is read in the new one. *)
<1>9. ASSUME NEW n \in N, NEW d \in ReadersOf(b, n)
      PROVE  \/ d \in ReadersOf(a, n)
             \/ \E f \in ReadersOf(a, n) : h.kind[First(a, f.dst)] = "broadcast"
  <2>1. d \in b.edges /\ d.src = n /\ d.in # Control
    BY <1>9 DEF ReadersOf
  <2>2. CASE d \in a.edges
    BY <2>1, <2>2 DEF ReadersOf
  <2>3. CASE d.src = from.src
    <3>1. from \in ReadersOf(a, n)
      BY <1>5, <2>1, <2>3 DEF ReadersOf
    <3>2. QED
      BY <1>5, <3>1
  <2>4. CASE d.src = id
    BY <1>5, <1>9, <2>1, <2>4
  <2>5. QED
    BY <1>5, <2>1, <2>2, <2>3, <2>4
<1>10. "broadcast" \notin FusableKinds
  BY DEF FusableKinds
<1>11. \A n \in Range(s2.front) : /\ h.kind[First(b, n)] = "broadcast"
                                  /\ \A d \in ReadersOf(b, n) : d.dst \in K
                                  /\ \A j \in (k + 1) + 1 .. Len(es) : es[j].src # n
  <2> TAKE n \in Range(s2.front)
  <2>1. CASE n = id
    <3>1. h.kind[First(b, n)] = "broadcast"
      BY <1>4, <2>1 DEF a
    <3>2. ASSUME NEW d \in ReadersOf(b, n) PROVE d.dst \in K
      <4>1. d \in b.edges /\ d.src = id /\ d.in # Control
        BY <2>1, <3>2 DEF ReadersOf
      <4>2. d.dst = e.dst
        BY <1>5, <1>16, <4>1
      <4>3. QED
        BY <1>3, <4>2
    <3>3. QED
      BY <1>5, <1>7, <2>1, <3>1, <3>2
  <2>2. CASE n \in Range(s.front)
    <3>1. n \in N /\ h.kind[First(a, n)] = "broadcast" /\ \A d \in ReadersOf(a, n) : d.dst \in K
      BY <1>2, <1>8, <2>2
    <3>2. h.kind[First(b, n)] = "broadcast"
      BY <1>4, <3>1
    <3>3. ASSUME NEW d \in ReadersOf(b, n) PROVE d.dst \in K
      <4>1. \A f \in ReadersOf(a, n) : h.kind[First(a, f.dst)] # "broadcast"
        BY <1>1, <1>6, <1>10, <3>1
      <4>2. QED
        BY <1>9, <3>1, <3>3, <4>1
    <3>4. \A j \in (k + 1) + 1 .. Len(es) : j \in k + 1 .. Len(es)
      OBVIOUS
    <3>5. QED
      BY <1>2, <2>2, <3>2, <3>3, <3>4
  <2>3. QED
    BY <1>8, <2>1, <2>2
<1>12. ASSUME NEW m \in DOMAIN gs, m # i
       PROVE  Range(gs[m]) \cap Range(s2.front) = {}
  <2>1. gs[m] \in Seq(NodesOf(g))
    BY <1>1
  <2>2. Range(gs[m]) \subseteq N
    BY <1>2, <2>1 DEF Range
  <2>3. QED
    BY <1>2, <1>5, <1>8, <1>12, <2>2
<1>13. Absorbing(h, b, gs, 1 .. i - 1)
  <2> SUFFICES ASSUME NEW m \in DOMAIN gs, NEW n \in Range(gs[m]),
                      ~ (n \in DOMAIN h.kind /\ h.kind[n] \in FusableKinds)
               PROVE  /\ m \in 1 .. i - 1 /\ n \in NodesOf(b) /\ h.kind[First(b, n)] = "broadcast"
                      /\ \A d \in ReadersOf(b, n) : d.dst \in DOMAIN h.kind
                           /\ h.kind[d.dst] \in FusableKinds /\ d.dst \in Range(gs[m])
    BY DEF Absorbing
  <2>1. /\ m \in 1 .. i - 1 /\ n \in N /\ h.kind[First(a, n)] = "broadcast"
        /\ \A d \in ReadersOf(a, n) : d.dst \in DOMAIN h.kind
             /\ h.kind[d.dst] \in FusableKinds /\ d.dst \in Range(gs[m])
    BY <1>2 DEF Absorbing, N
  <2>2. \A f \in ReadersOf(a, n) : h.kind[First(a, f.dst)] # "broadcast"
    BY <1>6, <1>10, <2>1
  <2>3. ReadersOf(b, n) \subseteq ReadersOf(a, n)
    BY <1>9, <2>1, <2>2
  <2>4. QED
    BY <1>4, <1>5, <2>1, <2>3
<1>14. NodesOf(g) \subseteq NodesOf(b) /\ \A n \in NodesOf(g) : First(b, n) = First(g, n)
  BY <1>2, <1>4, <1>5
<1>15. QED
  BY <1>4, <1>7, <1>8, <1>11, <1>12, <1>13, <1>14 DEF Absorbs, b

(* A step that takes a broadcast that only one node reads. *)
LEMMA AbsorbsTaken ==
  ASSUME NEW h, NEW g, NEW gs, NEW i, NEW K, NEW es, KeptOf(h, g, gs, i, K, es),
         NEW k \in Nat, k + 1 \in 1 .. Len(es), NEW s, Absorbs(h, g, gs, i, K, es, k, s),
         NEW s2, IsState(s2), NEW e, e = es[k + 1],
         h.kind[First(s.graph, e.src)] = "broadcast",
         s2.graph = s.graph, ReadersOf(s.graph, e.src) = {e}, s2.front = Append(s.front, e.src)
  PROVE  Absorbs(h, g, gs, i, K, es, k + 1, s2)
<1> DEFINE a == s.graph
           N == NodesOf(a)
           n == e.src
<1>1. /\ gs \in Seq(Seq(NodesOf(g))) /\ i \in DOMAIN gs /\ Disjoint(gs) /\ K \subseteq Range(gs[i])
      /\ \A x \in K : x \in DOMAIN h.kind /\ h.kind[x] \in FusableKinds
      /\ es \in Seq(g.edges) /\ IsInjective(es)
      /\ \A d \in Range(es) : d.in # Control /\ d.dst \in K
  BY DEF KeptOf
<1>2. /\ IsGraphOf(h, a) /\ Unfused(h, a) /\ NodesOf(g) \subseteq N
      /\ \A x \in NodesOf(g) : First(a, x) = First(g, x)
      /\ \A j \in k + 1 .. Len(es) : es[j] \in a.edges
      /\ s.front \in Seq(N) /\ IsInjective(s.front)
      /\ \A x \in Range(s.front) : /\ h.kind[First(a, x)] = "broadcast"
                                   /\ \A d \in ReadersOf(a, x) : d.dst \in K
                                   /\ \A j \in k + 1 .. Len(es) : es[j].src # x
      /\ \A m \in DOMAIN gs : m # i => Range(gs[m]) \cap Range(s.front) = {}
      /\ Absorbing(h, a, gs, 1 .. i - 1)
  BY DEF Absorbs
<1>3. k + 1 \in k + 1 .. Len(es) /\ k + 1 \in DOMAIN es
  BY <1>1
<1>4. e \in a.edges /\ e.in # Control /\ e.dst \in K /\ n \in N
  <2>1. e \in Range(es)
    BY <1>3, InRange
  <2>2. e \in a.edges
    BY <1>2, <1>3
  <2>3. QED
    BY <1>1, <1>2, <2>1, <2>2 DEF IsGraphOf
<1>5. ReadersOf(a, n) = {e} /\ h.kind[First(a, n)] = "broadcast"
  OBVIOUS
<1>6. \A x \in DOMAIN h.kind : First(a, x) = x
  BY <1>2 DEF Unfused
<1> HIDE DEF a, N, n
<1>7. \A j \in (k + 1) + 1 .. Len(es) : j \in k + 1 .. Len(es) /\ es[j].src # n
  <2> TAKE j \in (k + 1) + 1 .. Len(es)
  <2>1. j \in k + 1 .. Len(es) /\ j # k + 1 /\ j \in DOMAIN es
    BY <1>1
  <2>2. es[j] # e
    BY <1>1, <1>3, <2>1 DEF IsInjective
  <2>3. es[j] \in a.edges /\ es[j] \in Range(es)
    BY <1>2, <2>1, InRange
  <2>4. es[j].in # Control
    BY <1>1, <2>3
  <2>5. es[j].src # n
    BY <1>5, <2>2, <2>3, <2>4 DEF ReadersOf
  <2>6. QED
    BY <2>1, <2>5
<1>8. n \notin Range(s.front)
  <2>1. es[k + 1].src = n
    BY DEF n
  <2>2. QED
    BY <1>2, <1>3, <2>1
<1>9. /\ s2.front \in Seq(N) /\ Range(s2.front) = Range(s.front) \cup {n} /\ IsInjective(s2.front)
  <2>1. s2.front = Append(s.front, n)
    BY DEF n
  <2>2. QED
    BY <1>2, <1>4, <1>8, <2>1, AppendRange
<1>10. \A x \in Range(s2.front) : /\ h.kind[First(a, x)] = "broadcast"
                                  /\ \A d \in ReadersOf(a, x) : d.dst \in K
                                  /\ \A j \in (k + 1) + 1 .. Len(es) : es[j].src # x
  BY <1>2, <1>4, <1>5, <1>7, <1>9
<1>11. ASSUME NEW m \in DOMAIN gs, m # i
       PROVE  Range(gs[m]) \cap Range(s2.front) = {}
  <2>1. n \notin Range(gs[m])
    <3> SUFFICES ASSUME n \in Range(gs[m]) PROVE FALSE
      OBVIOUS
    <3>1. ~ (n \in DOMAIN h.kind /\ h.kind[n] \in FusableKinds)
      BY <1>5, <1>6 DEF FusableKinds
    <3>2. \A d \in ReadersOf(a, n) : d.dst \in Range(gs[m])
      BY <1>2, <1>11, <3>1 DEF Absorbing
    <3>3. e.dst \in Range(gs[m]) /\ e.dst \in Range(gs[i])
      BY <1>1, <1>4, <1>5, <3>2
    <3>4. QED
      BY <1>1, <1>11, <3>3 DEF Disjoint
  <2>2. QED
    BY <1>2, <1>9, <1>11, <2>1
<1>12. \A j \in (k + 1) + 1 .. Len(es) : es[j] \in a.edges
  BY <1>2, <1>7
<1>13. s2.graph = a
  BY DEF a
<1>14. QED
  BY <1>2, <1>9, <1>10, <1>11, <1>12, <1>13 DEF Absorbs, N

(* The steps of Absorbed, all of them. *)
AbsorbedChain(h, g, gs, i, K, es, over) ==
  /\ over[0] = [graph |-> g, front |-> <<>>]
  /\ \A k \in 0 .. Len(es) : Absorbs(h, g, gs, i, K, es, k, over[k])
  /\ \A k \in 0 .. Len(es) - 1 : AbsorbedStep(h, over[k], over[k + 1], es[k + 1])

(* Each edge keeps what Absorbs says.                                      *)
LEMMA AbsorbsNext ==
  ASSUME NEW gs, NEW i, NEW K, NEW es, KeptOf(given, graph, gs, i, K, es),
         NEW k \in Nat, k + 1 \in 1 .. Len(es), NEW s, Absorbs(given, graph, gs, i, K, es, k, s),
         IsGraphOf(given, graph)
  PROVE  /\ AbsorbedStep(given, s, AbsorbOver(s, es[k + 1]), es[k + 1])
         /\ Absorbs(given, graph, gs, i, K, es, k + 1, AbsorbOver(s, es[k + 1]))
<1> DEFINE e == es[k + 1]
           s2 == AbsorbOver(s, e)
<1>1. es \in Seq(graph.edges) /\ \A d \in Range(es) : d.in # Control /\ d.dst \in K
  BY DEF KeptOf
<1>2. /\ IsState(s) /\ IsGraphOf(given, s.graph) /\ Unfused(given, s.graph)
      /\ \A n \in NodesOf(graph) : First(s.graph, n) = First(graph, n)
      /\ \A j \in k + 1 .. Len(es) : es[j] \in s.graph.edges
  BY DEF Absorbs
<1>3. /\ k + 1 \in DOMAIN es /\ k + 1 \in k + 1 .. Len(es)
  <2>1. Len(es) \in Nat /\ DOMAIN es = 1 .. Len(es)
    BY <1>1
  <2>2. QED
    BY <2>1
<1>4. e \in Range(es) /\ e \in s.graph.edges /\ e \in graph.edges
  <2>1. e \in Range(es)
    BY <1>3, InRange
  <2>2. e \in graph.edges
    BY <1>1, <1>3
  <2>3. QED
    BY <1>2, <1>3, <2>1, <2>2
<1>5. e.in # Control
  BY <1>1, <1>4
<1>6. e.src \in NodesOf(graph) /\ e.dst \in NodesOf(graph)
  BY <1>4 DEF IsGraphOf
<1> HIDE DEF e, s2
<1>7. First(s.graph, e.src) = First(graph, e.src) /\ First(s.graph, e.dst) = First(graph, e.dst)
  BY <1>2, <1>6
<1>8. IsState(s2) /\ AbsorbedStep(given, s, s2, e)
  BY <1>2, <1>4, <1>5, <1>7, AbsorbOverIs DEF s2
<1>9. e = es[k + 1]
  BY DEF e
<1>10. Absorbs(given, graph, gs, i, K, es, k + 1, s2)
  <2>1. CASE s2 = s
    <3>1. \A j \in (k + 1) + 1 .. Len(es) : j \in k + 1 .. Len(es)
      OBVIOUS
    <3>2. QED
      BY <2>1, <3>1 DEF Absorbs
  <2>2. CASE /\ given.kind[First(s.graph, e.src)] = "broadcast"
             /\ \E from \in s.graph.edges : IsCopy(s.graph, s2.graph, e, from)
             /\ s2.front = Append(s.front, s.graph.last + 1)
    BY <1>8, <1>9, <2>2, AbsorbsCopy
  <2>3. CASE /\ given.kind[First(s.graph, e.src)] = "broadcast"
             /\ s2.graph = s.graph /\ ReadersOf(s.graph, e.src) = {e}
             /\ s2.front = Append(s.front, e.src)
    BY <1>8, <1>9, <2>3, AbsorbsTaken
  <2>4. QED
    BY <1>8, <2>1, <2>2, <2>3 DEF AbsorbedStep
<1>11. QED
  BY <1>8, <1>10 DEF e, s2

(* Hence it holds after any number of edges.                               *)
LEMMA AbsorbedInSteps ==
  ASSUME NEW gs, NEW i, NEW K, NEW es, KeptOf(given, graph, gs, i, K, es),
         IsGraphOf(given, graph), Unfused(given, graph),
         Absorbing(given, graph, gs, 1 .. i - 1)
  PROVE  \E over : /\ AbsorbedChain(given, graph, gs, i, K, es, over)
                   /\ Absorbed(es) = over[Len(es)]
<1> DEFINE first == [graph |-> graph, front |-> <<>>]
<1>1. es \in Seq(graph.edges)
  BY DEF KeptOf
<1>2. Len(es) \in Nat
  BY <1>1
<1>3. PICK over : AbsorbedBy(over, es, Len(es)) /\ Absorbed(es) = over[Len(es)]
  BY <1>1, AbsorbedIs
<1>4. /\ over[0] = first
      /\ \A k \in 0 .. Len(es) - 1 : over[k + 1] = AbsorbOver(over[k], es[k + 1])
  <2>1. over = [k \in 0 .. Len(es) |-> IF k = 0 THEN first ELSE AbsorbOver(over[k - 1], es[k])]
    BY <1>3 DEF AbsorbedBy
  <2> HIDE DEF first
  <2>2. 0 \in 0 .. Len(es)
    BY <1>2
  <2>3. over[0] = first
    BY <2>1, <2>2
  <2>4. ASSUME NEW k \in 0 .. Len(es) - 1 PROVE over[k + 1] = AbsorbOver(over[k], es[k + 1])
    <3>1. k + 1 \in 0 .. Len(es) /\ k + 1 # 0 /\ (k + 1) - 1 = k
      BY <1>2
    <3>2. QED
      BY <2>1, <3>1
  <2>5. QED
    BY <2>3, <2>4
<1>5. Absorbs(given, graph, gs, i, K, es, 0, first)
  BY AbsorbsFirst
<1> HIDE DEF first
<1> DEFINE S == {k \in Nat : k \in 0 .. Len(es) => Absorbs(given, graph, gs, i, K, es, k, over[k])}
<1>6. 0 \in S
  BY <1>4, <1>5
<1>7. ASSUME NEW k \in Nat, k \in S PROVE k + 1 \in S
  <2> SUFFICES ASSUME k + 1 \in 0 .. Len(es)
               PROVE  Absorbs(given, graph, gs, i, K, es, k + 1, over[k + 1])
    OBVIOUS
  <2>1. k \in 0 .. Len(es) /\ k \in 0 .. Len(es) - 1 /\ k + 1 \in 1 .. Len(es)
    BY <1>2
  <2>2. Absorbs(given, graph, gs, i, K, es, k, over[k])
    BY <1>7, <2>1
  <2>3. Absorbs(given, graph, gs, i, K, es, k + 1, AbsorbOver(over[k], es[k + 1]))
    BY <2>1, <2>2, AbsorbsNext
  <2>4. QED
    BY <1>4, <2>1, <2>3
<1>8. Nat \subseteq S
  <2> HIDE DEF S
  <2>1. QED
    BY <1>6, <1>7, EveryNumber
<1>9. \A k \in 0 .. Len(es) : Absorbs(given, graph, gs, i, K, es, k, over[k])
  <2>1. 0 .. Len(es) \subseteq Nat
    OBVIOUS
  <2>2. QED
    BY <1>8, <2>1
<1>10. ASSUME NEW k \in 0 .. Len(es) - 1
       PROVE  AbsorbedStep(given, over[k], over[k + 1], es[k + 1])
  <2>1. k \in 0 .. Len(es) /\ k \in Nat /\ k + 1 \in 1 .. Len(es)
    BY <1>2
  <2>2. AbsorbedStep(given, over[k], AbsorbOver(over[k], es[k + 1]), es[k + 1])
    BY <1>9, <2>1, AbsorbsNext
  <2>3. QED
    BY <1>4, <2>2
<1>11. AbsorbedChain(given, graph, gs, i, K, es, over)
  BY <1>4, <1>9, <1>10 DEF AbsorbedChain, first
<1>12. QED
  BY <1>3, <1>11

(* What is kept of a group. *)
LEMMA KeptIs ==
  ASSUME NEW T, NEW s \in Seq(T)
  PROVE  /\ Kept(s) \in Seq(T) /\ Range(Kept(s)) \subseteq Range(s)
         /\ IsInjective(s) => IsInjective(Kept(s))
         /\ \A a, b \in DOMAIN Kept(s) : a < b =>
              \E i, j \in DOMAIN s : i < j /\ Kept(s)[a] = s[i] /\ Kept(s)[b] = s[j]
<1>1. \E S : Kept(s) = Among(s, S)
  BY DEF Kept
<1>2. PICK S : Kept(s) = Among(s, S)
  BY <1>1
<1>3. QED
  BY <1>2, AmongIs

(* The group that is looked at, as the steps of Absorbed find it. *)
LEMMA KeptOfGroup ==
  ASSUME KInv, phase = "absorb", index <= Len(groups)
  PROVE  /\ IsGraphOf(given, graph) /\ Unfused(given, graph)
         /\ groups \in Seq(Seq(NodesOf(graph))) /\ Disjoint(groups)
         /\ index \in DOMAIN groups /\ groups[index] \in Seq(NodesOf(graph))
         /\ Absorbing(given, graph, groups, 1 .. index - 1)
         /\ Kept(groups[index]) \in Seq(NodesOf(graph)) /\ IsInjective(Kept(groups[index]))
         /\ Range(Kept(groups[index])) \subseteq Range(groups[index])
         /\ KeptOf(given, graph, groups, index, Range(Kept(groups[index])), DataInto(Kept(groups[index])))
<1> DEFINE s == groups[index]
           N == NodesOf(graph)
           c == Kept(s)
           es == DataInto(c)
<1>1. /\ IsGraphOf(given, graph) /\ Unfused(given, graph) /\ groups \in Seq(Seq(N)) /\ Disjoint(groups)
      /\ Absorbing(given, graph, groups, 1 .. index - 1) /\ index \in Nat \ {0}
  BY DEF KInv, Fusing, Extracting
<1>2. index \in DOMAIN groups
  BY <1>1
<1>3. s \in Seq(N) /\ IsInjective(s)
  BY <1>1, <1>2 DEF Disjoint
<1> HIDE DEF N, s, c, es
<1>4. c \in Seq(N) /\ IsInjective(c) /\ Range(c) \subseteq Range(s)
  BY <1>3, KeptIs DEF c
<1>5. /\ es \in Seq(graph.edges) /\ IsInjective(es)
      /\ \A e : e \in Range(es) <=> e \in graph.edges /\ e.dst \in Range(c) /\ e.in # Control
  BY <1>1, <1>4, DataListed DEF es
<1>6. ASSUME NEW n \in Range(c) PROVE n \in DOMAIN given.kind /\ given.kind[n] \in FusableKinds
  <2>1. n \in Range(groups[index]) /\ index \notin 1 .. index - 1
    BY <1>1, <1>4 DEF s
  <2>2. QED
    BY <1>1, <1>2, <2>1 DEF Absorbing
<1>7. KeptOf(given, graph, groups, index, Range(c), es)
  BY <1>1, <1>2, <1>4, <1>5, <1>6 DEF KeptOf, N, s
<1>8. QED
  BY <1>1, <1>2, <1>3, <1>4, <1>7 DEF N, s, c, es

(* FuseReshapeAndBroadcast of one group keeps all groups apart.            *)
LEMMA FuseReshapeAndBroadcastKeeps ==
  ASSUME KInv, FuseReshapeAndBroadcast
  PROVE  KInv'
<1> DEFINE c == Kept(groups[index])
           es == DataInto(c)
           s == Absorbed(es)
           K == Range(c)
           gs == groups
           i == index
           N == NodesOf(graph)
           N2 == NodesOf(s.graph)
           new == s.front \o c
<1>1. /\ phase = "absorb" /\ index <= Len(groups) /\ graph' = s.graph
      /\ groups' = [gs EXCEPT ![i] = new] /\ index' = index + 1
      /\ UNCHANGED <<given, level, phase, tagged, visited>>
  BY DEF FuseReshapeAndBroadcast, walkVars
<1>2. /\ IsGraphOf(given, graph) /\ Unfused(given, graph)
      /\ gs \in Seq(Seq(N)) /\ Disjoint(gs) /\ i \in DOMAIN gs
      /\ Absorbing(given, graph, gs, 1 .. i - 1) /\ c \in Seq(N) /\ IsInjective(c)
      /\ Range(c) \subseteq Range(gs[i]) /\ KeptOf(given, graph, gs, i, K, es)
  BY <1>1, KeptOfGroup
<1>3. Absorbs(given, graph, gs, i, K, es, Len(es), s)
  <2>1. PICK over : /\ AbsorbedChain(given, graph, gs, i, K, es, over)
                    /\ s = over[Len(es)]
    BY <1>2, AbsorbedInSteps
  <2>2. es \in Seq(graph.edges)
    BY <1>2 DEF KeptOf
  <2> HIDE DEF es, s, K, gs, i
  <2>3. Len(es) \in 0 .. Len(es)
    BY <2>2
  <2>4. QED
    BY <2>1, <2>3 DEF AbsorbedChain
<1>4. /\ IsGraphOf(given, s.graph) /\ Unfused(given, s.graph) /\ N \subseteq N2
      /\ s.front \in Seq(N2) /\ IsInjective(s.front)
      /\ \A n \in Range(s.front) : /\ given.kind[First(s.graph, n)] = "broadcast"
                                   /\ \A e \in ReadersOf(s.graph, n) : e.dst \in K
      /\ \A m \in DOMAIN gs : m # i => Range(gs[m]) \cap Range(s.front) = {}
      /\ Absorbing(given, s.graph, gs, 1 .. i - 1)
  BY <1>3 DEF Absorbs
<1>5. \A n \in K : n \in DOMAIN given.kind /\ given.kind[n] \in FusableKinds
  BY <1>2 DEF KeptOf
<1>6. level \in Levels /\ given \in Graphs /\ index \in Nat \ {0} /\ visited = tagged
  BY <1>1 DEF KInv, Extracting
<1>7. \A n \in DOMAIN given.kind : First(s.graph, n) = n
  BY <1>4 DEF Unfused
<1> HIDE DEF c, es, s, gs, i, N, N2
<1>8. Range(s.front) \cap K = {}
  BY <1>4, <1>5, <1>7 DEF FusableKinds
<1> HIDE DEF K
<1>9. c \in Seq(N2) /\ Range(c) = K
  BY <1>2, <1>4 DEF K
<1>10. new \in Seq(N2) /\ Range(new) = Range(s.front) \cup K /\ IsInjective(new)
  BY <1>2, <1>4, <1>8, <1>9, ConcatRange, ConcatInjective
<1> HIDE DEF new
<1>11. /\ gs \in Seq(Seq(N2)) /\ DOMAIN groups' = DOMAIN gs /\ groups' \in Seq(Seq(N2))
       /\ groups'[i] = new /\ \A m \in DOMAIN gs : m # i => groups'[m] = gs[m]
  <2>1. gs \in Seq(Seq(N2))
    BY <1>2, <1>4
  <2>2. QED
    BY <1>1, <1>2, <1>10, <2>1
<1>12. Disjoint(groups')
  <2>1. ASSUME NEW m \in DOMAIN gs, m # i
        PROVE  Range(gs[m]) \cap Range(new) = {}
    BY <1>2, <1>4, <1>9, <1>10, <2>1 DEF Disjoint
  <2>2. QED
    BY <1>2, <1>10, <1>11, <2>1 DEF Disjoint
<1>13. Absorbing(given, s.graph, groups', 1 .. (i + 1) - 1)
  <2> SUFFICES ASSUME NEW m \in DOMAIN gs, NEW n \in Range(groups'[m]),
                      ~ (n \in DOMAIN given.kind /\ given.kind[n] \in FusableKinds)
               PROVE  /\ m \in 1 .. (i + 1) - 1 /\ n \in N2
                      /\ given.kind[First(s.graph, n)] = "broadcast"
                      /\ \A e \in ReadersOf(s.graph, n) : e.dst \in DOMAIN given.kind
                           /\ given.kind[e.dst] \in FusableKinds /\ e.dst \in Range(groups'[m])
    BY <1>11 DEF Absorbing, N2
  <2>1. i \in Nat /\ i # 0
    BY <1>6 DEF i
  <2>2. CASE m = i
    <3>1. n \in Range(s.front)
      BY <1>5, <1>10, <1>11, <2>2
    <3>2. n \in N2
      BY <1>4, <3>1, InRange
    <3>3. QED
      BY <1>4, <1>5, <1>10, <1>11, <2>1, <2>2, <3>1, <3>2
  <2>3. CASE m # i
    <3>1. groups'[m] = gs[m]
      BY <1>11, <2>3
    <3>2. /\ m \in 1 .. i - 1 /\ n \in NodesOf(s.graph)
          /\ given.kind[First(s.graph, n)] = "broadcast"
          /\ \A e \in ReadersOf(s.graph, n) : e.dst \in DOMAIN given.kind
               /\ given.kind[e.dst] \in FusableKinds /\ e.dst \in Range(gs[m])
      BY <1>4, <3>1 DEF Absorbing
    <3>3. m \in 1 .. (i + 1) - 1
      BY <2>1, <3>2
    <3>4. QED
      BY <3>1, <3>2, <3>3 DEF N2
  <2>4. QED
    BY <2>2, <2>3
<1>14. /\ groups' \in Seq(Seq(NodesOf(graph'))) /\ IsGraphOf(given', graph') /\ Unfused(given', graph')
       /\ Absorbing(given', graph', groups', 1 .. index' - 1)
  BY <1>1, <1>4, <1>11, <1>13 DEF N2, i
<1>15. QED
  BY <1>1, <1>6, <1>12, <1>14 DEF KInv, Fusing, Extracting

(***************************************************************************)
(* The parts into which a group is split.                                  *)
(***************************************************************************)
Whole(E, p) ==
  \/ \E x : p = {x}
  \/ \A m \in p : \E e \in E : {e.src, e.dst} \subseteq p /\ m \in {e.src, e.dst}

PartsOf(E, parts, seen) ==
  /\ IsFiniteSet(parts) /\ \A p \in parts : p \subseteq seen /\ Whole(E, p)
  /\ \A p, q \in parts : p # q => p \cap q = {}

(* Join keeps the parts disjoint and whole.                                *)
LEMMA JoinKeeps ==
  ASSUME NEW P, NEW seen, PartsOf(graph.edges, P, seen), NEW n, n \notin seen
  PROVE  PartsOf(graph.edges, Join(P, n), seen \cup {n})
<1> DEFINE E == graph.edges
           joined == {p \in P : \E e \in E : e.src \in p /\ e.dst = n}
           u == (UNION joined) \cup {n}
<1>1. /\ IsFiniteSet(P) /\ \A p \in P : p \subseteq seen /\ Whole(E, p)
      /\ \A p, q \in P : p # q => p \cap q = {}
  BY DEF PartsOf
<1>2. Join(P, n) = (P \ joined) \cup {u}
  BY DEF Join
<1>3. \A p : p \in joined <=> p \in P /\ \E e \in E : e.src \in p /\ e.dst = n
  OBVIOUS
<1> HIDE DEF joined
<1>4. \A x : x \in u <=> x = n \/ \E p \in joined : x \in p
  OBVIOUS
<1> HIDE DEF u, E
<1>5. IsFiniteSet((P \ joined) \cup {u})
  <2>1. IsFiniteSet(P \ joined)
    BY <1>1, FS_Subset
  <2>2. QED
    BY <2>1, FS_AddElement
<1>6. \A p \in P \ joined : p \cap u = {}
  BY <1>1, <1>3, <1>4
<1>7. u \subseteq seen \cup {n}
  BY <1>1, <1>3, <1>4
<1>8. Whole(E, u)
  <2>1. CASE joined = {}
    <3>1. u = {n}
      BY <1>4, <2>1
    <3>2. QED
      BY <3>1 DEF Whole
  <2>2. CASE joined # {}
    <3>1. ASSUME NEW p \in joined, NEW m \in p
          PROVE  \E e \in E : {e.src, e.dst} \subseteq u /\ m \in {e.src, e.dst}
      <4>1. p \in P /\ p \subseteq u
        BY <1>3, <1>4, <3>1
      <4>2. CASE \E x : p = {x}
        <5>1. PICK e \in E : e.src \in p /\ e.dst = n
          BY <1>3, <3>1
        <5>2. e.src = m /\ e.src \in u /\ e.dst \in u
          BY <1>4, <3>1, <4>1, <4>2, <5>1
        <5>3. QED
          BY <5>2
      <4>3. CASE \A x \in p : \E e \in E : {e.src, e.dst} \subseteq p /\ x \in {e.src, e.dst}
        BY <3>1, <4>1, <4>3
      <4>4. Whole(E, p)
        BY <1>1, <4>1
      <4>5. QED
        BY <4>2, <4>3, <4>4 DEF Whole
    <3>2. \E e \in E : {e.src, e.dst} \subseteq u /\ n \in {e.src, e.dst}
      <4>1. PICK p \in joined : TRUE
        BY <2>2
      <4>2. PICK e \in E : e.src \in p /\ e.dst = n
        BY <1>3, <4>1
      <4>3. e.src \in u /\ e.dst \in u
        BY <1>4, <4>1, <4>2
      <4>4. QED
        BY <4>2, <4>3
    <3>3. \A m \in u : \E e \in E : {e.src, e.dst} \subseteq u /\ m \in {e.src, e.dst}
      BY <1>4, <3>1, <3>2
    <3>4. QED
      BY <3>3 DEF Whole
  <2>3. QED
    BY <2>1, <2>2
<1>9. PartsOf(E, (P \ joined) \cup {u}, seen \cup {n})
  BY <1>1, <1>5, <1>6, <1>7, <1>8 DEF PartsOf
<1>10. QED
  BY <1>2, <1>9 DEF E

JoinedBy(f, s) == f = [k \in 0 .. Len(s) |-> IF k = 0 THEN {} ELSE Join(f[k - 1], s[k])]

PartsInSteps(f, s) ==
  /\ f[0] = {} /\ \A k \in Nat : k + 1 \in 0 .. Len(s) => f[k + 1] = Join(f[k], s[k + 1])
  /\ Parts(s) = {p \in f[Len(s)] : Cardinality(p) > 1}

(* The parts come about node by node.                                      *)
LEMMA PartsSteps ==
  ASSUME NEW T, NEW s \in Seq(T)
  PROVE  \E f : PartsInSteps(f, s)
<1> DEFINE n == Len(s)
           S == SUBSET SUBSET T
           step == [k \in Nat |-> [P \in S |-> IF k \in 1 .. n THEN Join(P, s[k]) ELSE P]]
           By(f) == f = [k \in 0 .. n |-> IF k = 0 THEN {} ELSE Join(f[k - 1], s[k])]
           joined == CHOOSE f : By(f)
<1>1. n \in Nat /\ DOMAIN s = 1 .. n /\ \A k \in 1 .. n : s[k] \in T
  OBVIOUS
<1>2. ASSUME NEW P \in S, NEW x \in T PROVE Join(P, x) \in S
  <2> DEFINE j == {p \in P : \E e \in graph.edges : e.src \in p /\ e.dst = x}
             u == (UNION j) \cup {x}
  <2>1. u \subseteq T
    OBVIOUS
  <2>2. Join(P, x) = (P \ j) \cup {u}
    BY DEF Join
  <2> HIDE DEF j, u
  <2>3. QED
    BY <2>1, <2>2
<1>3. step \in [Nat -> [S -> S]] /\ {} \in S
  <2>1. \A k \in Nat : \A P \in S : (IF k \in 1 .. n THEN Join(P, s[k]) ELSE P) \in S
    BY <1>1, <1>2
  <2> HIDE DEF S
  <2>2. QED
    BY <2>1 DEF S
<1> HIDE DEF S
<1>4. \E f : By(f)
  <2>1. PICK f \in [0 .. n -> S] : StepsOn(f, {}, step, n)
    BY <1>1, <1>3, StepsExist
  <2>2. f = [k \in 0 .. n |-> IF k = 0 THEN {} ELSE step[k][f[k - 1]]]
    BY <2>1 DEF StepsOn
  <2>3. \A k \in 0 .. n : f[k] = IF k = 0 THEN {} ELSE step[k][f[k - 1]]
    BY <2>2
  <2>4. \A k \in 0 .. n : k # 0 => k \in Nat /\ k \in 1 .. n /\ k - 1 \in 0 .. n
    BY <1>1
  <2>5. \A k \in 0 .. n : k # 0 => f[k - 1] \in S
    BY <2>1, <2>4
  <2>6. \A k \in 0 .. n : k # 0 => step[k][f[k - 1]] = Join(f[k - 1], s[k])
    BY <2>4, <2>5
  <2> HIDE DEF step, n
  <2>7. \A k \in 0 .. n : f[k] = IF k = 0 THEN {} ELSE Join(f[k - 1], s[k])
    BY <2>3, <2>6
  <2> DEFINE g == [k \in 0 .. n |-> IF k = 0 THEN {} ELSE Join(f[k - 1], s[k])]
  <2>8. f = g
    BY <2>1, <2>7
  <2>9. QED
    BY <2>8
<1>5. joined = [k \in 0 .. n |-> IF k = 0 THEN {} ELSE Join(joined[k - 1], s[k])]
  BY <1>4
<1>6. Parts(s) = {p \in joined[n] : Cardinality(p) > 1}
  BY DEF Parts
<1> HIDE DEF joined, step, n
<1>7. joined[0] = {}
  BY <1>1, <1>5
<1>8. ASSUME NEW k \in Nat, k + 1 \in 0 .. n
      PROVE  joined[k + 1] = Join(joined[k], s[k + 1])
  <2>1. k + 1 # 0 /\ (k + 1) - 1 = k
    OBVIOUS
  <2>2. k + 1 \in 0 .. n /\ joined[k + 1] = IF k + 1 = 0 THEN {} ELSE Join(joined[(k + 1) - 1], s[k + 1])
    BY <1>5, <1>8
  <2>3. QED
    BY <2>1, <2>2
<1>9. PartsInSteps(joined, s)
  BY <1>6, <1>7, <1>8 DEF PartsInSteps, n
<1>10. QED
  BY <1>9

(* So the parts of a group are disjoint, and parts of it.                  *)
LEMMA PartsIs ==
  ASSUME NEW T, NEW s \in Seq(T), IsInjective(s)
  PROVE  /\ PartsOf(graph.edges, Parts(s), Range(s))
         /\ \A p \in Parts(s) : Cardinality(p) > 1
<1> DEFINE n == Len(s)
<1>1. n \in Nat /\ DOMAIN s = 1 .. n /\ \A k \in 1 .. n : s[k] \in T
  OBVIOUS
<1>2. PICK joined : PartsInSteps(joined, s)
  BY PartsSteps
<1>3. /\ joined[0] = {} /\ \A k \in Nat : k + 1 \in 0 .. n => joined[k + 1] = Join(joined[k], s[k + 1])
      /\ Parts(s) = {p \in joined[n] : Cardinality(p) > 1}
  BY <1>2 DEF PartsInSteps
<1> HIDE DEF n
<1> DEFINE E == graph.edges
           seen(k) == {s[j] : j \in 1 .. k}
           G == {k \in Nat : k \in 0 .. n => PartsOf(E, joined[k], seen(k))}
<1>7. 0 \in G
  <2>1. joined[0] = {}
    BY <1>3
  <2>2. PartsOf(E, {}, seen(0))
    BY FS_EmptySet DEF PartsOf
  <2>3. QED
    BY <2>1, <2>2
<1>8. ASSUME NEW k \in Nat, k \in G PROVE k + 1 \in G
  <2> SUFFICES ASSUME k + 1 \in 0 .. n PROVE PartsOf(E, joined[k + 1], seen(k + 1))
    OBVIOUS
  <2>1. k \in 0 .. n /\ k + 1 \in 1 .. n /\ k + 1 # 0 /\ (k + 1) - 1 = k
    BY <1>1
  <2>2. joined[k + 1] = Join(joined[k], s[k + 1])
    BY <1>3, <2>1
  <2>3. s[k + 1] \notin seen(k)
    <3>1. \A j \in 1 .. k : j \in 1 .. n /\ j # k + 1
      BY <1>1, <2>1
    <3>2. QED
      BY <1>1, <2>1, <3>1 DEF IsInjective
  <2>4. seen(k + 1) = seen(k) \cup {s[k + 1]}
    <3>1. 1 .. k + 1 = (1 .. k) \cup {k + 1}
      OBVIOUS
    <3>2. QED
      BY <3>1
  <2>5. PartsOf(E, joined[k], seen(k))
    BY <1>8, <2>1
  <2> HIDE DEF seen, G
  <2>6. PartsOf(E, Join(joined[k], s[k + 1]), seen(k) \cup {s[k + 1]})
    BY <2>3, <2>5, JoinKeeps
  <2>7. QED
    BY <2>2, <2>4, <2>6
<1>9. n \in G
  <2>1. Nat \subseteq G
    <3> HIDE DEF G
    <3>1. QED
      BY <1>7, <1>8, EveryNumber
  <2>2. QED
    BY <1>1, <2>1
<1>10. PartsOf(E, joined[n], Range(s))
  <2>1. seen(n) = Range(s)
    BY <1>1 DEF Range
  <2>2. n \in 0 .. n
    BY <1>1
  <2>3. QED
    BY <1>9, <2>1, <2>2
<1> HIDE DEF E, seen
<1>11. Parts(s) \subseteq joined[n] /\ \A p \in Parts(s) : Cardinality(p) > 1
  BY <1>3
<1>12. IsFiniteSet(Parts(s))
  BY <1>10, <1>11, FS_Subset DEF PartsOf
<1>13. PartsOf(E, Parts(s), Range(s))
  BY <1>10, <1>11, <1>12 DEF PartsOf
<1>14. QED
  BY <1>11, <1>13 DEF E

(* The end of the second stage.                                            *)
LEMMA EndAbsorbingKeeps ==
  ASSUME KInv, EndAbsorbing
  PROVE  KInv'
<1>1. /\ phase = "absorb" /\ phase' \in {"fuse", "split"} /\ index' = 1
      /\ UNCHANGED <<given, level, graph, tagged, visited, groups>>
  BY DEF EndAbsorbing, walkVars
<1>2. QED
  BY <1>1 DEF KInv, Extracting, Fusing

IsConcat(u, T, s, t, m, n) ==
  /\ u \in Seq(T) /\ Len(u) = m + n /\ DOMAIN u = 1 .. m + n
  /\ \A i \in 1 .. m + n : u[i] = IF i <= m THEN s[i] ELSE t[i - m]

(* What is at each place of a concatenation.                               *)
LEMMA ConcatAt ==
  ASSUME NEW T, NEW s \in Seq(T), NEW t \in Seq(T)
  PROVE  IsConcat(s \o t, T, s, t, Len(s), Len(t))
BY DEF IsConcat

IsSub(u, T, s, a, b) ==
  /\ u \in Seq(T) /\ Len(u) = (b - a) + 1
  /\ \A k \in 1 .. (b - a) + 1 : u[k] = s[(a + k) - 1]

(* What is at each place of a subsequence.                                 *)
LEMMA SubSeqAt ==
  ASSUME NEW T, NEW s \in Seq(T), NEW a \in 1 .. Len(s) + 1, NEW b \in a - 1 .. Len(s)
  PROVE  IsSub(SubSeq(s, a, b), T, s, a, b)
<1>1. Len(s) \in Nat /\ a \in Int /\ b \in Int /\ 1 <= a /\ a <= b + 1 /\ b <= Len(s)
  OBVIOUS
<1>2. \A i \in a .. b : s[i] \in T
  <2>1. \A i \in a .. b : i \in 1 .. Len(s)
    BY <1>1
  <2>2. QED
    BY <2>1
<1>3. /\ SubSeq(s, a, b) \in Seq(T) /\ Len(SubSeq(s, a, b)) = (b - a) + 1
      /\ \A k \in 1 .. (b - a) + 1 : SubSeq(s, a, b)[k] = s[(a + k) - 1]
  <2> DEFINE u == SubSeq(s, a, b)
  <2>1. /\ u \in Seq(T) /\ Len(u) = IF a <= b THEN (b - a) + 1 ELSE 0
        /\ \A k \in 1 .. (b - a) + 1 : u[k] = s[(a + k) - 1]
    BY <1>1, <1>2, SubSeqProperties, SMTT(30)
  <2> HIDE DEF u
  <2>2. Len(u) = (b - a) + 1
    BY <1>1, <2>1
  <2>3. QED
    BY <2>1, <2>2 DEF u
<1>4. QED
  BY <1>3 DEF IsSub

(* A place behind a sequence that was put in.                              *)
LEMMA PlaceAfter ==
  ASSUME NEW n \in Int, NEW i \in Int, NEW m \in Int, NEW l \in Int, NEW k \in Int,
         l = (i - 1) + m, l < k, k <= l + (n - i)
  PROVE  /\ k - l \in 1 .. n - i /\ k > (i - 1) + m /\ i + (k - l) = (k - m) + 1
         /\ (k - m) + 1 \in i + 1 .. n
OBVIOUS

(* The groups once the next of them has been split. *)
IsSplit(gs, i, new, gs2) ==
  /\ \A k \in 1 .. i - 1 : k \in DOMAIN gs2 /\ k \in DOMAIN gs /\ gs2[k] = gs[k]
  /\ \A k \in 1 .. Len(new) : (i - 1) + k \in DOMAIN gs2 /\ gs2[(i - 1) + k] = new[k]
  /\ \A k \in DOMAIN gs2 :
       \/ k \in 1 .. i - 1
       \/ \E j \in 1 .. Len(new) : k = (i - 1) + j
       \/ /\ k > (i - 1) + Len(new)
          /\ (k - Len(new)) + 1 \in i + 1 .. Len(gs)
          /\ gs2[k] = gs[(k - Len(new)) + 1]
  /\ \A j \in i + 1 .. Len(gs) : \E k \in DOMAIN gs2 : gs2[k] = gs[j]

(* Where each group is when one is replaced by several.                    *)
LEMMA SplitGroups ==
  ASSUME NEW U, NEW gs \in Seq(U), NEW i \in 1 .. Len(gs), NEW new \in Seq(U)
  PROVE  LET gs2 == SubSeq(gs, 1, i - 1) \o new \o SubSeq(gs, i + 1, Len(gs))
         IN  gs2 \in Seq(U) /\ IsSplit(gs, i, new, gs2)
<1> DEFINE a == SubSeq(gs, 1, i - 1)
           c == SubSeq(gs, i + 1, Len(gs))
           n == Len(gs)
           m == Len(new)
           b == a \o new
           gs2 == b \o c
<1>1. /\ n \in Nat /\ i \in 1 .. n /\ m \in Nat /\ DOMAIN gs = 1 .. n
  OBVIOUS
<1>2. /\ a \in Seq(U) /\ Len(a) = i - 1 /\ \A k \in 1 .. i - 1 : a[k] = gs[k]
  BY <1>1
<1>3. /\ c \in Seq(U) /\ Len(c) = n - i /\ \A k \in 1 .. n - i : c[k] = gs[(i + k)]
  <2>1. i + 1 \in 1 .. n + 1 /\ n \in (i + 1) - 1 .. n /\ (n - (i + 1)) + 1 = n - i
    BY <1>1
  <2>2. \A k \in 1 .. n - i : ((i + 1) + k) - 1 = i + k
    BY <1>1
  <2> HIDE DEF n
  <2>3. IsSub(c, U, gs, i + 1, n)
    BY <2>1, SubSeqAt DEF n
  <2> HIDE DEF c
  <2>4. QED
    BY <2>1, <2>2, <2>3 DEF IsSub
<1> HIDE DEF a, c, n
<1>14. m = Len(new)
  OBVIOUS
<1> HIDE DEF m
<1>4. /\ b \in Seq(U) /\ Len(b) = (i - 1) + m
      /\ \A k \in 1 .. (i - 1) + m : b[k] = IF k <= i - 1 THEN a[k] ELSE new[k - (i - 1)]
  <2>1. IsConcat(b, U, a, new, Len(a), Len(new))
    BY <1>2, ConcatAt
  <2> HIDE DEF b
  <2>2. QED
    BY <1>2, <1>14, <2>1 DEF IsConcat
<1> HIDE DEF b
<1>0. n \in Int /\ i \in Int /\ m \in Int /\ 1 <= i /\ i <= n /\ 0 <= m
  BY <1>1
<1> DEFINE l == (i - 1) + m
           all == l + (n - i)
<1>11. l \in Nat /\ n - i \in Nat /\ all \in Nat /\ l = (i - 1) + m /\ all = l + (n - i)
  BY <1>0
<1> HIDE DEF l, all
<1>6. /\ gs2 \in Seq(U) /\ DOMAIN gs2 = 1 .. all
      /\ \A k \in 1 .. all : gs2[k] = IF k <= l THEN b[k] ELSE c[k - l]
  <2>1. Len(b) = l /\ Len(c) = n - i
    BY <1>3, <1>4, <1>11
  <2>2. /\ gs2 \in Seq(U) /\ DOMAIN gs2 = 1 .. l + (n - i)
        /\ \A k \in 1 .. l + (n - i) : gs2[k] = IF k <= l THEN b[k] ELSE c[k - l]
    <3>1. IsConcat(gs2, U, b, c, Len(b), Len(c))
      BY <1>3, <1>4, ConcatAt
    <3> HIDE DEF gs2
    <3>2. QED
      BY <2>1, <3>1 DEF IsConcat
  <2>3. QED
    BY <1>11, <2>2
<1> HIDE DEF gs2
<1>7. ASSUME NEW k \in 1 .. i - 1 PROVE k \in DOMAIN gs2 /\ k \in DOMAIN gs /\ gs2[k] = gs[k]
  <2>1. k \in Int /\ 1 <= k /\ k <= i - 1
    BY <1>0, <1>7
  <2>2. k \in 1 .. all /\ k <= l /\ k \in 1 .. l /\ k \in 1 .. n
    BY <1>0, <1>11, <2>1
  <2>3. k \in DOMAIN gs2 /\ k \in DOMAIN gs
    BY <1>1, <1>6, <2>2
  <2>4. gs2[k] = b[k]
    BY <1>6, <2>2
  <2>5. b[k] = a[k]
    BY <1>4, <1>11, <2>1, <2>2
  <2>6. QED
    BY <1>2, <2>3, <2>4, <2>5
<1>8. ASSUME NEW k \in 1 .. m PROVE (i - 1) + k \in DOMAIN gs2 /\ gs2[(i - 1) + k] = new[k]
  <2>1. k \in Int /\ 1 <= k /\ k <= m
    BY <1>0, <1>8
  <2> DEFINE j == (i - 1) + k
  <2>2. j \in 1 .. all /\ j <= l /\ j \in 1 .. l /\ ~(j <= i - 1) /\ j - (i - 1) = k
    BY <1>0, <1>11, <2>1
  <2> HIDE DEF j
  <2>3. gs2[j] = b[j] /\ j \in DOMAIN gs2
    BY <1>6, <2>2
  <2>4. b[j] = new[k]
    BY <1>4, <1>11, <2>2
  <2>5. QED
    BY <2>3, <2>4 DEF j
<1>9. ASSUME NEW k \in DOMAIN gs2
      PROVE  \/ k \in 1 .. i - 1
             \/ \E j \in 1 .. m : k = (i - 1) + j
             \/ k > (i - 1) + m /\ (k - m) + 1 \in i + 1 .. n /\ gs2[k] = gs[(k - m) + 1]
  <2>1. k \in Int /\ 1 <= k /\ k <= all /\ k \in 1 .. all
    BY <1>6, <1>9, <1>11
  <2>2. CASE k <= i - 1
    BY <1>0, <2>1, <2>2
  <2>3. CASE ~(k <= i - 1) /\ k <= l
    <3>1. k - (i - 1) \in 1 .. m /\ k = (i - 1) + (k - (i - 1))
      BY <1>0, <1>11, <2>1, <2>3
    <3>2. QED
      BY <3>1
  <2>4. CASE ~(k <= l)
    <3> DEFINE j == k - l
    <3>5. l \in Int /\ l < k /\ k <= l + (n - i) /\ l = (i - 1) + m
      <4>1. l \in Int /\ l = (i - 1) + m /\ all = l + (n - i) /\ k <= all
        BY <1>11, <2>1
      <4>2. l < k
        BY <2>1, <2>4, <4>1
      <4>3. QED
        BY <4>1, <4>2
    <3>1. /\ k > (i - 1) + m /\ (k - m) + 1 \in i + 1 .. n
          /\ j \in 1 .. n - i /\ i + j = (k - m) + 1
      BY <1>0, <2>1, <3>5, PlaceAfter
    <3>2. gs2[k] = c[j]
      BY <1>6, <2>1, <2>4
    <3> HIDE DEF j
    <3>3. gs2[k] = gs[(k - m) + 1]
      BY <1>3, <3>1, <3>2
    <3>4. QED
      BY <3>1, <3>3
  <2>5. QED
    BY <2>2, <2>3, <2>4
<1>15. ASSUME NEW j \in i + 1 .. n PROVE \E k \in DOMAIN gs2 : gs2[k] = gs[j]
  <2> DEFINE k == (j + m) - 1
             a2 == j - i
  <2>1. j \in Int /\ i + 1 <= j /\ j <= n
    BY <1>0
  <2>2. k \in 1 .. all /\ ~(k <= l) /\ k - l = a2 /\ a2 \in 1 .. n - i /\ i + a2 = j
    BY <1>0, <1>11, <2>1
  <2> HIDE DEF k, a2
  <2>3. k \in DOMAIN gs2 /\ gs2[k] = c[a2]
    BY <1>6, <2>2
  <2>4. c[a2] = gs[j]
    BY <1>3, <2>2
  <2>5. QED
    BY <2>3, <2>4
<1>10. IsSplit(gs, i, new, gs2)
  BY <1>7, <1>8, <1>9, <1>15 DEF IsSplit, m, n
<1>12. gs2 = SubSeq(gs, 1, i - 1) \o new \o SubSeq(gs, i + 1, Len(gs))
  BY DEF gs2, b, a, c
<1>13. QED
  BY <1>6, <1>10, <1>12

(* The sequences of the parts of a group. *)
PartsInOrder(s, order, new) ==
  /\ new = [k \in DOMAIN order |-> Among(s, order[k])]
  /\ DOMAIN order = 1 .. Len(order) /\ Len(order) \in Nat /\ Len(new) = Len(order)
  /\ \A k \in 1 .. Len(order) :
       /\ Whole(graph.edges, order[k]) /\ Cardinality(order[k]) > 1
       /\ Range(new[k]) = order[k] /\ order[k] \subseteq Range(s) /\ IsInjective(new[k])
       /\ \A a, b \in DOMAIN new[k] : a < b =>
            \E x, y \in DOMAIN s : x < y /\ new[k][a] = s[x] /\ new[k][b] = s[y]
  /\ \A k, l \in 1 .. Len(order) : k # l => order[k] \cap order[l] = {}

(* The sequences that SplitIndependentGroups makes of the parts.           *)
LEMMA PartsSequences ==
  ASSUME NEW T, NEW s \in Seq(T), IsInjective(s), NEW order \in SetToSeqs(Parts(s)),
         NEW new, new = [k \in DOMAIN order |-> Among(s, order[k])]
  PROVE  new \in Seq(Seq(T)) /\ PartsInOrder(s, order, new)
<1> DEFINE P == Parts(s)
           n == Cardinality(P)
<1>1. PartsOf(graph.edges, P, Range(s)) /\ \A p \in P : Cardinality(p) > 1
  BY PartsIs
<1>2. /\ IsFiniteSet(P) /\ \A p \in P : p \subseteq Range(s) /\ Whole(graph.edges, p)
      /\ \A p, q \in P : p # q => p \cap q = {}
  BY <1>1 DEF PartsOf
<1>3. order \in [1 .. n -> P] /\ \A k, l \in 1 .. n : k # l => order[k] # order[l]
  BY DEF SetToSeqs
<1> HIDE DEF P
<1>4. n \in Nat
  BY <1>2, FS_CardinalityType
<1> HIDE DEF n
<1>5. order \in Seq(P) /\ Len(order) = n /\ DOMAIN order = 1 .. n
  BY <1>3, <1>4
<1>6. ASSUME NEW k \in 1 .. n
      PROVE  /\ new[k] \in Seq(T) /\ Range(new[k]) = order[k] /\ order[k] \subseteq Range(s)
             /\ IsInjective(new[k]) /\ Whole(graph.edges, order[k]) /\ Cardinality(order[k]) > 1
             /\ \A a, b \in DOMAIN new[k] : a < b =>
                  \E x, y \in DOMAIN s : x < y /\ new[k][a] = s[x] /\ new[k][b] = s[y]
  <2> DEFINE p == order[k]
             c == Among(s, p)
  <2>1. new[k] = c
    BY <1>5
  <2>2. p \in P
    BY <1>3
  <2> HIDE DEF p, c
  <2>3. /\ c \in Seq(T) /\ Range(c) = Range(s) \cap p /\ IsInjective(c)
        /\ \A a, b \in DOMAIN c : a < b => \E x, y \in DOMAIN s : x < y /\ c[a] = s[x] /\ c[b] = s[y]
    BY AmongIs DEF c
  <2>4. p \subseteq Range(s) /\ Whole(graph.edges, p) /\ Cardinality(p) > 1
    BY <1>1, <1>2, <2>2
  <2>5. Range(c) = p
    BY <2>3, <2>4
  <2>6. /\ new[k] \in Seq(T) /\ Range(new[k]) = p /\ IsInjective(new[k])
        /\ \A a, b \in DOMAIN new[k] : a < b =>
             \E x, y \in DOMAIN s : x < y /\ new[k][a] = s[x] /\ new[k][b] = s[y]
    <3> DEFINE nk == new[k]
    <3>1. nk = c
      BY <2>1
    <3> HIDE DEF nk
    <3>2. nk \in Seq(T) /\ Range(nk) = p /\ IsInjective(nk)
      BY <2>3, <2>5, <3>1
    <3>3. \A a, b \in DOMAIN nk : a < b => \E x, y \in DOMAIN s : x < y /\ nk[a] = s[x] /\ nk[b] = s[y]
      BY <2>3, <3>1
    <3>4. QED
      BY <3>2, <3>3 DEF nk
  <2>7. QED
    BY <2>4, <2>6 DEF p
<1>7. new \in [1 .. n -> Seq(T)] /\ Len(new) = n
  <2>1. DOMAIN new = 1 .. n /\ new = [k \in 1 .. n |-> new[k]]
    BY <1>5
  <2>2. \A k \in 1 .. n : new[k] \in Seq(T)
    BY <1>6
  <2>3. QED
    BY <1>4, <2>1, <2>2
<1>8. new \in Seq(Seq(T))
  BY <1>4, <1>7
<1>9. \A k, l \in 1 .. n : k # l => order[k] \cap order[l] = {}
  BY <1>2, <1>3
<1>10. PartsInOrder(s, order, new)
  BY <1>4, <1>5, <1>6, <1>7, <1>9 DEF PartsInOrder
<1>11. QED
  BY <1>8, <1>10

(* SplitIndependentGroups of one group keeps all groups apart.             *)
LEMMA SplitIndependentGroupsKeeps ==
  ASSUME KInv, SplitIndependentGroups
  PROVE  KInv'
<1> DEFINE s == groups[index]
           N == NodesOf(graph)
           i == index
           gs == groups
<1>1. /\ phase = "split" /\ index <= Len(groups)
      /\ UNCHANGED <<given, level, graph, phase, tagged, visited>>
  BY DEF SplitIndependentGroups, walkVars
<1>2. PICK order \in SetToSeqs(Parts(s)) :
        /\ groups' = SubSeq(gs, 1, i - 1) \o [k \in DOMAIN order |-> Among(s, order[k])]
                       \o SubSeq(gs, i + 1, Len(gs))
        /\ index' = index + Len(order)
  BY DEF SplitIndependentGroups
<1> DEFINE new == [k \in DOMAIN order |-> Among(s, order[k])]
<1>3. /\ IsGraphOf(given, graph) /\ Unfused(given, graph) /\ gs \in Seq(Seq(N))
      /\ Disjoint(gs) /\ i \in Nat \ {0} /\ visited = tagged
  BY <1>1 DEF KInv, Extracting, Fusing
<1>4. i \in DOMAIN gs
  BY <1>1, <1>3
<1>5. s \in Seq(N) /\ IsInjective(s)
  BY <1>3, <1>4 DEF Disjoint
<1> HIDE DEF s, N, new, gs, i
<1>6. new \in Seq(Seq(N)) /\ PartsInOrder(s, order, new)
  BY <1>5, PartsSequences DEF new
<1>7. groups' = SubSeq(gs, 1, i - 1) \o new \o SubSeq(gs, i + 1, Len(gs))
  BY <1>2 DEF new
<1> DEFINE m == Len(new)
           gs2 == groups'
           From(k, j) == \/ k \in 1 .. i - 1 /\ j = k
                         \/ k > (i - 1) + m /\ j = (k - m) + 1 /\ j \in i + 1 .. Len(gs)
<1>8. /\ gs2 \in Seq(Seq(N))
      /\ \A k \in 1 .. i - 1 : k \in DOMAIN gs2 /\ k \in DOMAIN gs /\ gs2[k] = gs[k]
      /\ \A k \in 1 .. m : (i - 1) + k \in DOMAIN gs2 /\ gs2[(i - 1) + k] = new[k]
      /\ \A k \in DOMAIN gs2 :
           \/ k \in 1 .. i - 1
           \/ \E j \in 1 .. m : k = (i - 1) + j
           \/ /\ k > (i - 1) + m
              /\ (k - m) + 1 \in i + 1 .. Len(gs)
              /\ gs2[k] = gs[(k - m) + 1]
  <2> DEFINE U == Seq(N)
  <2>1. gs \in Seq(U) /\ new \in Seq(U)
    BY <1>3, <1>6
  <2> HIDE DEF U
  <2>2. gs2 \in Seq(U) /\ IsSplit(gs, i, new, gs2)
    BY <1>3, <1>4, <1>7, <2>1, SplitGroups
  <2>3. QED
    BY <2>2 DEF IsSplit, U
<1>9. /\ m \in Nat /\ m = Len(order) /\ Len(gs) \in Nat /\ DOMAIN gs = 1 .. Len(gs)
      /\ \A k \in 1 .. m : /\ Range(new[k]) = order[k] /\ order[k] \subseteq Range(s)
                           /\ IsInjective(new[k])
      /\ \A k, l \in 1 .. m : k # l => order[k] \cap order[l] = {}
  <2>1. Len(gs) \in Nat /\ DOMAIN gs = 1 .. Len(gs)
    BY <1>3
  <2>2. QED
    BY <1>6, <2>1 DEF PartsInOrder
<1> HIDE DEF m, gs2
<1>10. ASSUME NEW k \in DOMAIN gs2
       PROVE  \/ \E j \in 1 .. m : k = (i - 1) + j /\ gs2[k] = new[j]
              \/ \E j \in DOMAIN gs : From(k, j) /\ j # i /\ gs2[k] = gs[j]
  <2>1. CASE k \in 1 .. i - 1
    <3>1. From(k, k) /\ k # i /\ k \in DOMAIN gs /\ gs2[k] = gs[k]
      BY <1>3, <1>8, <2>1
    <3>2. QED
      BY <3>1
  <2>2. CASE \E j \in 1 .. m : k = (i - 1) + j
    BY <1>8, <2>2
  <2>3. CASE /\ k > (i - 1) + m
             /\ (k - m) + 1 \in i + 1 .. Len(gs)
             /\ gs2[k] = gs[(k - m) + 1]
    <3> DEFINE j == (k - m) + 1
    <3>1. From(k, j) /\ j # i /\ j \in DOMAIN gs /\ gs2[k] = gs[j]
      BY <1>3, <1>9, <2>3
    <3> HIDE DEF j, From
    <3>2. QED
      BY <3>1
  <2>4. QED
    BY <1>8, <2>1, <2>2, <2>3
<1>11. ASSUME NEW k, NEW l, NEW j, From(k, j), From(l, j), k \in DOMAIN gs2, l \in DOMAIN gs2
       PROVE  k = l
  <2>1. k \in Int /\ l \in Int /\ i \in Int /\ m \in Int
    BY <1>3, <1>8, <1>9, <1>11, SMTT(40)
  <2>2. QED
    BY <1>9, <1>11, <2>1
<1> HIDE DEF From
<1>12. \A k \in DOMAIN gs : IsInjective(gs[k])
       /\ \A l \in DOMAIN gs : k # l => Range(gs[k]) \cap Range(gs[l]) = {}
  BY <1>3 DEF Disjoint
<1>13. \A k \in DOMAIN gs2 : IsInjective(gs2[k])
  BY <1>9, <1>10, <1>12
<1>14. \A j \in 1 .. m : Range(new[j]) \subseteq Range(gs[i])
  BY <1>9 DEF s, gs, i
<1>15. ASSUME NEW k \in DOMAIN gs2, NEW l \in DOMAIN gs2, k # l
       PROVE  Range(gs2[k]) \cap Range(gs2[l]) = {}
  <2>1. CASE /\ \E j \in 1 .. m : k = (i - 1) + j /\ gs2[k] = new[j]
             /\ \E j \in 1 .. m : l = (i - 1) + j /\ gs2[l] = new[j]
    <3>1. PICK a \in 1 .. m : k = (i - 1) + a /\ gs2[k] = new[a]
      BY <2>1
    <3>2. PICK b \in 1 .. m : l = (i - 1) + b /\ gs2[l] = new[b]
      BY <2>1
    <3>3. a # b
      BY <1>15, <3>1, <3>2
    <3>4. QED
      BY <1>9, <3>1, <3>2, <3>3
  <2>2. CASE /\ \E j \in 1 .. m : gs2[k] = new[j]
             /\ \E j \in DOMAIN gs : j # i /\ gs2[l] = gs[j]
    BY <1>4, <1>12, <1>14, <2>2
  <2>3. CASE /\ \E j \in DOMAIN gs : j # i /\ gs2[k] = gs[j]
             /\ \E j \in 1 .. m : gs2[l] = new[j]
    BY <1>4, <1>12, <1>14, <2>3
  <2>4. CASE /\ \E j \in DOMAIN gs : From(k, j) /\ j # i /\ gs2[k] = gs[j]
             /\ \E j \in DOMAIN gs : From(l, j) /\ j # i /\ gs2[l] = gs[j]
    BY <1>11, <1>12, <1>15, <2>4
  <2>5. QED
    BY <1>10, <2>1, <2>2, <2>3, <2>4
<1>16. Disjoint(groups')
  BY <1>13, <1>15 DEF Disjoint, gs2
<1>17. index' \in Nat \ {0} /\ groups' \in Seq(Seq(NodesOf(graph')))
  BY <1>1, <1>2, <1>3, <1>8, <1>9 DEF gs2, N, i
<1>18. QED
  BY <1>1, <1>3, <1>16, <1>17 DEF KInv, Extracting, Fusing

(* Every step keeps the invariant.                                         *)
LEMMA KInvKeeps == KInv /\ [Next]_vars => KInv'
<1> SUFFICES ASSUME KInv, [Next]_vars PROVE KInv'
  OBVIOUS
<1>1. CASE EndSplitting
  BY <1>1 DEF EndSplitting, walkVars, KInv, Extracting, Fusing
<1>2. CASE FuseElementGroupOnGraph
  BY <1>2 DEF FuseElementGroupOnGraph, walkVars, KInv, Extracting, Fusing
<1>3. CASE Finish
  BY <1>3 DEF Finish, walkVars, KInv, Extracting, Fusing
<1>4. CASE UNCHANGED vars
  BY <1>4 DEF vars, walkVars, KInv, Extracting, Fusing, Queues, GroupsGather, Gathered
<1>5. QED
  BY <1>1, <1>2, <1>3, <1>4, VisitReadyKeeps, StartElementsKeeps, VisitElementKeeps,
     CloseGroupKeeps, EndExtractionKeeps, FuseReshapeAndBroadcastKeeps, EndAbsorbingKeeps,
     SplitIndependentGroupsKeeps DEF Next

(***************************************************************************)
(* Once ExtractFusionGroups has ended, no node is in two element groups or *)
(* twice in one, whatever FuseReshapeAndBroadcast copies and absorbs and   *)
(* SplitIndependentGroups splits.                                          *)
(***************************************************************************)
THEOREM GroupsStayApart == Spec => []GroupsApart
<1>1. KInv => GroupsApart
  BY DEF KInv, GroupsApart, Extracting, Disjoint
<1>2. QED
  BY <1>1, InitKInv, KInvKeeps, PTL DEF Spec

(***************************************************************************)
(* Why the rest holds: PInv is true between any two steps, if the given    *)
(* graphs are plain.                                                       *)
(***************************************************************************)
ResultsOf(h) == {n \in DOMAIN h.kind : h.kind[n] = "result"}

(* Sets of nodes of g with the results and all that their nodes depend on. *)
Closed(h, g) ==
  {C \in SUBSET NodesOf(g) :
     ResultsOf(h) \subseteq C /\ \A e \in g.edges : e.dst \in C => e.src \in C}

AllLive(h, live) ==
  \A C \in SUBSET DOMAIN h.kind :
    ResultsOf(h) \subseteq C /\ (\A e \in h.edges : e.dst \in C => e.src \in C) => live \subseteq C

(* Until nodes are fused, a node reads and yields what its kernel does in  *)
(* the given graph, from nodes with the kernels that this one reads.       *)
Below(g, e) == [src |-> First(g, e.src), out |-> e.out, dst |-> First(g, e.dst), in |-> e.in]

Covers(h, g) ==
  /\ \A e \in g.edges : Below(g, e) \in h.edges
  /\ \A n \in NodesOf(g) : \A d \in h.edges :
       d.dst = First(g, n) => \E e \in g.edges : e.dst = n /\ Below(g, e) = d
  /\ \A n \in NodesOf(g) : \A i \in DOMAIN g.ins[n] : \E d \in h.edges :
       d.dst = First(g, n) /\ d.in = i /\ i # Control /\ g.ins[n][i] = <<d.src, d.out>>
  /\ \A n \in NodesOf(g) : \A d \in h.edges :
       d.dst = First(g, n) /\ d.in # Control => d.in \in DOMAIN g.ins[n]
  /\ \A n \in NodesOf(g) : /\ 1 \in DOMAIN g.outs[n]
                           /\ \A i \in DOMAIN g.outs[n] : g.outs[n][i] = <<First(g, n), i>>
  /\ \A e \in g.edges : e.in # Control => e.out \in DOMAIN g.outs[e.src]

(* The nodes have times, those of a group the same, and an edge leads from *)
(* a node to a later one or to one of the same group.                      *)
IsTimed(f, N, E, sets) ==
  /\ f \in [N -> Int]
  /\ \A k \in DOMAIN sets : sets[k] \subseteq N /\ \A x, y \in sets[k] : f[x] = f[y]
  /\ \A e \in E : f[e.src] < f[e.dst] \/ \E k \in DOMAIN sets : {e.src, e.dst} \subseteq sets[k]

Timed(g, sets) == \E f : IsTimed(f, NodesOf(g), g.edges, sets)

SetsFrom(gs, i) == [k \in i .. Len(gs) |-> Range(gs[k])]

(* Edges within a group go from an earlier to a later node.                *)
InSequence(es, s) == \A e \in es : \A a, b \in DOMAIN s : s[a] = e.src /\ s[b] = e.dst => a < b

AllAlike(h, g, s) ==
  \A m, n \in Range(s) : /\ h.size[First(g, m)] = h.size[First(g, n)]
                         /\ h.home[First(g, m)] = h.home[First(g, n)]

GroupsAlike(h, g, gs, i) ==
  \A k \in DOMAIN gs : k >= i => InSequence(g.edges, gs[k]) /\ AllAlike(h, g, gs[k])

(* Elements are live, and what is absorbed is read by one of the group.    *)
Wanted(h, g, live, gs) ==
  \A k \in DOMAIN gs : \A n \in Range(gs[k]) :
    IF h.kind[First(g, n)] \in FusableKinds THEN n \in live
    ELSE \E e \in ReadersOf(g, n) : e.dst \in live \cap Range(gs[k])

(* Each kernel of a group has an edge with another. *)
Linked(h, g, s) ==
  \A m \in Range(s) : \E e \in h.edges :
    /\ {e.src, e.dst} \subseteq {First(g, n) : n \in Range(s)}
    /\ First(g, m) \in {e.src, e.dst}

Needed(h, g, gs, i) == \A C \in Closed(h, g) : \A k \in DOMAIN gs : k >= i => Range(gs[k]) \subseteq C

(* While nodes are fused: the groups to come have nodes of one kernel and  *)
(* one output; ...                                                         *)
Fusable(h, g, n) ==
  /\ n \in NodesOf(g) \ ResultsOf(h) /\ g.kernels[n] = <<First(g, n)>>
  /\ 1 \in DOMAIN g.outs[n] /\ g.outs[n][1] = <<First(g, n), 1>>
  /\ \A e \in ReadersOf(g, n) : e.out = 1

ToFuse(h, g, gs, i) == \A k \in DOMAIN gs : k >= i => \A n \in Range(gs[k]) : Fusable(h, g, n)

(* ... edges bring what is read, ... *)
Supplied(h, g) ==
  /\ \A e \in g.edges : e.in # Control =>
       /\ e.in \in DOMAIN g.ins[e.dst] /\ e.out \in DOMAIN g.outs[e.src]
       /\ g.outs[e.src][e.out] = g.ins[e.dst][e.in]
  /\ \A n \in NodesOf(g) : \A i \in DOMAIN g.ins[n] :
       i # Control /\ \E e \in g.edges : e.dst = n /\ e.in = i
  /\ \A n \in NodesOf(g) : \A d \in h.edges :
       d.dst \in Range(g.kernels[n]) /\ d.src \notin Range(g.kernels[n]) /\ d.in # Control =>
         \E i \in DOMAIN g.ins[n] : g.ins[n][i] = <<d.src, d.out>>

(* ... what a kernel depends on is before it in its node or in a node from *)
(* which an edge comes, and what is live is run.                           *)
Preceded(h, g) ==
  \A n \in NodesOf(g) : \A d \in h.edges : \A j \in DOMAIN g.kernels[n] :
    g.kernels[n][j] = d.dst =>
      \/ \E i \in 1 .. j - 1 : g.kernels[n][i] = d.src
      \/ \E e \in g.edges : e.dst = n /\ d.src \in Range(g.kernels[e.src])

AllRun(h, g, live) ==
  \A C \in Closed(h, g) : \A m \in live : \E n \in C : m \in Range(g.kernels[n])

AlikeLinked(h, g, linked) ==
  \A n \in NodesOf(g) :
    LET fused == Range(g.kernels[n])
    IN  /\ \A k, m \in fused : h.size[k] = h.size[m] /\ h.home[k] = h.home[m]
        /\ linked /\ Cardinality(fused) > 1 =>
             \A m \in fused : \E e \in h.edges :
               {e.src, e.dst} \subseteq fused /\ m \in {e.src, e.dst}

GraphIsFine(h, g, live, linked) ==
  /\ IsGraphOf(h, g) /\ Supplied(h, g) /\ Preceded(h, g) /\ AllRun(h, g, live)
  /\ AlikeLinked(h, g, linked)

GroupsCanBeFused(h, g, gs, i, linked) ==
  /\ gs \in Seq(Seq(1 .. g.last)) /\ ToFuse(h, g, gs, i) /\ Needed(h, g, gs, i)
  /\ GroupsAlike(h, g, gs, i) /\ Timed(g, SetsFrom(gs, i))
  /\ linked => \A k \in DOMAIN gs : k >= i => Linked(h, g, gs[k])

(* While groups are formed what is visited has times, and the open group   *)
(* the latest.                                                             *)
VisitTimes(E, seen, gs, last) ==
  \E f \in [seen -> Int], now \in Int :
    /\ \A n \in seen : IF n \in Range(last) THEN f[n] = now ELSE f[n] < now
    /\ \A k \in DOMAIN gs : \A x, y \in Range(gs[k]) : f[x] = f[y]
    /\ \A e \in E : e.dst \in seen =>
         f[e.src] < f[e.dst] \/ \E k \in DOMAIN gs : {e.src, e.dst} \subseteq Range(gs[k])

PInv ==
  /\ IsPlain(given) /\ AllLive(given, tagged)
  /\ DOMAIN graph = {"edges", "ins", "outs", "kernels", "last"}
  /\ ~Fusing => Covers(given, graph)
  /\ Extracting => /\ VisitTimes(given.edges, visited, Gathered, open)
                   /\ GroupsAlike(given, graph, Gathered, 1)
  /\ phase \in {"absorb", "split"} =>
       Timed(graph, SetsFrom(groups, 1)) /\ GroupsAlike(given, graph, groups, 1)
  /\ phase = "absorb" => Wanted(given, graph, tagged, groups)
  /\ phase = "split" => /\ ToFuse(given, graph, groups, 1) /\ Needed(given, graph, groups, 1)
                        /\ \A k \in 1 .. index - 1 : Linked(given, graph, groups[k])
  /\ Fusing => /\ GraphIsFine(given, graph, tagged, level = 3)
               /\ GroupsCanBeFused(given, graph, groups, index, level = 3)

(***************************************************************************)
(* Inputs and outputs of the first graph.                                  *)
(***************************************************************************)

(* Numbers up to n that increase n times are all of them.                  *)
LEMMA Consecutive ==
  ASSUME NEW n \in Nat, NEW f \in [1 .. n -> 1 .. n],
         \A i, j \in 1 .. n : i < j => f[i] < f[j]
  PROVE  \A i \in 1 .. n : f[i] = i
<1>1. \A i \in 1 .. n : f[i] \in Int /\ 1 <= f[i] /\ f[i] <= n
  OBVIOUS
<1> DEFINE S == {k \in Nat : k + 1 \in 1 .. n => f[k + 1] >= k + 1}
           T == {k \in Nat : n - k \in 1 .. n => f[n - k] <= n - k}
<1>2. Nat \subseteq S
  <2>1. 0 \in S
    BY <1>1
  <2>2. ASSUME NEW k \in Nat, k \in S PROVE k + 1 \in S
    <3>1. CASE (k + 1) + 1 \in 1 .. n
      <4>1. k + 1 \in 1 .. n /\ k + 1 < (k + 1) + 1
        BY <3>1
      <4>2. f[k + 1] >= k + 1 /\ f[k + 1] < f[(k + 1) + 1]
        BY <2>2, <3>1, <4>1
      <4>3. f[k + 1] \in Int /\ f[(k + 1) + 1] \in Int
        BY <1>1, <3>1, <4>1
      <4>4. f[(k + 1) + 1] >= (k + 1) + 1
        <5> DEFINE a == f[k + 1]
                   b == f[(k + 1) + 1]
                   m == k + 1
        <5>1. a \in Int /\ b \in Int /\ m \in Int /\ a >= m /\ a < b
          BY <4>2, <4>3
        <5> HIDE DEF a, b, m
        <5>2. b >= m + 1
          BY <5>1
        <5>3. QED
          BY <5>2 DEF b, m
      <4>5. QED
        BY <4>4
    <3>2. QED
      BY <3>1
  <2> HIDE DEF S
  <2>3. QED
    BY <2>1, <2>2, EveryNumber
<1>3. Nat \subseteq T
  <2>1. 0 \in T
    BY <1>1
  <2>2. ASSUME NEW k \in Nat, k \in T PROVE k + 1 \in T
    <3>1. CASE n - (k + 1) \in 1 .. n
      <4>1. n - k \in 1 .. n /\ n - (k + 1) < n - k
        BY <3>1
      <4>2. f[n - k] <= n - k /\ f[n - (k + 1)] < f[n - k]
        BY <2>2, <3>1, <4>1
      <4>3. f[n - k] \in Int /\ f[n - (k + 1)] \in Int
        BY <1>1, <3>1, <4>1
      <4>4. f[n - (k + 1)] <= n - (k + 1)
        <5> DEFINE a == f[n - k]
                   b == f[n - (k + 1)]
                   m == n - k
        <5>1. a \in Int /\ b \in Int /\ m \in Int /\ a <= m /\ b < a /\ n - (k + 1) = m - 1
          BY <4>2, <4>3
        <5> HIDE DEF a, b, m
        <5>2. b <= m - 1
          BY <5>1
        <5>3. QED
          BY <5>1, <5>2 DEF b
      <4>5. QED
        BY <4>4
    <3>2. QED
      BY <3>1
  <2> HIDE DEF T
  <2>3. QED
    BY <2>1, <2>2, EveryNumber
<1>4. SUFFICES ASSUME NEW i \in 1 .. n PROVE f[i] = i
  OBVIOUS
<1>5. i - 1 \in Nat /\ (i - 1) + 1 = i /\ n - i \in Nat /\ n - (n - i) = i
  OBVIOUS
<1>6. i - 1 \in S /\ n - i \in T
  BY <1>2, <1>3, <1>5
<1>7. f[i] >= i /\ f[i] <= i
  BY <1>5, <1>6
<1>8. QED
  BY <1>1, <1>7

(* The data edges into a node of a given graph are numbered.               *)
LEMMA InputsNumbered ==
  ASSUME NEW h, IsGraph(h), NEW n \in DOMAIN h.kind
  PROVE  LET es == OnlyData(InEdges(h.edges, n))
         IN  /\ es \in Seq(h.edges)
             /\ \A e : e \in Range(es) <=> e \in h.edges /\ e.dst = n /\ e.in # Control
             /\ \A i \in DOMAIN es : es[i].in = i /\ i # Control
<1> DEFINE E == h.edges
           s == InEdges(E, n)
           places == {i \in DOMAIN s : s[i].in # Control}
           es == OnlyData(s)
           D == {d \in E : d.dst = n /\ d.in # Control}
           c == Cardinality(places)
           at == Ascending(places)
<1>1. /\ \A e \in E : e.in \in Int /\ e.src \in Int /\ e.in \in Nat
      /\ \A e \in E : e.dst = n /\ e.in # Control => e.in \in 1 .. Cardinality(D)
  <2>1. DOMAIN h.kind \subseteq Int
    BY DEF IsGraph
  <2>2. \A e \in E : /\ e \in [src : DOMAIN h.kind, out : Nat, dst : DOMAIN h.kind, in : Nat]
                     /\ e.in # Control =>
                          e.in \in 1 .. Cardinality({d \in E : d.dst = e.dst /\ d.in # Control})
    BY GivenEdges
  <2>3. ASSUME NEW e \in E
        PROVE  /\ e.in \in Int /\ e.src \in Int /\ e.in \in Nat
               /\ e.dst = n /\ e.in # Control => e.in \in 1 .. Cardinality(D)
    <3>1. e.in \in Nat /\ e.src \in Int
      BY <2>1, <2>2
    <3>2. e.dst = n => D = {d \in E : d.dst = e.dst /\ d.in # Control}
      OBVIOUS
    <3>3. QED
      BY <2>2, <3>1, <3>2
  <2>4. QED
    BY <2>3
<1>2. /\ IsFiniteSet(E)
      /\ \A d, e \in E : d.dst = e.dst /\ d.in = e.in /\ e.in # Control => d = e
  BY DEF IsGraph
<1>3. \A d, e \in E : d.dst = n /\ e.dst = n /\ d.in = e.in /\ d.src = e.src => d = e
  <2>1. \A d, e \in E : d.in = Control /\ d.src = e.src /\ d.dst = e.dst /\ e.in = Control => d = e
    <3>1. \A e \in E : /\ e \in [src : DOMAIN h.kind, out : Nat, dst : DOMAIN h.kind, in : Nat]
                       /\ e.in = Control <=> e.out = Control
      BY GivenEdges
    <3>2. \A d, e \in [src : DOMAIN h.kind, out : Nat, dst : DOMAIN h.kind, in : Nat] :
            d.in = e.in /\ d.out = e.out /\ d.src = e.src /\ d.dst = e.dst => d = e
      OBVIOUS
    <3>3. QED
      BY <3>1, <3>2
  <2>2. QED
    BY <1>2, <2>1
<1>4. /\ s \in Seq(E) /\ IsInjective(s) /\ Range(s) = {e \in E : e.dst = n}
      /\ \A i, j \in DOMAIN s : i < j => ByInput(s[i], s[j])
  BY <1>1, <1>2, <1>3, InEdgesOnce
<1>5. es = Picked(s, places)
  BY DEF OnlyData
<1> HIDE DEF E, s
<1>6. /\ es \in Seq(E) /\ Range(es) = {e \in Range(s) : e.in # Control} /\ IsInjective(es)
  BY <1>4, OnlyDataRange
<1>7. /\ c \in Nat /\ DOMAIN es = 1 .. c /\ at \in [1 .. c -> places]
      /\ \A i \in 1 .. c : es[i] = s[at[i]]
      /\ \A i, j \in 1 .. c : i < j <=> at[i] < at[j]
  <2> HIDE DEF es
  <2>1. places \subseteq DOMAIN s /\ s \in Seq(E)
    BY <1>4
  <2> HIDE DEF places
  <2>2. QED
    BY <1>5, <2>1, PickedAt
<1> HIDE DEF es, c, at
<1>8. Range(es) = D
  BY <1>4, <1>6
<1>9. Cardinality(D) = c
  <2>1. es \in Bijection(1 .. c, D)
    <3>1. es \in [1 .. c -> D]
      BY <1>6, <1>7, <1>8, InRange
    <3>2. \A i, j \in 1 .. c : es[i] = es[j] => i = j
      BY <1>6, <1>7 DEF IsInjective
    <3>3. \A e \in D : \E i \in 1 .. c : es[i] = e
      BY <1>7, <1>8, InRange
    <3>4. QED
      <4> HIDE DEF D
      <4>1. IsInjective(es)
        BY <1>6
      <4>2. es \in Injection(1 .. c, D) /\ es \in Surjection(1 .. c, D)
        BY <3>1, <3>2, <3>3, <4>1 DEF Injection, Surjection
      <4>3. QED
        BY <4>2 DEF Bijection
  <2>2. IsFiniteSet(1 .. c) /\ Cardinality(1 .. c) = c
    <3>1. IsFiniteSet(1 .. c) /\ Cardinality(1 .. c) = IF 1 > c THEN 0 ELSE (c - 1) + 1
      BY <1>7, FS_Interval
    <3>2. QED
      BY <1>7, <3>1
  <2> HIDE DEF D
  <2>3. ExistsBijection(1 .. c, D)
    BY <2>1 DEF ExistsBijection
  <2>4. Cardinality(D) = Cardinality(1 .. c)
    BY <2>2, <2>3, FS_Bijection
  <2>5. QED
    BY <2>2, <2>4
<1>10. \A i \in 1 .. c : es[i] \in E /\ es[i].dst = n /\ es[i].in # Control /\ es[i].in \in 1 .. c
  <2> TAKE i \in 1 .. c
  <2>1. es[i] \in Range(es)
    BY <1>7, InRange
  <2>2. es[i] \in D
    BY <1>8, <2>1
  <2>3. QED
    BY <1>1, <1>9, <2>2 DEF E
<1>11. ASSUME NEW i \in 1 .. c, NEW j \in 1 .. c, i < j PROVE es[i].in < es[j].in
  <2>1. at[i] \in DOMAIN s /\ at[j] \in DOMAIN s /\ at[i] < at[j]
    BY <1>7, <1>11
  <2>2. ByInput(es[i], es[j])
    BY <1>4, <1>7, <2>1
  <2>3. es[i].in = es[j].in => es[i] = es[j]
    BY <1>2, <1>10
  <2>4. es[i] # es[j]
    <3>1. i # j
      BY <1>7, <1>11
    <3>2. QED
      BY <1>6, <1>7, <3>1 DEF IsInjective
  <2>5. es[i].in # es[j].in
    BY <2>3, <2>4
  <2>6. QED
    BY <2>2, <2>5 DEF ByInput
<1> DEFINE f == [i \in 1 .. c |-> es[i].in]
<1>12. f \in [1 .. c -> 1 .. c] /\ \A i, j \in 1 .. c : i < j => f[i] < f[j]
  BY <1>10, <1>11
<1> HIDE DEF f
<1>13. \A i \in 1 .. c : f[i] = i
  BY <1>7, <1>12, Consecutive
<1>14. \A i \in 1 .. c : es[i].in = i
  BY <1>13 DEF f
<1>15. QED
  BY <1>6, <1>7, <1>8, <1>10, <1>14 DEF es, s, E

(***************************************************************************)
(* The second invariant holds when the pass starts.                        *)
(***************************************************************************)
LEMMA BelowSelf ==
  ASSUME NEW h, IsGraph(h), NEW g, \A n \in DOMAIN h.kind : First(g, n) = n
  PROVE  \A e \in h.edges : Below(g, e) = e
<1> TAKE e \in h.edges
<1>1. e \in [src : DOMAIN h.kind, out : Nat, dst : DOMAIN h.kind, in : Nat]
  BY GivenEdges
<1>2. First(g, e.src) = e.src /\ First(g, e.dst) = e.dst
  BY <1>1
<1>3. Below(g, e) = [src |-> e.src, out |-> e.out, dst |-> e.dst, in |-> e.in]
  BY <1>2 DEF Below
<1>4. QED
  BY <1>1, <1>3

(* Add_node gives a node as many outputs as are read, and at least one.    *)
LEMMA GivenOutputs ==
  ASSUME NEW h, IsGraph(h), NEW n,
         NEW outs, outs = {e.out : e \in ReadersOf(h, n)} \cup {1}
  PROVE  /\ Max(outs) \in Nat /\ 1 \in 1 .. Max(outs)
         /\ \A e \in ReadersOf(h, n) : e.out \in 1 .. Max(outs)
<1> DEFINE R == ReadersOf(h, n)
<1>1. \A e \in R : e.out \in Nat /\ e.out # 0
  <2> TAKE e \in R
  <2>1. e \in h.edges /\ e.in # Control
    BY DEF ReadersOf
  <2>2. e.out \in Nat /\ e.out # Control
    BY <2>1, GivenEdges
  <2>3. QED
    BY <2>2 DEF Control
<1>2. IsFiniteSet(R)
  <2>1. R \subseteq h.edges /\ IsFiniteSet(h.edges)
    BY DEF ReadersOf, IsGraph
  <2>2. QED
    BY <2>1, FS_Subset
<1> HIDE DEF R
<1>3. IsFiniteSet({e.out : e \in R})
  <2> DEFINE f == [e \in R |-> e.out]
  <2>1. {f[e] : e \in R} = {e.out : e \in R} /\ DOMAIN f = R
    OBVIOUS
  <2> HIDE DEF f
  <2>2. IsFiniteSet({f[e] : e \in R})
    BY <1>2, <2>1, FiniteImage
  <2>3. QED
    BY <2>1, <2>2
<1>4. IsFiniteSet(outs)
  <2>1. outs = {e.out : e \in R} \cup {1}
    BY DEF R
  <2>2. QED
    BY <1>3, <2>1, FS_AddElement
<1>5. outs \subseteq Int /\ outs # {} /\ 1 \in outs /\ \A m \in outs : m \in Nat /\ m # 0
  BY <1>1 DEF R
<1>6. Max(outs) \in outs /\ \A m \in outs : m <= Max(outs)
  BY <1>4, <1>5, MaxIsGreatest
<1>7. \A e \in R : e.out \in outs
  BY DEF R
<1>8. QED
  BY <1>1, <1>5, <1>6, <1>7 DEF R

(* At first each node reads and yields what it does in the given graph.    *)
LEMMA GivenCovers ==
  ASSUME Init, IsGraph(given)
  PROVE  Covers(given, graph)
<1> DEFINE N == DOMAIN given.kind
           E == given.edges
           g == graph
           Es(n) == OnlyData(InEdges(E, n))
           outs(n) == {e.out : e \in ReadersOf(given, n)} \cup {1}
<1>1. /\ g.edges = E /\ NodesOf(g) = N
      /\ g.kernels = [n \in N |-> <<n>>]
      /\ g.ins = [n \in N |-> LET es == Es(n) IN [i \in DOMAIN es |-> <<es[i].src, es[i].out>>]]
      /\ g.outs = [n \in N |-> [i \in 1 .. Max(outs(n)) |-> <<n, i>>]]
  BY DEF Init, NodesOf
<1>2. \A n \in N : First(g, n) = n
  BY <1>1 DEF First
<1>3. \A e \in E : e.src \in N /\ e.dst \in N
  BY GivenEdges
<1>4. \A e \in E : Below(g, e) = e
  BY <1>2, BelowSelf
<1>5. ASSUME NEW n \in N
      PROVE  /\ DOMAIN g.ins[n] = DOMAIN Es(n)
             /\ \A i \in DOMAIN Es(n) : g.ins[n][i] = <<Es(n)[i].src, Es(n)[i].out>>
             /\ Es(n) \in Seq(E)
             /\ \A e : e \in Range(Es(n)) <=> e \in E /\ e.dst = n /\ e.in # Control
             /\ \A i \in DOMAIN Es(n) : Es(n)[i].in = i /\ i # Control
  <2>1. g.ins[n] = [i \in DOMAIN Es(n) |-> <<Es(n)[i].src, Es(n)[i].out>>]
    BY <1>1
  <2>2. /\ Es(n) \in Seq(E)
        /\ \A e : e \in Range(Es(n)) <=> e \in E /\ e.dst = n /\ e.in # Control
        /\ \A i \in DOMAIN Es(n) : Es(n)[i].in = i /\ i # Control
    BY InputsNumbered
  <2> HIDE DEF Es
  <2>3. QED
    BY <2>1, <2>2
<1>6. ASSUME NEW n \in N
      PROVE  /\ DOMAIN g.outs[n] = 1 .. Max(outs(n))
             /\ \A i \in DOMAIN g.outs[n] : g.outs[n][i] = <<n, i>>
             /\ 1 \in 1 .. Max(outs(n))
             /\ \A e \in ReadersOf(given, n) : e.out \in 1 .. Max(outs(n))
  <2>1. g.outs[n] = [i \in 1 .. Max(outs(n)) |-> <<n, i>>]
    BY <1>1
  <2>2. /\ 1 \in 1 .. Max(outs(n))
        /\ \A e \in ReadersOf(given, n) : e.out \in 1 .. Max(outs(n))
    BY GivenOutputs
  <2> HIDE DEF outs
  <2>3. QED
    BY <2>1, <2>2
<1> HIDE DEF Es, outs
<1>7. \A n \in N : \A i \in DOMAIN g.ins[n] : \E d \in E :
        d.dst = n /\ d.in = i /\ i # Control /\ g.ins[n][i] = <<d.src, d.out>>
  <2> TAKE n \in N
  <2> TAKE i \in DOMAIN g.ins[n]
  <2>1. i \in DOMAIN Es(n)
    BY <1>5
  <2>2. Es(n)[i] \in Range(Es(n))
    BY <2>1, InRange
  <2>3. Es(n)[i] \in E /\ Es(n)[i].dst = n
    BY <1>5, <2>2
  <2>4. QED
    BY <1>5, <2>1, <2>3
<1>8. \A n \in N : \A d \in E : d.dst = n /\ d.in # Control => d.in \in DOMAIN g.ins[n]
  <2> TAKE n \in N
  <2> TAKE d \in E
  <2> HAVE d.dst = n /\ d.in # Control
  <2>1. d \in Range(Es(n))
    BY <1>5
  <2>2. PICK i \in DOMAIN Es(n) : Es(n)[i] = d
    BY <2>1, InRange
  <2>3. QED
    BY <1>5, <2>2
<1>9. \A e \in E : e.in # Control => e.out \in DOMAIN g.outs[e.src]
  <2> TAKE e \in E
  <2> HAVE e.in # Control
  <2>1. e \in ReadersOf(given, e.src)
    BY DEF ReadersOf
  <2>2. QED
    BY <1>3, <1>6, <2>1
<1>10. \A n \in N : 1 \in DOMAIN g.outs[n] /\ \A i \in DOMAIN g.outs[n] : g.outs[n][i] = <<n, i>>
  BY <1>6
<1>13. g.edges = E /\ NodesOf(g) = N
  BY <1>1
<1> HIDE DEF N, E, g
<1>11. Covers(given, g)
  <2>1. given.edges = E
    BY DEF E
  <2>2. \A e \in g.edges : Below(g, e) \in given.edges
    BY <1>4, <1>13, <2>1
  <2>3. \A n \in NodesOf(g) : \A d \in given.edges :
          d.dst = First(g, n) => \E e \in g.edges : e.dst = n /\ Below(g, e) = d
    BY <1>2, <1>4, <1>13, <2>1
  <2>4. \A n \in NodesOf(g) : \A i \in DOMAIN g.ins[n] : \E d \in given.edges :
          d.dst = First(g, n) /\ d.in = i /\ i # Control /\ g.ins[n][i] = <<d.src, d.out>>
    BY <1>2, <1>7, <1>13, <2>1
  <2>5. \A n \in NodesOf(g) : \A d \in given.edges :
          d.dst = First(g, n) /\ d.in # Control => d.in \in DOMAIN g.ins[n]
    BY <1>2, <1>8, <1>13, <2>1
  <2>6. \A n \in NodesOf(g) : /\ 1 \in DOMAIN g.outs[n]
                              /\ \A i \in DOMAIN g.outs[n] : g.outs[n][i] = <<First(g, n), i>>
    BY <1>2, <1>10, <1>13
  <2>7. \A e \in g.edges : e.in # Control => e.out \in DOMAIN g.outs[e.src]
    BY <1>9, <1>13
  <2>8. QED
    BY <2>2, <2>3, <2>4, <2>5, <2>6, <2>7 DEF Covers
<1>12. QED
  BY <1>11 DEF g

(* Before the extraction nothing is visited, and the graph is the given    *)
(* one.                                                                    *)
LEMMA InitPInv ==
  ASSUME \A g \in Graphs : IsPlain(g)
  PROVE  Init => PInv
<1> SUFFICES ASSUME Init PROVE PInv
  OBVIOUS
<1>1. given \in Graphs /\ IsGraph(given) /\ IsPlain(given)
  BY AboutGiven DEF Init
<1>2. KInv
  BY InitKInv
<1>3. Covers(given, graph)
  BY <1>1, GivenCovers
<1>4. /\ tagged = Range(OrderedOps)
      /\ phase = "ready" /\ visited = {} /\ open = <<>> /\ group = <<>> /\ groups = <<>>
  BY DEF Init
<1>5. /\ IsGraphOf(given, graph) /\ Unfused(given, graph)
      /\ NodesOf(graph) = DOMAIN given.kind /\ graph.edges = given.edges
  BY <1>2, <1>4 DEF KInv, Extracting, Fusing
<1>6. NoCycle(graph)
  BY <1>1, <1>5, UnfusedNoCycle
<1>7. AllLive(given, tagged)
  <2> SUFFICES ASSUME NEW C, ResultsOf(given) \subseteq C,
                      \A e \in given.edges : e.dst \in C => e.src \in C
               PROVE  tagged \subseteq C
    BY DEF AllLive
  <2>1. /\ {n \in DOMAIN given.kind : given.kind[n] = "result"} \subseteq C
        /\ \A e \in graph.edges : e.dst \in C => e.src \in C
    BY <1>5 DEF ResultsOf
  <2>2. LET order == OpsInOrder(NodesOf(graph), graph.edges,
                       {n \in DOMAIN given.kind : given.kind[n] = "result"})
        IN  Range(order) \subseteq C
    BY <1>5, <1>6, <2>1, OpsOfGraph
  <2>3. Range(OrderedOps) \subseteq C
    BY <2>2 DEF OrderedOps, Results
  <2>4. QED
    BY <1>4, <2>3
<1>8. Gathered = <<<<>>>>
  BY <1>4 DEF Gathered
<1>9. DOMAIN <<<<>>>> = {1} /\ <<<<>>>>[1] = <<>> /\ DOMAIN (<<>>) = {} /\ Range(<<>>) = {}
  BY DEF Range
<1>10. GroupsAlike(given, graph, Gathered, 1)
  BY <1>8, <1>9 DEF GroupsAlike, InSequence, AllAlike
<1>11. VisitTimes(given.edges, visited, Gathered, open)
  <2> DEFINE f == [n \in {} |-> 0]
  <2>1. f \in [{} -> Int] /\ 0 \in Int
    OBVIOUS
  <2> HIDE DEF f
  <2>2. QED
    BY <1>4, <1>8, <1>9, <2>1 DEF VisitTimes
<1>12. DOMAIN graph = {"edges", "ins", "outs", "kernels", "last"}
  BY DEF Init
<1>13. QED
  BY <1>1, <1>3, <1>4, <1>7, <1>9, <1>10, <1>11, <1>12 DEF PInv, Extracting, Fusing

(***************************************************************************)
(* The graph g2 once the nodes M of the graph g have become one.           *)
(***************************************************************************)
At(M, id, n) == IF n \in M THEN id ELSE n

PlaceIn(s, x) == CHOOSE i \in DOMAIN s : s[i] = x

(* The edge that takes the place of e; `into` and `from` are the edges and *)
(* the nodes that the inputs and the outputs of the fused node stand for.  *)
Moved(M, id, into, from, e) ==
  [src |-> At(M, id, e.src),
   out |-> IF e.src \in M /\ e.in # Control THEN PlaceIn(from, e.src) ELSE e.out,
   dst |-> At(M, id, e.dst),
   in  |-> IF e.dst \in M /\ e.in # Control THEN PlaceIn(into, e) ELSE e.in]

Within(M, e) == e.src \in M /\ e.dst \in M

MembersAre(g, M, mo) ==
  /\ mo \in Seq(M) /\ IsInjective(mo) /\ Range(mo) = M
  /\ \A e \in g.edges : \A j \in DOMAIN mo :
       mo[j] = e.dst /\ e.src \in M => \E i \in 1 .. j - 1 : mo[i] = e.src

InputsAre(g, M, into) ==
  /\ into \in Seq(g.edges) /\ IsInjective(into)
  /\ Range(into) = {e \in g.edges : e.in # Control /\ e.dst \in M /\ e.src \notin M}

WritersAre(g, M, from) ==
  /\ from \in Seq(M) /\ IsInjective(from)
  /\ Range(from) = {n \in M : \E e \in ReadersOf(g, n) : e.dst \notin M}

EdgesMoved(g, M, into, from) ==
  {Moved(M, g.last + 1, into, from, e) : e \in {d \in g.edges : ~Within(M, d)}}

InsFused(g, into)   == [i \in DOMAIN into |-> g.ins[into[i].dst][into[i].in]]
OutsFused(g, from)  == [i \in DOMAIN from |-> g.outs[from[i]][1]]
KernelsFused(g, mo) == FlattenSeq([i \in DOMAIN mo |-> g.kernels[mo[i]]])

FusedInto(g, g2, M, mo, into, from) ==
  LET id == g.last + 1 IN
  /\ g2.last = id /\ NodesOf(g2) = (NodesOf(g) \ M) \cup {id}
  /\ DOMAIN g2.ins = NodesOf(g2) /\ DOMAIN g2.outs = NodesOf(g2)
  /\ g2.edges = EdgesMoved(g, M, into, from)
  /\ \A n \in NodesOf(g) \ M :
       g2.ins[n] = g.ins[n] /\ g2.outs[n] = g.outs[n] /\ g2.kernels[n] = g.kernels[n]
  /\ g2.ins[id] = InsFused(g, into) /\ g2.outs[id] = OutsFused(g, from)
  /\ g2.kernels[id] = KernelsFused(g, mo)

IsFused(g, g2, M, mo, into, from) ==
  /\ M \subseteq NodesOf(g) /\ MembersAre(g, M, mo) /\ InputsAre(g, M, into) /\ WritersAre(g, M, from)
  /\ FusedInto(g, g2, M, mo, into, from)

(* An element is at one place of a sequence without repetition.            *)
LEMMA PlaceOf ==
  ASSUME NEW s, IsInjective(s)
  PROVE  /\ \A i \in DOMAIN s : PlaceIn(s, s[i]) = i
         /\ \A x \in Range(s) : PlaceIn(s, x) \in DOMAIN s /\ s[PlaceIn(s, x)] = x
<1>1. \A x \in Range(s) : PlaceIn(s, x) \in DOMAIN s /\ s[PlaceIn(s, x)] = x
  <2> TAKE x \in Range(s)
  <2>1. \E i \in DOMAIN s : s[i] = x
    BY InRange
  <2>2. QED
    BY <2>1 DEF PlaceIn
<1>2. \A i \in DOMAIN s : PlaceIn(s, s[i]) = i
  <2> TAKE i \in DOMAIN s
  <2>1. s[i] \in Range(s)
    BY InRange
  <2>2. PlaceIn(s, s[i]) \in DOMAIN s /\ s[PlaceIn(s, s[i])] = s[i]
    BY <1>1, <2>1
  <2>3. QED
    BY <2>2 DEF IsInjective
<1>3. QED
  BY <1>1, <1>2

(* What an edge is when some of its ends are changed.                      *)
Reaching(e, x, y) == [e EXCEPT !.dst = x, !.in = y]
Leaving(e, x, y)  == [e EXCEPT !.src = x, !.out = y]
ReachingOnly(e, x) == [e EXCEPT !.dst = x]
LeavingOnly(e, x)  == [e EXCEPT !.src = x]

(* What the ends of an edge are that is led to or from another node.       *)
LEMMA EdgeChanged ==
  ASSUME NEW N, NEW e \in [src : N, out : Nat, dst : N, in : Nat], NEW x, NEW y
  PROVE  /\ e = [src |-> e.src, out |-> e.out, dst |-> e.dst, in |-> e.in]
         /\ Reaching(e, x, y) = [src |-> e.src, out |-> e.out, dst |-> x, in |-> y]
         /\ Leaving(e, x, y) = [src |-> x, out |-> y, dst |-> e.dst, in |-> e.in]
         /\ ReachingOnly(e, x) = [src |-> e.src, out |-> e.out, dst |-> x, in |-> e.in]
         /\ LeavingOnly(e, x) = [src |-> x, out |-> e.out, dst |-> e.dst, in |-> e.in]
<1>1. e = [src |-> e.src, out |-> e.out, dst |-> e.dst, in |-> e.in]
  OBVIOUS
<1>2. ReachingOnly(e, x) = [src |-> e.src, out |-> e.out, dst |-> x, in |-> e.in]
  BY DEF ReachingOnly
<1>3. LeavingOnly(e, x) = [src |-> x, out |-> e.out, dst |-> e.dst, in |-> e.in]
  BY DEF LeavingOnly
<1>4. Reaching(e, x, y) = [src |-> e.src, out |-> e.out, dst |-> x, in |-> y]
  <2> DEFINE r == ReachingOnly(e, x)
  <2>1. Reaching(e, x, y) = [r EXCEPT !.in = y]
    BY Zenon DEF Reaching, ReachingOnly
  <2>2. r = [src |-> e.src, out |-> e.out, dst |-> x, in |-> e.in]
    BY <1>2
  <2> HIDE DEF r
  <2>3. QED
    BY <2>1, <2>2
<1>5. Leaving(e, x, y) = [src |-> x, out |-> y, dst |-> e.dst, in |-> e.in]
  <2> DEFINE r == LeavingOnly(e, x)
  <2>1. Leaving(e, x, y) = [r EXCEPT !.out = y]
    BY Zenon DEF Leaving, LeavingOnly
  <2>2. r = [src |-> x, out |-> e.out, dst |-> e.dst, in |-> e.in]
    BY <1>3
  <2> HIDE DEF r
  <2>3. QED
    BY <2>1, <2>2
<1>6. QED
  BY <1>1, <1>2, <1>3, <1>4, <1>5

(* The edges that Fused lists. *)
EdgesFused(g, M, id, into, from) ==
  EdgesLeft(g.edges, M)
  \cup {[into[i] EXCEPT !.dst = id, !.in = i] : i \in DOMAIN into}
  \cup (UNION {{[e EXCEPT !.src = id, !.out = i] :
                  e \in {d \in ReadersOf(g, from[i]) : d.dst \notin M}} :
               i \in DOMAIN from})
  \cup ({[e EXCEPT !.dst = id] :
           e \in {d \in {c \in g.edges : c.in = Control} : d.dst \in M /\ d.src \notin M}}
        \cup
        {[e EXCEPT !.src = id] :
           e \in {d \in {c \in g.edges : c.in = Control} : d.src \in M /\ d.dst \notin M}})

(* The edges that Fused lists are those that take the places of others.    *)
LEMMA MovedEdges ==
  ASSUME NEW h, NEW g, IsGraphOf(h, g), NEW M, NEW into, NEW from,
         InputsAre(g, M, into), WritersAre(g, M, from)
  PROVE  EdgesFused(g, M, g.last + 1, into, from)
         = EdgesMoved(g, M, into, from)
<1> DEFINE E == g.edges
           id == g.last + 1
           m(e) == Moved(M, id, into, from, e)
           C == {c \in E : c.in = Control}
           X1(e, i) == Reaching(e, id, i)
           X2(e, i) == Leaving(e, id, i)
           X3(e) == ReachingOnly(e, id)
           X4(e) == LeavingOnly(e, id)
           A1 == EdgesLeft(E, M)
           A2 == {X1(into[i], i) : i \in DOMAIN into}
           A3 == UNION {{X2(e, i) : e \in {d \in ReadersOf(g, from[i]) : d.dst \notin M}} :
                        i \in DOMAIN from}
           A4 == {X3(e) : e \in {d \in C : d.dst \in M /\ d.src \notin M}}
           A5 == {X4(e) : e \in {d \in C : d.src \in M /\ d.dst \notin M}}
           B == {m(e) : e \in {d \in E : ~Within(M, d)}}
<1>1. ASSUME NEW e \in E
      PROVE  /\ e = [src |-> e.src, out |-> e.out, dst |-> e.dst, in |-> e.in]
             /\ \A i : X1(e, i) = [src |-> e.src, out |-> e.out, dst |-> id, in |-> i]
             /\ \A i : X2(e, i) = [src |-> id, out |-> i, dst |-> e.dst, in |-> e.in]
             /\ X3(e) = [src |-> e.src, out |-> e.out, dst |-> id, in |-> e.in]
             /\ X4(e) = [src |-> id, out |-> e.out, dst |-> e.dst, in |-> e.in]
  <2>1. e \in [src : NodesOf(g), out : Nat, dst : NodesOf(g), in : Nat]
    BY DEF IsGraphOf
  <2>2. /\ e = [src |-> e.src, out |-> e.out, dst |-> e.dst, in |-> e.in]
        /\ X3(e) = [src |-> e.src, out |-> e.out, dst |-> id, in |-> e.in]
        /\ X4(e) = [src |-> id, out |-> e.out, dst |-> e.dst, in |-> e.in]
    BY <2>1, EdgeChanged
  <2>3. ASSUME NEW i PROVE X1(e, i) = [src |-> e.src, out |-> e.out, dst |-> id, in |-> i]
    BY <2>1, EdgeChanged
  <2>4. ASSUME NEW i PROVE X2(e, i) = [src |-> id, out |-> i, dst |-> e.dst, in |-> e.in]
    BY <2>1, EdgeChanged
  <2> HIDE DEF X1, X2, X3, X4
  <2>5. QED
    BY <2>2, <2>3, <2>4
<1> HIDE DEF X1, X2, X3, X4
<1>0. /\ into \in Seq(g.edges) /\ IsInjective(into)
      /\ Range(into) = {e \in g.edges : e.in # Control /\ e.dst \in M /\ e.src \notin M}
      /\ IsInjective(from) /\ Range(from) = {n \in M : \E e \in ReadersOf(g, n) : e.dst \notin M}
  BY DEF InputsAre, WritersAre
<1> HIDE DEF id
<1>2. \A i \in DOMAIN into :
        into[i] \in E /\ into[i].in # Control /\ into[i].dst \in M /\ into[i].src \notin M
        /\ PlaceIn(into, into[i]) = i
  <2> TAKE i \in DOMAIN into
  <2>1. into[i] \in Range(into)
    BY InRange
  <2>2. QED
    BY <1>0, <2>1, PlaceOf
<1>3. \A i \in DOMAIN from : from[i] \in M /\ PlaceIn(from, from[i]) = i
  <2> TAKE i \in DOMAIN from
  <2>1. from[i] \in Range(from)
    BY InRange
  <2>2. QED
    BY <1>0, <2>1, PlaceOf
<1>4. \A e \in E : e.in # Control /\ e.dst \in M /\ e.src \notin M =>
        PlaceIn(into, e) \in DOMAIN into /\ into[PlaceIn(into, e)] = e
  BY <1>0, PlaceOf
<1>5. \A e \in E : e.in # Control /\ e.src \in M /\ e.dst \notin M =>
        PlaceIn(from, e.src) \in DOMAIN from /\ from[PlaceIn(from, e.src)] = e.src
  <2> TAKE e \in E
  <2> HAVE e.in # Control /\ e.src \in M /\ e.dst \notin M
  <2>1. e \in ReadersOf(g, e.src)
    BY DEF ReadersOf
  <2>2. e.src \in Range(from)
    BY <1>0, <2>1
  <2>3. QED
    BY <1>0, <2>2, PlaceOf
<1>6. \A e \in E :
        m(e) = [src |-> At(M, id, e.src),
                out |-> IF e.src \in M /\ e.in # Control THEN PlaceIn(from, e.src) ELSE e.out,
                dst |-> At(M, id, e.dst),
                in  |-> IF e.dst \in M /\ e.in # Control THEN PlaceIn(into, e) ELSE e.in]
  BY DEF Moved
<1>7. \A e \in E : ~Within(M, e) => m(e) \in B
  OBVIOUS
<1> HIDE DEF m, B
<1>8. ASSUME NEW x \in A1 PROVE x \in B
  <2>1. x \in E /\ x.src \notin M /\ x.dst \notin M
    BY DEF EdgesLeft
  <2>2. m(x) = x
    BY <1>1, <1>6, <2>1 DEF At
  <2>3. QED
    BY <1>7, <2>1, <2>2 DEF Within
<1>9. ASSUME NEW x \in A2 PROVE x \in B
  <2>1. PICK i \in DOMAIN into : x = X1(into[i], i)
    OBVIOUS
  <2>2. x = [src |-> into[i].src, out |-> into[i].out, dst |-> id, in |-> i]
    BY <1>1, <1>2, <2>1
  <2>3. m(into[i]) = x
    BY <1>2, <1>6, <2>2 DEF At
  <2>4. QED
    BY <1>2, <1>7, <2>3 DEF Within
<1>10. ASSUME NEW x \in A3 PROVE x \in B
  <2>1. PICK i \in DOMAIN from :
          \E e \in ReadersOf(g, from[i]) : e.dst \notin M /\ x = X2(e, i)
    OBVIOUS
  <2>2. PICK e \in ReadersOf(g, from[i]) : e.dst \notin M /\ x = X2(e, i)
    BY <2>1
  <2>3. e \in E /\ e.src = from[i] /\ e.in # Control
    BY DEF ReadersOf
  <2>4. x = [src |-> id, out |-> i, dst |-> e.dst, in |-> e.in]
    BY <1>1, <2>2, <2>3
  <2>5. m(e) = x
    BY <1>3, <1>6, <2>2, <2>3, <2>4 DEF At
  <2>6. QED
    BY <1>7, <2>2, <2>3, <2>5 DEF Within
<1>11. ASSUME NEW x \in A4 PROVE x \in B
  <2>1. PICK e \in E : e.in = Control /\ e.dst \in M /\ e.src \notin M /\ x = X3(e)
    OBVIOUS
  <2>2. x = [src |-> e.src, out |-> e.out, dst |-> id, in |-> e.in]
    BY <1>1, <2>1
  <2>3. m(e) = x
    BY <1>6, <2>1, <2>2 DEF At
  <2>4. QED
    BY <1>7, <2>1, <2>3 DEF Within
<1>12. ASSUME NEW x \in A5 PROVE x \in B
  <2>1. PICK e \in E : e.in = Control /\ e.src \in M /\ e.dst \notin M /\ x = X4(e)
    OBVIOUS
  <2>2. x = [src |-> id, out |-> e.out, dst |-> e.dst, in |-> e.in]
    BY <1>1, <2>1
  <2>3. m(e) = x
    BY <1>6, <2>1, <2>2 DEF At
  <2>4. QED
    BY <1>7, <2>1, <2>3 DEF Within
<1>13. ASSUME NEW e \in E, ~Within(M, e)
       PROVE  m(e) \in A1 \/ m(e) \in A2 \/ m(e) \in A3 \/ m(e) \in A4 \/ m(e) \in A5
  <2>1. CASE e.src \notin M /\ e.dst \notin M
    <3>1. m(e) = e
      BY <1>1, <1>6, <2>1 DEF At
    <3>2. QED
      BY <2>1, <3>1 DEF EdgesLeft
  <2>2. CASE e.src \notin M /\ e.dst \in M /\ e.in # Control
    <3> DEFINE i == PlaceIn(into, e)
    <3>1. i \in DOMAIN into /\ into[i] = e
      BY <1>4, <2>2
    <3>2. m(e) = [src |-> e.src, out |-> e.out, dst |-> id, in |-> i]
      BY <1>6, <2>2 DEF At
    <3> HIDE DEF i
    <3>3. m(e) = X1(into[i], i)
      BY <1>1, <3>1, <3>2
    <3>4. QED
      BY <3>1, <3>3
  <2>3. CASE e.src \in M /\ e.dst \notin M /\ e.in # Control
    <3> DEFINE i == PlaceIn(from, e.src)
    <3>1. i \in DOMAIN from /\ from[i] = e.src
      BY <1>5, <2>3
    <3>2. m(e) = [src |-> id, out |-> i, dst |-> e.dst, in |-> e.in]
      BY <1>6, <2>3 DEF At
    <3> HIDE DEF i
    <3>3. m(e) = X2(e, i)
      BY <1>1, <3>2
    <3>4. e \in {d \in ReadersOf(g, from[i]) : d.dst \notin M}
      BY <2>3, <3>1 DEF ReadersOf
    <3>5. QED
      BY <3>1, <3>3, <3>4
  <2>4. CASE e.src \notin M /\ e.dst \in M /\ e.in = Control
    <3>1. m(e) = X3(e)
      BY <1>1, <1>6, <2>4 DEF At
    <3>2. QED
      BY <2>4, <3>1
  <2>5. CASE e.src \in M /\ e.dst \notin M /\ e.in = Control
    <3>1. m(e) = X4(e)
      BY <1>1, <1>6, <2>5 DEF At
    <3>2. QED
      BY <2>5, <3>1
  <2>6. QED
    BY <1>13, <2>1, <2>2, <2>3, <2>4, <2>5 DEF Within
<1>14. \A x \in B : \E e \in E : ~Within(M, e) /\ x = m(e)
  BY DEF B, m
<1> HIDE DEF A1, A2, A3, A4, A5, E, C
<1>15. A1 \cup A2 \cup A3 \cup (A4 \cup A5) = B
  BY <1>8, <1>9, <1>10, <1>11, <1>12, <1>13, <1>14
<1>16. QED
  BY <1>15, Zenon
     DEF EdgesFused, EdgesMoved, id, A1, A2, A3, A4, A5, B, C, E, m, X1, X2, X3, X4, Reaching, Leaving, ReachingOnly, LeavingOnly

(* The nodes of the order are all that the results depend on.              *)
LEMMA OrderIsClosed ==
  ASSUME IsGraphOf(given, graph), NoCycle(graph)
  PROVE  /\ OrderedOps \in Seq(NodesOf(graph)) /\ IsInjective(OrderedOps)
         /\ EdgesForward(OrderedOps, graph.edges)
         /\ Range(OrderedOps) \in Closed(given, graph)
<1> DEFINE out == {n \in DOMAIN given.kind : given.kind[n] = "result"}
           N == NodesOf(graph)
           E == graph.edges
<1>1. out \subseteq N /\ \A e \in E : e.dst \in N => e.src \in N
  BY DEF IsGraphOf
<1>2. OrderedOps = OpsInOrder(N, E, out)
  BY DEF OrderedOps, Results
<1>3. /\ OpsInOrder(N, E, out) \in Seq(N) /\ IsInjective(OpsInOrder(N, E, out))
      /\ out \subseteq Range(OpsInOrder(N, E, out)) /\ EdgesForward(OpsInOrder(N, E, out), E)
  BY <1>1, OpsOfGraph
<1> DEFINE o == OrderedOps
<1>4. /\ o \in Seq(N) /\ IsInjective(o) /\ out \subseteq Range(o) /\ EdgesForward(o, E)
  BY <1>2, <1>3
<1> HIDE DEF o
<1>5. Range(o) \in SUBSET N
  BY <1>4 DEF Range
<1>6. ASSUME NEW e \in E, e.dst \in Range(o) PROVE e.src \in Range(o)
  <2>1. PICK j \in DOMAIN o : o[j] = e.dst
    BY <1>6, InRange
  <2>2. PICK i \in 1 .. j - 1 : o[i] = e.src
    BY <1>4, <2>1 DEF EdgesForward
  <2>3. DOMAIN o = 1 .. Len(o) /\ Len(o) \in Nat
    BY <1>4
  <2>4. i \in DOMAIN o
    BY <2>1, <2>2, <2>3
  <2>5. QED
    BY <2>2, <2>4, InRange
<1>7. Range(o) \in Closed(given, graph)
  BY <1>4, <1>5, <1>6 DEF Closed, ResultsOf
<1>8. QED
  BY <1>4, <1>7 DEF o

(* What the parts of Fused are.                                            *)
LEMMA FusedRecord ==
  ASSUME NEW h, IsGraphOf(h, graph), NEW M,
         InputsAre(graph, M, Inputs(M)), WritersAre(graph, M, Writers(M))
  PROVE  FusedInto(graph, Fused(M), M, MembersInOrder(M), Inputs(M), Writers(M))
<1> DEFINE E == graph.edges
           g2 == Fused(M)
           mo == MembersInOrder(M)
           into == Inputs(M)
           from == Writers(M)
           id == graph.last + 1
           left == NodesOf(graph) \ M
<1>10. id \notin left
  <2>1. NodesOf(graph) \subseteq 1 .. graph.last /\ graph.last \in Nat
    BY DEF IsGraphOf
  <2>2. QED
    BY <2>1
<1> DEFINE ins1 == [n \in left |-> graph.ins[n]]
           outs1 == [n \in left |-> graph.outs[n]]
           kernels1 == [n \in left |-> graph.kernels[n]]
           ins2 == InsFused(graph, into)
           outs2 == OutsFused(graph, from)
           kernels2 == KernelsFused(graph, mo)
           edges2 == EdgesLeft(E, M)
                     \cup {[into[i] EXCEPT !.dst = id, !.in = i] : i \in DOMAIN into}
                     \cup (UNION {{[e EXCEPT !.src = id, !.out = i] :
                                     e \in {d \in ReadersOf(graph, from[i]) : d.dst \notin M}} :
                                  i \in DOMAIN from})
                     \cup ControlEdges(M, id)
<1>11. g2 = [edges |-> edges2, ins |-> With(ins1, id, ins2), outs |-> With(outs1, id, outs2),
             kernels |-> With(kernels1, id, kernels2), last |-> id]
  BY Zenon DEF Fused, InsFused, OutsFused, KernelsFused
<1>12. edges2 = EdgesMoved(graph, M, into, from)
  <2>1. ControlEdges(M, id) =
          {[e EXCEPT !.dst = id] :
             e \in {d \in {c \in E : c.in = Control} : d.dst \in M /\ d.src \notin M}}
          \cup
          {[e EXCEPT !.src = id] :
             e \in {d \in {c \in E : c.in = Control} : d.src \in M /\ d.dst \notin M}}
    BY Zenon DEF ControlEdges
  <2>2. EdgesFused(graph, M, id, into, from) = EdgesMoved(graph, M, into, from)
    BY MovedEdges
  <2> HIDE DEF into, from, id
  <2>3. edges2 = EdgesFused(graph, M, id, into, from)
    BY <2>1, Zenon DEF EdgesFused
  <2> HIDE DEF edges2
  <2>4. QED
    BY <2>2, <2>3
<1> HIDE DEF edges2, into, from, ins2, outs2, kernels2
<1>13. IsWith(With(ins1, id, ins2), ins1, left, id, ins2)
  <2>1. DOMAIN ins1 = left
    OBVIOUS
  <2> HIDE DEF ins1, left, id
  <2>2. QED
    BY <1>10, <2>1, WithIs
<1>14. IsWith(With(outs1, id, outs2), outs1, left, id, outs2)
  <2>1. DOMAIN outs1 = left
    OBVIOUS
  <2> HIDE DEF outs1, left, id
  <2>2. QED
    BY <1>10, <2>1, WithIs
<1>15. IsWith(With(kernels1, id, kernels2), kernels1, left, id, kernels2)
  <2>1. DOMAIN kernels1 = left
    OBVIOUS
  <2> HIDE DEF kernels1, left, id
  <2>2. QED
    BY <1>10, <2>1, WithIs
<1>16. /\ \A n \in left : ins1[n] = graph.ins[n] /\ outs1[n] = graph.outs[n] /\ kernels1[n] = graph.kernels[n]
  OBVIOUS
<1> HIDE DEF ins1, outs1, kernels1, id, left
<1>17. /\ g2.last = id /\ g2.edges = edges2
       /\ g2.ins = With(ins1, id, ins2) /\ g2.outs = With(outs1, id, outs2)
       /\ g2.kernels = With(kernels1, id, kernels2)
  BY <1>11
<1> HIDE DEF g2
<1>18. /\ DOMAIN g2.ins = {id} \cup left /\ g2.ins[id] = ins2 /\ \A n \in left : g2.ins[n] = graph.ins[n]
       /\ DOMAIN g2.outs = {id} \cup left /\ g2.outs[id] = outs2 /\ \A n \in left : g2.outs[n] = graph.outs[n]
       /\ DOMAIN g2.kernels = {id} \cup left /\ g2.kernels[id] = kernels2
       /\ \A n \in left : g2.kernels[n] = graph.kernels[n]
  BY <1>13, <1>14, <1>15, <1>16, <1>17 DEF IsWith
<1>19. NodesOf(g2) = left \cup {id}
  BY <1>18 DEF NodesOf
<1>20. FusedInto(graph, g2, M, mo, into, from)
  <2>1. id = graph.last + 1 /\ left = NodesOf(graph) \ M
    BY DEF id, left
  <2>2. DOMAIN g2.ins = NodesOf(g2) /\ DOMAIN g2.outs = NodesOf(g2)
    BY <1>18, <1>19
  <2>3. g2.edges = EdgesMoved(graph, M, into, from)
    BY <1>12, <1>17
  <2>4. /\ g2.ins[id] = InsFused(graph, into) /\ g2.outs[id] = OutsFused(graph, from)
        /\ g2.kernels[id] = KernelsFused(graph, mo)
    BY <1>18 DEF ins2, outs2, kernels2
  <2> HIDE DEF mo
  <2>5. QED
    BY <1>17, <1>18, <1>19, <2>1, <2>2, <2>3, <2>4 DEF FusedInto
<1>21. QED
  BY <1>20 DEF g2, mo, into, from

(* FusedGNode stands for the nodes, as their edges, inputs and outputs say. *)
LEMMA FusedIs ==
  ASSUME IsGraphOf(given, graph), NoCycle(graph), NEW M, M \subseteq Range(OrderedOps)
  PROVE  IsFused(graph, Fused(M), M, MembersInOrder(M), Inputs(M), Writers(M))
<1> DEFINE g == graph
           g2 == Fused(M)
           N == NodesOf(graph)
           E == graph.edges
           ops == OrderedOps
           mo == MembersInOrder(M)
           into == Inputs(M)
           from == Writers(M)
           id == graph.last + 1
           left == N \ M
<1>1. /\ ops \in Seq(N) /\ IsInjective(ops) /\ EdgesForward(ops, E) /\ M \subseteq Range(ops)
  BY OrderIsClosed
<1>2. mo = Among(ops, M)
  BY DEF MembersInOrder
<1> HIDE DEF ops, mo
<1>3. /\ mo \in Seq(N) /\ Range(mo) = M /\ IsInjective(mo)
      /\ \A a, b \in DOMAIN mo : a < b => \E i, j \in DOMAIN ops : i < j /\ mo[a] = ops[i] /\ mo[b] = ops[j]
  <2>1. /\ Among(ops, M) \in Seq(N) /\ Range(Among(ops, M)) = Range(ops) \cap M
        /\ IsInjective(Among(ops, M))
        /\ \A a, b \in DOMAIN Among(ops, M) : a < b =>
             \E i, j \in DOMAIN ops : i < j /\ Among(ops, M)[a] = ops[i] /\ Among(ops, M)[b] = ops[j]
    BY <1>1, AmongIs
  <2>2. Range(ops) \cap M = M
    BY <1>1
  <2>3. Range(Among(ops, M)) = M
    BY <2>1, <2>2
  <2>4. QED
    BY <1>2, <2>1, <2>3
<1>4. mo \in Seq(M) /\ DOMAIN mo = 1 .. Len(mo) /\ Len(mo) \in Nat
  <2>1. \A i \in DOMAIN mo : mo[i] \in M
    BY <1>3, InRange
  <2>2. DOMAIN mo = 1 .. Len(mo) /\ Len(mo) \in Nat /\ mo = [i \in 1 .. Len(mo) |-> mo[i]]
    BY <1>3
  <2>3. QED
    BY <2>1, <2>2
<1>5. M \subseteq N
  BY <1>1 DEF Range
<1>6. ASSUME NEW e \in E, NEW j \in DOMAIN mo, mo[j] = e.dst, e.src \in M
      PROVE  \E i \in 1 .. j - 1 : mo[i] = e.src
  <2>1. PICK i \in DOMAIN mo : mo[i] = e.src
    BY <1>3, <1>6, InRange
  <2>2. PICK y \in DOMAIN ops : ops[y] = e.dst
    BY <1>1, <1>3, <1>6, InRange
  <2>3. PICK x \in 1 .. y - 1 : ops[x] = e.src
    BY <1>1, <2>2 DEF EdgesForward
  <2>4. DOMAIN ops = 1 .. Len(ops) /\ Len(ops) \in Nat
    BY <1>1
  <2>5. x \in DOMAIN ops /\ x < y /\ y \in Int /\ x \in Int
    BY <2>2, <2>3, <2>4
  <2>6. CASE j < i
    <3>1. PICK a \in DOMAIN ops, b \in DOMAIN ops : a < b /\ mo[j] = ops[a] /\ mo[i] = ops[b]
      BY <1>3, <2>6
    <3>2. a = y /\ b = x
      BY <1>1, <1>6, <2>1, <2>2, <2>3, <2>5, <3>1 DEF IsInjective
    <3>3. QED
      BY <2>5, <3>1, <3>2
  <2>7. CASE j = i
    <3>1. x = y
      BY <1>1, <1>6, <2>1, <2>2, <2>3, <2>5, <2>7 DEF IsInjective
    <3>2. QED
      BY <2>5, <3>1
  <2>8. i \in 1 .. j - 1 \/ j < i \/ j = i
    BY <1>4, <2>1
  <2>9. QED
    BY <2>1, <2>6, <2>7, <2>8
<1> DEFINE data == DataInto(mo)
<1>7. /\ data \in Seq(E) /\ IsInjective(data)
      /\ \A e : e \in Range(data) <=> e \in E /\ e.dst \in Range(mo) /\ e.in # Control
  BY <1>3, DataListed
<1>8. /\ into \in Seq(E) /\ IsInjective(into)
      /\ Range(into) = {e \in E : e.in # Control /\ e.dst \in M /\ e.src \notin M}
  <2> DEFINE places == {i \in DOMAIN data : data[i].src \notin M}
  <2>1. into = Picked(data, places)
    BY DEF Inputs, mo
  <2>2. places \subseteq DOMAIN data /\ \A i \in DOMAIN data : i \in places <=> data[i].src \notin M
    OBVIOUS
  <2> HIDE DEF places, data, into
  <2>3. /\ Picked(data, places) \in Seq(E) /\ IsInjective(Picked(data, places))
        /\ \A i \in places : \E j \in DOMAIN Picked(data, places) : Picked(data, places)[j] = data[i]
        /\ \A j \in DOMAIN Picked(data, places) : \E i \in places : Picked(data, places)[j] = data[i]
    <3>1. Picked(data, places) \in Seq(E)
      BY <1>7, <2>2, PickedAt
    <3>2. QED
      BY <1>7, <2>2, <3>1, PickedRange
  <2>4. /\ into \in Seq(E) /\ IsInjective(into)
        /\ \A i \in places : \E j \in DOMAIN into : into[j] = data[i]
        /\ \A j \in DOMAIN into : \E i \in places : into[j] = data[i]
    BY <2>1, <2>3
  <2>5. ASSUME NEW e \in Range(into) PROVE e \in E /\ e.in # Control /\ e.dst \in M /\ e.src \notin M
    <3>1. PICK j \in DOMAIN into : into[j] = e
      BY InRange
    <3>2. PICK i \in places : e = data[i]
      BY <2>4, <3>1
    <3>3. e \in Range(data) /\ e.src \notin M
      BY <2>2, <3>2, InRange
    <3>4. QED
      BY <1>3, <1>7, <3>3
  <2>6. ASSUME NEW e \in E, e.in # Control, e.dst \in M, e.src \notin M PROVE e \in Range(into)
    <3>1. e \in Range(data)
      BY <1>3, <1>7, <2>6
    <3>2. PICK i \in DOMAIN data : data[i] = e
      BY <3>1, InRange
    <3>3. i \in places
      BY <2>2, <2>6, <3>2
    <3>4. \E j \in DOMAIN into : into[j] = e
      BY <2>4, <3>2, <3>3
    <3>5. QED
      BY <3>4, InRange
  <2>7. QED
    BY <2>4, <2>5, <2>6
<1>9. /\ from \in Seq(M) /\ IsInjective(from)
      /\ Range(from) = {n \in M : \E e \in ReadersOf(g, n) : e.dst \notin M}
  <2> DEFINE W == {n \in M : \E e \in ReadersOf(graph, n) : e.dst \notin M}
  <2>1. from = Among(mo, W)
    BY DEF Writers, mo
  <2>2. W \subseteq M
    OBVIOUS
  <2> HIDE DEF W, from
  <2>3. Among(mo, W) \in Seq(M) /\ Range(Among(mo, W)) = Range(mo) \cap W /\ IsInjective(Among(mo, W))
    BY <1>3, <1>4, AmongIs
  <2>4. QED
    BY <1>3, <2>1, <2>2, <2>3 DEF W
<1>10. MembersAre(graph, M, mo)
  BY <1>3, <1>4, <1>6 DEF MembersAre
<1>11. InputsAre(graph, M, into)
  BY <1>8 DEF InputsAre
<1>12. WritersAre(graph, M, from)
  BY <1>9 DEF WritersAre
<1>13. FusedInto(graph, Fused(M), M, mo, into, from)
  BY <1>11, <1>12, FusedRecord DEF mo
<1> HIDE DEF into, from
<1>14. IsFused(graph, Fused(M), M, mo, into, from)
  BY <1>5, <1>10, <1>11, <1>12, <1>13 DEF IsFused
<1>15. QED
  BY <1>14 DEF mo, into, from

(***************************************************************************)
(* Times of nodes.                                                         *)
(***************************************************************************)
LEMMA Scaled ==
  ASSUME NEW a \in Int, NEW b \in Int, NEW l \in Nat, NEW p \in 0 .. l, NEW q \in 0 .. l, a < b
  PROVE  a * (l + 1) + p < b * (l + 1) + q
<1> DEFINE c == b - (a + 1)
           m == l + 1
<1>1. c \in Nat /\ m \in Nat /\ b = (a + 1) + c
  OBVIOUS
<1>2. p \in Int /\ q \in Int /\ p < m /\ 0 <= q
  OBVIOUS
<1> HIDE DEF c, m
<1>3. c * m \in Nat
  BY <1>1
<1>4. b * m = a * m + m + c * m
  BY <1>1
<1>5. a * m \in Int
  BY <1>1
<1> DEFINE am == a * m
           cm == c * m
<1>6. am + p < ((am + m) + cm) + q
  <2> HIDE DEF am, cm
  <2>1. am \in Int /\ cm \in Nat /\ m \in Nat
    BY <1>1, <1>3, <1>5 DEF am, cm
  <2>2. QED
    BY <1>2, <2>1
<1>7. QED
  BY <1>4, <1>6 DEF m

(* Groups may be made smaller if an edge that was within one then leads    *)
(* from a node to one with a higher place.                                 *)
LEMMA Retimed ==
  ASSUME NEW N, NEW E, \A e \in E : e.src \in N /\ e.dst \in N,
         NEW f, NEW T, IsTimed(f, N, E, T),
         NEW l \in Nat, NEW place \in [N -> 0 .. l],
         NEW T2, \A k \in DOMAIN T2 : /\ \E j \in DOMAIN T : T2[k] \subseteq T[j]
                                      /\ \A x \in T2[k] : place[x] = 0,
         \A e \in E : \A k \in DOMAIN T : {e.src, e.dst} \subseteq T[k] =>
           \/ \E j \in DOMAIN T2 : {e.src, e.dst} \subseteq T2[j]
           \/ place[e.src] < place[e.dst]
  PROVE  \E f2 : IsTimed(f2, N, E, T2)
<1> DEFINE f2 == [n \in N |-> f[n] * (l + 1) + place[n]]
<1>1. /\ f \in [N -> Int]
      /\ \A k \in DOMAIN T : T[k] \subseteq N /\ \A x, y \in T[k] : f[x] = f[y]
      /\ \A e \in E : f[e.src] < f[e.dst] \/ \E k \in DOMAIN T : {e.src, e.dst} \subseteq T[k]
  BY DEF IsTimed
<1>2. \A n \in N : f[n] \in Int /\ place[n] \in 0 .. l /\ f2[n] = f[n] * (l + 1) + place[n]
  BY <1>1
<1>3. f2 \in [N -> Int]
  <2>1. ASSUME NEW n \in N PROVE f[n] * (l + 1) + place[n] \in Int
    BY <1>2
  <2>2. QED
    BY <2>1
<1> HIDE DEF f2
<1>4. ASSUME NEW k \in DOMAIN T2
      PROVE  T2[k] \subseteq N /\ \A x, y \in T2[k] : f2[x] = f2[y]
  <2>1. PICK j \in DOMAIN T : T2[k] \subseteq T[j]
    OBVIOUS
  <2>2. T2[k] \subseteq N
    BY <1>1, <2>1
  <2>3. ASSUME NEW x \in T2[k], NEW y \in T2[k] PROVE f2[x] = f2[y]
    <3>1. f[x] = f[y] /\ place[x] = 0 /\ place[y] = 0 /\ x \in N /\ y \in N
      BY <1>1, <2>1, <2>2
    <3>2. QED
      BY <1>2, <3>1
  <2>4. QED
    BY <2>2, <2>3
<1>5. ASSUME NEW e \in E
      PROVE  f2[e.src] < f2[e.dst] \/ \E j \in DOMAIN T2 : {e.src, e.dst} \subseteq T2[j]
  <2> DEFINE a == f[e.src]
             b == f[e.dst]
             p == place[e.src]
             q == place[e.dst]
  <2>0. e.src \in N /\ e.dst \in N
    OBVIOUS
  <2>1. a \in Int /\ b \in Int /\ p \in 0 .. l /\ q \in 0 .. l
    BY <1>2, <2>0
  <2>2. f2[e.src] = a * (l + 1) + p /\ f2[e.dst] = b * (l + 1) + q
    BY <1>2, <2>0
  <2>3. CASE a < b
    <3> HIDE DEF a, b, p, q
    <3>1. a * (l + 1) + p < b * (l + 1) + q
      BY <2>1, <2>3, Scaled
    <3>2. QED
      BY <2>2, <3>1
  <2>4. CASE \E k \in DOMAIN T : {e.src, e.dst} \subseteq T[k]
    <3>1. PICK k \in DOMAIN T : {e.src, e.dst} \subseteq T[k]
      BY <2>4
    <3>2. a = b
      BY <1>1, <3>1
    <3>3. (\E j \in DOMAIN T2 : {e.src, e.dst} \subseteq T2[j]) \/ p < q
      BY <3>1
    <3>4. CASE p < q
      <4> HIDE DEF a, b, p, q
      <4>1. a * (l + 1) \in Int /\ p \in Int /\ q \in Int
        BY <2>1
      <4>2. a * (l + 1) + p < a * (l + 1) + q
        <5> DEFINE am == a * (l + 1)
        <5> HIDE DEF am
        <5>1. am \in Int
          BY <4>1 DEF am
        <5>2. am + p < am + q
          BY <3>4, <4>1, <5>1
        <5>3. QED
          BY <5>2 DEF am
      <4>3. QED
        BY <2>2, <3>2, <4>2
    <3>5. QED
      BY <3>3, <3>4
  <2>5. QED
    BY <1>1, <2>3, <2>4
<1>6. IsTimed(f2, N, E, T2)
  BY <1>3, <1>4, <1>5 DEF IsTimed
<1>7. QED
  BY <1>6

(* With times nothing goes round, as edges go forward within the groups.   *)
LEMMA TimedNoCycle ==
  ASSUME NEW h, NEW g, IsGraphOf(h, g), NEW U, NEW gs \in Seq(Seq(U)), Disjoint(gs),
         NEW i \in Nat \ {0}, Timed(g, SetsFrom(gs, i)),
         \A k \in DOMAIN gs : k >= i => InSequence(g.edges, gs[k])
  PROVE  NoCycle(g)
<1> DEFINE N == NodesOf(g)
           E == g.edges
           I == i .. Len(gs)
           T == SetsFrom(gs, i)
<1>1. Len(gs) \in Nat /\ DOMAIN gs = 1 .. Len(gs)
  OBVIOUS
<1>2. \A k \in I : k \in DOMAIN gs /\ k >= i
  BY <1>1
<1>3. DOMAIN T = I /\ \A k \in I : T[k] = Range(gs[k])
  BY DEF SetsFrom
<1>4. PICK f : IsTimed(f, N, E, T)
  BY DEF Timed
<1> HIDE DEF N, E, I, T
<1>5. /\ f \in [N -> Int]
      /\ \A k \in I : \A x, y \in Range(gs[k]) : f[x] = f[y]
      /\ \A e \in E : f[e.src] < f[e.dst] \/ \E k \in I : {e.src, e.dst} \subseteq Range(gs[k])
  BY <1>3, <1>4 DEF IsTimed
<1>6. \A e \in E : e.src \in N /\ e.dst \in N
  BY DEF IsGraphOf, E, N
<1>7. /\ \A k \in I : IsInjective(gs[k]) /\ InSequence(E, gs[k])
      /\ \A j, k \in I : j # k => Range(gs[j]) \cap Range(gs[k]) = {}
  BY <1>2 DEF Disjoint, E
<1> DEFINE Before(x, y) == \E k \in I : \E a, b \in DOMAIN gs[k] : a < b /\ gs[k][a] = x /\ gs[k][b] = y
           R == {p \in N \X N : f[p[1]] < f[p[2]] \/ Before(p[1], p[2])}
<1>8. \A k \in I : \A a \in DOMAIN gs[k] : a \in Int
  <2> TAKE k \in I
  <2>1. gs[k] \in Seq(U)
    BY <1>2
  <2>2. QED
    BY <2>1
<1>9. ASSUME NEW x, NEW y, Before(x, y)
      PROVE  x # y /\ f[x] = f[y]
  <2>1. PICK k \in I : \E a, b \in DOMAIN gs[k] : a < b /\ gs[k][a] = x /\ gs[k][b] = y
    BY <1>9
  <2>2. PICK a \in DOMAIN gs[k], b \in DOMAIN gs[k] : a < b /\ gs[k][a] = x /\ gs[k][b] = y
    BY <2>1
  <2>3. x \in Range(gs[k]) /\ y \in Range(gs[k])
    BY <2>2, InRange
  <2>4. a # b
    BY <1>8, <2>2
  <2>5. QED
    BY <1>5, <1>7, <2>2, <2>3, <2>4 DEF IsInjective
<1>10. ASSUME NEW x, NEW y, NEW z, Before(x, y), Before(y, z)
       PROVE  Before(x, z)
  <2>1. PICK k \in I : \E a, b \in DOMAIN gs[k] : a < b /\ gs[k][a] = x /\ gs[k][b] = y
    BY <1>10
  <2>2. PICK a \in DOMAIN gs[k], b \in DOMAIN gs[k] : a < b /\ gs[k][a] = x /\ gs[k][b] = y
    BY <2>1
  <2>3. PICK j \in I : \E c, d \in DOMAIN gs[j] : c < d /\ gs[j][c] = y /\ gs[j][d] = z
    BY <1>10
  <2>4. PICK c \in DOMAIN gs[j], d \in DOMAIN gs[j] : c < d /\ gs[j][c] = y /\ gs[j][d] = z
    BY <2>3
  <2>5. y \in Range(gs[k]) /\ y \in Range(gs[j])
    BY <2>2, <2>4, InRange
  <2>6. j = k
    BY <1>7, <2>5
  <2>7. b = c
    BY <1>7, <2>2, <2>4, <2>6 DEF IsInjective
  <2>8. a < d
    BY <1>8, <2>2, <2>4, <2>6, <2>7
  <2>9. QED
    BY <2>2, <2>4, <2>6, <2>8
<1>11. \A e \in E : f[e.src] < f[e.dst] \/ Before(e.src, e.dst)
  <2> TAKE e \in E
  <2>1. CASE \E k \in I : {e.src, e.dst} \subseteq Range(gs[k])
    <3>1. PICK k \in I : e.src \in Range(gs[k]) /\ e.dst \in Range(gs[k])
      BY <2>1
    <3>2. PICK a \in DOMAIN gs[k] : gs[k][a] = e.src
      BY <3>1, InRange
    <3>3. PICK b \in DOMAIN gs[k] : gs[k][b] = e.dst
      BY <3>1, InRange
    <3>4. a < b
      BY <1>7, <3>2, <3>3 DEF InSequence
    <3>5. QED
      BY <3>2, <3>3, <3>4
  <2>2. QED
    BY <1>5, <2>1
<1> HIDE DEF Before
<1>12. \A x, y : <<x, y>> \in R <=> x \in N /\ y \in N /\ (f[x] < f[y] \/ Before(x, y))
  OBVIOUS
<1>13. \A x \in N : f[x] \in Int
  BY <1>5
<1>14. R \in SUBSET (N \X N)
  OBVIOUS
<1> HIDE DEF R
<1>15. \A e \in E : <<e.src, e.dst>> \in R
  BY <1>6, <1>11, <1>12
<1>16. \A x \in N : <<x, x>> \notin R
  BY <1>9, <1>12, <1>13
<1>17. ASSUME NEW x \in N, NEW y \in N, NEW z \in N, <<x, y>> \in R, <<y, z>> \in R
       PROVE  <<x, z>> \in R
  <2>1. f[x] < f[y] \/ (Before(x, y) /\ f[x] = f[y])
    BY <1>9, <1>12, <1>17
  <2>2. f[y] < f[z] \/ (Before(y, z) /\ f[y] = f[z])
    BY <1>9, <1>12, <1>17
  <2>3. f[x] < f[z] \/ Before(x, z)
    <3>1. f[x] \in Int /\ f[y] \in Int /\ f[z] \in Int
      BY <1>13
    <3>2. QED
      BY <1>10, <2>1, <2>2, <3>1
  <2>4. QED
    BY <1>12, <2>3
<1>18. QED
  BY <1>14, <1>15, <1>16, <1>17 DEF NoCycle, N, E

(* A sequence of sequences of one element.                                 *)
LEMMA FlattenSingles ==
  ASSUME NEW T
  PROVE  \A s \in Seq(T) : FlattenSeq([i \in DOMAIN s |-> <<s[i]>>]) = s
<1> DEFINE F(s) == [i \in DOMAIN s |-> <<s[i]>>]
           S == {s \in Seq(T) : FlattenSeq(F(s)) = s}
<1>1. <<>> \in S
  <2>1. F(<<>>) = <<>>
    OBVIOUS
  <2>2. FlattenSeq(F(<<>>)) = <<>>
    BY <2>1, FlattenEmpty
  <2> HIDE DEF F
  <2>3. QED
    BY <2>2
<1>2. ASSUME NEW s \in Seq(T), NEW x \in T, s \in S PROVE Append(s, x) \in S
  <2> DEFINE t == Append(s, x)
             n == Len(s)
  <2>1. /\ n \in Nat /\ DOMAIN s = 1 .. n /\ DOMAIN t = 1 .. n + 1 /\ t[n + 1] = x
        /\ \A i \in 1 .. n : t[i] = s[i]
    OBVIOUS
  <2>2. F(s) \in Seq(Seq(T)) /\ Len(F(s)) = n /\ \A i \in 1 .. n : F(s)[i] = <<s[i]>>
    <3>1. \A i \in 1 .. n : s[i] \in T
      BY <2>1
    <3>2. \A i \in 1 .. n : <<s[i]>> \in Seq(T)
      BY <3>1, OneElement
    <3>3. F(s) \in [1 .. n -> Seq(T)]
      BY <2>1, <3>2
    <3>4. QED
      BY <2>1, <3>3
  <2>3. <<x>> \in Seq(T)
    BY OneElement
  <2>4. F(t) = Append(F(s), <<x>>)
    <3> DEFINE a == F(t)
               u == Append(F(s), <<x>>)
    <3>1. DOMAIN a = 1 .. n + 1 /\ \A i \in 1 .. n + 1 : a[i] = <<t[i]>>
      BY <2>1
    <3> HIDE DEF F
    <3>2. /\ DOMAIN u = 1 .. n + 1 /\ u[n + 1] = <<x>>
          /\ \A i \in 1 .. n : u[i] = F(s)[i]
      BY <2>1, <2>2
    <3>5. a = [i \in 1 .. n + 1 |-> a[i]] /\ u = [i \in 1 .. n + 1 |-> u[i]]
      <4>1. u \in Seq(Seq(T))
        BY <2>2, <2>3
      <4>2. QED
        BY <2>1, <3>1, <3>2, <4>1 DEF F
    <3> HIDE DEF a, u
    <3>3. \A i \in 1 .. n + 1 : a[i] = u[i]
      <4> TAKE i \in 1 .. n + 1
      <4>1. i = n + 1 \/ i \in 1 .. n
        BY <2>1
      <4>2. a[i] = <<t[i]>>
        BY <3>1
      <4>3. CASE i = n + 1
        BY <2>1, <3>2, <4>2, <4>3
      <4>4. CASE i \in 1 .. n
        BY <2>1, <2>2, <3>2, <4>2, <4>4
      <4>5. QED
        BY <4>1, <4>3, <4>4
    <3>4. a = u
      BY <3>3, <3>5
    <3>6. QED
      BY <3>4 DEF a, u
  <2>5. FlattenSeq(F(s)) = s
    BY <1>2
  <2> HIDE DEF F, t
  <2>6. FlattenSeq(F(t)) = s \o <<x>>
    BY <2>2, <2>3, <2>4, <2>5, FlattenAppend
  <2>7. t \in Seq(T) /\ s \o <<x>> = t
    BY DEF t
  <2>8. QED
    BY <2>6, <2>7 DEF t
<1> HIDE DEF S
<1>3. Seq(T) \subseteq S
  BY <1>1, <1>2, EverySequence
<1> HIDE DEF F
<1>4. \A s \in Seq(T) : FlattenSeq(F(s)) = s
  BY <1>3 DEF S
<1>5. QED
  BY <1>4, Zenon DEF F

(***************************************************************************)
(* What is kept when the nodes M of g become one in g2.                    *)
(***************************************************************************)
IsMoved(g, g2, M, into, from, e, e2) ==
  /\ e2 \in g2.edges /\ e2 = Moved(M, g.last + 1, into, from, e)
  /\ e2 \in [src : NodesOf(g2), out : Nat, dst : NodesOf(g2), in : Nat]
  /\ e2.src = At(M, g.last + 1, e.src) /\ e2.dst = At(M, g.last + 1, e.dst)
  /\ (e.in = Control <=> e2.in = Control) /\ (e.in = Control <=> e2.out = Control)
  /\ e.in # Control /\ e.dst \in M => e2.in \in DOMAIN into /\ into[e2.in] = e
  /\ e.dst \notin M => e2.in = e.in
  /\ e.in # Control /\ e.src \in M => e2.out \in DOMAIN from /\ from[e2.out] = e.src
  /\ e.src \notin M => e2.out = e.out

(* The edges that are not within M are in g2, and no others.               *)
LEMMA EdgesOfFused ==
  ASSUME NEW h, NEW g, IsGraphOf(h, g), NEW g2, NEW M, NEW mo, NEW into, NEW from,
         IsFused(g, g2, M, mo, into, from)
  PROVE  /\ g.last + 1 \notin NodesOf(g) /\ NodesOf(g2) = (NodesOf(g) \ M) \cup {g.last + 1}
         /\ \A e \in g.edges : ~Within(M, e) => \E e2 : IsMoved(g, g2, M, into, from, e, e2)
         /\ \A e2 \in g2.edges : \E e \in g.edges :
              ~Within(M, e) /\ IsMoved(g, g2, M, into, from, e, e2)
<1> DEFINE id == g.last + 1
           N == NodesOf(g)
           N2 == NodesOf(g2)
           m(e) == Moved(M, id, into, from, e)
<1>1. id \notin N
  <2>1. g.last \in Nat /\ NodesOf(g) \subseteq 1 .. g.last
    BY DEF IsGraphOf
  <2>2. QED
    BY <2>1
<1>2. /\ M \subseteq N /\ N2 = (N \ M) \cup {id}
      /\ g2.edges = {m(e) : e \in {d \in g.edges : ~Within(M, d)}}
  BY DEF IsFused, FusedInto, EdgesMoved
<1>3. /\ into \in Seq(g.edges) /\ IsInjective(into)
      /\ Range(into) = {e \in g.edges : e.in # Control /\ e.dst \in M /\ e.src \notin M}
      /\ from \in Seq(M) /\ IsInjective(from)
      /\ Range(from) = {n \in M : \E e \in ReadersOf(g, n) : e.dst \notin M}
  BY DEF IsFused, InputsAre, WritersAre
<1>4. /\ \A i \in DOMAIN into : i \in Nat /\ i # Control
      /\ \A i \in DOMAIN from : i \in Nat /\ i # Control
  BY <1>3 DEF Control
<1>5. ASSUME NEW e \in g.edges
      PROVE  /\ e \in [src : N, out : Nat, dst : N, in : Nat]
             /\ e.in = Control <=> e.out = Control
  BY DEF IsGraphOf
<1>6. ASSUME NEW e \in g.edges, ~Within(M, e) PROVE IsMoved(g, g2, M, into, from, e, m(e))
  <2> DEFINE i == PlaceIn(into, e)
             o == PlaceIn(from, e.src)
  <2>1. m(e) = [src |-> At(M, id, e.src),
                out |-> IF e.src \in M /\ e.in # Control THEN o ELSE e.out,
                dst |-> At(M, id, e.dst),
                in  |-> IF e.dst \in M /\ e.in # Control THEN i ELSE e.in]
    BY DEF Moved
  <2>2. m(e) \in g2.edges
    BY <1>2, <1>6
  <2>3. ASSUME e.in # Control, e.dst \in M PROVE i \in DOMAIN into /\ into[i] = e
    <3>1. e \in Range(into)
      BY <1>3, <1>6, <2>3 DEF Within
    <3>2. QED
      BY <1>3, <3>1, PlaceOf
  <2>4. ASSUME e.in # Control, e.src \in M PROVE o \in DOMAIN from /\ from[o] = e.src
    <3>1. e \in ReadersOf(g, e.src) /\ e.dst \notin M
      BY <1>6, <2>4 DEF ReadersOf, Within
    <3>2. e.src \in Range(from)
      BY <1>3, <2>4, <3>1
    <3>3. QED
      BY <1>3, <3>2, PlaceOf
  <2>5. e.src \in N /\ e.dst \in N /\ e.out \in Nat /\ e.in \in Nat /\ (e.in = Control <=> e.out = Control)
    BY <1>5
  <2>6. At(M, id, e.src) \in N2 /\ At(M, id, e.dst) \in N2
    BY <1>2, <2>5 DEF At
  <2> DEFINE e2 == m(e)
  <2> HIDE DEF i, o, m, id, N, N2
  <2>7. /\ e2.src = At(M, id, e.src) /\ e2.dst = At(M, id, e.dst)
        /\ e2.out = IF e.src \in M /\ e.in # Control THEN o ELSE e.out
        /\ e2.in = IF e.dst \in M /\ e.in # Control THEN i ELSE e.in
    BY <2>1
  <2>8. e2.in \in Nat /\ e2.out \in Nat /\ (e.in = Control <=> e2.in = Control)
        /\ (e.in = Control <=> e2.out = Control)
    BY <1>4, <2>3, <2>4, <2>5, <2>7
  <2>9. e2 \in [src : N2, out : Nat, dst : N2, in : Nat]
    <3>1. e2 = [src |-> e2.src, out |-> e2.out, dst |-> e2.dst, in |-> e2.in]
      BY <2>1, <2>7
    <3> HIDE DEF e2
    <3>2. QED
      BY <2>6, <2>7, <2>8, <3>1
  <2>10. e2 = Moved(M, g.last + 1, into, from, e) /\ id = g.last + 1 /\ N2 = NodesOf(g2)
    BY DEF m, id, N2
  <2>11. e2 \in g2.edges
    BY <2>2
  <2> HIDE DEF e2
  <2>12. IsMoved(g, g2, M, into, from, e, e2)
    BY <2>3, <2>4, <2>7, <2>8, <2>9, <2>10, <2>11 DEF IsMoved
  <2>13. QED
    BY <2>12 DEF e2
<1>7. \A e2 \in g2.edges : \E e \in g.edges : ~Within(M, e) /\ e2 = m(e)
  BY <1>2
<1> HIDE DEF m
<1>8. QED
  BY <1>1, <1>2, <1>6, <1>7

(* A node that is not in M is the place of itself alone.                   *)
LEMMA AtOther ==
  ASSUME NEW N, NEW M, NEW id, id \notin N, NEW x \in N
  PROVE  /\ At(M, id, x) = id <=> x \in M
         /\ \A n \in N \ M : (At(M, id, x) = n <=> x = n) /\ (n # id)
BY DEF At

(* The graph stays a graph.                                                *)
LEMMA FusedIsGraph ==
  ASSUME NEW h, NEW g, IsGraphOf(h, g), NEW g2, NEW M, NEW mo, NEW into, NEW from,
         IsFused(g, g2, M, mo, into, from), M \cap ResultsOf(h) = {}
  PROVE  IsGraphOf(h, g2)
<1> DEFINE id == g.last + 1
           N == NodesOf(g)
           N2 == NodesOf(g2)
           K == DOMAIN h.kind
           mov(e, e2) == IsMoved(g, g2, M, into, from, e, e2)
<1>1. /\ id \notin N /\ N2 = (N \ M) \cup {id}
      /\ \A e2 \in g2.edges : \E e \in g.edges : ~Within(M, e) /\ mov(e, e2)
  BY EdgesOfFused
<1>2. /\ M \subseteq N /\ mo \in Seq(M) /\ g2.last = id
      /\ DOMAIN g2.ins = N2 /\ DOMAIN g2.outs = N2
      /\ \A n \in N \ M : g2.kernels[n] = g.kernels[n]
      /\ g2.kernels[id] = FlattenSeq([i \in DOMAIN mo |-> g.kernels[mo[i]]])
      /\ g2.edges = {Moved(M, id, into, from, e) : e \in {d \in g.edges : ~Within(M, d)}}
  BY DEF IsFused, FusedInto, MembersAre, KernelsFused, EdgesMoved
<1>3. /\ g.last \in Nat /\ N \subseteq 1 .. g.last /\ K # {}
      /\ \A n \in N : g.kernels[n] \in Seq(K)
      /\ IsFiniteSet(g.edges)
      /\ \A e \in g.edges : e \in [src : N, out : Nat, dst : N, in : Nat]
      /\ \A d, e \in g.edges : d.dst = e.dst /\ d.in = e.in /\ e.in # Control => d = e
      /\ {n \in K : h.kind[n] = "result"} \subseteq N
  BY DEF IsGraphOf
<1>4. g2.last \in Nat /\ N2 \subseteq 1 .. g2.last
  <2>1. id \in Nat /\ 1 .. g.last \subseteq 1 .. id /\ id \in 1 .. id
    BY <1>3
  <2> HIDE DEF id
  <2>2. QED
    BY <1>1, <1>2, <1>3, <2>1
<1>5. \A n \in N2 : g2.kernels[n] \in Seq(K)
  <2>1. [i \in DOMAIN mo |-> g.kernels[mo[i]]] \in Seq(Seq(K))
    <3>1. Len(mo) \in Nat /\ DOMAIN mo = 1 .. Len(mo) /\ \A i \in DOMAIN mo : mo[i] \in M
      BY <1>2
    <3>2. \A i \in DOMAIN mo : g.kernels[mo[i]] \in Seq(K)
      BY <1>2, <1>3, <3>1
    <3>3. [i \in DOMAIN mo |-> g.kernels[mo[i]]] \in [1 .. Len(mo) -> Seq(K)]
      BY <3>1, <3>2
    <3>4. QED
      BY <3>1, <3>3
  <2>2. g2.kernels[id] \in Seq(K)
    BY <1>2, <2>1, FlattenType
  <2> HIDE DEF id
  <2>3. QED
    BY <1>1, <1>2, <1>3, <2>2
<1>6. IsFiniteSet(g2.edges)
  <2> DEFINE D == {d \in g.edges : ~Within(M, d)}
             f == [e \in D |-> Moved(M, id, into, from, e)]
  <2>1. IsFiniteSet(D)
    BY <1>3, FS_Subset
  <2>2. g2.edges = {f[e] : e \in D} /\ DOMAIN f = D
    BY <1>2
  <2> HIDE DEF D, f
  <2>3. QED
    BY <2>1, <2>2, FiniteImage
<1> HIDE DEF id
<1>7. ASSUME NEW e2 \in g2.edges
      PROVE  e2 \in [src : N2, out : Nat, dst : N2, in : Nat] /\ (e2.in = Control <=> e2.out = Control)
  BY <1>1 DEF IsMoved
<1>8. ASSUME NEW d2 \in g2.edges, NEW e2 \in g2.edges,
             d2.dst = e2.dst, d2.in = e2.in, e2.in # Control
      PROVE  d2 = e2
  <2>1. PICK d \in g.edges : mov(d, d2)
    BY <1>1
  <2>2. PICK e \in g.edges : mov(e, e2)
    BY <1>1
  <2>3. d.in # Control /\ e.in # Control /\ d.dst \in N /\ e.dst \in N
    BY <1>3, <1>8, <2>1, <2>2 DEF IsMoved
  <2>4. At(M, id, d.dst) = At(M, id, e.dst)
    BY <1>8, <2>1, <2>2 DEF IsMoved, id
  <2>5. CASE e.dst \in M
    <3>1. d.dst \in M
      BY <1>1, <2>3, <2>4, <2>5 DEF At
    <3>2. into[d2.in] = d /\ into[e2.in] = e
      BY <2>1, <2>2, <2>3, <2>5, <3>1 DEF IsMoved
    <3>3. d = e
      BY <1>8, <3>2
    <3>4. QED
      BY <2>1, <2>2, <3>3 DEF IsMoved
  <2>6. CASE e.dst \notin M
    <3>1. d.dst \notin M /\ d.dst = e.dst
      BY <1>1, <2>3, <2>4, <2>6 DEF At
    <3>2. d.in = d2.in /\ e.in = e2.in
      BY <2>1, <2>2, <2>6, <3>1 DEF IsMoved
    <3>3. d = e
      BY <1>3, <1>8, <2>3, <3>1, <3>2
    <3>4. QED
      BY <2>1, <2>2, <3>3 DEF IsMoved
  <2>7. QED
    BY <2>5, <2>6
<1>9. {n \in K : h.kind[n] = "result"} \subseteq N2
  BY <1>1, <1>3 DEF ResultsOf
<1>10. QED
  BY <1>2, <1>3, <1>4, <1>5, <1>6, <1>7, <1>8, <1>9 DEF IsGraphOf

(* What depends on the fused node depends on all of M.                     *)
ClosedBack(M, id, C2) == (C2 \ {id}) \cup (IF id \in C2 THEN M ELSE {})

(* A set that the fused graph depends on is one of the graph before.       *)
LEMMA FusedClosed ==
  ASSUME NEW h, NEW g, IsGraphOf(h, g), NEW g2, NEW M, NEW mo, NEW into, NEW from,
         IsFused(g, g2, M, mo, into, from), M \cap ResultsOf(h) = {},
         NEW C2 \in Closed(h, g2)
  PROVE  ClosedBack(M, g.last + 1, C2) \in Closed(h, g)
<1> DEFINE id == g.last + 1
           N == NodesOf(g)
           N2 == NodesOf(g2)
           C == ClosedBack(M, id, C2)
<1>1. /\ id \notin N /\ N2 = (N \ M) \cup {id}
      /\ \A e \in g.edges : ~Within(M, e) => \E e2 : IsMoved(g, g2, M, into, from, e, e2)
  BY EdgesOfFused
<1>2. M \subseteq N /\ \A e \in g.edges : e.src \in N /\ e.dst \in N
  BY DEF IsFused, IsGraphOf
<1>3. C2 \subseteq N2 /\ ResultsOf(h) \subseteq C2 /\ ResultsOf(h) \subseteq N
      /\ \A e2 \in g2.edges : e2.dst \in C2 => e2.src \in C2
  BY DEF Closed, IsGraphOf, ResultsOf
<1>5. id = g.last + 1
  OBVIOUS
<1> HIDE DEF id
<1>4. \A x \in N : x \in C <=> At(M, id, x) \in C2
  BY <1>1, <1>2, <1>3 DEF ClosedBack, At
<1> HIDE DEF C
<1>6. C \subseteq N
  BY <1>1, <1>2, <1>3 DEF C, ClosedBack
<1>7. ResultsOf(h) \subseteq C
  BY <1>3, <1>4 DEF At
<1>8. ASSUME NEW e \in g.edges, e.dst \in C PROVE e.src \in C
  <2>1. CASE Within(M, e)
    BY <1>1, <1>2, <1>4, <1>8, <2>1 DEF Within, At
  <2>2. CASE ~Within(M, e)
    <3>1. PICK e2 : IsMoved(g, g2, M, into, from, e, e2)
      BY <1>1, <2>2
    <3>2. e2 \in g2.edges /\ e2.src = At(M, id, e.src) /\ e2.dst = At(M, id, e.dst)
      BY <1>5, <3>1 DEF IsMoved
    <3>3. QED
      BY <1>2, <1>3, <1>4, <1>8, <3>2
  <2>3. QED
    BY <2>1, <2>2
<1>9. C \in Closed(h, g)
  BY <1>6, <1>7, <1>8 DEF Closed, N
<1>10. QED
  BY <1>9 DEF C, id

(* The kernels of the nodes of g2, if those of M have one each.            *)
FusedFrom(h, g, g2, M, mo, into, from) ==
  /\ IsGraphOf(h, g) /\ IsFused(g, g2, M, mo, into, from)
  /\ \A m \in M : Fusable(h, g, m)

FusedParts(h, g, g2, M, mo) ==
  /\ M \subseteq NodesOf(g) /\ M \cap ResultsOf(h) = {}
  /\ \A n \in NodesOf(g) \ M :
       /\ g2.ins[n] = g.ins[n] /\ g2.outs[n] = g.outs[n] /\ g2.kernels[n] = g.kernels[n]
       /\ First(g2, n) = First(g, n)
  /\ \A m \in M : Range(g.kernels[m]) = {First(g, m)}
  /\ DOMAIN g2.kernels[g.last + 1] = DOMAIN mo
  /\ \A j \in DOMAIN mo : g2.kernels[g.last + 1][j] = First(g, mo[j])
  /\ Range(g2.kernels[g.last + 1]) = {First(g, m) : m \in M}

(* Where the kernels are: the members' in the fused node, others where     *)
(* they were.                                                              *)
LEMMA FusedKernels ==
  ASSUME NEW h, NEW g, NEW g2, NEW M, NEW mo, NEW into, NEW from,
         FusedFrom(h, g, g2, M, mo, into, from)
  PROVE  FusedParts(h, g, g2, M, mo)
<1> DEFINE id == g.last + 1
           N == NodesOf(g)
<1>1. /\ M \subseteq N /\ mo \in Seq(M) /\ Range(mo) = M
      /\ \A n \in N \ M :
           g2.ins[n] = g.ins[n] /\ g2.outs[n] = g.outs[n] /\ g2.kernels[n] = g.kernels[n]
      /\ g2.kernels[id] = FlattenSeq([i \in DOMAIN mo |-> g.kernels[mo[i]]])
  BY DEF FusedFrom, IsFused, FusedInto, MembersAre, KernelsFused
<1>2. \A m \in M : m \notin ResultsOf(h) /\ g.kernels[m] = <<First(g, m)>>
  BY DEF FusedFrom, Fusable
<1>3. \A n \in N \ M : First(g2, n) = First(g, n)
  BY <1>1 DEF First
<1>4. \A m \in M : Range(g.kernels[m]) = {First(g, m)}
  <2> TAKE m \in M
  <2>1. g.kernels[m] = <<First(g, m)>>
    BY <1>2
  <2>2. First(g, m) \in {First(g, m)}
    OBVIOUS
  <2>3. QED
    BY <2>1, <2>2, OneElement
<1>5. \A i \in DOMAIN mo : mo[i] \in M
  BY <1>1
<1> DEFINE s == [i \in DOMAIN mo |-> First(g, mo[i])]
           S == {First(g, m) : m \in M}
<1>6. /\ DOMAIN s = DOMAIN mo /\ \A i \in DOMAIN mo : s[i] = First(g, mo[i])
  OBVIOUS
<1>7. s \in Seq(S)
  <2>1. Len(mo) \in Nat /\ DOMAIN mo = 1 .. Len(mo)
    BY <1>1
  <2>2. \A i \in DOMAIN mo : First(g, mo[i]) \in S
    BY <1>5
  <2>3. s \in [1 .. Len(mo) -> S]
    BY <2>1, <2>2
  <2>4. QED
    BY <2>1, <2>3
<1>8. [i \in DOMAIN mo |-> g.kernels[mo[i]]] = [i \in DOMAIN s |-> <<s[i]>>]
  <2>1. \A i \in DOMAIN mo : g.kernels[mo[i]] = <<s[i]>>
    BY <1>2, <1>5, <1>6
  <2> HIDE DEF s
  <2>2. QED
    BY <1>6, <2>1
<1> HIDE DEF s
<1>9. g2.kernels[id] = s
  BY <1>1, <1>7, <1>8, FlattenSingles
<1>10. Range(s) = S
  <2>1. ASSUME NEW x \in Range(s) PROVE x \in S
    BY <1>5, <1>6, <2>1, InRange
  <2>2. ASSUME NEW m \in M PROVE First(g, m) \in Range(s)
    <3>1. PICK i \in DOMAIN mo : mo[i] = m
      BY <1>1, InRange
    <3>2. s[i] = First(g, m) /\ i \in DOMAIN s
      BY <1>6, <3>1
    <3>3. QED
      BY <3>2, InRange
  <2>3. QED
    BY <2>1, <2>2
<1>11. QED
  BY <1>1, <1>2, <1>3, <1>4, <1>6, <1>9, <1>10 DEF FusedParts

(* The tensors that the nodes of g2 read.                                  *)
LEMMA FusedSupplied ==
  ASSUME NEW h, NEW g, NEW g2, NEW M, NEW mo, NEW into, NEW from,
         FusedFrom(h, g, g2, M, mo, into, from), Supplied(h, g)
  PROVE  Supplied(h, g2)
<1> DEFINE id == g.last + 1
           N == NodesOf(g)
           N2 == NodesOf(g2)
           mov(e, e2) == IsMoved(g, g2, M, into, from, e, e2)
<1>1. IsGraphOf(h, g) /\ IsFused(g, g2, M, mo, into, from)
  BY DEF FusedFrom
<1>2. /\ id \notin N /\ N2 = (N \ M) \cup {id}
      /\ \A e \in g.edges : ~Within(M, e) => \E e2 : mov(e, e2)
      /\ \A e2 \in g2.edges : \E e \in g.edges : ~Within(M, e) /\ mov(e, e2)
  BY <1>1, EdgesOfFused
<1>3. /\ M \subseteq N
      /\ \A n \in N \ M : g2.ins[n] = g.ins[n] /\ g2.outs[n] = g.outs[n] /\ g2.kernels[n] = g.kernels[n]
      /\ \A m \in M : Range(g.kernels[m]) = {First(g, m)}
      /\ Range(g2.kernels[id]) = {First(g, m) : m \in M}
  <2>1. FusedParts(h, g, g2, M, mo)
    BY FusedKernels
  <2>2. QED
    BY <2>1 DEF FusedParts
<1>4. /\ DOMAIN g2.ins[id] = DOMAIN into
      /\ \A i \in DOMAIN into : g2.ins[id][i] = g.ins[into[i].dst][into[i].in]
      /\ DOMAIN g2.outs[id] = DOMAIN from
      /\ \A i \in DOMAIN from : g2.outs[id][i] = g.outs[from[i]][1]
      /\ into \in Seq(g.edges) /\ IsInjective(into)
      /\ Range(into) = {e \in g.edges : e.in # Control /\ e.dst \in M /\ e.src \notin M}
  BY <1>1 DEF IsFused, FusedInto, InsFused, OutsFused, InputsAre
<1>5. \A m \in M : /\ 1 \in DOMAIN g.outs[m] /\ g.outs[m][1] = <<First(g, m), 1>>
                   /\ \A e \in ReadersOf(g, m) : e.out = 1
  BY DEF FusedFrom, Fusable
<1>6. /\ \A e \in g.edges : e.in # Control =>
           /\ e.in \in DOMAIN g.ins[e.dst] /\ e.out \in DOMAIN g.outs[e.src]
           /\ g.outs[e.src][e.out] = g.ins[e.dst][e.in]
      /\ \A n \in N : \A i \in DOMAIN g.ins[n] :
           i # Control /\ \E e \in g.edges : e.dst = n /\ e.in = i
  BY DEF Supplied
<1> DEFINE Reads(x, n, d) == \E i \in DOMAIN x.ins[n] : x.ins[n][i] = <<d.src, d.out>>
<1>13. \A n \in N : \A d \in h.edges :
         d.dst \in Range(g.kernels[n]) /\ d.src \notin Range(g.kernels[n]) /\ d.in # Control =>
           Reads(g, n, d)
  BY DEF Supplied
<1>14. \A n \in N \ M : \A d : Reads(g, n, d) => Reads(g2, n, d)
  BY <1>3
<1>7. \A e \in g.edges : e.src \in N /\ e.dst \in N
  BY <1>1 DEF IsGraphOf
<1>8. ASSUME NEW e \in g.edges, NEW e2, mov(e, e2), e.in # Control
      PROVE  /\ e2.in \in DOMAIN g2.ins[e2.dst] /\ g2.ins[e2.dst][e2.in] = g.ins[e.dst][e.in]
             /\ e2.out \in DOMAIN g2.outs[e2.src] /\ g2.outs[e2.src][e2.out] = g.outs[e.src][e.out]
  <2>0. e2.src = At(M, id, e.src) /\ e2.dst = At(M, id, e.dst)
    BY <1>8 DEF IsMoved
  <2>1. e2.in \in DOMAIN g2.ins[e2.dst] /\ g2.ins[e2.dst][e2.in] = g.ins[e.dst][e.in]
    <3>1. CASE e.dst \in M
      <4>1. e2.dst = id /\ e2.in \in DOMAIN into /\ into[e2.in] = e
        BY <1>8, <2>0, <3>1 DEF IsMoved, At
      <4>2. QED
        BY <1>4, <4>1
    <3>2. CASE e.dst \notin M
      <4>1. e2.dst = e.dst /\ e2.in = e.in
        BY <1>8, <2>0, <3>2 DEF IsMoved, At
      <4>2. QED
        BY <1>3, <1>6, <1>7, <1>8, <3>2, <4>1
    <3>3. QED
      BY <3>1, <3>2
  <2>2. e2.out \in DOMAIN g2.outs[e2.src] /\ g2.outs[e2.src][e2.out] = g.outs[e.src][e.out]
    <3>1. CASE e.src \in M
      <4>1. e2.src = id /\ e2.out \in DOMAIN from /\ from[e2.out] = e.src
        BY <1>8, <2>0, <3>1 DEF IsMoved, At
      <4>2. e.out = 1
        BY <1>5, <1>8, <3>1 DEF ReadersOf
      <4>3. QED
        BY <1>4, <4>1, <4>2
    <3>2. CASE e.src \notin M
      <4>1. e2.src = e.src /\ e2.out = e.out
        BY <1>8, <2>0, <3>2 DEF IsMoved, At
      <4>2. QED
        BY <1>3, <1>6, <1>7, <1>8, <3>2, <4>1
    <3>3. QED
      BY <3>1, <3>2
  <2>3. QED
    BY <2>1, <2>2
<1>9. \A e2 \in g2.edges : e2.in # Control =>
             /\ e2.in \in DOMAIN g2.ins[e2.dst] /\ e2.out \in DOMAIN g2.outs[e2.src]
             /\ g2.outs[e2.src][e2.out] = g2.ins[e2.dst][e2.in]
  <2> SUFFICES ASSUME NEW e2 \in g2.edges, e2.in # Control
               PROVE  /\ e2.in \in DOMAIN g2.ins[e2.dst] /\ e2.out \in DOMAIN g2.outs[e2.src]
                      /\ g2.outs[e2.src][e2.out] = g2.ins[e2.dst][e2.in]
    OBVIOUS
  <2>1. PICK e \in g.edges : mov(e, e2)
    BY <1>2
  <2>2. e.in # Control
    BY <2>1 DEF IsMoved
  <2> HIDE DEF mov
  <2>3. QED
    BY <1>6, <1>8, <2>1, <2>2
<1>10. ASSUME NEW n \in N2, NEW i \in DOMAIN g2.ins[n]
       PROVE  i # Control /\ \E e2 \in g2.edges : e2.dst = n /\ e2.in = i
  <2>1. CASE n = id
    <3>1. i \in DOMAIN into /\ into[i] \in Range(into) /\ i # Control
      BY <1>4, <1>10, <2>1, InRange DEF Control
    <3> DEFINE e == into[i]
    <3>2. e \in g.edges /\ e.in # Control /\ e.dst \in M /\ e.src \notin M
      BY <1>4, <3>1
    <3> HIDE DEF e
    <3>3. PICK e2 : mov(e, e2)
      BY <1>2, <3>2 DEF Within
    <3>4. e2 \in g2.edges /\ e2.dst = id /\ e2.in \in DOMAIN into /\ into[e2.in] = e
      BY <3>2, <3>3 DEF IsMoved, At
    <3>5. e2.in = i
      BY <1>4, <3>1, <3>4 DEF IsInjective, e
    <3>6. QED
      BY <2>1, <3>1, <3>4, <3>5
  <2>2. CASE n # id
    <3>1. n \in N \ M /\ i \in DOMAIN g.ins[n]
      BY <1>2, <1>3, <1>10, <2>2
    <3>2. i # Control /\ \E e \in g.edges : e.dst = n /\ e.in = i
      BY <1>6, <3>1
    <3>3. PICK e \in g.edges : e.dst = n /\ e.in = i
      BY <3>2
    <3>4. PICK e2 : mov(e, e2)
      BY <1>2, <3>1, <3>3 DEF Within
    <3>5. e2 \in g2.edges /\ e2.dst = n /\ e2.in = i
      BY <3>1, <3>3, <3>4 DEF IsMoved, At
    <3>6. QED
      BY <3>2, <3>5
  <2>3. QED
    BY <2>1, <2>2
<1>11. ASSUME NEW n \in N2, NEW d \in h.edges, d.in # Control,
              d.dst \in Range(g2.kernels[n]), d.src \notin Range(g2.kernels[n])
       PROVE  \E i \in DOMAIN g2.ins[n] : g2.ins[n][i] = <<d.src, d.out>>
  <2>1. CASE n = id
    <3>1. PICK m \in M : d.dst = First(g, m)
      BY <1>3, <1>11, <2>1
    <3>2. d.dst \in Range(g.kernels[m]) /\ d.src \notin Range(g.kernels[m]) /\ m \in N
      BY <1>3, <1>11, <2>1, <3>1
    <3>12. Reads(g, m, d)
      <4> HIDE DEF Reads
      <4>1. QED
        BY <1>11, <1>13, <3>2
    <3>3. PICK i \in DOMAIN g.ins[m] : g.ins[m][i] = <<d.src, d.out>>
      BY <3>12
    <3>4. PICK e \in g.edges : e.dst = m /\ e.in = i /\ i # Control
      BY <1>6, <3>2, <3>3
    <3>5. g.outs[e.src][e.out] = <<d.src, d.out>>
      BY <1>6, <3>3, <3>4
    <3>6. e.src \notin M
      <4> SUFFICES ASSUME e.src \in M PROVE FALSE
        OBVIOUS
      <4>1. e.out = 1 /\ g.outs[e.src][1] = <<First(g, e.src), 1>>
        BY <1>5, <3>4 DEF ReadersOf
      <4>2. d.src = First(g, e.src)
        BY <3>5, <4>1
      <4>3. QED
        BY <1>3, <1>11, <2>1, <4>2
    <3>7. e \in Range(into)
      BY <1>4, <3>4, <3>6
    <3>8. PICK j \in DOMAIN into : into[j] = e
      BY <3>7, InRange
    <3>9. j \in DOMAIN g2.ins[n] /\ g2.ins[n][j] = <<d.src, d.out>>
      BY <1>4, <2>1, <3>3, <3>4, <3>8
    <3>10. QED
      BY <3>9
  <2>2. CASE n # id
    <3>1. n \in N \ M /\ g2.kernels[n] = g.kernels[n]
      BY <1>2, <1>3, <2>2
    <3>2. Reads(g2, n, d)
      <4> HIDE DEF Reads
      <4>1. QED
        BY <1>3, <1>11, <1>13, <1>14, <3>1
    <3>3. QED
      BY <3>2
  <2>3. QED
    BY <2>1, <2>2
<1> HIDE DEF id, N, N2, mov, Reads
<1>12. /\ \A n \in N2 : \A i \in DOMAIN g2.ins[n] :
            i # Control /\ \E e2 \in g2.edges : e2.dst = n /\ e2.in = i
       /\ \A n \in N2 : \A d \in h.edges :
            d.dst \in Range(g2.kernels[n]) /\ d.src \notin Range(g2.kernels[n]) /\ d.in # Control =>
              \E i \in DOMAIN g2.ins[n] : g2.ins[n][i] = <<d.src, d.out>>
  BY <1>10, <1>11
<1>15. QED
  BY <1>9, <1>12 DEF Supplied, N2

(* What the kernels of g2 depend on.                                       *)
LEMMA FusedPreceded ==
  ASSUME NEW h, NEW g, NEW g2, NEW M, NEW mo, NEW into, NEW from,
         FusedFrom(h, g, g2, M, mo, into, from), Preceded(h, g)
  PROVE  Preceded(h, g2)
<1> DEFINE id == g.last + 1
           N == NodesOf(g)
           mov(e, e2) == IsMoved(g, g2, M, into, from, e, e2)
           k == g.kernels
           k2 == g2.kernels
           Comes(x, n, d, j) ==
             \/ \E i \in 1 .. j - 1 : x.kernels[n][i] = d.src
             \/ \E e \in x.edges : e.dst = n /\ d.src \in Range(x.kernels[e.src])
<1>1. IsGraphOf(h, g) /\ IsFused(g, g2, M, mo, into, from)
  BY DEF FusedFrom
<1>2. /\ id \notin N /\ NodesOf(g2) = (N \ M) \cup {id}
      /\ \A e \in g.edges : ~Within(M, e) => \E e2 : mov(e, e2)
      /\ \A e \in g.edges : e.src \in N /\ e.dst \in N
  BY <1>1, EdgesOfFused DEF IsGraphOf
<1>3. /\ M \subseteq N /\ \A n \in N \ M : k2[n] = k[n]
      /\ \A m \in M : Range(k[m]) = {First(g, m)}
      /\ DOMAIN k2[id] = DOMAIN mo /\ \A j \in DOMAIN mo : k2[id][j] = First(g, mo[j])
      /\ \A m \in M : First(g, m) \in Range(k2[id])
  <2>1. FusedParts(h, g, g2, M, mo)
    BY FusedKernels
  <2>2. QED
    BY <2>1 DEF FusedParts
<1>4. /\ mo \in Seq(M) /\ \A j \in DOMAIN mo : mo[j] \in M
      /\ \A e \in g.edges : \A j \in DOMAIN mo :
           mo[j] = e.dst /\ e.src \in M => \E i \in 1 .. j - 1 : mo[i] = e.src
  BY <1>1 DEF IsFused, MembersAre
<1>5. \A m \in M : DOMAIN k[m] = {1} /\ k[m][1] = First(g, m)
  <2> TAKE m \in M
  <2>1. k[m] = <<First(g, m)>>
    BY DEF FusedFrom, Fusable
  <2>2. QED
    BY <2>1
<1>6. \A n \in N : \A d \in h.edges : \A j \in DOMAIN k[n] : k[n][j] = d.dst => Comes(g, n, d, j)
  BY DEF Preceded
<1>7. ASSUME NEW e \in g.edges, ~Within(M, e), NEW x, x \in Range(k[e.src])
      PROVE  \E e2 \in g2.edges : e2.dst = At(M, id, e.dst) /\ x \in Range(k2[e2.src])
  <2>1. PICK e2 : mov(e, e2)
    BY <1>2, <1>7
  <2>2. e2 \in g2.edges /\ e2.dst = At(M, id, e.dst) /\ e2.src = At(M, id, e.src)
    BY <2>1 DEF IsMoved
  <2>3. x \in Range(k2[At(M, id, e.src)])
    <3>1. CASE e.src \in M
      <4>1. x = First(g, e.src)
        BY <1>3, <1>7, <3>1
      <4>2. QED
        BY <1>3, <3>1, <4>1 DEF At
    <3>2. CASE e.src \notin M
      BY <1>2, <1>3, <1>7, <3>2 DEF At
    <3>3. QED
      BY <3>1, <3>2
  <2>4. QED
    BY <2>2, <2>3
<1>8. ASSUME NEW n \in NodesOf(g2), NEW d \in h.edges, NEW j \in DOMAIN k2[n], k2[n][j] = d.dst
      PROVE  Comes(g2, n, d, j)
  <2>1. CASE n = id
    <3> DEFINE m == mo[j]
    <3>1. j \in DOMAIN mo /\ m \in M /\ First(g, m) = d.dst
      BY <1>3, <1>4, <1>8, <2>1
    <3>2. Comes(g, m, d, 1)
      <4> HIDE DEF Comes
      <4>1. m \in N /\ 1 \in DOMAIN k[m] /\ k[m][1] = d.dst
        BY <1>3, <1>5, <3>1
      <4>2. QED
        BY <1>6, <4>1
    <3>3. PICK e \in g.edges : e.dst = m /\ d.src \in Range(k[e.src])
      BY <3>2
    <3>4. CASE e.src \in M
      <4>1. PICK i \in 1 .. j - 1 : mo[i] = e.src
        BY <1>4, <3>1, <3>3, <3>4
      <4>2. i \in DOMAIN mo
        <5>1. DOMAIN mo = 1 .. Len(mo) /\ Len(mo) \in Nat
          BY <1>4
        <5>2. QED
          BY <3>1, <4>1, <5>1
      <4>3. d.src = First(g, e.src)
        BY <1>3, <3>3, <3>4
      <4>4. k2[n][i] = d.src
        BY <1>3, <2>1, <4>1, <4>2, <4>3
      <4>5. QED
        BY <4>4
    <3>5. CASE e.src \notin M
      <4>1. \E e2 \in g2.edges : e2.dst = At(M, id, e.dst) /\ d.src \in Range(k2[e2.src])
        BY <1>7, <3>3, <3>5 DEF Within
      <4>2. At(M, id, e.dst) = n
        BY <2>1, <3>1, <3>3 DEF At
      <4>3. QED
        BY <4>1, <4>2
    <3>6. QED
      BY <3>4, <3>5
  <2>2. CASE n # id
    <3>1. n \in N \ M /\ n \in N /\ k2[n] = k[n]
      BY <1>2, <1>3, <2>2
    <3>2. Comes(g, n, d, j)
      <4> HIDE DEF Comes
      <4>1. j \in DOMAIN k[n] /\ k[n][j] = d.dst
        BY <1>8, <3>1
      <4>2. QED
        BY <1>6, <3>1, <4>1
    <3>3. CASE \E i \in 1 .. j - 1 : k[n][i] = d.src
      BY <3>1, <3>3
    <3>4. CASE \E e \in g.edges : e.dst = n /\ d.src \in Range(k[e.src])
      <4>1. PICK e \in g.edges : e.dst = n /\ d.src \in Range(k[e.src])
        BY <3>4
      <4>2. \E e2 \in g2.edges : e2.dst = At(M, id, e.dst) /\ d.src \in Range(k2[e2.src])
        BY <1>7, <3>1, <4>1 DEF Within
      <4>3. At(M, id, e.dst) = n
        BY <3>1, <4>1 DEF At
      <4>4. QED
        BY <4>2, <4>3
    <3>5. QED
      BY <3>2, <3>3, <3>4
  <2>3. QED
    BY <2>1, <2>2
<1> HIDE DEF id, N, mov
<1>9. \A n \in NodesOf(g2) : \A d \in h.edges : \A j \in DOMAIN g2.kernels[n] :
        g2.kernels[n][j] = d.dst => Comes(g2, n, d, j)
  <2> HIDE DEF Comes
  <2>1. QED
    BY <1>8
<1>10. QED
  BY <1>9 DEF Preceded

(* What is live is run.                                                    *)
LEMMA FusedAllRun ==
  ASSUME NEW h, NEW g, NEW g2, NEW M, NEW mo, NEW into, NEW from,
         FusedFrom(h, g, g2, M, mo, into, from), NEW live, AllRun(h, g, live)
  PROVE  AllRun(h, g2, live)
<1> SUFFICES ASSUME NEW C2 \in Closed(h, g2), NEW x \in live
             PROVE  \E n \in C2 : x \in Range(g2.kernels[n])
  BY DEF AllRun
<1> DEFINE id == g.last + 1
           C == ClosedBack(M, id, C2)
<1>1. IsGraphOf(h, g) /\ IsFused(g, g2, M, mo, into, from)
  BY DEF FusedFrom
<1>2. FusedParts(h, g, g2, M, mo)
  BY FusedKernels
<1>3. /\ M \cap ResultsOf(h) = {}
      /\ \A n \in NodesOf(g) \ M : g2.kernels[n] = g.kernels[n]
      /\ \A m \in M : Range(g.kernels[m]) = {First(g, m)}
      /\ \A m \in M : First(g, m) \in Range(g2.kernels[id])
  BY <1>2 DEF FusedParts
<1>4. C \in Closed(h, g)
  BY <1>1, <1>3, FusedClosed
<1> HIDE DEF id
<1>5. PICK n \in C : x \in Range(g.kernels[n])
  BY <1>4 DEF AllRun
<1>6. n \in NodesOf(g)
  BY <1>4 DEF Closed
<1>7. CASE n \in M
  <2>1. id \notin NodesOf(g) /\ M \subseteq NodesOf(g)
    BY <1>1, <1>2, EdgesOfFused DEF id, FusedParts
  <2>2. id \in C2 \/ n \in C2
    BY <1>5 DEF ClosedBack
  <2>3. C2 \subseteq (NodesOf(g) \ M) \cup {id}
    BY <1>1, EdgesOfFused DEF id, Closed
  <2>4. id \in C2
    BY <1>7, <2>2, <2>3
  <2>5. x \in Range(g2.kernels[id])
    BY <1>3, <1>5, <1>7
  <2>6. QED
    BY <2>4, <2>5
<1>8. CASE n \notin M
  <2>1. n \in C2
    BY <1>5, <1>8 DEF ClosedBack
  <2>2. QED
    BY <1>3, <1>5, <1>6, <1>8, <2>1
<1>9. QED
  BY <1>7, <1>8

(* What runs in one node.                                                  *)
LEMMA FusedAreAlike ==
  ASSUME NEW h, NEW g, NEW g2, NEW s, NEW mo, NEW into, NEW from,
         FusedFrom(h, g, g2, Range(s), mo, into, from), AllAlike(h, g, s),
         NEW linked, linked => Linked(h, g, s), AlikeLinked(h, g, linked)
  PROVE  AlikeLinked(h, g2, linked)
<1> DEFINE id == g.last + 1
           M == Range(s)
           Fine(fused) ==
             /\ \A k, m \in fused : h.size[k] = h.size[m] /\ h.home[k] = h.home[m]
             /\ linked /\ Cardinality(fused) > 1 =>
                  \A m \in fused : \E e \in h.edges :
                    {e.src, e.dst} \subseteq fused /\ m \in {e.src, e.dst}
<1>1. FusedParts(h, g, g2, M, mo)
  BY FusedKernels
<1>2. NodesOf(g2) = (NodesOf(g) \ M) \cup {id}
  BY EdgesOfFused DEF FusedFrom
<1>3. \A n \in NodesOf(g) : Fine(Range(g.kernels[n]))
  BY DEF AlikeLinked
<1>4. Fine({First(g, m) : m \in M})
  <2>1. \A k, m \in {First(g, n) : n \in M} : h.size[k] = h.size[m] /\ h.home[k] = h.home[m]
    BY DEF AllAlike
  <2>2. ASSUME linked
        PROVE  \A m \in {First(g, n) : n \in M} : \E e \in h.edges :
                 {e.src, e.dst} \subseteq {First(g, n) : n \in M} /\ m \in {e.src, e.dst}
    BY <2>2 DEF Linked
  <2>3. QED
    BY <2>1, <2>2
<1>5. \A n \in NodesOf(g2) : Fine(Range(g2.kernels[n]))
  <2>1. /\ \A n \in NodesOf(g) \ M : g2.kernels[n] = g.kernels[n]
        /\ Range(g2.kernels[id]) = {First(g, m) : m \in M}
    BY <1>1 DEF FusedParts
  <2> HIDE DEF Fine
  <2>2. QED
    BY <1>2, <1>3, <1>4, <2>1
<1>6. QED
  BY <1>5 DEF AlikeLinked

(* The numbers of the groups from the i-th one on.                         *)
LEMMA EachFrom ==
  ASSUME NEW n \in Nat, NEW i \in 1 .. n
  PROVE  /\ \A k \in i .. n : k \in 1 .. n /\ (k = i \/ k \in (i + 1) .. n)
         /\ \A k \in (i + 1) .. n : k \in i .. n /\ k \in 1 .. n /\ k # i
OBVIOUS

(* The groups that are still to be fused when one group has been passed.   *)
LEMMA GroupPassed ==
  ASSUME NEW h, NEW g, IsGraphOf(h, g), NEW U, NEW gs \in Seq(Seq(U)), Disjoint(gs),
         NEW i \in DOMAIN gs, InSequence(g.edges, gs[i]), Timed(g, SetsFrom(gs, i))
  PROVE  Timed(g, SetsFrom(gs, i + 1))
<1> DEFINE N == NodesOf(g)
           E == g.edges
           s == gs[i]
           T == SetsFrom(gs, i)
           T2 == SetsFrom(gs, i + 1)
           l == Len(s)
           place == [n \in N |-> IF n \in Range(s) THEN PlaceIn(s, n) ELSE 0]
<1>1. /\ Len(gs) \in Nat /\ DOMAIN gs = 1 .. Len(gs) /\ i \in 1 .. Len(gs) /\ i \in Nat
      /\ i + 1 \in Nat /\ s \in Seq(U) /\ l \in Nat /\ DOMAIN s = 1 .. l
  OBVIOUS
<1>2. /\ DOMAIN T = i .. Len(gs) /\ \A k \in DOMAIN T : T[k] = Range(gs[k])
      /\ DOMAIN T2 = (i + 1) .. Len(gs) /\ \A k \in DOMAIN T2 : T2[k] = Range(gs[k])
  BY DEF SetsFrom
<1>3. /\ \A k \in DOMAIN T : k \in DOMAIN gs /\ (k = i \/ k \in DOMAIN T2)
      /\ \A k \in DOMAIN T2 : k \in DOMAIN T /\ k \in DOMAIN gs /\ k # i
  <2>1. /\ \A k \in i .. Len(gs) : k \in 1 .. Len(gs) /\ (k = i \/ k \in (i + 1) .. Len(gs))
        /\ \A k \in (i + 1) .. Len(gs) : k \in i .. Len(gs) /\ k \in 1 .. Len(gs) /\ k # i
    BY <1>1, EachFrom
  <2> HIDE DEF T, T2
  <2>2. QED
    BY <1>1, <1>2, <2>1
<1>4. PICK f : IsTimed(f, N, E, T)
  BY DEF Timed
<1>5. IsInjective(s) /\ \A k \in DOMAIN gs : k # i => Range(gs[k]) \cap Range(s) = {}
  BY DEF Disjoint
<1>6. \A n \in Range(s) : PlaceIn(s, n) \in DOMAIN s /\ s[PlaceIn(s, n)] = n
  BY <1>5, PlaceOf
<1>7. place \in [N -> 0 .. l]
  <2>1. \A n \in N : (IF n \in Range(s) THEN PlaceIn(s, n) ELSE 0) \in 0 .. l
    BY <1>1, <1>6
  <2>2. QED
    BY <2>1
<1>8. \A n \in N : place[n] = IF n \in Range(s) THEN PlaceIn(s, n) ELSE 0
  OBVIOUS
<1>9. \A e \in E : e.src \in N /\ e.dst \in N
  BY DEF IsGraphOf
<1>10. InSequence(E, s)
  OBVIOUS
<1> HIDE DEF N, E, s, T, T2, l, place
<1>11. \A k \in DOMAIN T : T[k] \subseteq N
  BY <1>4 DEF IsTimed
<1>12. \A k \in DOMAIN T2 : (\E j \in DOMAIN T : T2[k] \subseteq T[j]) /\ \A x \in T2[k] : place[x] = 0
  <2> TAKE k \in DOMAIN T2
  <2>1. T2[k] = Range(gs[k]) /\ T[k] = Range(gs[k]) /\ k \in DOMAIN T
    BY <1>2, <1>3
  <2>2. \A x \in T2[k] : x \in N /\ x \notin Range(s)
    BY <1>3, <1>5, <1>11, <2>1
  <2>3. QED
    BY <1>8, <2>1, <2>2
<1>13. ASSUME NEW e \in E, NEW k \in DOMAIN T, {e.src, e.dst} \subseteq T[k]
       PROVE  (\E j \in DOMAIN T2 : {e.src, e.dst} \subseteq T2[j]) \/ place[e.src] < place[e.dst]
  <2>1. CASE k = i
    <3>1. e.src \in Range(s) /\ e.dst \in Range(s)
      BY <1>2, <1>13, <2>1 DEF s
    <3>2. PlaceIn(s, e.src) < PlaceIn(s, e.dst)
      BY <1>6, <1>10, <3>1 DEF InSequence
    <3>3. QED
      BY <1>8, <1>9, <3>1, <3>2
  <2>2. CASE k # i
    BY <1>2, <1>3, <1>13, <2>2
  <2>3. QED
    BY <2>1, <2>2
<1>14. \E f2 : IsTimed(f2, N, E, T2)
  BY <1>1, <1>4, <1>7, <1>9, <1>12, <1>13, Retimed
<1>15. QED
  BY <1>14 DEF Timed, N, E, T2

(* Times once a group has become one node. *)
LEMMA FusedTimed ==
  ASSUME NEW h, NEW g, IsGraphOf(h, g), NEW U, NEW gs \in Seq(Seq(U)), Disjoint(gs),
         NEW i \in DOMAIN gs, Timed(g, SetsFrom(gs, i)), Range(gs[i]) # {},
         NEW g2, NEW mo, NEW into, NEW from, IsFused(g, g2, Range(gs[i]), mo, into, from)
  PROVE  Timed(g2, SetsFrom(gs, i + 1))
<1> DEFINE N == NodesOf(g)
           N2 == NodesOf(g2)
           M == Range(gs[i])
           id == g.last + 1
           T == SetsFrom(gs, i)
           T2 == SetsFrom(gs, i + 1)
<1>1. Len(gs) \in Nat /\ DOMAIN gs = 1 .. Len(gs) /\ i \in Nat
  OBVIOUS
<1>2. /\ DOMAIN T = i .. Len(gs) /\ \A k \in DOMAIN T : T[k] = Range(gs[k])
      /\ DOMAIN T2 = (i + 1) .. Len(gs) /\ \A k \in DOMAIN T2 : T2[k] = Range(gs[k])
  BY DEF SetsFrom
<1>3. /\ \A k \in DOMAIN T : k \in DOMAIN gs /\ (k = i \/ k \in DOMAIN T2)
      /\ \A k \in DOMAIN T2 : k \in DOMAIN T /\ k \in DOMAIN gs /\ k # i
      /\ i \in DOMAIN T
  BY <1>1, <1>2
<1>4. PICK f : IsTimed(f, N, g.edges, T)
  BY DEF Timed
<1>5. \A k \in DOMAIN gs : k # i => Range(gs[k]) \cap M = {}
  BY DEF Disjoint
<1>6. /\ id \notin N /\ N2 = (N \ M) \cup {id}
      /\ \A e2 \in g2.edges : \E e \in g.edges :
           ~Within(M, e) /\ IsMoved(g, g2, M, into, from, e, e2)
  BY EdgesOfFused
<1>7. PICK m : m \in M
  OBVIOUS
<1>8. /\ f \in [N -> Int]
      /\ \A k \in DOMAIN T : T[k] \subseteq N /\ \A x, y \in T[k] : f[x] = f[y]
      /\ \A e \in g.edges : f[e.src] < f[e.dst] \/ \E k \in DOMAIN T : {e.src, e.dst} \subseteq T[k]
  BY <1>4 DEF IsTimed
<1>9. T[i] = M
  BY <1>2, <1>3
<1>10. \A e \in g.edges : e.src \in N /\ e.dst \in N
  BY DEF IsGraphOf
<1>11. M \subseteq N /\ \A x \in M : f[x] = f[m]
  BY <1>3, <1>7, <1>8, <1>9
<1> DEFINE f2 == [n \in N2 |-> IF n = id THEN f[m] ELSE f[n]]
<1>12. f2 \in [N2 -> Int] /\ \A n \in N2 : f2[n] = IF n = id THEN f[m] ELSE f[n]
  <2>1. \A n \in N2 : (IF n = id THEN f[m] ELSE f[n]) \in Int
    BY <1>6, <1>7, <1>8, <1>11
  <2>2. QED
    BY <2>1
<1> HIDE DEF f2, N, N2, M, T, T2
<1>13. \A x \in N : f2[At(M, id, x)] = f[x] /\ At(M, id, x) \in N2
  <2> TAKE x \in N
  <2>1. CASE x \in M
    BY <1>6, <1>11, <1>12, <2>1 DEF At
  <2>2. CASE x \notin M
    BY <1>6, <1>12, <2>2 DEF At
  <2>3. QED
    BY <2>1, <2>2
<1>14. ASSUME NEW k \in DOMAIN T2 PROVE T2[k] \subseteq N2 /\ \A x, y \in T2[k] : f2[x] = f2[y]
  <2>1. T2[k] = T[k] /\ T[k] \subseteq N /\ T[k] \cap M = {}
    BY <1>2, <1>3, <1>5, <1>8
  <2>2. \A x \in T2[k] : x \in N2 /\ f2[x] = f[x]
    BY <1>6, <1>12, <2>1
  <2>3. QED
    BY <1>3, <1>8, <2>1, <2>2
<1>15. ASSUME NEW e2 \in g2.edges
       PROVE  f2[e2.src] < f2[e2.dst] \/ \E k \in DOMAIN T2 : {e2.src, e2.dst} \subseteq T2[k]
  <2>1. PICK e \in g.edges : ~Within(M, e) /\ IsMoved(g, g2, M, into, from, e, e2)
    BY <1>6
  <2>2. e2.src = At(M, id, e.src) /\ e2.dst = At(M, id, e.dst)
    BY <2>1 DEF IsMoved
  <2>3. CASE f[e.src] < f[e.dst]
    BY <1>10, <1>13, <2>2, <2>3
  <2>4. CASE \E k \in DOMAIN T : {e.src, e.dst} \subseteq T[k]
    <3>1. PICK k \in DOMAIN T : {e.src, e.dst} \subseteq T[k]
      BY <2>4
    <3>2. k # i
      BY <1>9, <2>1, <3>1 DEF Within
    <3>3. k \in DOMAIN T2 /\ T2[k] = T[k] /\ T[k] \cap M = {}
      BY <1>2, <1>3, <1>5, <3>2
    <3>4. e2.src = e.src /\ e2.dst = e.dst
      BY <2>2, <3>1, <3>3 DEF At
    <3>5. QED
      BY <3>1, <3>3, <3>4
  <2>5. QED
    BY <1>8, <2>3, <2>4
<1>16. IsTimed(f2, N2, g2.edges, T2)
  BY <1>12, <1>14, <1>15 DEF IsTimed
<1>17. QED
  BY <1>16 DEF Timed, N2, T2

(* Sequences over a larger set. *)
LEMMA SeqsOver ==
  ASSUME NEW A, NEW B, A \subseteq B
  PROVE  Seq(Seq(A)) \subseteq Seq(Seq(B))
<1>1. \A S, T : S \subseteq T => Seq(S) \subseteq Seq(T)
  OBVIOUS
<1>2. Seq(A) \subseteq Seq(B)
  BY <1>1
<1>3. QED
  BY <1>1, <1>2

(* What is still to be fused when a group has become one node.             *)
LEMMA FusedRest ==
  ASSUME NEW h, NEW g, NEW g2, NEW gs, NEW mo, NEW into, NEW from, NEW i \in DOMAIN gs,
         FusedFrom(h, g, g2, Range(gs[i]), mo, into, from), Disjoint(gs), Range(gs[i]) # {},
         NEW linked, GroupsCanBeFused(h, g, gs, i, linked)
  PROVE  GroupsCanBeFused(h, g2, gs, i + 1, linked)
<1> DEFINE N == NodesOf(g)
           M == Range(gs[i])
           id == g.last + 1
<1>1. IsGraphOf(h, g) /\ IsFused(g, g2, M, mo, into, from) /\ FusedParts(h, g, g2, M, mo)
  BY FusedKernels DEF FusedFrom
<1>2. /\ M \subseteq N /\ M \cap ResultsOf(h) = {}
      /\ \A n \in N \ M : /\ g2.outs[n] = g.outs[n] /\ g2.kernels[n] = g.kernels[n]
                          /\ First(g2, n) = First(g, n)
  BY <1>1 DEF FusedParts
<1>3. /\ id \notin N /\ NodesOf(g2) = (N \ M) \cup {id}
      /\ \A e2 \in g2.edges : \E e \in g.edges :
           ~Within(M, e) /\ IsMoved(g, g2, M, into, from, e, e2)
  BY <1>1, EdgesOfFused
<1>4. /\ gs \in Seq(Seq(1 .. g.last)) /\ ToFuse(h, g, gs, i) /\ Needed(h, g, gs, i)
      /\ GroupsAlike(h, g, gs, i) /\ Timed(g, SetsFrom(gs, i))
      /\ linked => \A k \in DOMAIN gs : k >= i => Linked(h, g, gs[k])
  BY DEF GroupsCanBeFused
<1>5. g2.last = id /\ g.last \in Nat
  BY <1>1 DEF IsFused, FusedInto, IsGraphOf
<1>6. gs \in Seq(Seq(1 .. g2.last))
  <2>1. 1 .. g.last \subseteq 1 .. g2.last
    BY <1>5
  <2> DEFINE A == 1 .. g.last
             B == 1 .. g2.last
  <2>2. gs \in Seq(Seq(A)) /\ A \subseteq B
    BY <1>4, <2>1
  <2> HIDE DEF A, B
  <2>3. gs \in Seq(Seq(B))
    BY <2>2, SeqsOver
  <2>4. QED
    BY <2>3 DEF B
<1>7. \A k \in DOMAIN gs : k >= i + 1 => k >= i /\ k # i
  BY <1>4
<1>8. ASSUME NEW k \in DOMAIN gs, k >= i + 1
      PROVE  /\ \A n \in Range(gs[k]) : n \in N \ M /\ n # id /\ Fusable(h, g, n)
             /\ InSequence(g.edges, gs[k]) /\ AllAlike(h, g, gs[k])
             /\ linked => Linked(h, g, gs[k])
             /\ \A C \in Closed(h, g) : Range(gs[k]) \subseteq C
  <2>1. k >= i /\ k # i
    BY <1>7, <1>8
  <2>2. Range(gs[k]) \cap M = {}
    BY <2>1 DEF Disjoint
  <2>3. \A n \in Range(gs[k]) : Fusable(h, g, n)
    BY <1>4, <2>1 DEF ToFuse
  <2>4. QED
    BY <1>3, <1>4, <2>1, <2>2, <2>3 DEF Fusable, GroupsAlike, Needed
<1> HIDE DEF N, M, id
<1>9. ASSUME NEW e2 \in g2.edges, NEW n \in N \ M
      PROVE  \E e \in g.edges :
               /\ e2.src = n => e.src = n /\ e2.out = e.out
               /\ e2.dst = n => e.dst = n /\ e2.in = e.in
               /\ e.in = Control <=> e2.in = Control
               /\ \A x \in N \ M : (e2.src = x => e.src = x) /\ (e2.dst = x => e.dst = x)
  <2>1. PICK e \in g.edges : IsMoved(g, g2, M, into, from, e, e2)
    BY <1>3
  <2>2. /\ e2.src = At(M, id, e.src) /\ e2.dst = At(M, id, e.dst)
        /\ (e.in = Control <=> e2.in = Control)
        /\ e.dst \notin M => e2.in = e.in
        /\ e.src \notin M => e2.out = e.out
    BY <2>1 DEF IsMoved, id
  <2>3. \A x \in N \ M : (e2.src = x => e.src = x) /\ (e2.dst = x => e.dst = x)
    BY <1>3, <2>2 DEF At
  <2>4. QED
    BY <2>2, <2>3
<1>10. ASSUME NEW k \in DOMAIN gs, k >= i + 1, NEW n \in Range(gs[k])
       PROVE  Fusable(h, g2, n)
  <2>1. n \in N \ M /\ Fusable(h, g, n)
    BY <1>8, <1>10
  <2>2. \A e2 \in ReadersOf(g2, n) : e2.out = 1
    <3> TAKE e2 \in ReadersOf(g2, n)
    <3>1. e2 \in g2.edges /\ e2.src = n /\ e2.in # Control
      BY DEF ReadersOf
    <3>2. PICK e \in g.edges : e.src = n /\ e2.out = e.out /\ (e.in = Control <=> e2.in = Control)
      BY <1>9, <2>1, <3>1
    <3>3. e \in ReadersOf(g, n)
      BY <3>1, <3>2 DEF ReadersOf
    <3>4. QED
      BY <2>1, <3>2, <3>3 DEF Fusable
  <2>3. n \in NodesOf(g2)
    BY <1>3, <2>1
  <2>4. g2.outs[n] = g.outs[n] /\ g2.kernels[n] = g.kernels[n] /\ First(g2, n) = First(g, n)
    BY <1>2, <2>1
  <2>5. QED
    BY <2>1, <2>2, <2>3, <2>4 DEF Fusable
<1>11. ToFuse(h, g2, gs, i + 1)
  BY <1>10 DEF ToFuse
<1>12. Needed(h, g2, gs, i + 1)
  <2> SUFFICES ASSUME NEW C2 \in Closed(h, g2), NEW k \in DOMAIN gs, k >= i + 1, NEW n \in Range(gs[k])
               PROVE  n \in C2
    BY DEF Needed
  <2>1. ClosedBack(M, id, C2) \in Closed(h, g)
    BY <1>1, <1>2, FusedClosed DEF id
  <2>2. n \in ClosedBack(M, id, C2)
    BY <1>8, <2>1
  <2>3. n \notin M
    BY <1>8
  <2>4. QED
    BY <2>2, <2>3 DEF ClosedBack
<1>13. ASSUME NEW k \in DOMAIN gs, k >= i + 1
       PROVE  InSequence(g2.edges, gs[k]) /\ AllAlike(h, g2, gs[k])
  <2>1. ASSUME NEW e2 \in g2.edges, NEW a \in DOMAIN gs[k], NEW b \in DOMAIN gs[k],
               gs[k][a] = e2.src, gs[k][b] = e2.dst
        PROVE  a < b
    <3>1. gs[k][a] \in Range(gs[k]) /\ gs[k][b] \in Range(gs[k])
      BY InRange
    <3>2. e2.src \in N \ M /\ e2.dst \in N \ M
      BY <1>8, <1>13, <2>1, <3>1
    <3>3. PICK e \in g.edges : e.src = e2.src /\ e.dst = e2.dst
      BY <1>9, <3>2
    <3>4. QED
      BY <1>8, <1>13, <2>1, <3>3 DEF InSequence
  <2>2. \A n \in Range(gs[k]) : First(g2, n) = First(g, n)
    BY <1>2, <1>8, <1>13
  <2>3. QED
    BY <1>8, <1>13, <2>1, <2>2 DEF InSequence, AllAlike
<1>14. GroupsAlike(h, g2, gs, i + 1)
  BY <1>13 DEF GroupsAlike
<1>15. ASSUME linked, NEW k \in DOMAIN gs, k >= i + 1 PROVE Linked(h, g2, gs[k])
  <2>1. \A n \in Range(gs[k]) : First(g2, n) = First(g, n)
    BY <1>2, <1>8, <1>15
  <2>2. {First(g2, n) : n \in Range(gs[k])} = {First(g, n) : n \in Range(gs[k])}
    BY <2>1
  <2>3. Linked(h, g, gs[k])
    BY <1>8, <1>15
  <2>4. QED
    BY <2>1, <2>2, <2>3 DEF Linked
<1>16. Timed(g2, SetsFrom(gs, i + 1))
  BY <1>1, <1>4, FusedTimed DEF M
<1>17. QED
  BY <1>6, <1>11, <1>12, <1>14, <1>15, <1>16 DEF GroupsCanBeFused

(* The fused graph is fine. *)
LEMMA FusedIsFine ==
  ASSUME NEW h, NEW g, NEW g2, NEW s, NEW mo, NEW into, NEW from, NEW live, NEW linked,
         FusedFrom(h, g, g2, Range(s), mo, into, from), GraphIsFine(h, g, live, linked),
         AllAlike(h, g, s), linked => Linked(h, g, s)
  PROVE  GraphIsFine(h, g2, live, linked)
<1>1. IsFused(g, g2, Range(s), mo, into, from) /\ Range(s) \cap ResultsOf(h) = {}
  BY DEF FusedFrom, Fusable
<1>2. /\ IsGraphOf(h, g) /\ Supplied(h, g) /\ Preceded(h, g) /\ AllRun(h, g, live)
      /\ AlikeLinked(h, g, linked)
  BY DEF GraphIsFine
<1>3. IsGraphOf(h, g2)
  BY <1>1, <1>2, FusedIsGraph
<1>4. Supplied(h, g2)
  BY <1>2, FusedSupplied
<1>5. Preceded(h, g2)
  BY <1>2, FusedPreceded
<1>6. AllRun(h, g2, live)
  BY <1>2, FusedAllRun
<1>7. AlikeLinked(h, g2, linked)
  BY <1>2, FusedAreAlike
<1>8. QED
  BY <1>3, <1>4, <1>5, <1>6, <1>7 DEF GraphIsFine

(* A group that is not fused is passed over.                               *)
LEMMA PassedRest ==
  ASSUME NEW h, NEW g, IsGraphOf(h, g), NEW gs, Disjoint(gs), NEW i \in DOMAIN gs,
         NEW linked, GroupsCanBeFused(h, g, gs, i, linked)
  PROVE  GroupsCanBeFused(h, g, gs, i + 1, linked)
<1>1. /\ gs \in Seq(Seq(1 .. g.last)) /\ ToFuse(h, g, gs, i) /\ Needed(h, g, gs, i)
      /\ GroupsAlike(h, g, gs, i) /\ Timed(g, SetsFrom(gs, i))
      /\ linked => \A k \in DOMAIN gs : k >= i => Linked(h, g, gs[k])
  BY DEF GroupsCanBeFused
<1>2. \A k \in DOMAIN gs : k >= i + 1 => k >= i
  BY <1>1
<1>3. i >= i
  BY <1>1
<1>4. InSequence(g.edges, gs[i])
  BY <1>1, <1>3 DEF GroupsAlike
<1>5. Timed(g, SetsFrom(gs, i + 1))
  BY <1>1, <1>4, GroupPassed
<1>6. ToFuse(h, g, gs, i + 1) /\ GroupsAlike(h, g, gs, i + 1) /\ Needed(h, g, gs, i + 1)
  BY <1>1, <1>2 DEF ToFuse, GroupsAlike, Needed
<1>7. QED
  BY <1>1, <1>2, <1>5, <1>6 DEF GroupsCanBeFused

(* A number that is given to a node and not used.                          *)
LEMMA LastRaised ==
  ASSUME NEW h, NEW g, IsGraphOf(h, g), NEW g2,
         g2.edges = g.edges, g2.ins = g.ins, g2.outs = g.outs, g2.kernels = g.kernels,
         g2.last = g.last + 1
  PROVE  /\ \A live, linked : GraphIsFine(h, g, live, linked) => GraphIsFine(h, g2, live, linked)
         /\ \A gs, i, linked : GroupsCanBeFused(h, g, gs, i, linked)
                                 => GroupsCanBeFused(h, g2, gs, i, linked)
<1>1. NodesOf(g2) = NodesOf(g) /\ (\A n : First(g2, n) = First(g, n))
      /\ (\A n : ReadersOf(g2, n) = ReadersOf(g, n)) /\ Closed(h, g2) = Closed(h, g)
  BY DEF NodesOf, First, ReadersOf, Closed
<1>2. g.last \in Nat /\ g2.last \in Nat /\ 1 .. g.last \subseteq 1 .. g2.last
  <2>1. g.last \in Nat
    BY DEF IsGraphOf
  <2>2. QED
    BY <2>1
<1>3. IsGraphOf(h, g2)
  BY <1>1, <1>2 DEF IsGraphOf
<1>4. ASSUME NEW live, NEW linked, GraphIsFine(h, g, live, linked)
      PROVE  GraphIsFine(h, g2, live, linked)
  <2>0. /\ Supplied(h, g) /\ Preceded(h, g) /\ AllRun(h, g, live)
        /\ AlikeLinked(h, g, linked)
    BY <1>4 DEF GraphIsFine
  <2>1. Supplied(h, g2)
    <3> DEFINE S(E, I, O, K) ==
                 /\ \A e \in E : e.in # Control =>
                      /\ e.in \in DOMAIN I[e.dst] /\ e.out \in DOMAIN O[e.src]
                      /\ O[e.src][e.out] = I[e.dst][e.in]
                 /\ \A n \in DOMAIN K : \A i \in DOMAIN I[n] :
                      i # Control /\ \E e \in E : e.dst = n /\ e.in = i
                 /\ \A n \in DOMAIN K : \A d \in h.edges :
                      d.dst \in Range(K[n]) /\ d.src \notin Range(K[n]) /\ d.in # Control =>
                        \E i \in DOMAIN I[n] : I[n][i] = <<d.src, d.out>>
    <3>1. S(g.edges, g.ins, g.outs, g.kernels)
      BY <2>0, Zenon DEF Supplied, NodesOf
    <3>2. S(g2.edges, g2.ins, g2.outs, g2.kernels)
      <4> HIDE DEF S
      <4>1. QED
        BY <3>1
    <3>3. QED
      BY <3>2, Zenon DEF Supplied, NodesOf
  <2>2. Preceded(h, g2)
    BY <1>1, <2>0 DEF Preceded
  <2>3. AllRun(h, g2, live) /\ AlikeLinked(h, g2, linked)
    BY <1>1, <2>0 DEF AllRun, AlikeLinked
  <2>4. QED
    BY <1>3, <2>1, <2>2, <2>3 DEF GraphIsFine
<1>5. ASSUME NEW gs, NEW i, NEW linked, GroupsCanBeFused(h, g, gs, i, linked)
      PROVE  GroupsCanBeFused(h, g2, gs, i, linked)
  <2>1. gs \in Seq(Seq(1 .. g2.last))
    <3> DEFINE A == 1 .. g.last
               B == 1 .. g2.last
    <3>1. gs \in Seq(Seq(A)) /\ A \subseteq B
      BY <1>2, <1>5 DEF GroupsCanBeFused
    <3> HIDE DEF A, B
    <3>2. gs \in Seq(Seq(B))
      BY <3>1, SeqsOver
    <3>3. QED
      BY <3>2 DEF B
  <2>2. ToFuse(h, g2, gs, i) /\ Needed(h, g2, gs, i)
    BY <1>1, <1>5 DEF GroupsCanBeFused, ToFuse, Fusable, Needed
  <2>3. GroupsAlike(h, g2, gs, i) /\ Timed(g2, SetsFrom(gs, i))
    BY <1>1, <1>5 DEF GroupsCanBeFused, GroupsAlike, InSequence, AllAlike, Timed
  <2>4. linked => \A k \in DOMAIN gs : k >= i => Linked(h, g2, gs[k])
    <3>1. \A s : Linked(h, g2, s) <=> Linked(h, g, s)
      <4> TAKE s
      <4>1. {First(g2, n) : n \in Range(s)} = {First(g, n) : n \in Range(s)}
        BY <1>1
      <4>2. QED
        BY <1>1, <4>1 DEF Linked
    <3>2. QED
      BY <1>5, <3>1 DEF GroupsCanBeFused
  <2>5. QED
    BY <2>1, <2>2, <2>3, <2>4 DEF GroupsCanBeFused
<1>6. QED
  BY <1>4, <1>5

(* The nodes of a group are all in the order of the program.               *)
LEMMA GroupIsOrdered ==
  ASSUME IsGraphOf(given, graph), Disjoint(groups), NEW i \in DOMAIN groups, NEW linked,
         GroupsCanBeFused(given, graph, groups, i, linked)
  PROVE  NoCycle(graph) /\ Range(groups[i]) \subseteq Range(OrderedOps)
<1>1. /\ groups \in Seq(Seq(1 .. graph.last)) /\ Timed(graph, SetsFrom(groups, i))
      /\ GroupsAlike(given, graph, groups, i) /\ Needed(given, graph, groups, i)
  BY DEF GroupsCanBeFused
<1>2. i \in Nat \ {0} /\ i >= i
  BY <1>1
<1>3. \A k \in DOMAIN groups : k >= i => InSequence(graph.edges, groups[k])
  BY <1>1 DEF GroupsAlike
<1>4. NoCycle(graph)
  BY <1>1, <1>2, <1>3, TimedNoCycle
<1>5. Range(OrderedOps) \in Closed(given, graph)
  BY <1>4, OrderIsClosed
<1>6. QED
  BY <1>1, <1>2, <1>4, <1>5 DEF Needed

(* Fusing a group keeps all of this. *)
LEMMA FusePInv ==
  ASSUME KInv, PInv, FuseElementGroupOnGraph
  PROVE  PInv'
<1> DEFINE s == groups[index]
           M == Range(s)
           many == HomeOf(Last(s)) \in Limited /\ Len(Inputs(M)) + Len(Writers(M)) >= MaxArgs
           linked == level = 3
<1>1. /\ phase = "fuse" /\ index <= Len(groups)
      /\ graph' = IF Len(s) <= 1 THEN graph
                  ELSE IF many THEN [graph EXCEPT !.last = @ + 1] ELSE Fused(M)
      /\ index' = index + 1
      /\ given' = given /\ level' = level /\ phase' = phase /\ tagged' = tagged /\ groups' = groups
  BY DEF FuseElementGroupOnGraph, walkVars
<1>2. /\ IsPlain(given) /\ AllLive(given, tagged)
      /\ DOMAIN graph = {"edges", "ins", "outs", "kernels", "last"}
      /\ GraphIsFine(given, graph, tagged, linked)
      /\ GroupsCanBeFused(given, graph, groups, index, linked)
  BY <1>1 DEF PInv, Fusing
<1>3. Disjoint(groups) /\ index \in Nat \ {0}
  BY <1>1 DEF KInv, Extracting
<1>4. groups \in Seq(Seq(1 .. graph.last)) /\ IsGraphOf(given, graph)
  BY <1>2 DEF GroupsCanBeFused, GraphIsFine
<1>5. index \in DOMAIN groups /\ s \in Seq(1 .. graph.last)
  BY <1>1, <1>3, <1>4
<1>6. GroupsCanBeFused(given, graph, groups, index + 1, linked)
  BY <1>2, <1>3, <1>4, <1>5, PassedRest
<1> DEFINE Good(g) == /\ DOMAIN g = {"edges", "ins", "outs", "kernels", "last"}
                      /\ GraphIsFine(given, g, tagged, linked)
                      /\ GroupsCanBeFused(given, g, groups, index + 1, linked)
<1>7. Good(graph)
  BY <1>2, <1>6
<1>8. Good([graph EXCEPT !.last = @ + 1])
  <2> DEFINE g2 == [graph EXCEPT !.last = @ + 1]
  <2>1. /\ DOMAIN g2 = {"edges", "ins", "outs", "kernels", "last"}
        /\ g2.edges = graph.edges /\ g2.ins = graph.ins /\ g2.outs = graph.outs
        /\ g2.kernels = graph.kernels /\ g2.last = graph.last + 1
    BY <1>2
  <2> HIDE DEF g2
  <2>2. GraphIsFine(given, g2, tagged, linked)
    BY <1>2, <1>4, <2>1, LastRaised
  <2>3. GroupsCanBeFused(given, g2, groups, index + 1, linked)
    BY <1>4, <1>6, <2>1, LastRaised
  <2>4. Good(g2)
    BY <2>1, <2>2, <2>3
  <2> HIDE DEF Good
  <2>5. QED
    BY <2>4, Zenon DEF g2
<1>9. ASSUME ~(Len(s) <= 1) PROVE Good(Fused(M))
  <2> DEFINE g2 == Fused(M)
             mo == MembersInOrder(M)
             into == Inputs(M)
             from == Writers(M)
  <2>1. DOMAIN g2 = {"edges", "ins", "outs", "kernels", "last"}
    BY DEF Fused
  <2>2. NoCycle(graph) /\ M \subseteq Range(OrderedOps)
    BY <1>2, <1>3, <1>4, <1>5, GroupIsOrdered
  <2> HIDE DEF M
  <2>3. IsFused(graph, g2, M, mo, into, from)
    BY <1>4, <2>2, FusedIs
  <2> HIDE DEF g2, mo, into, from
  <2>4. index >= index /\ M = Range(groups[index])
    BY <1>3 DEF M
  <2>5. \A m \in M : Fusable(given, graph, m)
    BY <1>2, <1>5, <2>4 DEF GroupsCanBeFused, ToFuse
  <2>6. FusedFrom(given, graph, g2, M, mo, into, from)
    BY <1>4, <2>3, <2>5 DEF FusedFrom
  <2>7. M # {}
    <3>1. 1 \in DOMAIN s
      BY <1>5, <1>9
    <3>2. s[1] \in Range(s)
      BY <3>1, InRange
    <3>3. QED
      BY <3>2 DEF M
  <2>8. GroupsCanBeFused(given, g2, groups, index + 1, linked)
    BY <1>2, <1>3, <1>5, <2>4, <2>6, <2>7, FusedRest
  <2>9. AllAlike(given, graph, s) /\ (linked => Linked(given, graph, s))
    BY <1>2, <1>5, <2>4 DEF GroupsCanBeFused, GroupsAlike
  <2>10. GraphIsFine(given, g2, tagged, linked)
    BY <1>2, <2>6, <2>9, FusedIsFine DEF M
  <2>11. QED
    BY <2>1, <2>8, <2>10 DEF g2
<1> HIDE DEF Good, s, M
<1>10. Good(graph')
  <2>1. CASE Len(s) <= 1
    BY <1>1, <1>7, <2>1
  <2>2. CASE ~(Len(s) <= 1) /\ many
    BY <1>1, <1>8, <2>2
  <2>3. CASE ~(Len(s) <= 1) /\ ~many
    BY <1>1, <1>9, <2>3
  <2>4. QED
    BY <2>1, <2>2, <2>3
<1>11. /\ DOMAIN graph' = {"edges", "ins", "outs", "kernels", "last"}
       /\ GraphIsFine(given, graph', tagged, linked)
       /\ GroupsCanBeFused(given, graph', groups, index', linked)
  BY <1>1, <1>10 DEF Good
<1>12. QED
  BY <1>1, <1>2, <1>11 DEF PInv, Fusing, Extracting

(* Once all groups have been looked at nothing changes any more.           *)
LEMMA FinishPInv ==
  ASSUME KInv, PInv, Finish
  PROVE  PInv'
BY DEF Finish, walkVars, PInv, Fusing, Extracting

(***************************************************************************)
(* What is visited has times. *)
(***************************************************************************)
Together(gs, x, y) == \E k \in DOMAIN gs : {x, y} \subseteq Range(gs[k])

VisitTimed(f, now, E, seen, gs, last) ==
  /\ f \in [seen -> Int] /\ now \in Int
  /\ \A n \in seen : IF n \in Range(last) THEN f[n] = now ELSE f[n] < now
  /\ \A x, y : Together(gs, x, y) => f[x] = f[y]
  /\ \A e \in E : e.dst \in seen => f[e.src] < f[e.dst] \/ Together(gs, e.src, e.dst)

(* VisitTimes, with the times named.                                       *)
LEMMA VisitTimesAre ==
  ASSUME NEW E, NEW seen, NEW gs, NEW last
  PROVE  VisitTimes(E, seen, gs, last) <=> \E f, now : VisitTimed(f, now, E, seen, gs, last)
<1>1. ASSUME NEW f, NEW now
      PROVE  (\A k \in DOMAIN gs : \A x, y \in Range(gs[k]) : f[x] = f[y])
               <=> \A x, y : Together(gs, x, y) => f[x] = f[y]
  BY DEF Together
<1>2. ASSUME VisitTimes(E, seen, gs, last)
      PROVE  \E f, now : VisitTimed(f, now, E, seen, gs, last)
  <2>1. PICK f \in [seen -> Int], now \in Int :
          /\ \A n \in seen : IF n \in Range(last) THEN f[n] = now ELSE f[n] < now
          /\ \A k \in DOMAIN gs : \A x, y \in Range(gs[k]) : f[x] = f[y]
          /\ \A e \in E : e.dst \in seen =>
               f[e.src] < f[e.dst] \/ \E k \in DOMAIN gs : {e.src, e.dst} \subseteq Range(gs[k])
    BY <1>2 DEF VisitTimes
  <2>2. VisitTimed(f, now, E, seen, gs, last)
    BY <1>1, <2>1 DEF VisitTimed, Together
  <2>3. QED
    BY <2>2
<1>3. ASSUME NEW f, NEW now, VisitTimed(f, now, E, seen, gs, last)
      PROVE  VisitTimes(E, seen, gs, last)
  <2>1. /\ f \in [seen -> Int] /\ now \in Int
        /\ \A n \in seen : IF n \in Range(last) THEN f[n] = now ELSE f[n] < now
        /\ \A k \in DOMAIN gs : \A x, y \in Range(gs[k]) : f[x] = f[y]
        /\ \A e \in E : e.dst \in seen =>
             f[e.src] < f[e.dst] \/ \E k \in DOMAIN gs : {e.src, e.dst} \subseteq Range(gs[k])
    BY <1>1, <1>3 DEF VisitTimed, Together
  <2>2. QED
    BY <2>1 DEF VisitTimes
<1>4. QED
  BY <1>2, <1>3

(* A node is visited, later than what is visited or at the time of the     *)
(* open group.                                                             *)
LEMMA VisitedAt ==
  ASSUME NEW E, NEW seen, NEW gs, NEW last, VisitTimes(E, seen, gs, last),
         NEW n, n \notin seen,
         \A e \in E : (e.dst \in seen => e.src \in seen) /\ (e.dst = n => e.src \in seen),
         NEW gs2, NEW last2,
         \A x, y : Together(gs, x, y) => x \in seen /\ y \in seen /\ Together(gs2, x, y),
         \/ /\ Range(last2) \subseteq {n}
            /\ \A x, y : Together(gs2, x, y) => x = y \/ Together(gs, x, y)
         \/ /\ Range(last2) = Range(last) \cup {n} /\ Range(last) \subseteq seen
            /\ \A x, y : Together(gs2, x, y)
                 <=> Together(gs, x, y) \/ (x \in Range(last2) /\ y \in Range(last2))
  PROVE  VisitTimes(E, seen \cup {n}, gs2, last2)
<1>1. PICK f, now : VisitTimed(f, now, E, seen, gs, last)
  BY VisitTimesAre
<1>2. /\ f \in [seen -> Int] /\ now \in Int
      /\ \A x \in seen : IF x \in Range(last) THEN f[x] = now ELSE f[x] < now
      /\ \A x, y : Together(gs, x, y) => f[x] = f[y]
      /\ \A e \in E : e.dst \in seen => f[e.src] < f[e.dst] \/ Together(gs, e.src, e.dst)
  BY <1>1 DEF VisitTimed
<1> DEFINE V == seen \cup {n}
<1>3. ASSUME NEW t \in Int, NEW now2 \in Int, now <= t, now <= now2,
             \A x \in seen : (x \in Range(last2) => x \in Range(last) /\ now = now2)
                             /\ (x \notin Range(last2) /\ x \in Range(last) => now < now2),
             IF n \in Range(last2) THEN t = now2 ELSE t < now2,
             \A x, y : Together(gs2, x, y) =>
               \/ Together(gs, x, y) \/ x = y
               \/ t = now /\ x \in Range(last) \cup {n} /\ y \in Range(last) \cup {n},
             Range(last) \subseteq seen \/ now < t,
             now < t \/ \A x \in Range(last) : Together(gs2, x, n)
      PROVE  VisitTimes(E, V, gs2, last2)
  <2> DEFINE f2 == [x \in V |-> IF x = n THEN t ELSE f[x]]
  <2>1. f2 \in [V -> Int]
    <3>1. \A x \in V : (IF x = n THEN t ELSE f[x]) \in Int
      BY <1>2, <1>3
    <3>2. QED
      BY <3>1
  <2>2. f2[n] = t /\ \A x \in seen : f2[x] = f[x] /\ f[x] \in Int
    BY <1>2
  <2> HIDE DEF f2
  <2>3. \A x \in V : IF x \in Range(last2) THEN f2[x] = now2 ELSE f2[x] < now2
    <3> TAKE x \in V
    <3>1. CASE x = n
      BY <1>3, <2>2, <3>1
    <3>2. CASE x \in seen
      BY <1>2, <1>3, <2>2, <3>2
    <3>3. QED
      BY <3>1, <3>2
  <2>4. ASSUME NEW x, NEW y, Together(gs2, x, y) PROVE f2[x] = f2[y]
    <3>1. CASE Together(gs, x, y)
      BY <1>2, <2>2, <3>1
    <3>2. CASE x = y
      BY <3>2
    <3>3. CASE t = now /\ x \in Range(last) \cup {n} /\ y \in Range(last) \cup {n}
      <4>1. Range(last) \subseteq seen
        BY <1>2, <1>3, <3>3
      <4>2. \A z \in Range(last) \cup {n} : f2[z] = now
        BY <1>2, <2>2, <3>3, <4>1
      <4>3. QED
        BY <3>3, <4>2
    <3>4. QED
      BY <1>3, <2>4, <3>1, <3>2, <3>3
  <2>5. ASSUME NEW e \in E, e.dst \in V
        PROVE  f2[e.src] < f2[e.dst] \/ Together(gs2, e.src, e.dst)
    <3>1. CASE e.dst \in seen
      <4>1. e.src \in seen
        BY <3>1
      <4>2. f2[e.src] = f[e.src] /\ f2[e.dst] = f[e.dst]
        BY <2>2, <3>1, <4>1
      <4>3. QED
        BY <1>2, <3>1, <4>2
    <3>2. CASE e.dst = n
      <4>1. e.src \in seen /\ f2[e.src] = f[e.src] /\ f2[e.dst] = t /\ f[e.src] \in Int
        BY <2>2, <3>2
      <4>2. CASE e.src \in Range(last)
        <5>1. CASE now < t
          BY <1>2, <4>1, <4>2, <5>1
        <5>2. CASE \A x \in Range(last) : Together(gs2, x, n)
          BY <3>2, <4>2, <5>2
        <5>3. QED
          BY <1>3, <5>1, <5>2
      <4>3. CASE e.src \notin Range(last)
        BY <1>2, <1>3, <4>1, <4>3
      <4>4. QED
        BY <4>2, <4>3
    <3>3. QED
      BY <2>5, <3>1, <3>2
  <2>6. VisitTimed(f2, now2, E, V, gs2, last2)
    BY <2>1, <2>3, <2>4, <2>5 DEF VisitTimed
  <2>7. QED
    BY <2>6, VisitTimesAre
<1>4. CASE Range(last2) \subseteq {n} /\ \A x, y : Together(gs2, x, y) => x = y \/ Together(gs, x, y)
  <2> DEFINE t == now + 1
             now2 == IF n \in Range(last2) THEN now + 1 ELSE now + 2
  <2>1. /\ t \in Int /\ now2 \in Int /\ now <= t /\ now < t /\ now < now2 /\ now <= now2
        /\ IF n \in Range(last2) THEN t = now2 ELSE t < now2
    BY <1>2
  <2>2. \A x \in seen : x \notin Range(last2)
    BY <1>4
  <2> HIDE DEF t, now2, V
  <2>3. VisitTimes(E, V, gs2, last2)
    BY <1>3, <1>4, <2>1, <2>2
  <2>4. QED
    BY <2>3 DEF V
<1>5. CASE /\ Range(last2) = Range(last) \cup {n} /\ Range(last) \subseteq seen
           /\ \A x, y : Together(gs2, x, y)
                <=> Together(gs, x, y) \/ (x \in Range(last2) /\ y \in Range(last2))
  <2>1. now \in Int /\ now <= now /\ n \in Range(last2)
    BY <1>2, <1>5
  <2> HIDE DEF V
  <2>2. \A x \in seen : (x \in Range(last2) => x \in Range(last))
    BY <1>5
  <2>3. \A x, y : Together(gs2, x, y) =>
               \/ Together(gs, x, y) \/ x = y
               \/ now = now /\ x \in Range(last) \cup {n} /\ y \in Range(last) \cup {n}
    BY <1>5
  <2>4. \A x \in Range(last) : Together(gs2, x, n)
    BY <1>5
  <2>5. \A x \in seen : x \notin Range(last2) /\ x \in Range(last) => now < now
    BY <1>5
  <2>6. VisitTimes(E, V, gs2, last2)
    BY <1>3, <1>5, <2>1, <2>2, <2>3, <2>4, <2>5
  <2>7. QED
    BY <2>6 DEF V
<1>6. QED
  BY <1>4, <1>5

(* Nothing is visited, and nothing that is joined by an edge is parted.    *)
LEMMA VisitTimesKept ==
  ASSUME NEW E, NEW seen, NEW gs, NEW last, VisitTimes(E, seen, gs, last),
         NEW gs2, NEW last2, Range(last2) = {},
         \A x, y : Together(gs2, x, y) => Together(gs, x, y),
         \A x, y : Together(gs, x, y) => x = y \/ Together(gs2, x, y),
         \A e \in E : e.src # e.dst
  PROVE  VisitTimes(E, seen, gs2, last2)
<1>1. PICK f, now : VisitTimed(f, now, E, seen, gs, last)
  BY VisitTimesAre
<1>2. /\ f \in [seen -> Int] /\ now \in Int
      /\ \A x \in seen : IF x \in Range(last) THEN f[x] = now ELSE f[x] < now
      /\ \A x, y : Together(gs, x, y) => f[x] = f[y]
      /\ \A e \in E : e.dst \in seen => f[e.src] < f[e.dst] \/ Together(gs, e.src, e.dst)
  BY <1>1 DEF VisitTimed
<1>3. now + 1 \in Int /\ \A x \in seen : f[x] \in Int /\ f[x] < now + 1
  BY <1>2
<1>4. VisitTimed(f, now + 1, E, seen, gs2, last2)
  BY <1>2, <1>3 DEF VisitTimed
<1>5. QED
  BY <1>4, VisitTimesAre

(* Two nodes are together when one of the groups has both.                 *)
LEMMA TogetherIs ==
  ASSUME NEW gs, NEW x, NEW y
  PROVE  Together(gs, x, y) <=> \E s \in Range(gs) : x \in Range(s) /\ y \in Range(s)
<1>1. ASSUME Together(gs, x, y) PROVE \E s \in Range(gs) : x \in Range(s) /\ y \in Range(s)
  <2>1. PICK k \in DOMAIN gs : x \in Range(gs[k]) /\ y \in Range(gs[k])
    BY <1>1 DEF Together
  <2>2. gs[k] \in Range(gs)
    BY InRange
  <2>3. QED
    BY <2>1, <2>2
<1>2. ASSUME NEW s \in Range(gs), x \in Range(s), y \in Range(s) PROVE Together(gs, x, y)
  <2>1. PICK k \in DOMAIN gs : gs[k] = s
    BY InRange
  <2>2. QED
    BY <1>2, <2>1 DEF Together
<1>3. QED
  BY <1>1, <1>2

(* GroupsAlike of all groups, whatever their places.                       *)
LEMMA GroupsAlikeAre ==
  ASSUME NEW h, NEW g, NEW U, NEW gs \in Seq(U)
  PROVE  GroupsAlike(h, g, gs, 1)
           <=> \A s \in Range(gs) : InSequence(g.edges, s) /\ AllAlike(h, g, s)
<1>1. \A k \in DOMAIN gs : k >= 1
  OBVIOUS
<1>2. \A s : s \in Range(gs) <=> \E k \in DOMAIN gs : gs[k] = s
  BY InRange
<1>3. QED
  BY <1>1, <1>2 DEF GroupsAlike

(* A node from which no edge leads back may be put behind the others.      *)
LEMMA AppendInSequence ==
  ASSUME NEW T, NEW s \in Seq(T), NEW n \in T, NEW E, InSequence(E, s),
         \A e \in E : e.dst \in Range(s) \cup {n} => e.src # n
  PROVE  InSequence(E, Append(s, n))
<1> DEFINE l == Len(s)
           t == Append(s, n)
<1>1. /\ l \in Nat /\ DOMAIN s = 1 .. l /\ DOMAIN t = 1 .. l + 1 /\ t[l + 1] = n
      /\ \A i \in 1 .. l : t[i] = s[i]
  OBVIOUS
<1> HIDE DEF l, t
<1>2. ASSUME NEW e \in E, NEW a \in DOMAIN t, NEW b \in DOMAIN t, t[a] = e.src, t[b] = e.dst
      PROVE  a < b
  <2>1. a \in 1 .. l + 1 /\ b \in 1 .. l + 1
    BY <1>1
  <2>2. \A i \in 1 .. l + 1 : i = l + 1 \/ i \in 1 .. l
    BY <1>1
  <2>3. \A i \in 1 .. l : s[i] \in Range(s)
    BY <1>1, InRange
  <2>4. e.dst \in Range(s) \cup {n}
    BY <1>1, <1>2, <2>1, <2>2, <2>3
  <2>5. a # l + 1
    BY <1>1, <1>2, <2>4
  <2>6. a \in 1 .. l /\ s[a] = e.src
    BY <1>1, <1>2, <2>1, <2>2, <2>5
  <2>7. CASE b = l + 1
    BY <1>1, <2>6, <2>7
  <2>8. CASE b \in 1 .. l
    BY <1>1, <1>2, <2>6, <2>8 DEF InSequence
  <2>9. QED
    BY <2>1, <2>2, <2>7, <2>8
<1>3. QED
  BY <1>2 DEF InSequence, t

(* What is known while groups are formed. *)
GatheredWell(N) ==
  /\ groups \in Seq(Seq(N)) /\ group \in Seq(Seq(N)) /\ open \in Seq(N)
  /\ Gathered \in Seq(Seq(N)) /\ Range(Gathered) = Range(groups) \cup Range(group) \cup {open}
  /\ \A s \in Range(Gathered) : Range(s) \subseteq visited
  /\ visited \subseteq tagged /\ tagged \subseteq N
  /\ graph.edges = given.edges /\ \A n \in N : First(graph, n) = n
  /\ \A e \in given.edges : /\ e.src \in N /\ e.dst \in N /\ e.src # e.dst
                            /\ e.dst \in visited => e.src \in visited

(* The groups so far are disjoint and are of nodes that have been visited. *)
LEMMA WhileExtracting ==
  ASSUME KInv, Extracting
  PROVE  GatheredWell(DOMAIN given.kind)
<1> DEFINE N == DOMAIN given.kind
           p == groups \o group
<1>1. Queues /\ GroupsGather /\ graph.edges = given.edges
  BY DEF KInv, Extracting
<1>2. /\ groups \in Seq(Seq(N)) /\ group \in Seq(Seq(N)) /\ open \in Seq(N)
      /\ Range(FlattenSeq(Gathered)) \subseteq visited
  BY <1>1 DEF GroupsGather
<1>3. /\ p \in Seq(Seq(N)) /\ Gathered \in Seq(Seq(N)) /\ Gathered = Append(p, open)
  BY <1>1, GatheredFlat
<1>4. /\ visited \subseteq tagged /\ tagged \subseteq N
      /\ \A e \in given.edges : e.dst \in visited => e.src \in visited
  BY <1>1 DEF Queues
<1>5. \A n \in N : First(graph, n) = n
  BY KindsGiven
<1>6. \A e \in given.edges : e.src \in N /\ e.dst \in N /\ e.src # e.dst
  <2>1. IsGraph(given)
    BY AboutGiven DEF KInv
  <2>2. /\ N \subseteq Nat
        /\ \A e \in given.edges : e.src \in N /\ e.dst \in N /\ e.src < e.dst
    BY <2>1 DEF IsGraph
  <2>3. QED
    BY <2>2
<1> HIDE DEF N, p
<1>7. Range(p) = Range(groups) \cup Range(group)
  BY <1>2, ConcatRange DEF p
<1>8. Range(Gathered) = Range(p) \cup {open}
  <2>1. open \in Seq(N)
    BY <1>2
  <2>2. QED
    BY <1>3, <2>1, AppendRange
<1>9. \A s \in Range(Gathered) : Range(s) \subseteq visited
  <2> SUFFICES ASSUME NEW s \in Range(Gathered), NEW y \in Range(s) PROVE y \in visited
    OBVIOUS
  <2>1. PICK k \in DOMAIN Gathered : Gathered[k] = s
    BY InRange
  <2>2. y \in Range(FlattenSeq(Gathered))
    BY <1>3, <2>1, FlattenRange
  <2>3. QED
    BY <1>2, <2>2
<1>10. QED
  BY <1>1, <1>2, <1>3, <1>4, <1>5, <1>6, <1>7, <1>8, <1>9 DEF GatheredWell, N

(* A node in a queue has not been visited, and all that it depends on has. *)
LEMMA HeadWaits ==
  ASSUME KInv, Extracting
  PROVE  \A n \in Range(ready) \cup Range(elements) :
           /\ n \in tagged /\ n \notin visited
           /\ \A e \in given.edges : e.dst = n => e.src \in visited
BY DEF KInv, Queues, Extracting

(* A node that is not fused is visited later than all before it.           *)
LEMMA VisitReadyPInv ==
  ASSUME KInv, PInv, VisitReady
  PROVE  PInv'
<1> DEFINE n == Head(ready)
           N == DOMAIN given.kind
<1>1. /\ phase = "ready" /\ ready # <<>> /\ visited' = visited \cup {n}
      /\ UNCHANGED <<given, level, graph, phase, tagged, open, group, groups, index>>
  BY DEF VisitReady, AddNodeToReadyQueues
<1>2. Extracting /\ ready \in Seq(tagged)
  BY <1>1 DEF KInv, Extracting, Queues
<1>3. n \in Range(ready)
  <2>1. Head(ready) = ready[1] /\ 1 \in DOMAIN ready
    BY <1>1, <1>2
  <2>2. QED
    BY <2>1, InRange
<1>4. n \notin visited /\ \A e \in given.edges : e.dst = n => e.src \in visited
  BY <1>2, <1>3, HeadWaits
<1>5. GatheredWell(N)
  BY <1>2, WhileExtracting
<1>6. open = <<>>
  BY <1>1 DEF KInv, Extracting, GroupsGather
<1> HIDE DEF n, N
<1>7. VisitTimes(given.edges, visited, Gathered, open) /\ GroupsAlike(given, graph, Gathered, 1)
  BY <1>2 DEF PInv
<1>8. \A x, y : Together(Gathered, x, y) => x \in visited /\ y \in visited
  BY <1>5, TogetherIs DEF GatheredWell
<1>9. Range(open) = {}
  BY <1>6 DEF Range
<1>10. \A e \in given.edges : (e.dst \in visited => e.src \in visited) /\ (e.dst = n => e.src \in visited)
  BY <1>4, <1>5 DEF GatheredWell
<1>11. VisitTimes(given.edges, visited \cup {n}, Gathered, open)
  BY <1>4, <1>7, <1>8, <1>9, <1>10, VisitedAt
<1>12. Gathered' = Gathered
  BY <1>1 DEF Gathered
<1>13. /\ VisitTimes(given.edges, visited', Gathered', open')
       /\ GroupsAlike(given, graph, Gathered', 1)
  BY <1>1, <1>7, <1>11, <1>12
<1>14. QED
  BY <1>1, <1>2, <1>13 DEF PInv, Extracting, Fusing

(* Turning to the other queue changes no groups.                           *)
LEMMA StartElementsPInv ==
  ASSUME KInv, PInv, StartElements
  PROVE  PInv'
<1>1. /\ phase = "ready" /\ phase' = "elements"
      /\ UNCHANGED <<given, level, graph, walkVars, groups, index>>
  BY DEF StartElements
<1>2. Gathered' = Gathered
  BY <1>1 DEF Gathered, walkVars
<1>3. QED
  BY <1>1, <1>2 DEF PInv, Extracting, Fusing, walkVars

(* An element has the time of the open group, or begins a group and is     *)
(* later.                                                                  *)
LEMMA VisitElementPInv ==
  ASSUME KInv, PInv, VisitElement
  PROVE  PInv'
<1> DEFINE n == Head(elements)
           N == DOMAIN given.kind
           E == given.edges
           add == open = <<>> \/ Alike(Last(open), n)
<1>1. /\ phase = "elements" /\ elements # <<>> /\ visited' = visited \cup {n}
      /\ add => open' = Append(open, n) /\ group' = group
      /\ ~add => open' = <<n>> /\ group' = Append(group, open)
      /\ UNCHANGED <<given, level, graph, phase, tagged, groups, index>>
  BY DEF VisitElement, AddNodeToReadyQueues
<1>2. Extracting /\ elements \in Seq(tagged)
  BY <1>1 DEF KInv, Extracting, Queues
<1>3. n \in Range(elements)
  <2>1. Head(elements) = elements[1] /\ 1 \in DOMAIN elements
    BY <1>1, <1>2
  <2>2. QED
    BY <2>1, InRange
<1>4. n \in tagged /\ n \notin visited /\ \A e \in E : e.dst = n => e.src \in visited
  BY <1>2, <1>3, HeadWaits
<1>5. GatheredWell(N)
  BY <1>2, WhileExtracting
<1> HIDE DEF n, N, E
<1>6. VisitTimes(E, visited, Gathered, open) /\ GroupsAlike(given, graph, Gathered, 1)
  BY <1>2 DEF PInv, E
<1>7. /\ groups \in Seq(Seq(N)) /\ group \in Seq(Seq(N)) /\ open \in Seq(N) /\ n \in N
      /\ Gathered \in Seq(Seq(N)) /\ Range(Gathered) = Range(groups) \cup Range(group) \cup {open}
      /\ \A s \in Range(Gathered) : Range(s) \subseteq visited
      /\ graph.edges = E /\ \A x \in N : First(graph, x) = x
      /\ \A e \in E : /\ e.src # e.dst
                      /\ e.dst \in visited => e.src \in visited
  BY <1>4, <1>5 DEF GatheredWell, E
<1>8. Gathered' = (groups \o group') \o <<open'>>
  BY <1>1 DEF Gathered
<1>9. /\ group' \in Seq(Seq(N)) /\ open' \in Seq(N)
      /\ Range(group') = IF add THEN Range(group) ELSE Range(group) \cup {open}
      /\ Range(open') = IF add THEN Range(open) \cup {n} ELSE {n}
  <2> DEFINE T == Seq(N)
  <2>1. CASE add
    <3>1. Append(open, n) \in Seq(N) /\ Range(Append(open, n)) = Range(open) \cup {n}
      BY <1>7, AppendRange
    <3>2. QED
      BY <1>1, <1>7, <2>1, <3>1
  <2>2. CASE ~add
    <3>1. open \in T /\ group \in Seq(T)
      BY <1>7
    <3> HIDE DEF T
    <3>2. Append(group, open) \in Seq(T) /\ Range(Append(group, open)) = Range(group) \cup {open}
      BY <3>1, AppendRange
    <3>3. <<n>> \in T /\ Range(<<n>>) = {n}
      BY <1>7, OneElement DEF T
    <3>4. QED
      BY <1>1, <2>2, <3>2, <3>3 DEF T
  <2>3. QED
    BY <2>1, <2>2
<1>10. /\ Gathered' \in Seq(Seq(N))
       /\ Range(Gathered') = Range(groups) \cup Range(group') \cup {open'}
  <2> DEFINE T == Seq(N)
             q == groups \o group'
  <2>1. groups \in Seq(T) /\ group' \in Seq(T) /\ open' \in T
    BY <1>7, <1>9
  <2> HIDE DEF T
  <2>2. q \in Seq(T) /\ Range(q) = Range(groups) \cup Range(group')
    BY <2>1, ConcatRange
  <2> HIDE DEF q
  <2>3. <<open'>> \in Seq(T) /\ Range(<<open'>>) = {open'}
    BY <2>1, OneElement
  <2> DEFINE r == <<open'>>
  <2> HIDE DEF r
  <2>4. q \o r \in Seq(T) /\ Range(q \o r) = Range(q) \cup {open'}
    <3>1. r \in Seq(T) /\ Range(r) = {open'}
      BY <2>3 DEF r
    <3>2. QED
      BY <2>2, <3>1, ConcatRange
  <2>5. QED
    BY <1>8, <2>2, <2>4 DEF T, q, r
<1>11. Range(Gathered') = IF add THEN Range(groups) \cup Range(group) \cup {open'}
                          ELSE Range(Gathered) \cup {open'}
  BY <1>7, <1>9, <1>10
<1>12. open \in Range(Gathered) /\ Range(open) \subseteq visited
  BY <1>7
<1> DEFINE G == Gathered
           G2 == Gathered'
<1>13. /\ \A x, y : Together(G, x, y) <=> \E s \in Range(G) : x \in Range(s) /\ y \in Range(s)
       /\ \A x, y : Together(G2, x, y) <=> \E s \in Range(G2) : x \in Range(s) /\ y \in Range(s)
  BY TogetherIs
<1> HIDE DEF G, G2, add
<1>14. \A x, y : Together(G, x, y) => x \in visited /\ y \in visited /\ Together(G2, x, y)
  <2> SUFFICES ASSUME NEW x, NEW y, NEW s \in Range(G), x \in Range(s), y \in Range(s)
               PROVE  x \in visited /\ y \in visited /\ Together(G2, x, y)
    BY <1>13
  <2>1. x \in visited /\ y \in visited
    BY <1>7 DEF G
  <2>2. s \in Range(G2) \/ (s = open /\ open' \in Range(G2) /\ Range(open) \subseteq Range(open'))
    BY <1>7, <1>9, <1>11 DEF G, G2
  <2>3. QED
    BY <1>13, <2>1, <2>2
<1>15. ASSUME add
       PROVE  /\ VisitTimes(E, visited \cup {n}, G2, open')
              /\ InSequence(E, open') /\ AllAlike(given, graph, open')
  <2>1. \A x, y : Together(G2, x, y)
           <=> Together(G, x, y) \/ (x \in Range(open') /\ y \in Range(open'))
    <3>1. \A s : s \in Range(G2) => s \in Range(G) \/ s = open'
      BY <1>7, <1>11, <1>15 DEF G, G2
    <3>2. open' \in Range(G2)
      BY <1>10 DEF G2
    <3>3. QED
      BY <1>13, <1>14, <3>1, <3>2
  <2>2. Range(open') = Range(open) \cup {n}
    BY <1>9, <1>15
  <2> DEFINE last2 == open'
  <2> HIDE DEF last2
  <2>3. Range(last2) = Range(open) \cup {n} /\ Range(open) \subseteq visited
        /\ \A x, y : Together(G2, x, y)
           <=> Together(G, x, y) \/ (x \in Range(last2) /\ y \in Range(last2))
    BY <1>12, <2>1, <2>2 DEF last2
  <2>4. VisitTimes(E, visited, G, open) /\ n \notin visited
        /\ \A e \in E : (e.dst \in visited => e.src \in visited) /\ (e.dst = n => e.src \in visited)
    BY <1>4, <1>6, <1>7 DEF G
  <2>5. VisitTimes(E, visited \cup {n}, G2, last2)
    BY <1>14, <2>3, <2>4, VisitedAt
  <2>6. InSequence(E, open) /\ AllAlike(given, graph, open)
    <3>1. \A s \in Range(Gathered) : InSequence(graph.edges, s) /\ AllAlike(given, graph, s)
      BY <1>6, <1>7, GroupsAlikeAre
    <3>2. QED
      BY <1>7, <1>12, <3>1
  <2>7. InSequence(E, open')
    <3>1. \A e \in E : e.dst \in Range(open) \cup {n} => e.src # n
      BY <1>12, <2>4
    <3>2. InSequence(E, Append(open, n))
      BY <1>7, <2>6, <3>1, AppendInSequence
    <3>3. QED
      BY <1>1, <1>15, <3>2
  <2>8. AllAlike(given, graph, open')
    <3>1. CASE open = <<>>
      <4>1. Range(open') = {n}
        BY <2>2, <3>1 DEF Range
      <4>2. QED
        BY <4>1 DEF AllAlike
    <3>2. CASE open # <<>>
      <4>1. Alike(Last(open), n)
        BY <1>15, <3>2 DEF add
      <4>2. Last(open) \in Range(open)
        <5>1. Len(open) \in DOMAIN open /\ Last(open) = open[Len(open)]
          BY <1>7, <3>2 DEF Last
        <5>2. QED
          BY <5>1, InRange
      <4> DEFINE l == Last(open)
      <4> HIDE DEF l
      <4>3. given.size[First(graph, l)] = given.size[First(graph, n)]
            /\ given.home[First(graph, l)] = given.home[First(graph, n)]
        BY <4>1 DEF Alike, SizeOf, HomeOf, First, l
      <4>4. l \in Range(open)
        BY <4>2 DEF l
      <4>5. QED
        BY <2>2, <2>6, <4>3, <4>4 DEF AllAlike
    <3>3. QED
      BY <3>1, <3>2
  <2>9. QED
    BY <2>5, <2>7, <2>8 DEF last2
<1>16. ASSUME ~add
       PROVE  /\ VisitTimes(E, visited \cup {n}, G2, open')
              /\ InSequence(E, open') /\ AllAlike(given, graph, open')
  <2>1. Range(open') = {n}
    BY <1>9, <1>16
  <2>2. \A x, y : Together(G2, x, y) => x = y \/ Together(G, x, y)
    <3>1. \A s : s \in Range(G2) => s \in Range(G) \/ s = open'
      BY <1>11, <1>16 DEF G, G2
    <3>2. QED
      BY <1>13, <2>1, <3>1
  <2> DEFINE last2 == open'
  <2>3. Range(last2) \subseteq {n} /\ open' = <<n>>
    BY <1>1, <1>16, <2>1
  <2> HIDE DEF last2
  <2>4. VisitTimes(E, visited, G, open) /\ n \notin visited
        /\ \A e \in E : (e.dst \in visited => e.src \in visited) /\ (e.dst = n => e.src \in visited)
    BY <1>4, <1>6, <1>7 DEF G
  <2>5. VisitTimes(E, visited \cup {n}, G2, last2)
    BY <1>14, <2>2, <2>3, <2>4, VisitedAt
  <2>6. InSequence(E, open')
    <3>1. DOMAIN open' = {1} /\ open'[1] = n
      BY <2>3
    <3>2. QED
      BY <1>7, <3>1 DEF InSequence
  <2>7. AllAlike(given, graph, open')
    BY <2>1 DEF AllAlike
  <2>8. QED
    BY <2>5, <2>6, <2>7 DEF last2
<1>17. /\ VisitTimes(E, visited', Gathered', open')
       /\ InSequence(E, open') /\ AllAlike(given, graph, open')
  BY <1>1, <1>15, <1>16 DEF G2
<1>18. GroupsAlike(given, graph, Gathered', 1)
  <2>1. \A s \in Range(Gathered) : InSequence(graph.edges, s) /\ AllAlike(given, graph, s)
    BY <1>6, <1>7, GroupsAlikeAre
  <2>2. \A s \in Range(Gathered') : s \in Range(Gathered) \/ s = open'
    BY <1>7, <1>11
  <2> DEFINE gs == Gathered'
  <2>3. gs \in Seq(Seq(N)) /\ \A s \in Range(gs) : InSequence(graph.edges, s) /\ AllAlike(given, graph, s)
    BY <1>7, <1>10, <1>17, <2>1, <2>2
  <2> HIDE DEF gs
  <2>4. GroupsAlike(given, graph, gs, 1)
    BY <2>3, GroupsAlikeAre
  <2>5. QED
    BY <2>4 DEF gs
<1>19. QED
  BY <1>1, <1>2, <1>17, <1>18 DEF PInv, Extracting, Fusing, E

(* Groups that are closed or dropped keep their times.                     *)
LEMMA CloseGroupPInv ==
  ASSUME KInv, PInv, CloseGroup
  PROVE  PInv'
<1> DEFINE N == DOMAIN given.kind
           T == Seq(N)
           E == given.edges
           closed == Append(group, open)
           keep == Len(FlattenSeq(closed)) > 1
<1>1. /\ phase = "elements" /\ phase' = "ready"
      /\ groups' = IF keep THEN groups \o closed ELSE groups
      /\ open' = <<>> /\ group' = <<>>
      /\ UNCHANGED <<given, level, graph, tagged, visited, ready, elements, index>>
  BY DEF CloseGroup
<1>2. Extracting
  BY <1>1 DEF Extracting
<1>3. GatheredWell(N)
  BY <1>2, WhileExtracting
<1> HIDE DEF N, E
<1>4. VisitTimes(E, visited, Gathered, open) /\ GroupsAlike(given, graph, Gathered, 1)
  BY <1>2 DEF PInv, E
<1>5. /\ groups \in Seq(T) /\ group \in Seq(T) /\ open \in T
      /\ Gathered \in Seq(T) /\ Range(Gathered) = Range(groups) \cup Range(group) \cup {open}
      /\ graph.edges = E /\ \A e \in E : e.src # e.dst
  BY <1>3 DEF GatheredWell, E
<1>6. closed \in Seq(T) /\ Range(closed) = Range(group) \cup {open}
  <2> HIDE DEF T
  <2>1. QED
    BY <1>5, AppendRange
<1> HIDE DEF closed, keep
<1>7. groups' \in Seq(T) /\ Range(groups') = IF keep THEN Range(Gathered) ELSE Range(groups)
  <2>1. groups \o closed \in Seq(T) /\ Range(groups \o closed) = Range(groups) \cup Range(closed)
    <3> HIDE DEF T
    <3>1. QED
      BY <1>5, <1>6, ConcatRange
  <2>2. QED
    BY <1>1, <1>5, <1>6, <2>1
<1>8. Gathered' \in Seq(T) /\ Range(Gathered') = Range(groups') \cup {<<>>}
  <2> DEFINE r == <<<<>>>>
             q == groups' \o <<>>
  <2>1. <<>> \in T
    OBVIOUS
  <2>2. q = groups'
    BY <1>7
  <2>3. r \in Seq(T) /\ Range(r) = {<<>>}
    BY <2>1, OneElement
  <2>4. Gathered' = q \o r
    BY <1>1 DEF Gathered
  <2> HIDE DEF T, r, q
  <2>5. q \o r \in Seq(T) /\ Range(q \o r) = Range(q) \cup Range(r)
    BY <1>7, <2>2, <2>3, ConcatRange
  <2>6. QED
    BY <2>2, <2>3, <2>4, <2>5
<1>9. Range(<<>>) = {} /\ Range(open') = {}
  BY <1>1 DEF Range
<1>10. ASSUME ~keep, NEW s \in Range(closed), NEW x \in Range(s), NEW y \in Range(s)
       PROVE  x = y
  <2> DEFINE flat == FlattenSeq(closed)
  <2>1. flat \in Seq(N)
    BY <1>6, FlattenType
  <2>2. PICK k \in DOMAIN closed : closed[k] = s
    BY <1>10, InRange
  <2>3. x \in Range(flat) /\ y \in Range(flat)
    BY <1>6, <1>10, <2>2, FlattenRange
  <2>4. Len(flat) <= 1
    BY <1>10, <2>1 DEF keep
  <2> HIDE DEF flat
  <2>5. PICK i \in DOMAIN flat : flat[i] = x
    BY <2>3, InRange
  <2>6. PICK j \in DOMAIN flat : flat[j] = y
    BY <2>3, InRange
  <2>7. i = j
    BY <2>1, <2>4
  <2>8. QED
    BY <2>5, <2>6, <2>7
<1> DEFINE G == Gathered
           G2 == Gathered'
           last2 == open'
<1>11. /\ \A x, y : Together(G, x, y) <=> \E s \in Range(G) : x \in Range(s) /\ y \in Range(s)
       /\ \A x, y : Together(G2, x, y) <=> \E s \in Range(G2) : x \in Range(s) /\ y \in Range(s)
  BY TogetherIs
<1>12. Range(G) = Range(groups) \cup Range(closed)
       /\ Range(G2) = (IF keep THEN Range(G) ELSE Range(groups)) \cup {<<>>}
  BY <1>5, <1>6, <1>7, <1>8
<1> HIDE DEF G, G2, last2
<1>13. \A x, y : Together(G2, x, y) => Together(G, x, y)
  BY <1>9, <1>11, <1>12
<1>14. \A x, y : Together(G, x, y) => x = y \/ Together(G2, x, y)
  BY <1>10, <1>11, <1>12
<1>15. VisitTimes(E, visited, G, open) /\ Range(last2) = {}
  BY <1>4, <1>9 DEF G, last2
<1>16. VisitTimes(E, visited, G2, last2)
  BY <1>5, <1>13, <1>14, <1>15, VisitTimesKept
<1>17. GroupsAlike(given, graph, G2, 1)
  <2>1. \A s \in Range(G) : InSequence(graph.edges, s) /\ AllAlike(given, graph, s)
    BY <1>4, <1>5, GroupsAlikeAre DEF G
  <2>2. InSequence(graph.edges, <<>>) /\ AllAlike(given, graph, <<>>)
    BY <1>9 DEF InSequence, AllAlike
  <2>3. \A s \in Range(G2) : InSequence(graph.edges, s) /\ AllAlike(given, graph, s)
    BY <1>12, <2>1, <2>2
  <2>4. G2 \in Seq(T)
    BY <1>8 DEF G2
  <2> HIDE DEF T
  <2>5. QED
    BY <2>3, <2>4, GroupsAlikeAre
<1>18. /\ VisitTimes(given.edges, visited', Gathered', open')
       /\ GroupsAlike(given, graph, Gathered', 1)
  BY <1>1, <1>16, <1>17 DEF G2, last2, E
<1>19. QED
  BY <1>1, <1>2, <1>18 DEF PInv, Extracting, Fusing

(***************************************************************************)
(* A graph in which nothing is fused yet is fine.                          *)
(***************************************************************************)
LEMMA LiveIsRun ==
  ASSUME NEW h, NEW g, IsGraphOf(h, g), Unfused(h, g), Covers(h, g), NEW live, AllLive(h, live),
         NEW C \in Closed(h, g), NEW m \in live
  PROVE  \E n \in C : First(g, n) = m
<1> DEFINE K == DOMAIN h.kind
           C0 == {First(g, n) : n \in C}
<1>1. /\ C \subseteq NodesOf(g) /\ ResultsOf(h) \subseteq C
      /\ \A e \in g.edges : e.dst \in C => e.src \in C
  BY DEF Closed
<1>2. \A n \in NodesOf(g) : First(g, n) \in K
  <2> TAKE n \in NodesOf(g)
  <2>1. g.kernels[n] \in Seq(K) /\ g.kernels[n] = <<First(g, n)>>
    BY DEF IsGraphOf, Unfused
  <2>2. 1 \in DOMAIN g.kernels[n]
    BY <2>1
  <2>3. QED
    BY <2>1, <2>2 DEF First
<1>3. C0 \subseteq K
  BY <1>1, <1>2
<1>4. ResultsOf(h) \subseteq C0
  BY <1>1 DEF Unfused, ResultsOf
<1>5. ASSUME NEW d \in h.edges, d.dst \in C0 PROVE d.src \in C0
  <2>1. PICK n \in C : d.dst = First(g, n)
    BY <1>5
  <2>2. PICK e \in g.edges : e.dst = n /\ Below(g, e) = d
    BY <1>1, <2>1 DEF Covers
  <2>3. e.src \in C /\ First(g, e.src) = d.src
    BY <1>1, <2>1, <2>2 DEF Below
  <2>4. QED
    BY <2>3
<1> HIDE DEF C0
<1>6. live \subseteq C0
  BY <1>3, <1>4, <1>5 DEF AllLive
<1>7. QED
  BY <1>6 DEF C0

(* Until nodes are fused the graph is fine.                                *)
LEMMA CoversFine ==
  ASSUME NEW h, IsGraph(h), NEW g, IsGraphOf(h, g), Unfused(h, g), Covers(h, g),
         NEW live, AllLive(h, live), NEW linked
  PROVE  GraphIsFine(h, g, live, linked)
<1>1. \A d, e \in h.edges : d.dst = e.dst /\ d.in = e.in /\ e.in # Control => d = e
  BY DEF IsGraph
<1>2. /\ \A e \in g.edges : Below(g, e) \in h.edges
      /\ \A n \in NodesOf(g) : \A d \in h.edges :
           d.dst = First(g, n) => \E e \in g.edges : e.dst = n /\ Below(g, e) = d
      /\ \A n \in NodesOf(g) : \A i \in DOMAIN g.ins[n] : \E d \in h.edges :
           d.dst = First(g, n) /\ d.in = i /\ i # Control /\ g.ins[n][i] = <<d.src, d.out>>
      /\ \A n \in NodesOf(g) : \A d \in h.edges :
           d.dst = First(g, n) /\ d.in # Control => d.in \in DOMAIN g.ins[n]
      /\ \A n \in NodesOf(g) : \A i \in DOMAIN g.outs[n] : g.outs[n][i] = <<First(g, n), i>>
      /\ \A e \in g.edges : e.in # Control => e.out \in DOMAIN g.outs[e.src]
  BY DEF Covers
<1>3. /\ \A e \in g.edges : e.src \in NodesOf(g) /\ e.dst \in NodesOf(g)
      /\ \A n \in NodesOf(g) : g.kernels[n] = <<First(g, n)>>
  BY DEF IsGraphOf, Unfused
<1>4. \A e : /\ Below(g, e).src = First(g, e.src) /\ Below(g, e).out = e.out
             /\ Below(g, e).dst = First(g, e.dst) /\ Below(g, e).in = e.in
  BY DEF Below
<1>5. \A n \in NodesOf(g) : /\ Range(g.kernels[n]) = {First(g, n)}
                            /\ \A j \in DOMAIN g.kernels[n] : g.kernels[n][j] = First(g, n)
  <2> TAKE n \in NodesOf(g)
  <2> DEFINE x == First(g, n)
  <2>1. g.kernels[n] = <<x>>
    BY <1>3
  <2> HIDE DEF x
  <2>2. DOMAIN <<x>> = {1} /\ <<x>>[1] = x
    OBVIOUS
  <2>3. Range(<<x>>) = {x}
    BY <2>2 DEF Range
  <2>4. QED
    BY <2>1, <2>2, <2>3 DEF x
<1>6. ASSUME NEW n \in NodesOf(g), NEW d \in h.edges, d.dst = First(g, n), d.in # Control
      PROVE  d.in \in DOMAIN g.ins[n] /\ g.ins[n][d.in] = <<d.src, d.out>>
  <2>1. d.in \in DOMAIN g.ins[n]
    BY <1>2, <1>6
  <2>2. PICK c \in h.edges : c.dst = First(g, n) /\ c.in = d.in /\ g.ins[n][d.in] = <<c.src, c.out>>
    BY <1>2, <2>1
  <2>3. c = d
    BY <1>1, <1>6, <2>2
  <2>4. QED
    BY <2>1, <2>2, <2>3
<1>7. ASSUME NEW e \in g.edges, e.in # Control
      PROVE  /\ e.in \in DOMAIN g.ins[e.dst] /\ e.out \in DOMAIN g.outs[e.src]
             /\ g.outs[e.src][e.out] = g.ins[e.dst][e.in]
  <2> DEFINE d == Below(g, e)
  <2>1. d \in h.edges /\ d.src = First(g, e.src) /\ d.dst = First(g, e.dst) /\ d.in = e.in /\ d.out = e.out
    BY <1>2, <1>4
  <2> HIDE DEF d
  <2>2. e.in \in DOMAIN g.ins[e.dst] /\ g.ins[e.dst][e.in] = <<First(g, e.src), e.out>>
    BY <1>3, <1>6, <1>7, <2>1
  <2>3. e.out \in DOMAIN g.outs[e.src] /\ g.outs[e.src][e.out] = <<First(g, e.src), e.out>>
    BY <1>2, <1>3, <1>7
  <2>4. QED
    BY <2>2, <2>3
<1>8. ASSUME NEW n \in NodesOf(g), NEW i \in DOMAIN g.ins[n]
      PROVE  i # Control /\ \E e \in g.edges : e.dst = n /\ e.in = i
  <2>1. PICK d \in h.edges : d.dst = First(g, n) /\ d.in = i /\ i # Control
    BY <1>2
  <2>2. PICK e \in g.edges : e.dst = n /\ Below(g, e) = d
    BY <1>2, <2>1
  <2>3. QED
    BY <1>4, <2>1, <2>2
<1>9. Supplied(h, g)
  <2>1. \A n \in NodesOf(g) : \A d \in h.edges :
          d.dst \in Range(g.kernels[n]) /\ d.src \notin Range(g.kernels[n]) /\ d.in # Control =>
            \E i \in DOMAIN g.ins[n] : g.ins[n][i] = <<d.src, d.out>>
    BY <1>5, <1>6
  <2>2. QED
    BY <1>7, <1>8, <2>1 DEF Supplied
<1>10. Preceded(h, g)
  <2> SUFFICES ASSUME NEW n \in NodesOf(g), NEW d \in h.edges, NEW j \in DOMAIN g.kernels[n],
                      g.kernels[n][j] = d.dst
               PROVE  \E e \in g.edges : e.dst = n /\ d.src \in Range(g.kernels[e.src])
    BY DEF Preceded
  <2>1. PICK e \in g.edges : e.dst = n /\ Below(g, e) = d
    BY <1>2, <1>5
  <2>2. e.src \in NodesOf(g) /\ First(g, e.src) = d.src
    BY <1>3, <1>4, <2>1
  <2>3. QED
    BY <1>5, <2>1, <2>2
<1>11. AllRun(h, g, live)
  <2> SUFFICES ASSUME NEW C \in Closed(h, g), NEW m \in live
               PROVE  \E n \in C : m \in Range(g.kernels[n])
    BY DEF AllRun
  <2>1. PICK n \in C : First(g, n) = m
    BY LiveIsRun
  <2>2. n \in NodesOf(g)
    BY DEF Closed
  <2>3. QED
    BY <1>5, <2>1, <2>2
<1>12. AlikeLinked(h, g, linked)
  <2>1. \A x : ~(Cardinality({x}) > 1)
    <3> TAKE x
    <3>1. Cardinality({x}) = 1
      BY FS_Singleton
    <3>2. QED
      BY <3>1
  <2>2. QED
    BY <1>5, <2>1 DEF AlikeLinked
<1>13. QED
  BY <1>9, <1>10, <1>11, <1>12 DEF GraphIsFine

(* The groups can be fused. *)
LEMMA WantedNeeded ==
  ASSUME NEW h, IsGraph(h), NEW g, IsGraphOf(h, g), Unfused(h, g), Covers(h, g),
         NEW live, AllLive(h, live), live \subseteq DOMAIN h.kind,
         NEW gs \in Seq(Seq(NodesOf(g))), NEW looked,
         Absorbing(h, g, gs, looked), Wanted(h, g, live, gs)
  PROVE  ToFuse(h, g, gs, 1) /\ Needed(h, g, gs, 1)
<1> DEFINE K == DOMAIN h.kind
           N == NodesOf(g)
<1>1. /\ K \subseteq N
      /\ \A n \in N : g.kernels[n] = <<First(g, n)>>
      /\ \A n \in K : First(g, n) = n
      /\ \A n \in N \ K : h.kind[First(g, n)] = "broadcast"
  BY DEF Unfused
<1>2. /\ \A e \in h.edges : e.in # Control /\ h.kind[e.src] # "other" => e.out = 1
  BY DEF IsGraph, Control
<1>3. FusableKinds = {"elementwise", "reshape"} /\ "broadcast" \notin FusableKinds
  BY DEF FusableKinds
<1>4. ASSUME NEW k \in DOMAIN gs, NEW n \in Range(gs[k])
      PROVE  /\ n \in N
             /\ \/ n \in K /\ First(g, n) = n /\ h.kind[n] \in FusableKinds /\ n \in live
                \/ /\ h.kind[First(g, n)] = "broadcast"
                   /\ \E e \in ReadersOf(g, n) :
                        e.dst \in live /\ e.dst \in K /\ h.kind[e.dst] \in FusableKinds
  <2>1. n \in N
    <3>1. gs[k] \in Seq(N)
      OBVIOUS
    <3>2. PICK i \in DOMAIN gs[k] : gs[k][i] = n
      BY InRange
    <3>3. QED
      BY <3>1, <3>2
  <2>2. CASE n \in K /\ h.kind[n] \in FusableKinds
    <3>1. First(g, n) = n
      BY <1>1, <2>2
    <3>2. n \in live
      BY <2>2, <3>1 DEF Wanted
    <3>3. QED
      BY <2>1, <2>2, <3>1, <3>2
  <2>3. CASE /\ h.kind[First(g, n)] = "broadcast"
             /\ \A e \in ReadersOf(g, n) :
                  e.dst \in DOMAIN h.kind /\ h.kind[e.dst] \in FusableKinds /\ e.dst \in Range(gs[k])
    <3>1. PICK e \in ReadersOf(g, n) : e.dst \in live
      BY <1>3, <2>3 DEF Wanted
    <3>2. QED
      BY <2>1, <2>3, <3>1
  <2>4. QED
    BY <2>2, <2>3 DEF Absorbing
<1>5. ASSUME NEW k \in DOMAIN gs, NEW n \in Range(gs[k]) PROVE Fusable(h, g, n)
  <2>1. n \in N /\ h.kind[First(g, n)] \in FusableKinds \cup {"broadcast"}
    BY <1>4, <1>5
  <2>2. n \notin ResultsOf(h)
    BY <1>1, <1>3, <2>1 DEF ResultsOf
  <2>3. 1 \in DOMAIN g.outs[n] /\ g.outs[n][1] = <<First(g, n), 1>>
    BY <2>1 DEF Covers
  <2>4. \A e \in ReadersOf(g, n) : e.out = 1
    <3> TAKE e \in ReadersOf(g, n)
    <3>1. e \in g.edges /\ e.src = n /\ e.in # Control
      BY DEF ReadersOf
    <3> DEFINE d == Below(g, e)
    <3>2. d.src = First(g, n) /\ d.in = e.in /\ d.out = e.out
      BY <3>1 DEF Below
    <3>3. d \in h.edges
      BY <3>1 DEF Covers
    <3> HIDE DEF d
    <3>4. h.kind[d.src] # "other"
      BY <1>3, <2>1, <3>2
    <3>5. QED
      BY <1>2, <3>1, <3>2, <3>3, <3>4
  <2>5. QED
    BY <1>1, <2>1, <2>2, <2>3, <2>4 DEF Fusable
<1>6. ASSUME NEW C \in Closed(h, g), NEW m \in live, m \in K, h.kind[m] \in FusableKinds
      PROVE  m \in C
  <2>1. PICK n \in C : First(g, n) = m
    BY LiveIsRun
  <2>2. n \in N
    BY DEF Closed
  <2>3. n \in K
    BY <1>1, <1>3, <1>6, <2>1, <2>2
  <2>4. QED
    BY <1>1, <2>1, <2>3
<1>7. ASSUME NEW C \in Closed(h, g), NEW k \in DOMAIN gs, NEW n \in Range(gs[k]) PROVE n \in C
  <2>1. CASE n \in K /\ h.kind[n] \in FusableKinds /\ n \in live
    BY <1>6, <2>1
  <2>2. CASE \E e \in ReadersOf(g, n) : e.dst \in live /\ e.dst \in K /\ h.kind[e.dst] \in FusableKinds
    <3>1. PICK e \in ReadersOf(g, n) : e.dst \in live /\ e.dst \in K /\ h.kind[e.dst] \in FusableKinds
      BY <2>2
    <3>2. e \in g.edges /\ e.src = n
      BY DEF ReadersOf
    <3>3. e.dst \in C
      BY <1>6, <3>1
    <3>4. QED
      BY <3>2, <3>3 DEF Closed
  <2>3. QED
    BY <1>4, <2>1, <2>2
<1>8. QED
  BY <1>5, <1>7 DEF ToFuse, Needed

(* When all is visited, the rest of the graph comes later.                 *)
LEMMA AllTimed ==
  ASSUME NEW h, IsGraph(h), NEW seen, seen \subseteq DOMAIN h.kind,
         \A e \in h.edges : e.dst \in seen => e.src \in seen,
         NEW gs \in Seq(Seq(seen)), NEW gs2, NEW last2, Range(last2) = {},
         VisitTimes(h.edges, seen, gs2, last2), \A x, y : Together(gs2, x, y) <=> Together(gs, x, y)
  PROVE  \E f : IsTimed(f, DOMAIN h.kind, h.edges, SetsFrom(gs, 1))
<1> DEFINE N == DOMAIN h.kind
           E == h.edges
           T == SetsFrom(gs, 1)
<1>1. PICK f, now : VisitTimed(f, now, E, seen, gs2, last2)
  BY VisitTimesAre
<1>2. /\ f \in [seen -> Int] /\ now \in Int
      /\ \A x \in seen : f[x] < now
      /\ \A x, y : Together(gs, x, y) => f[x] = f[y]
      /\ \A e \in E : e.dst \in seen => f[e.src] < f[e.dst] \/ Together(gs, e.src, e.dst)
  BY <1>1 DEF VisitTimed
<1>3. /\ N \subseteq Nat
      /\ \A e \in E : e.src \in N /\ e.dst \in N /\ e.src < e.dst
  <2>1. N \subseteq Nat
    BY DEF IsGraph
  <2>2. QED
    BY <2>1, GivenEdges
<1>4. DOMAIN T = 1 .. Len(gs) /\ DOMAIN gs = 1 .. Len(gs) /\ \A k \in DOMAIN gs : T[k] = Range(gs[k])
  BY DEF SetsFrom
<1>5. \A k \in DOMAIN gs : \A x \in Range(gs[k]) : x \in seen
  <2> TAKE k \in DOMAIN gs
  <2>1. gs[k] \in Seq(seen)
    OBVIOUS
  <2>2. \A i \in DOMAIN gs[k] : gs[k][i] \in seen
    BY <2>1
  <2>3. QED
    BY <2>2, InRange
<1> DEFINE f2 == [n \in N |-> IF n \in seen THEN f[n] ELSE now + n]
<1>6. f2 \in [N -> Int]
  <2>1. \A n \in N : (IF n \in seen THEN f[n] ELSE now + n) \in Int
    BY <1>2, <1>3
  <2>2. QED
    BY <2>1
<1>7. \A n \in N : f2[n] = IF n \in seen THEN f[n] ELSE now + n
  OBVIOUS
<1> HIDE DEF f2, T, N, E
<1>8. ASSUME NEW k \in DOMAIN T PROVE T[k] \subseteq N /\ \A x, y \in T[k] : f2[x] = f2[y]
  <2>1. k \in DOMAIN gs /\ T[k] = Range(gs[k])
    BY <1>4
  <2>2. \A x \in T[k] : x \in seen /\ x \in N
    BY <1>5, <2>1 DEF N
  <2>3. \A x, y \in T[k] : Together(gs, x, y)
    BY <2>1 DEF Together
  <2>4. QED
    BY <1>2, <1>7, <2>2, <2>3
<1>9. ASSUME NEW e \in E
      PROVE  f2[e.src] < f2[e.dst] \/ \E k \in DOMAIN T : {e.src, e.dst} \subseteq T[k]
  <2>1. e.src \in N /\ e.dst \in N /\ e.src \in Nat /\ e.dst \in Nat /\ e.src < e.dst
    BY <1>3
  <2>2. CASE e.dst \in seen
    <3>1. e.src \in seen
      BY <2>2 DEF E
    <3>2. f2[e.src] = f[e.src] /\ f2[e.dst] = f[e.dst]
      BY <1>7, <2>1, <2>2, <3>1
    <3>3. Together(gs, e.src, e.dst) => \E k \in DOMAIN T : {e.src, e.dst} \subseteq T[k]
      BY <1>4 DEF Together
    <3>4. QED
      BY <1>2, <2>2, <3>2, <3>3
  <2>3. CASE e.dst \notin seen
    <3>1. f2[e.dst] = now + e.dst
      BY <1>7, <2>1, <2>3
    <3>2. CASE e.src \in seen
      <4>1. f2[e.src] = f[e.src] /\ f[e.src] \in Int /\ f[e.src] < now
        BY <1>2, <1>7, <2>1, <3>2
      <4>2. f2[e.src] < now + e.dst
        BY <1>2, <2>1, <4>1
      <4>3. QED
        BY <3>1, <4>2
    <3>3. CASE e.src \notin seen
      <4>1. f2[e.src] = now + e.src
        BY <1>7, <2>1, <3>3
      <4>2. now + e.src < now + e.dst
        BY <1>2, <2>1
      <4>3. QED
        BY <3>1, <4>1, <4>2
    <3>4. QED
      BY <3>2, <3>3
  <2>4. QED
    BY <2>2, <2>3
<1>10. IsTimed(f2, N, E, T)
  BY <1>6, <1>8, <1>9 DEF IsTimed
<1>11. QED
  BY <1>10 DEF N, E, T

(* When all has been visited, the times are those of all nodes.            *)
LEMMA EndExtractionPInv ==
  ASSUME KInv, PInv, EndExtraction
  PROVE  PInv'
<1> DEFINE N == DOMAIN given.kind
           E == given.edges
<1>1. /\ phase = "ready" /\ ready = <<>> /\ elements = <<>>
      /\ phase' = IF groups = <<>> THEN "done" ELSE IF level = 1 THEN "fuse" ELSE "absorb"
      /\ given' = given /\ level' = level /\ graph' = graph /\ tagged' = tagged
      /\ groups' = groups /\ index' = index
  BY DEF EndExtraction, walkVars
<1>2. Extracting /\ open = <<>> /\ group = <<>> /\ index = 1
  BY <1>1 DEF KInv, Extracting, GroupsGather
<1>3. /\ IsGraphOf(given, graph) /\ Unfused(given, graph) /\ Covers(given, graph)
      /\ NodesOf(graph) = N /\ graph.edges = E
      /\ IsPlain(given) /\ AllLive(given, tagged)
      /\ DOMAIN graph = {"edges", "ins", "outs", "kernels", "last"}
      /\ VisitTimes(E, visited, Gathered, open) /\ GroupsAlike(given, graph, Gathered, 1)
  BY <1>2 DEF KInv, PInv, Extracting, Fusing
<1>4. IsGraph(given) /\ level \in Levels
  BY AboutGiven DEF KInv
<1>5. GatheredWell(N)
  BY <1>2, WhileExtracting
<1>6. visited = tagged
  <2>1. Range(<<>>) = {}
    BY DEF Range
  <2>2. QED
    BY <1>1, <1>2, <2>1, AllVisited
<1>7. \A s \in Range(Gathered) : \A n \in Range(s) :
        n \in tagged /\ n \in N /\ First(graph, n) = n /\ given.kind[n] \in FusableKinds
  <2> TAKE s \in Range(Gathered)
  <2> TAKE n \in Range(s)
  <2>1. n \in tagged /\ n \in N /\ First(graph, n) = n
    BY <1>5, <1>6 DEF GatheredWell
  <2>2. PICK k \in DOMAIN Gathered : Gathered[k] = s
    BY InRange
  <2>3. n \in Range(FlattenSeq(Gathered))
    BY <1>5, <2>2, FlattenRange DEF GatheredWell
  <2>4. given.kind[n] \in FusableKinds
    BY <1>2, <2>3 DEF KInv, GroupsGather
  <2>5. QED
    BY <2>1, <2>4
<1>8. Range(<<>>) = {}
  BY DEF Range
<1>9. /\ groups \in Seq(Seq(N)) /\ Gathered \in Seq(Seq(N))
      /\ Range(Gathered) = Range(groups) \cup {<<>>} /\ tagged \subseteq N
      /\ \A e \in E : e.dst \in tagged => e.src \in tagged
  BY <1>2, <1>5, <1>6, <1>8 DEF GatheredWell
<1>10. \A k \in DOMAIN groups : groups[k] \in Range(Gathered)
  BY <1>9, InRange
<1>11. \A k \in DOMAIN groups : \A n \in Range(groups[k]) :
         n \in tagged /\ n \in N /\ First(graph, n) = n /\ given.kind[n] \in FusableKinds
  BY <1>7, <1>10
<1> HIDE DEF N
<1>12. groups \in Seq(Seq(tagged))
  <2>1. \A k \in DOMAIN groups : groups[k] \in Seq(tagged)
    <3> TAKE k \in DOMAIN groups
    <3> DEFINE s == groups[k]
    <3>1. s \in Seq(N)
      BY <1>9
    <3>2. \A i \in DOMAIN s : s[i] \in tagged
      BY <1>11, InRange
    <3> HIDE DEF s
    <3>3. Len(s) \in Nat /\ DOMAIN s = 1 .. Len(s) /\ s = [i \in 1 .. Len(s) |-> s[i]]
      BY <3>1
    <3>4. s \in Seq(tagged)
      BY <3>2, <3>3
    <3>5. QED
      BY <3>4 DEF s
  <2> DEFINE T == Seq(tagged)
  <2> HIDE DEF T
  <2>2. Len(groups) \in Nat /\ DOMAIN groups = 1 .. Len(groups) /\ groups = [i \in 1 .. Len(groups) |-> groups[i]]
    BY <1>9
  <2>3. \A k \in 1 .. Len(groups) : groups[k] \in T
    BY <2>1, <2>2 DEF T
  <2>4. groups \in Seq(T)
    BY <2>2, <2>3
  <2>5. QED
    BY <2>4 DEF T
<1>13. Timed(graph, SetsFrom(groups, 1))
  <2>1. \A x, y : Together(Gathered, x, y) <=> Together(groups, x, y)
    <3>1. \A x, y : Together(Gathered, x, y) <=> \E s \in Range(Gathered) : x \in Range(s) /\ y \in Range(s)
      BY TogetherIs
    <3>2. \A x, y : Together(groups, x, y) <=> \E s \in Range(groups) : x \in Range(s) /\ y \in Range(s)
      BY TogetherIs
    <3>3. QED
      BY <1>8, <1>9, <3>1, <3>2
  <2>2. Range(open) = {}
    BY <1>2, <1>8
  <2>3. VisitTimes(E, tagged, Gathered, open)
    BY <1>3, <1>6
  <2>4. \E f : IsTimed(f, DOMAIN given.kind, given.edges, SetsFrom(groups, 1))
    BY <1>4, <1>9, <1>12, <2>1, <2>2, <2>3, AllTimed DEF N
  <2>5. QED
    BY <1>3, <2>4 DEF Timed, N
<1>14. GroupsAlike(given, graph, groups, 1)
  <2>1. \A s \in Range(Gathered) : InSequence(graph.edges, s) /\ AllAlike(given, graph, s)
    BY <1>3, <1>9, GroupsAlikeAre
  <2>2. \A s \in Range(groups) : InSequence(graph.edges, s) /\ AllAlike(given, graph, s)
    BY <1>9, <2>1
  <2>3. QED
    BY <1>9, <2>2, GroupsAlikeAre
<1>15. Wanted(given, graph, tagged, groups)
  BY <1>11 DEF Wanted
<1>16. Absorbing(given, graph, groups, {})
  BY <1>11 DEF Absorbing, N
<1>17. groups \in Seq(Seq(NodesOf(graph)))
  BY <1>3, <1>9
<1>18. ToFuse(given, graph, groups, 1) /\ Needed(given, graph, groups, 1)
  BY <1>3, <1>4, <1>9, <1>15, <1>16, <1>17, WantedNeeded DEF N
<1>19. GraphIsFine(given, graph, tagged, level = 3)
  BY <1>3, <1>4, CoversFine
<1>20. phase' \in {"fuse", "done"} => GroupsCanBeFused(given, graph, groups, 1, level = 3)
  <2> HAVE phase' \in {"fuse", "done"}
  <2>1. level = 3 => \A k \in DOMAIN groups : k >= 1 => Linked(given, graph, groups[k])
    <3>1. CASE groups = <<>>
      <4>1. DOMAIN groups = {}
        BY <3>1
      <4>2. QED
        BY <4>1
    <3>2. CASE groups # <<>>
      BY <1>1, <3>2
    <3>3. QED
      BY <3>1, <3>2
  <2>2. groups \in Seq(Seq(1 .. graph.last))
    <3> DEFINE A == NodesOf(graph)
               B == 1 .. graph.last
    <3>1. groups \in Seq(Seq(A)) /\ A \subseteq B
      BY <1>3, <1>17 DEF IsGraphOf
    <3> HIDE DEF A, B
    <3>2. groups \in Seq(Seq(B))
      BY <3>1, SeqsOver
    <3>3. QED
      BY <3>2 DEF B
  <2>3. QED
    BY <1>13, <1>14, <1>18, <2>1, <2>2 DEF GroupsCanBeFused
<1>21. CASE phase' \in {"fuse", "done"}
  BY <1>1, <1>2, <1>3, <1>19, <1>20, <1>21 DEF PInv, Extracting, Fusing
<1>22. CASE phase' = "absorb"
  BY <1>1, <1>2, <1>3, <1>13, <1>14, <1>15, <1>22 DEF PInv, Extracting, Fusing
<1>23. QED
  BY <1>1, <1>21, <1>22

(* What is true of a graph that is fine. *)
LEMMA FineOperands ==
  ASSUME NEW live, NEW linked, GraphIsFine(given, graph, live, linked)
  PROVE  OperandsKept
<1>1. /\ \A e \in graph.edges : e.src \in NodesOf(graph) /\ e.dst \in NodesOf(graph)
      /\ \A d, e \in graph.edges : d.dst = e.dst /\ d.in = e.in /\ e.in # Control => d = e
  BY DEF GraphIsFine, IsGraphOf
<1>2. Supplied(given, graph)
  BY DEF GraphIsFine
<1>3. ASSUME NEW n \in NodesOf(graph), NEW i \in DOMAIN graph.ins[n]
      PROVE  \E e \in graph.edges :
               /\ e.dst = n /\ e.in = i /\ e.out \in DOMAIN graph.outs[e.src]
               /\ graph.outs[e.src][e.out] = graph.ins[n][i]
               /\ \A d \in graph.edges : d.dst = n /\ d.in = i => d = e
  <2>1. PICK e \in graph.edges : e.dst = n /\ e.in = i /\ i # Control
    BY <1>2 DEF Supplied
  <2>2. e.out \in DOMAIN graph.outs[e.src] /\ graph.outs[e.src][e.out] = graph.ins[n][i]
    BY <1>2, <2>1 DEF Supplied
  <2>3. \A d \in graph.edges : d.dst = n /\ d.in = i => d = e
    BY <1>1, <2>1
  <2>4. QED
    BY <2>1, <2>2, <2>3
<1>4. \A n \in NodesOf(graph) : \A e \in given.edges :
        e.dst \in Range(graph.kernels[n]) /\ e.src \notin Range(graph.kernels[n]) /\ e.in # Control =>
          \E i \in DOMAIN graph.ins[n] : graph.ins[n][i] = <<e.src, e.out>>
  BY <1>2 DEF Supplied
<1>5. \A e \in graph.edges : {e.src, e.dst} \subseteq NodesOf(graph)
  BY <1>1
<1>6. QED
  BY <1>3, <1>4, <1>5, Zenon DEF OperandsKept

(* The program of a fine graph without cycles runs what is live, in order. *)
LEMMA FineRuns ==
  ASSUME NEW live, NEW linked, GraphIsFine(given, graph, live, linked), NoCycle(graph)
  PROVE  LET ops   == OrderedOps
             order == FlattenSeq([i \in DOMAIN ops |-> graph.kernels[ops[i]]])
         IN  /\ live \subseteq Range(order)
             /\ \A e \in given.edges : \A j \in DOMAIN order :
                  order[j] = e.dst => \E i \in 1 .. j - 1 : order[i] = e.src
<1> DEFINE N == NodesOf(graph)
           K == DOMAIN given.kind
           k == graph.kernels
           ops == OrderedOps
           s == [i \in DOMAIN ops |-> k[ops[i]]]
           order == FlattenSeq(s)
<1>1. IsGraphOf(given, graph) /\ Preceded(given, graph) /\ AllRun(given, graph, live)
  BY DEF GraphIsFine
<1>2. ops \in Seq(N) /\ EdgesForward(ops, graph.edges) /\ Range(ops) \in Closed(given, graph)
  BY <1>1, OrderIsClosed
<1>3. DOMAIN s = DOMAIN ops /\ \A i \in DOMAIN ops : s[i] = k[ops[i]]
  OBVIOUS
<1>4. s \in Seq(Seq(K))
  <2>1. \A i \in DOMAIN ops : k[ops[i]] \in Seq(K)
    BY <1>1, <1>2 DEF IsGraphOf
  <2>2. Len(ops) \in Nat /\ DOMAIN ops = 1 .. Len(ops)
    BY <1>2
  <2> HIDE DEF ops, k, K
  <2>3. s \in [1 .. Len(ops) -> Seq(K)]
    BY <2>1, <2>2
  <2>4. QED
    BY <2>2, <2>3
<1> HIDE DEF ops, s, K, N
<1>5. ASSUME NEW m \in live PROVE m \in Range(order)
  <2>1. PICK n \in Range(ops) : m \in Range(k[n])
    BY <1>1, <1>2 DEF AllRun
  <2>2. PICK i \in DOMAIN ops : ops[i] = n
    BY InRange
  <2>3. m \in Range(s[i]) /\ i \in DOMAIN s
    BY <1>3, <2>1, <2>2
  <2>4. QED
    BY <1>4, <2>3, FlattenRange
<1>6. \A j \in DOMAIN order : \E p \in DOMAIN s : \E l \in DOMAIN s[p] : ComesAfter(order, s, j, p, l)
  BY <1>4, FlattenOrder
<1> HIDE DEF order
<1>7. ASSUME NEW e \in given.edges, NEW j \in DOMAIN order, order[j] = e.dst
      PROVE  \E i \in 1 .. j - 1 : order[i] = e.src
  <2>1. PICK p \in DOMAIN s : \E l \in DOMAIN s[p] : ComesAfter(order, s, j, p, l)
    BY <1>6
  <2>2. PICK l \in DOMAIN s[p] : ComesAfter(order, s, j, p, l)
    BY <2>1
  <2> DEFINE n == ops[p]
  <2>3. n \in N /\ s[p] = k[n] /\ l \in DOMAIN k[n] /\ k[n][l] = e.dst
    BY <1>2, <1>3, <1>7, <2>2 DEF ComesAfter
  <2>4. \/ \E i \in 1 .. l - 1 : k[n][i] = e.src
        \/ \E d \in graph.edges : d.dst = n /\ e.src \in Range(k[d.src])
    BY <1>1, <2>3 DEF Preceded, N
  <2>5. CASE \E i \in 1 .. l - 1 : k[n][i] = e.src
    BY <2>2, <2>3, <2>5 DEF ComesAfter
  <2>6. CASE \E d \in graph.edges : d.dst = n /\ e.src \in Range(k[d.src])
    <3>1. PICK d \in graph.edges : d.dst = n /\ e.src \in Range(k[d.src])
      BY <2>6
    <3>2. PICK a \in 1 .. p - 1 : ops[a] = d.src
      BY <1>2, <1>3, <3>1 DEF EdgesForward
    <3>3. a \in DOMAIN s /\ e.src \in Range(s[a])
      <4>1. Len(ops) \in Nat /\ DOMAIN ops = 1 .. Len(ops)
        BY <1>2
      <4>2. a \in DOMAIN ops
        BY <1>3, <3>2, <4>1
      <4>3. QED
        BY <1>3, <3>1, <3>2, <4>2
    <3>4. PICK b \in DOMAIN s[a] : s[a][b] = e.src
      BY <3>3, InRange
    <3>5. QED
      BY <2>2, <3>2, <3>4 DEF ComesAfter
  <2>7. QED
    BY <2>4, <2>5, <2>6
<1>8. QED
  BY <1>5, <1>7 DEF order, s, ops

(* What is live is in the given graph.                                     *)
LEMMA LiveGiven ==
  ASSUME NEW h, IsGraph(h), NEW live, AllLive(h, live)
  PROVE  live \subseteq DOMAIN h.kind
<1> DEFINE K == DOMAIN h.kind
<1>1. K \in SUBSET DOMAIN h.kind /\ ResultsOf(h) \subseteq K
  BY DEF ResultsOf
<1>2. \A e \in h.edges : e.src \in K
  BY GivenEdges
<1> HIDE DEF K
<1>3. live \subseteq K
  BY <1>1, <1>2 DEF AllLive
<1>4. QED
  BY <1>3 DEF K

(* When all groups have absorbed, they can be fused or split.              *)
LEMMA EndAbsorbingPInv ==
  ASSUME KInv, PInv, EndAbsorbing
  PROVE  PInv'
<1>1. /\ phase = "absorb" /\ phase' = (IF level = 2 THEN "fuse" ELSE "split") /\ index' = 1
      /\ given' = given /\ level' = level /\ graph' = graph /\ tagged' = tagged /\ groups' = groups
  BY DEF EndAbsorbing, walkVars
<1>2. /\ IsGraphOf(given, graph) /\ Unfused(given, graph) /\ Covers(given, graph)
      /\ IsPlain(given) /\ AllLive(given, tagged)
      /\ DOMAIN graph = {"edges", "ins", "outs", "kernels", "last"}
      /\ Timed(graph, SetsFrom(groups, 1)) /\ GroupsAlike(given, graph, groups, 1)
      /\ Wanted(given, graph, tagged, groups)
      /\ groups \in Seq(Seq(NodesOf(graph))) /\ Absorbing(given, graph, groups, 1 .. index - 1)
  BY <1>1 DEF KInv, PInv, Extracting, Fusing
<1>3. IsGraph(given)
  BY AboutGiven DEF KInv
<1>4. tagged \subseteq DOMAIN given.kind
  BY <1>2, <1>3, LiveGiven
<1>5. ToFuse(given, graph, groups, 1) /\ Needed(given, graph, groups, 1)
  BY <1>2, <1>3, <1>4, WantedNeeded
<1>6. GraphIsFine(given, graph, tagged, level = 3)
  BY <1>2, <1>3, CoversFine
<1>7. CASE level = 2
  <2>1. groups \in Seq(Seq(1 .. graph.last))
    <3> DEFINE A == NodesOf(graph)
               B == 1 .. graph.last
    <3>1. groups \in Seq(Seq(A)) /\ A \subseteq B
      BY <1>2 DEF IsGraphOf
    <3> HIDE DEF A, B
    <3>2. groups \in Seq(Seq(B))
      BY <3>1, SeqsOver
    <3>3. QED
      BY <3>2 DEF B
  <2>2. GroupsCanBeFused(given, graph, groups, 1, level = 3)
    BY <1>2, <1>5, <1>7, <2>1 DEF GroupsCanBeFused
  <2>3. QED
    BY <1>1, <1>2, <1>6, <1>7, <2>2 DEF PInv, Extracting, Fusing
<1>8. CASE level # 2
  BY <1>1, <1>2, <1>5, <1>8 DEF PInv, Extracting, Fusing
<1>9. QED
  BY <1>7, <1>8

(* When all groups have been split, their parts can be fused.              *)
LEMMA EndSplittingPInv ==
  ASSUME KInv, PInv, EndSplitting
  PROVE  PInv'
<1>1. /\ phase = "split" /\ phase' = "fuse" /\ index > Len(groups) /\ index' = 1
      /\ given' = given /\ level' = level /\ graph' = graph /\ tagged' = tagged /\ groups' = groups
  BY DEF EndSplitting, walkVars
<1>2. /\ IsGraphOf(given, graph) /\ Unfused(given, graph) /\ Covers(given, graph)
      /\ IsPlain(given) /\ AllLive(given, tagged)
      /\ DOMAIN graph = {"edges", "ins", "outs", "kernels", "last"}
      /\ Timed(graph, SetsFrom(groups, 1)) /\ GroupsAlike(given, graph, groups, 1)
      /\ ToFuse(given, graph, groups, 1) /\ Needed(given, graph, groups, 1)
      /\ groups \in Seq(Seq(NodesOf(graph)))
      /\ \A k \in 1 .. index - 1 : Linked(given, graph, groups[k])
  BY <1>1 DEF KInv, PInv, Extracting, Fusing
<1>3. IsGraph(given) /\ index \in Nat \ {0}
  BY AboutGiven DEF KInv
<1>4. GraphIsFine(given, graph, tagged, level = 3)
  BY <1>2, <1>3, CoversFine
<1>5. groups \in Seq(Seq(1 .. graph.last))
  <2> DEFINE A == NodesOf(graph)
             B == 1 .. graph.last
  <2>1. groups \in Seq(Seq(A)) /\ A \subseteq B
    BY <1>2 DEF IsGraphOf
  <2> HIDE DEF A, B
  <2>2. groups \in Seq(Seq(B))
    BY <2>1, SeqsOver
  <2>3. QED
    BY <2>2 DEF B
<1>6. \A k \in DOMAIN groups : Linked(given, graph, groups[k])
  <2>1. DOMAIN groups = 1 .. Len(groups) /\ Len(groups) \in Nat
    BY <1>2
  <2>2. \A k \in DOMAIN groups : k \in 1 .. index - 1
    BY <1>1, <1>3, <2>1
  <2>3. QED
    BY <1>2, <2>2
<1>7. GroupsCanBeFused(given, graph, groups, 1, level = 3)
  BY <1>2, <1>5, <1>6 DEF GroupsCanBeFused
<1>8. QED
  BY <1>1, <1>2, <1>4, <1>7 DEF PInv, Extracting, Fusing

(***************************************************************************)
(* The parts of a group.                                                   *)
(***************************************************************************)
PartsCover(E, parts, seen) ==
  /\ UNION parts = seen
  /\ \A e \in E : {e.src, e.dst} \subseteq seen => \E p \in parts : {e.src, e.dst} \subseteq p

(* Join leaves each node in a part, and each edge within one.              *)
LEMMA JoinCovers ==
  ASSUME NEW P, NEW seen, PartsCover(graph.edges, P, seen), NEW n,
         \A e \in graph.edges : e.src = n => e.dst \notin seen
  PROVE  PartsCover(graph.edges, Join(P, n), seen \cup {n})
<1> DEFINE E == graph.edges
           joined == {p \in P : \E e \in E : e.src \in p /\ e.dst = n}
           u == (UNION joined) \cup {n}
           P2 == (P \ joined) \cup {u}
<1>1. Join(P, n) = P2
  BY DEF Join
<1>2. \A p : p \in joined <=> p \in P /\ \E e \in E : e.src \in p /\ e.dst = n
  OBVIOUS
<1>3. (\A p \in joined : p \subseteq u) /\ n \in u /\ u \in P2 /\ \A p \in P \ joined : p \in P2
  OBVIOUS
<1>4. UNION P = seen
  BY DEF PartsCover
<1>5. UNION P2 = seen \cup {n}
  <2>1. joined \subseteq P
    OBVIOUS
  <2> HIDE DEF joined
  <2>2. QED
    BY <1>4, <2>1
<1> HIDE DEF joined, u, P2
<1>6. ASSUME NEW e \in E, e.src \in seen \cup {n}, e.dst \in seen \cup {n}
      PROVE  \E p \in P2 : {e.src, e.dst} \subseteq p
  <2>1. CASE e.src \in seen /\ e.dst \in seen
    <3>1. PICK p \in P : e.src \in p /\ e.dst \in p
      BY <2>1 DEF PartsCover, E
    <3>2. p \in joined => e.src \in u /\ e.dst \in u
      BY <1>3, <3>1
    <3>3. QED
      BY <1>3, <3>1, <3>2
  <2>2. CASE e.src \in seen /\ e.dst = n
    <3>1. PICK p \in P : e.src \in p
      BY <1>4, <2>2
    <3>2. p \in joined
      BY <1>2, <2>2, <3>1
    <3>3. QED
      BY <1>3, <2>2, <3>1, <3>2
  <2>3. CASE e.src = n
    <3>1. e.dst = n
      BY <1>6, <2>3 DEF E
    <3>2. QED
      BY <1>3, <2>3, <3>1
  <2>4. QED
    BY <1>6, <2>1, <2>2, <2>3
<1>7. QED
  BY <1>1, <1>5, <1>6 DEF PartsCover, E

(* A set with two members.                                                 *)
LEMMA TwoMembers ==
  ASSUME NEW S, IsFiniteSet(S), NEW a \in S, NEW b \in S, a # b
  PROVE  Cardinality(S) > 1
<1> DEFINE R == S \ {a}
           c == Cardinality(S)
           d == Cardinality(R)
<1>1. IsFiniteSet(R) /\ d = IF a \in S THEN c - 1 ELSE c
  BY FS_RemoveElement
<1>2. R # {} /\ c \in Nat
  BY FS_CardinalityType
<1>3. d # 0 /\ d \in Nat
  BY <1>1, <1>2, FS_EmptySet, FS_CardinalityType
<1> HIDE DEF R, c, d
<1>4. c > 1
  BY <1>1, <1>2, <1>3
<1>5. QED
  BY <1>4 DEF c

(* An edge within a group is within one of its parts.                      *)
LEMMA EdgeInPart ==
  ASSUME NEW T, NEW s \in Seq(T), IsInjective(s), InSequence(graph.edges, s),
         NEW e \in graph.edges, e.src \in Range(s), e.dst \in Range(s)
  PROVE  \E p \in Parts(s) : {e.src, e.dst} \subseteq p
<1> DEFINE n == Len(s)
           E == graph.edges
           seen(k) == {s[j] : j \in 1 .. k}
<1>1. n \in Nat /\ DOMAIN s = 1 .. n
  OBVIOUS
<1>2. PICK joined : PartsInSteps(joined, s)
  BY PartsSteps
<1>3. /\ joined[0] = {} /\ \A k \in Nat : k + 1 \in 0 .. n => joined[k + 1] = Join(joined[k], s[k + 1])
      /\ Parts(s) = {p \in joined[n] : Cardinality(p) > 1}
  BY <1>2 DEF PartsInSteps
<1> HIDE DEF n
<1> DEFINE G == {k \in Nat : k \in 0 .. n => PartsCover(E, joined[k], seen(k))}
<1>4. 0 \in G
  <2>1. joined[0] = {} /\ seen(0) = {}
    BY <1>3
  <2> HIDE DEF seen
  <2>2. PartsCover(E, joined[0], seen(0))
    BY <2>1 DEF PartsCover
  <2>3. QED
    BY <2>2
<1>5. ASSUME NEW k \in Nat, k \in G PROVE k + 1 \in G
  <2> SUFFICES ASSUME k + 1 \in 0 .. n PROVE PartsCover(E, joined[k + 1], seen(k + 1))
    OBVIOUS
  <2>1. k \in 0 .. n /\ k + 1 \in 1 .. n
    BY <1>1
  <2>2. joined[k + 1] = Join(joined[k], s[k + 1])
    BY <1>3
  <2>3. ASSUME NEW d \in E, d.src = s[k + 1] PROVE d.dst \notin seen(k)
    <3> SUFFICES ASSUME NEW j \in 1 .. k, d.dst = s[j] PROVE FALSE
      OBVIOUS
    <3>1. j \in DOMAIN s /\ k + 1 \in DOMAIN s /\ ~(k + 1 < j)
      BY <1>1, <2>1
    <3>2. QED
      BY <2>3, <3>1 DEF InSequence, E
  <2>4. seen(k + 1) = seen(k) \cup {s[k + 1]}
    <3>1. 1 .. k + 1 = (1 .. k) \cup {k + 1}
      OBVIOUS
    <3>2. QED
      BY <3>1
  <2>5. PartsCover(E, joined[k], seen(k))
    BY <1>5, <2>1
  <2> HIDE DEF seen, G
  <2>6. PartsCover(E, Join(joined[k], s[k + 1]), seen(k) \cup {s[k + 1]})
    BY <2>3, <2>5, JoinCovers DEF E
  <2>7. QED
    BY <2>2, <2>4, <2>6
<1>6. n \in G
  <2>1. Nat \subseteq G
    <3> HIDE DEF G
    <3>1. QED
      BY <1>4, <1>5, EveryNumber
  <2>2. QED
    BY <1>1, <2>1
<1>7. seen(n) = Range(s) /\ n \in 0 .. n
  BY <1>1 DEF Range
<1>8. PartsCover(E, joined[n], Range(s))
  BY <1>6, <1>7
<1> HIDE DEF seen, G
<1>9. PICK p \in joined[n] : {e.src, e.dst} \subseteq p
  BY <1>8 DEF PartsCover, E
<1>10. e.src # e.dst
  <2>1. PICK a \in DOMAIN s : s[a] = e.src
    BY InRange
  <2>2. ~(a < a)
    BY <1>1, <2>1
  <2>3. QED
    BY <2>1, <2>2 DEF InSequence
<1>11. p \subseteq Range(s)
  BY <1>8 DEF PartsCover
<1>12. IsFiniteSet(p)
  <2>1. IsFiniteSet(DOMAIN s)
    BY <1>1, FS_Interval
  <2>2. IsFiniteSet({s[i] : i \in DOMAIN s})
    BY <2>1, FiniteImage
  <2>3. QED
    BY <1>11, <2>2, FS_Subset DEF Range
<1>13. Cardinality(p) > 1
  BY <1>9, <1>10, <1>12, TwoMembers
<1>14. QED
  BY <1>3, <1>9, <1>13

(* Every part is one of the new groups.                                    *)
LEMMA AllPartsIn ==
  ASSUME NEW S, IsFiniteSet(S), NEW order \in SetToSeqs(S), NEW p \in S
  PROVE  \E k \in DOMAIN order : order[k] = p
<1> DEFINE n == Cardinality(S)
           D == 1 .. n
<1>1. n \in Nat /\ IsFiniteSet(D) /\ Cardinality(D) = n
  <2>1. n \in Nat
    BY FS_CardinalityType
  <2> HIDE DEF n
  <2>2. IsFiniteSet(1 .. n) /\ Cardinality(1 .. n) = IF 1 > n THEN 0 ELSE n - 1 + 1
    BY <2>1, FS_Interval
  <2>3. QED
    BY <2>1, <2>2
<1>2. order \in [D -> S] /\ \A i, j \in D : i # j => order[i] # order[j]
  BY DEF SetToSeqs
<1> HIDE DEF D
<1>3. order \in Injection(D, S)
  BY <1>2 DEF Injection, IsInjective
<1>4. order \in Surjection(D, S)
  BY <1>1, <1>3, FS_Injection
<1>5. QED
  BY <1>2, <1>4 DEF Surjection

(* What SplitIndependentGroups does to the groups.                         *)
IsSplitInto(N, s, order, new) ==
  /\ s \in Seq(N) /\ IsInjective(s) /\ new \in Seq(Seq(N)) /\ PartsInOrder(s, order, new)
  /\ \A p \in Parts(s) : \E k \in 1 .. Len(new) : Range(new[k]) = p
  /\ groups' \in Seq(Seq(N)) /\ IsSplit(groups, index, new, groups')
  /\ index' = index + Len(new)

(* SplitIndependentGroups puts the parts of a group in its place.          *)
LEMMA SplitInto ==
  ASSUME KInv, SplitIndependentGroups
  PROVE  \E order, new : IsSplitInto(NodesOf(graph), groups[index], order, new)
<1> DEFINE s == groups[index]
           N == NodesOf(graph)
           i == index
           gs == groups
<1>1. phase = "split" /\ index <= Len(groups)
  BY DEF SplitIndependentGroups
<1>2. PICK order \in SetToSeqs(Parts(s)) :
        /\ groups' = SubSeq(gs, 1, i - 1) \o [k \in DOMAIN order |-> Among(s, order[k])]
                       \o SubSeq(gs, i + 1, Len(gs))
        /\ index' = index + Len(order)
  BY DEF SplitIndependentGroups
<1> DEFINE new == [k \in DOMAIN order |-> Among(s, order[k])]
<1>3. gs \in Seq(Seq(N)) /\ Disjoint(gs) /\ i \in Nat \ {0}
  BY <1>1 DEF KInv, Extracting, Fusing
<1>4. i \in DOMAIN gs
  BY <1>1, <1>3
<1>5. s \in Seq(N) /\ IsInjective(s)
  BY <1>3, <1>4 DEF Disjoint
<1> HIDE DEF s, N, new, gs, i
<1>6. new \in Seq(Seq(N)) /\ PartsInOrder(s, order, new)
  BY <1>5, PartsSequences DEF new
<1>7. groups' = SubSeq(gs, 1, i - 1) \o new \o SubSeq(gs, i + 1, Len(gs))
  BY <1>2 DEF new
<1>8. groups' \in Seq(Seq(N)) /\ IsSplit(gs, i, new, groups')
  <2> DEFINE U == Seq(N)
  <2>1. gs \in Seq(U) /\ new \in Seq(U)
    BY <1>3, <1>6
  <2> HIDE DEF U
  <2>2. groups' \in Seq(U) /\ IsSplit(gs, i, new, groups')
    BY <1>3, <1>4, <1>7, <2>1, SplitGroups
  <2>3. QED
    BY <2>2 DEF U
<1>9. ASSUME NEW p \in Parts(s) PROVE \E k \in 1 .. Len(new) : Range(new[k]) = p
  <2>1. IsFiniteSet(Parts(s))
    BY <1>5, PartsIs DEF PartsOf
  <2>2. PICK k \in DOMAIN order : order[k] = p
    BY <2>1, AllPartsIn
  <2>3. k \in 1 .. Len(new) /\ Range(new[k]) = order[k]
    BY <1>6 DEF PartsInOrder
  <2>4. QED
    BY <2>2, <2>3
<1>10. index' = index + Len(new)
  BY <1>2, <1>6 DEF PartsInOrder
<1>11. IsSplitInto(N, s, order, new)
  BY <1>5, <1>6, <1>8, <1>9, <1>10 DEF IsSplitInto, gs, i
<1>12. QED
  BY <1>11 DEF N, s

(* Each node of a part has an edge within it.                              *)
LEMMA PartLinked ==
  ASSUME NEW h, NEW g, Covers(h, g), NEW s, Whole(g.edges, Range(s)), Cardinality(Range(s)) > 1
  PROVE  Linked(h, g, s)
<1> DEFINE p == Range(s)
<1>1. ASSUME NEW m \in p
      PROVE  \E e \in g.edges : {e.src, e.dst} \subseteq p /\ m \in {e.src, e.dst}
  <2>1. ASSUME NEW x, p = {x} PROVE FALSE
    <3>1. IsFiniteSet({}) /\ Cardinality({}) = 0
      BY FS_EmptySet
    <3>2. Cardinality({} \cup {x}) = IF x \in {} THEN Cardinality({}) ELSE Cardinality({}) + 1
      BY <3>1, FS_AddElement
    <3>3. p = {} \cup {x} /\ x \notin {}
      BY <2>1
    <3> HIDE DEF p
    <3>4. Cardinality(p) = 1
      BY <3>1, <3>2, <3>3
    <3>5. QED
      BY <3>4 DEF p
  <2>2. QED
    BY <1>1, <2>1 DEF Whole
<1>2. ASSUME NEW m \in p
      PROVE  \E d \in h.edges : {d.src, d.dst} \subseteq {First(g, n) : n \in p}
                                /\ First(g, m) \in {d.src, d.dst}
  <2>1. PICK e \in g.edges : e.src \in p /\ e.dst \in p /\ (m = e.src \/ m = e.dst)
    BY <1>1
  <2> DEFINE d == Below(g, e)
  <2>2. d \in h.edges
    BY DEF Covers
  <2>3. d.src = First(g, e.src) /\ d.dst = First(g, e.dst)
    BY DEF Below
  <2> HIDE DEF d, p
  <2>4. QED
    BY <2>1, <2>2, <2>3
<1>3. QED
  BY <1>2 DEF Linked

(* Edges go forward in a part of a sequence too.                           *)
LEMMA SubInSequence ==
  ASSUME NEW T, NEW s \in Seq(T), NEW t \in Seq(T), NEW E, InSequence(E, s),
         Range(t) \subseteq Range(s),
         \A a, b \in DOMAIN t : a < b => \E x, y \in DOMAIN s : x < y /\ t[a] = s[x] /\ t[b] = s[y]
  PROVE  InSequence(E, t)
<1> SUFFICES ASSUME NEW e \in E, NEW a \in DOMAIN t, NEW b \in DOMAIN t,
                    t[a] = e.src, t[b] = e.dst
             PROVE  a < b
  BY DEF InSequence
<1>1. a \in Int /\ b \in Int /\ \A x \in DOMAIN s : x \in Int
  OBVIOUS
<1>2. \A x, y \in DOMAIN s : s[x] = e.src /\ s[y] = e.dst => x < y
  BY DEF InSequence
<1>3. a # b
  <2> SUFFICES ASSUME a = b PROVE FALSE
    OBVIOUS
  <2>1. e.src \in Range(s)
    BY InRange
  <2>2. PICK x \in DOMAIN s : s[x] = e.src
    BY <2>1, InRange
  <2>3. QED
    BY <1>1, <1>2, <2>2
<1>4. ~(b < a)
  <2> SUFFICES ASSUME b < a PROVE FALSE
    OBVIOUS
  <2>1. PICK x \in DOMAIN s, y \in DOMAIN s : x < y /\ t[b] = s[x] /\ t[a] = s[y]
    OBVIOUS
  <2>2. y < x
    BY <1>2, <2>1
  <2>3. QED
    BY <1>1, <2>1, <2>2
<1>5. QED
  BY <1>1, <1>3, <1>4

(* Fewer edges within groups: those that remain have times.                *)
LEMMA PartsTimed ==
  ASSUME NEW N, NEW E, \A e \in E : e.src \in N /\ e.dst \in N,
         NEW T, \E f : IsTimed(f, N, E, T),
         NEW T2, \A k \in DOMAIN T2 : \E j \in DOMAIN T : T2[k] \subseteq T[j],
         \A e \in E : \A k \in DOMAIN T : {e.src, e.dst} \subseteq T[k] =>
           \E j \in DOMAIN T2 : {e.src, e.dst} \subseteq T2[j]
  PROVE  \E f : IsTimed(f, N, E, T2)
<1>1. PICK f : IsTimed(f, N, E, T)
  OBVIOUS
<1> DEFINE place == [n \in N |-> 0]
<1>2. place \in [N -> 0 .. 0] /\ 0 \in Nat /\ \A n \in N : place[n] = 0
  OBVIOUS
<1> HIDE DEF place
<1>3. \A k \in DOMAIN T2 : /\ \E j \in DOMAIN T : T2[k] \subseteq T[j]
                           /\ \A x \in T2[k] : place[x] = 0
  <2>1. \A j \in DOMAIN T : T[j] \subseteq N
    BY <1>1 DEF IsTimed
  <2>2. QED
    BY <1>2, <2>1
<1>4. QED
  BY <1>1, <1>2, <1>3, Retimed

(* The parts keep the times of the group: no edge joins two of them.       *)
LEMMA SplitIndependentGroupsPInv ==
  ASSUME KInv, PInv, SplitIndependentGroups
  PROVE  PInv'
<1> DEFINE s == groups[index]
           N == NodesOf(graph)
           E == graph.edges
           i == index
           gs == groups
           gs2 == groups'
<1>1. /\ phase = "split" /\ index <= Len(groups) /\ phase' = phase
      /\ given' = given /\ level' = level /\ graph' = graph /\ tagged' = tagged
  BY DEF SplitIndependentGroups, walkVars
<1>2. PICK order, new : IsSplitInto(N, s, order, new)
  BY SplitInto
<1>3. /\ IsGraphOf(given, graph) /\ Unfused(given, graph) /\ gs \in Seq(Seq(N))
      /\ i \in Nat \ {0} /\ IsPlain(given) /\ AllLive(given, tagged)
      /\ DOMAIN graph = {"edges", "ins", "outs", "kernels", "last"} /\ Covers(given, graph)
      /\ Timed(graph, SetsFrom(gs, 1)) /\ GroupsAlike(given, graph, gs, 1)
      /\ ToFuse(given, graph, gs, 1) /\ Needed(given, graph, gs, 1)
      /\ \A k \in 1 .. i - 1 : Linked(given, graph, gs[k])
  BY <1>1 DEF KInv, PInv, Extracting, Fusing
<1> DEFINE Q(t) == /\ InSequence(E, t) /\ AllAlike(given, graph, t)
                   /\ \A n \in Range(t) : Fusable(given, graph, n)
                   /\ \A C \in Closed(given, graph) : Range(t) \subseteq C
<1>4. Len(gs) \in Nat /\ DOMAIN gs = 1 .. Len(gs) /\ i \in DOMAIN gs
  BY <1>1, <1>3
<1>5. \A k \in DOMAIN gs : Q(gs[k])
  <2>1. \A k \in DOMAIN gs : k >= 1
    BY <1>4
  <2>2. QED
    BY <1>3, <2>1 DEF GroupsAlike, ToFuse, Needed
<1>6. /\ s \in Seq(N) /\ IsInjective(s) /\ new \in Seq(Seq(N)) /\ PartsInOrder(s, order, new)
      /\ \A p \in Parts(s) : \E k \in 1 .. Len(new) : Range(new[k]) = p
      /\ gs2 \in Seq(Seq(N)) /\ IsSplit(gs, i, new, gs2)
      /\ index' = i + Len(new)
  BY <1>2 DEF IsSplitInto
<1> DEFINE m == Len(new)
<1>7. m \in Nat /\ DOMAIN new = 1 .. m /\ \A k \in 1 .. m : new[k] \in Seq(N)
  BY <1>6
<1>8. \A k \in 1 .. m : /\ Whole(E, Range(new[k])) /\ Cardinality(Range(new[k])) > 1
                        /\ Range(new[k]) \subseteq Range(s)
                        /\ \A a, b \in DOMAIN new[k] : a < b =>
                             \E x, y \in DOMAIN s : x < y /\ new[k][a] = s[x] /\ new[k][b] = s[y]
  BY <1>6 DEF PartsInOrder
<1>9. Len(gs2) \in Nat /\ DOMAIN gs2 = 1 .. Len(gs2)
  BY <1>6
<1>10. /\ \A k \in 1 .. i - 1 : k \in DOMAIN gs2 /\ k \in DOMAIN gs /\ gs2[k] = gs[k]
       /\ \A k \in 1 .. m : (i - 1) + k \in DOMAIN gs2 /\ gs2[(i - 1) + k] = new[k]
       /\ \A k \in DOMAIN gs2 :
            \/ k \in 1 .. i - 1
            \/ \E j \in 1 .. m : k = (i - 1) + j
            \/ (k - m) + 1 \in i + 1 .. Len(gs) /\ gs2[k] = gs[(k - m) + 1]
       /\ \A j \in i + 1 .. Len(gs) : \E k \in DOMAIN gs2 : gs2[k] = gs[j]
  BY <1>6 DEF IsSplit
<1>11. Q(s)
  BY <1>4, <1>5
<1>12. \A k \in DOMAIN gs2 : \/ \E j \in 1 .. m : gs2[k] = new[j]
                             \/ \E j \in DOMAIN gs : gs2[k] = gs[j]
  <2>1. \A j \in i + 1 .. Len(gs) : j \in DOMAIN gs
    BY <1>3, <1>4
  <2> HIDE DEF gs2, gs, m, i
  <2>2. QED
    BY <1>10, <2>1
<1>13. /\ \A j \in 1 .. m : \E k \in DOMAIN gs2 : gs2[k] = new[j]
       /\ \A j \in DOMAIN gs : j # i => \E k \in DOMAIN gs2 : gs2[k] = gs[j]
  <2>1. \A j \in DOMAIN gs : j # i => j \in 1 .. i - 1 \/ j \in i + 1 .. Len(gs)
    BY <1>3, <1>4
  <2> HIDE DEF gs2, gs, m, i
  <2>2. QED
    BY <1>10, <2>1
<1> HIDE DEF s, N, E, gs, gs2, m, i
<1>14. \A e \in E : e.src \in N /\ e.dst \in N
  BY <1>3 DEF IsGraphOf, E, N
<1>15. ASSUME NEW k \in 1 .. m PROVE Q(new[k])
  <2> DEFINE t == new[k]
  <2>1. Range(t) \subseteq Range(s) /\ t \in Seq(N)
    BY <1>7, <1>8
  <2>2. AllAlike(given, graph, t)
    BY <1>11, <2>1 DEF AllAlike
  <2>3. InSequence(E, t)
    <3>1. InSequence(E, s)
      BY <1>11
    <3>2. \A a, b \in DOMAIN t : a < b => \E x, y \in DOMAIN s : x < y /\ t[a] = s[x] /\ t[b] = s[y]
      BY <1>8
    <3> HIDE DEF t
    <3>3. QED
      BY <1>6, <2>1, <3>1, <3>2, SubInSequence
  <2> HIDE DEF t
  <2>4. Q(t)
    BY <1>11, <2>1, <2>2, <2>3
  <2>5. QED
    BY <2>4 DEF t
<1> HIDE DEF Q
<1>16. \A k \in DOMAIN gs2 : Q(gs2[k])
  BY <1>5, <1>12, <1>15 DEF gs
<1>17. /\ GroupsAlike(given, graph, gs2, 1) /\ ToFuse(given, graph, gs2, 1)
       /\ Needed(given, graph, gs2, 1)
  BY <1>16 DEF Q, GroupsAlike, ToFuse, Needed, E
<1>18. \A k \in 1 .. m : Linked(given, graph, new[k])
  BY <1>3, <1>8, PartLinked DEF E
<1>19. \A k \in 1 .. index' - 1 : Linked(given, graph, gs2[k])
  <2> TAKE k \in 1 .. index' - 1
  <2>1. k \in 1 .. i - 1 \/ k - (i - 1) \in 1 .. m
    BY <1>3, <1>6, <1>7 DEF m, i
  <2>2. k - (i - 1) \in 1 .. m => gs2[k] = new[k - (i - 1)]
    <3> HAVE k - (i - 1) \in 1 .. m
    <3>1. gs2[(i - 1) + (k - (i - 1))] = new[k - (i - 1)]
      BY <1>10 DEF i
    <3>2. (i - 1) + (k - (i - 1)) = k
      BY <1>3, <1>6, <1>7 DEF i
    <3>3. QED
      BY <3>1, <3>2
  <2>3. k \in 1 .. i - 1 => gs2[k] = gs[k]
    BY <1>10 DEF i
  <2>4. QED
    BY <1>3, <1>18, <2>1, <2>2, <2>3 DEF gs, i
<1>20. Timed(graph, SetsFrom(gs2, 1))
  <2> DEFINE T == SetsFrom(gs, 1)
             T2 == SetsFrom(gs2, 1)
  <2>1. /\ DOMAIN T = DOMAIN gs /\ \A k \in DOMAIN gs : T[k] = Range(gs[k])
        /\ DOMAIN T2 = DOMAIN gs2 /\ \A k \in DOMAIN gs2 : T2[k] = Range(gs2[k])
    BY <1>4, <1>9 DEF SetsFrom, gs
  <2>2. \E f : IsTimed(f, N, E, T)
    BY <1>3 DEF Timed, N, E, gs
  <2> HIDE DEF T, T2
  <2>3. ASSUME NEW k \in DOMAIN T2 PROVE \E j \in DOMAIN T : T2[k] \subseteq T[j]
    <3>1. CASE \E j \in 1 .. m : gs2[k] = new[j]
      <4>1. Range(gs2[k]) \subseteq Range(s)
        BY <1>8, <3>1 DEF m
      <4>2. i \in DOMAIN T /\ T[i] = Range(s)
        BY <1>4, <2>1 DEF s, gs, i
      <4>3. QED
        BY <2>1, <4>1, <4>2
    <3>2. CASE \E j \in DOMAIN gs : gs2[k] = gs[j]
      BY <2>1, <3>2
    <3>3. QED
      BY <1>12, <2>1, <3>1, <3>2
  <2>4. ASSUME NEW e \in E, NEW k \in DOMAIN T, {e.src, e.dst} \subseteq T[k]
        PROVE  \E j \in DOMAIN T2 : {e.src, e.dst} \subseteq T2[j]
    <3>1. CASE k = i
      <4>1. T[k] = Range(s)
        BY <1>4, <2>1, <3>1 DEF s, gs, i
      <4>2. e.src \in Range(s) /\ e.dst \in Range(s)
        BY <2>4, <4>1
      <4>3. InSequence(graph.edges, s)
        BY <1>11 DEF Q, E
      <4>4. PICK p \in Parts(s) : {e.src, e.dst} \subseteq p
        BY <1>6, <4>2, <4>3, EdgeInPart DEF E
      <4>5. PICK a \in 1 .. m : Range(new[a]) = p
        BY <1>6 DEF m
      <4>6. PICK j \in DOMAIN gs2 : gs2[j] = new[a]
        BY <1>13
      <4>7. QED
        BY <2>1, <4>4, <4>5, <4>6
    <3>2. CASE k # i
      <4>1. PICK j \in DOMAIN gs2 : gs2[j] = gs[k]
        BY <1>13, <2>1, <3>2
      <4>2. QED
        BY <2>1, <2>4, <4>1
    <3>3. QED
      BY <3>1, <3>2
  <2>5. \E f : IsTimed(f, N, E, T2)
    BY <1>14, <2>2, <2>3, <2>4, PartsTimed
  <2>6. QED
    BY <2>5 DEF Timed, T2, N, E
<1>21. QED
  BY <1>1, <1>3, <1>17, <1>19, <1>20 DEF PInv, Extracting, Fusing, gs2

(***************************************************************************)
(* The copy of a broadcast reads and yields what the broadcast does.       *)
(***************************************************************************)

(* The edge d is all that a broadcast depends on. *)
ReadsOver(h, g, n, d) ==
  /\ d \in h.edges /\ d.dst = First(g, n) /\ d.in = 1 /\ d.out = 1
  /\ \A b \in h.edges : b.dst = First(g, n) => b = d
  /\ 1 \in DOMAIN g.ins[n] /\ g.ins[n][1] = <<d.src, 1>>

(* A broadcast depends on what its input is from.                          *)
LEMMA BroadcastReads ==
  ASSUME NEW h, IsGraph(h), IsPlain(h), NEW g, IsGraphOf(h, g), Covers(h, g),
         NEW n \in NodesOf(g), First(g, n) \in DOMAIN h.kind, h.kind[First(g, n)] = "broadcast",
         NEW from \in g.edges, from.dst = n, from.in = 1
  PROVE  ReadsOver(h, g, n, Below(g, from))
<1> DEFINE x == First(g, n)
           d == Below(g, from)
<1>1. /\ d \in h.edges /\ d.dst = x /\ d.in = 1
  BY DEF Covers, Below
<1>2. d.out = 1
  BY <1>1 DEF IsPlain, Control
<1>3. Cardinality({b \in h.edges : b.dst = x /\ b.in # Control}) = 1
  BY DEF IsGraph
<1>4. \A b \in h.edges : b.in # Control =>
        b.in \in 1 .. Cardinality({c \in h.edges : c.dst = b.dst /\ c.in # Control})
  BY GivenEdges
<1> HIDE DEF d
<1>5. ASSUME NEW b \in h.edges, b.dst = x PROVE b = d
  <2>1. b.in # Control
    BY <1>5 DEF IsPlain
  <2>2. b.in \in 1 .. 1
    BY <1>3, <1>4, <1>5, <2>1
  <2>3. b.in = 1
    BY <2>2
  <2>4. QED
    BY <1>1, <1>5, <2>1, <2>3 DEF IsGraph
<1>6. 1 \in DOMAIN g.ins[n]
  BY <1>1 DEF Covers, Control
<1>7. g.ins[n][1] = <<d.src, 1>>
  <2>1. PICK b \in h.edges : b.dst = x /\ g.ins[n][1] = <<b.src, b.out>>
    BY <1>6 DEF Covers
  <2>2. b = d
    BY <1>5, <2>1
  <2>3. QED
    BY <1>2, <2>1, <2>2
<1>8. QED
  BY <1>1, <1>2, <1>5, <1>6, <1>7 DEF ReadsOver, d

(* Hence so does a copy.                                                   *)
LEMMA CopyCovers ==
  ASSUME NEW h, IsGraph(h), IsPlain(h), NEW g, IsGraphOf(h, g), Unfused(h, g), Covers(h, g),
         NEW e \in g.edges, h.kind[First(g, e.src)] = "broadcast", e.in # Control,
         NEW g2, NEW from, IsCopy(g, g2, e, from)
  PROVE  Covers(h, g2)
<1> DEFINE id == g.last + 1
           N == NodesOf(g)
           x == First(g, e.src)
           d == Below(g, from)
           c == CopyOf(g, e)
           r == CopyReads(g, from)
<1>1. /\ \A b \in g.edges : Below(g, b) \in h.edges
      /\ \A n \in N : \A b \in h.edges :
           b.dst = First(g, n) => \E a \in g.edges : a.dst = n /\ Below(g, a) = b
      /\ \A n \in N : \A i \in DOMAIN g.ins[n] : \E b \in h.edges :
           b.dst = First(g, n) /\ b.in = i /\ i # Control /\ g.ins[n][i] = <<b.src, b.out>>
      /\ \A n \in N : \A b \in h.edges :
           b.dst = First(g, n) /\ b.in # Control => b.in \in DOMAIN g.ins[n]
      /\ \A n \in N : /\ 1 \in DOMAIN g.outs[n]
                      /\ \A i \in DOMAIN g.outs[n] : g.outs[n][i] = <<First(g, n), i>>
      /\ \A b \in g.edges : b.in # Control => b.out \in DOMAIN g.outs[b.src]
  BY DEF Covers
<1>2. /\ from \in g.edges /\ from.dst = e.src /\ from.in = 1
      /\ g2.edges = (g.edges \ {e}) \cup {c, r} /\ NodesOf(g2) = N \cup {id}
      /\ \A n \in N : g2.ins[n] = g.ins[n] /\ g2.outs[n] = g.outs[n]
      /\ g2.ins[id] = <<g.outs[from.src][1]>>
      /\ g2.outs[id] = IF g.outs[from.src][1] = g.ins[e.src][1] THEN g.outs[e.src] ELSE <<<<id, 1>>>>
  BY DEF IsCopy
<1>3. (\A n \in N : First(g2, n) = First(g, n)) /\ First(g2, id) = x
  BY CopyKeepsShape
<1>4. \A b \in g.edges : b.src \in N /\ b.dst \in N
  BY DEF IsGraphOf
<1>5. x \in DOMAIN h.kind
  <2> DEFINE b == Below(g, e)
  <2>1. b \in h.edges /\ b.src = x
    BY <1>1 DEF Below
  <2> HIDE DEF b, x
  <2>2. b \in [src : DOMAIN h.kind, out : Nat, dst : DOMAIN h.kind, in : Nat]
    BY <2>1, GivenEdges
  <2>3. QED
    BY <2>1, <2>2
<1>6. ReadsOver(h, g, e.src, d)
  BY <1>2, <1>4, <1>5, BroadcastReads
<1>7. /\ d \in h.edges /\ d.dst = x /\ d.in = 1 /\ d.out = 1
      /\ \A b \in h.edges : b.dst = x => b = d
      /\ g.ins[e.src][1] = <<d.src, 1>>
  BY <1>6 DEF ReadsOver
<1>8. d.src = First(g, from.src)
  BY DEF Below
<1>9. g.outs[from.src][1] = <<d.src, 1>>
  BY <1>1, <1>2, <1>4, <1>8
<1>10. g2.outs[id] = g.outs[e.src]
  BY <1>2, <1>7, <1>9
<1>11. /\ c.src = id /\ c.out = 1 /\ c.dst = e.dst /\ c.in = e.in
       /\ r.src = from.src /\ r.out = 1 /\ r.dst = id /\ r.in = 1
  BY DEF CopyOf, CopyReads
<1>12. Below(g2, c) = Below(g, e)
  <2>1. e.out = 1
    <3> DEFINE b == Below(g, e)
    <3>1. b \in h.edges /\ b.in # Control /\ h.kind[b.src] = "broadcast" /\ b.out = e.out
      BY <1>1 DEF Below
    <3> HIDE DEF b
    <3>2. h.kind[b.src] # "other"
      BY <3>1
    <3>3. QED
      BY <3>1, <3>2, GivenEdges
  <2>2. First(g2, e.dst) = First(g, e.dst)
    BY <1>3, <1>4
  <2>3. QED
    BY <1>3, <1>11, <2>1, <2>2 DEF Below
<1>13. Below(g2, r) = d
  <2>1. from.out = 1
    BY <1>7 DEF Below
  <2>2. First(g2, from.src) = First(g, from.src)
    BY <1>2, <1>3, <1>4
  <2>3. QED
    BY <1>2, <1>3, <1>11, <2>1, <2>2 DEF Below
<1>14. \A b \in g.edges : Below(g2, b) = Below(g, b)
  BY <1>3, <1>4 DEF Below
<1> HIDE DEF id, N, x, d, c, r
<1>15. c \in g2.edges /\ r \in g2.edges /\ \A b \in g.edges : b # e => b \in g2.edges
  BY <1>2
<1>16. \A b \in g2.edges : b \in g.edges \/ b = c \/ b = r
  BY <1>2
<1>17. \A b \in g2.edges : Below(g2, b) \in h.edges
  BY <1>1, <1>7, <1>12, <1>13, <1>14, <1>16
<1>18. ASSUME NEW n \in NodesOf(g2), NEW b \in h.edges, b.dst = First(g2, n)
       PROVE  \E a \in g2.edges : a.dst = n /\ Below(g2, a) = b
  <2>1. CASE n = id
    <3>1. b = d
      BY <1>3, <1>7, <1>18, <2>1
    <3>2. QED
      BY <1>11, <1>13, <1>15, <2>1, <3>1
  <2>2. CASE n \in N
    <3>1. PICK a \in g.edges : a.dst = n /\ Below(g, a) = b
      BY <1>1, <1>3, <1>18, <2>2
    <3>2. CASE a = e
      BY <1>11, <1>12, <1>15, <3>1, <3>2
    <3>3. CASE a # e
      BY <1>14, <1>15, <3>1, <3>3
    <3>4. QED
      BY <3>2, <3>3
  <2>3. QED
    BY <1>2, <2>1, <2>2
<1> DEFINE one == <<g.outs[from.src][1]>>
<1>19. DOMAIN one = {1} /\ one[1] = <<d.src, 1>> /\ g2.ins[id] = one
  BY <1>2, <1>9
<1> HIDE DEF one
<1>20. ASSUME NEW n \in NodesOf(g2), NEW i \in DOMAIN g2.ins[n]
       PROVE  \E b \in h.edges : b.dst = First(g2, n) /\ b.in = i /\ i # Control
                                 /\ g2.ins[n][i] = <<b.src, b.out>>
  <2>1. CASE n = id
    <3>1. i = 1 /\ g2.ins[n][i] = <<d.src, d.out>> /\ i # Control
      BY <1>7, <1>19, <1>20, <2>1 DEF Control
    <3>2. QED
      BY <1>3, <1>7, <2>1, <3>1
  <2>2. CASE n \in N
    BY <1>1, <1>2, <1>3, <1>20, <2>2
  <2>3. QED
    BY <1>2, <2>1, <2>2
<1>21. ASSUME NEW n \in NodesOf(g2), NEW b \in h.edges, b.dst = First(g2, n), b.in # Control
       PROVE  b.in \in DOMAIN g2.ins[n]
  <2>1. CASE n = id
    BY <1>3, <1>7, <1>19, <1>21, <2>1
  <2>2. CASE n \in N
    BY <1>1, <1>2, <1>3, <1>21, <2>2
  <2>3. QED
    BY <1>2, <2>1, <2>2
<1>22. e.src \in N /\ First(g, e.src) = x
  BY <1>4 DEF x
<1>23. ASSUME NEW n \in NodesOf(g2)
       PROVE  /\ 1 \in DOMAIN g2.outs[n]
              /\ \A i \in DOMAIN g2.outs[n] : g2.outs[n][i] = <<First(g2, n), i>>
  <2>1. CASE n = id
    BY <1>1, <1>3, <1>10, <1>22, <2>1
  <2>2. CASE n \in N
    BY <1>1, <1>2, <1>3, <2>2
  <2>3. QED
    BY <1>2, <2>1, <2>2
<1>24. ASSUME NEW b \in g2.edges, b.in # Control PROVE b.out \in DOMAIN g2.outs[b.src]
  <2>1. CASE b \in g.edges
    BY <1>1, <1>2, <1>4, <1>24, <2>1
  <2>2. CASE b = c
    BY <1>2, <1>11, <1>23, <2>2
  <2>3. CASE b = r
    BY <1>2, <1>4, <1>11, <1>23, <2>3
  <2>4. QED
    BY <1>16, <2>1, <2>2, <2>3
<1>25. QED
  BY <1>17, <1>18, <1>20, <1>21, <1>23, <1>24 DEF Covers

IsRaised(T, i, b, T2) ==
  /\ DOMAIN T2 = DOMAIN T /\ T2[i] = T[i] \cup {b}
  /\ \A k \in DOMAIN T : (k # i => T2[k] = T[k]) /\ b \notin T[k]

EdgesRaised(f, N, E, y, b, E2) ==
  /\ \A d \in E : d.src \in N /\ d.dst \in N
  /\ \A d \in E2 : \/ d \in E /\ d.src # b /\ d.dst # b
                   \/ d.src = b /\ d.dst = y
                   \/ d.dst = b /\ d.src \in N /\ d.src # b /\ f[d.src] < f[y]

(* A node may be put into a group next to one that it is read by, if all   *)
(* that it depends on is earlier.                                          *)
LEMMA Raised ==
  ASSUME NEW N, NEW E, NEW f, NEW T, IsTimed(f, N, E, T), NEW i \in DOMAIN T, NEW y \in T[i],
         NEW b, NEW T2, IsRaised(T, i, b, T2), NEW E2, EdgesRaised(f, N, E, y, b, E2)
  PROVE  /\ \E f2 : IsTimed(f2, N \cup {b}, E2, T2)
         /\ \A d \in E2 : d.dst = b => d.src \notin T2[i]
<1>9. /\ \A d \in E : d.src \in N /\ d.dst \in N
      /\ DOMAIN T2 = DOMAIN T /\ T2[i] = T[i] \cup {b}
      /\ \A k \in DOMAIN T : k # i => T2[k] = T[k]
      /\ \A k \in DOMAIN T : b \notin T[k]
      /\ \A d \in E2 : \/ d \in E /\ d.src # b /\ d.dst # b
                       \/ d.src = b /\ d.dst = y
                       \/ d.dst = b /\ d.src \in N /\ d.src # b /\ f[d.src] < f[y]
  BY DEF IsRaised, EdgesRaised
<1>1. /\ f \in [N -> Int]
      /\ \A k \in DOMAIN T : T[k] \subseteq N /\ \A u, v \in T[k] : f[u] = f[v]
      /\ \A d \in E : f[d.src] < f[d.dst] \/ \E k \in DOMAIN T : {d.src, d.dst} \subseteq T[k]
  BY DEF IsTimed
<1> DEFINE f2 == [n \in N \cup {b} |-> IF n = b THEN f[y] ELSE f[n]]
<1>2. y \in N /\ y # b /\ f[y] \in Int
  BY <1>1, <1>9
<1>3. f2 \in [N \cup {b} -> Int] /\ \A n \in N \cup {b} : f2[n] = IF n = b THEN f[y] ELSE f[n]
  <2>1. \A n \in N \cup {b} : (IF n = b THEN f[y] ELSE f[n]) \in Int
    BY <1>1, <1>2
  <2>2. QED
    BY <2>1
<1> HIDE DEF f2
<1>4. ASSUME NEW k \in DOMAIN T2
      PROVE  T2[k] \subseteq N \cup {b} /\ \A u, v \in T2[k] : f2[u] = f2[v]
  <2>1. CASE k = i
    <3>1. \A u \in T2[k] : u \in N \cup {b} /\ f2[u] = f[y]
      BY <1>1, <1>3, <1>9, <2>1
    <3>2. QED
      BY <3>1
  <2>2. CASE k # i
    BY <1>1, <1>3, <1>9, <2>2
  <2>3. QED
    BY <2>1, <2>2
<1>5. ASSUME NEW d \in E2
      PROVE  f2[d.src] < f2[d.dst] \/ \E k \in DOMAIN T2 : {d.src, d.dst} \subseteq T2[k]
  <2>1. CASE d \in E /\ d.src # b /\ d.dst # b
    <3>1. f2[d.src] = f[d.src] /\ f2[d.dst] = f[d.dst]
      BY <1>3, <1>9, <2>1
    <3>2. CASE \E k \in DOMAIN T : {d.src, d.dst} \subseteq T[k]
      <4>1. PICK k \in DOMAIN T : {d.src, d.dst} \subseteq T[k]
        BY <3>2
      <4>2. T[k] \subseteq T2[k] /\ k \in DOMAIN T2
        BY <1>9, <4>1
      <4>3. QED
        BY <4>1, <4>2
    <3>3. QED
      BY <1>1, <2>1, <3>1, <3>2
  <2>2. CASE d.src = b /\ d.dst = y
    BY <1>9, <2>2
  <2>3. CASE d.dst = b /\ d.src \in N /\ d.src # b /\ f[d.src] < f[y]
    BY <1>3, <2>3
  <2>4. QED
    BY <1>9, <2>1, <2>2, <2>3
<1>6. \E f3 : IsTimed(f3, N \cup {b}, E2, T2)
  BY <1>3, <1>4, <1>5 DEF IsTimed
<1>7. ASSUME NEW d \in E2, d.dst = b PROVE d.src \notin T2[i]
  <2>1. d.src \in N /\ d.src # b /\ f[d.src] < f[y]
    BY <1>2, <1>7, <1>9
  <2>2. d.src \notin T[i]
    <3> SUFFICES ASSUME d.src \in T[i] PROVE FALSE
      OBVIOUS
    <3>1. f[d.src] = f[y]
      BY <1>1
    <3>2. QED
      BY <1>2, <2>1, <3>1
  <2>3. QED
    BY <1>9, <2>1, <2>2
<1>8. QED
  BY <1>6, <1>7

(***************************************************************************)
(* What the steps of Absorbed keep besides.                                *)
(***************************************************************************)
SetsWith(gs, i, front) ==
  [k \in DOMAIN gs |-> IF k = i THEN Range(gs[i]) \cup front ELSE Range(gs[k])]

AbsorbsWell(h, live, g, gs, i, K, s) ==
  /\ Covers(h, s.graph) /\ DOMAIN s.graph = {"edges", "ins", "outs", "kernels", "last"}
  /\ \E f : IsTimed(f, NodesOf(s.graph), s.graph.edges, SetsWith(gs, i, Range(s.front)))
  /\ \A m \in DOMAIN gs : InSequence(s.graph.edges, gs[m])
  /\ \A d \in s.graph.edges :
       /\ d.src \in NodesOf(g) /\ d.dst \in NodesOf(g) => d \in g.edges
       /\ d.dst \in Range(s.front) => d.src \notin Range(gs[i]) \cup Range(s.front)
  /\ \A n \in Range(s.front) : \E d \in ReadersOf(s.graph, n) :
       d.dst \in K /\ h.home[First(s.graph, n)] = h.home[First(s.graph, d.dst)]
  /\ Wanted(h, s.graph, live, gs)

(* A broadcast over an edge that is looked at. *)
IsNext(h, g, gs, i, K, s, e) ==
  /\ e \in s.graph.edges /\ e.in # Control /\ e.dst \in K /\ e.src \in NodesOf(s.graph)
  /\ e.dst \in NodesOf(s.graph) /\ K \subseteq Range(gs[i]) /\ i \in DOMAIN gs
  /\ e.src \notin Range(s.front) /\ \A m \in DOMAIN gs : e.src \notin Range(gs[m])
  /\ Range(s.front) \subseteq NodesOf(s.graph) /\ Range(s.front) \cap K = {}
  /\ \A m \in DOMAIN gs : Range(gs[m]) \subseteq NodesOf(s.graph)
  /\ IsGraphOf(h, s.graph) /\ Unfused(h, s.graph)
  /\ \A d \in s.graph.edges : d.src \in NodesOf(s.graph) /\ d.dst \in NodesOf(s.graph)
  /\ NodesOf(g) \subseteq NodesOf(s.graph)

(* It is in no group yet.                                                  *)
LEMMA NextIs ==
  ASSUME NEW h, NEW g, NEW gs, NEW i, NEW K, NEW es, KeptOf(h, g, gs, i, K, es),
         NEW k \in Nat, k + 1 \in 1 .. Len(es), NEW s, Absorbs(h, g, gs, i, K, es, k, s),
         NEW e, e = es[k + 1], h.kind[First(s.graph, e.src)] = "broadcast"
  PROVE  IsNext(h, g, gs, i, K, s, e)
<1> DEFINE a == s.graph
           N == NodesOf(a)
<1>1. /\ gs \in Seq(Seq(NodesOf(g))) /\ i \in DOMAIN gs /\ Disjoint(gs) /\ K \subseteq Range(gs[i])
      /\ \A x \in K : x \in DOMAIN h.kind /\ h.kind[x] \in FusableKinds
      /\ es \in Seq(g.edges) /\ \A d \in Range(es) : d.in # Control /\ d.dst \in K
  BY DEF KeptOf
<1>2. /\ IsGraphOf(h, a) /\ Unfused(h, a) /\ NodesOf(g) \subseteq N
      /\ \A j \in k + 1 .. Len(es) : es[j] \in a.edges
      /\ s.front \in Seq(N)
      /\ \A x \in Range(s.front) : /\ h.kind[First(a, x)] = "broadcast"
                                   /\ \A j \in k + 1 .. Len(es) : es[j].src # x
      /\ Absorbing(h, a, gs, 1 .. i - 1)
  BY DEF Absorbs
<1>3. k + 1 \in k + 1 .. Len(es) /\ k + 1 \in DOMAIN es
  BY <1>1
<1>4. \A d \in a.edges : d.src \in N /\ d.dst \in N
  BY <1>2 DEF IsGraphOf
<1>5. e \in a.edges /\ e.in # Control /\ e.dst \in K /\ e.src \in N /\ e.dst \in N
  <2>1. e \in Range(es)
    BY <1>3, InRange
  <2>2. e \in a.edges
    BY <1>2, <1>3
  <2>3. QED
    BY <1>1, <1>4, <2>1, <2>2
<1>6. \A x \in DOMAIN h.kind : First(a, x) = x
  BY <1>2 DEF Unfused
<1>7. h.kind[First(a, e.src)] = "broadcast"
  OBVIOUS
<1> HIDE DEF a, N
<1>8. e.src \notin Range(s.front)
  BY <1>2, <1>3
<1>9. ASSUME NEW m \in DOMAIN gs PROVE e.src \notin Range(gs[m])
  <2> SUFFICES ASSUME e.src \in Range(gs[m]) PROVE FALSE
    OBVIOUS
  <2>1. ~ (e.src \in DOMAIN h.kind /\ h.kind[e.src] \in FusableKinds)
    BY <1>6, <1>7 DEF FusableKinds
  <2>2. m \in 1 .. i - 1 /\ \A d \in ReadersOf(a, e.src) : d.dst \in Range(gs[m])
    BY <1>2, <2>1 DEF Absorbing
  <2>3. e \in ReadersOf(a, e.src)
    BY <1>5 DEF ReadersOf
  <2>4. e.dst \in Range(gs[m]) /\ e.dst \in Range(gs[i])
    BY <1>1, <1>5, <2>2, <2>3
  <2>5. m = i
    BY <1>1, <2>4 DEF Disjoint
  <2>6. i \in Int
    BY <1>1
  <2>7. QED
    BY <2>2, <2>5, <2>6
<1>10. Range(s.front) \subseteq N
  BY <1>2, InRange
<1>11. Range(s.front) \cap K = {}
  BY <1>1, <1>2, <1>6 DEF FusableKinds
<1>12. \A m \in DOMAIN gs : Range(gs[m]) \subseteq N
  <2> TAKE m \in DOMAIN gs
  <2>1. gs[m] \in Seq(NodesOf(g))
    BY <1>1
  <2>2. Range(gs[m]) \subseteq NodesOf(g)
    BY <2>1, InRange
  <2>3. QED
    BY <1>2, <2>2
<1>13. QED
  BY <1>1, <1>2, <1>4, <1>5, <1>8, <1>9, <1>10, <1>11, <1>12 DEF IsNext, a, N

IsBefore(gs, i, s, e, T, f) ==
  /\ DOMAIN T = DOMAIN gs /\ \A m \in DOMAIN T : e.src \notin T[m]
  /\ i \in DOMAIN T /\ e.dst \in T[i]
  /\ \A d \in s.graph.edges : d.dst = e.src => d.src # e.src /\ f[d.src] < f[e.dst]

(* What a broadcast depends on is earlier than what reads it.              *)
LEMMA BeforeNext ==
  ASSUME NEW h, NEW g, NEW gs, NEW i, NEW K, NEW s, NEW e, IsNext(h, g, gs, i, K, s, e),
         NEW T, T = SetsWith(gs, i, Range(s.front)),
         NEW f, IsTimed(f, NodesOf(s.graph), s.graph.edges, T)
  PROVE  IsBefore(gs, i, s, e, T, f)
<1> DEFINE N == NodesOf(s.graph)
           E == s.graph.edges
<1>1. /\ e \in E /\ e.src \in N /\ e.dst \in N /\ e.dst \in K /\ K \subseteq Range(gs[i])
      /\ i \in DOMAIN gs /\ e.src \notin Range(s.front) /\ \A m \in DOMAIN gs : e.src \notin Range(gs[m])
      /\ \A d \in E : d.src \in N /\ d.dst \in N
  BY DEF IsNext
<1>2. /\ DOMAIN T = DOMAIN gs /\ T[i] = Range(gs[i]) \cup Range(s.front)
      /\ \A m \in DOMAIN T : m # i => T[m] = Range(gs[m])
  BY <1>1 DEF SetsWith
<1>3. \A m \in DOMAIN T : e.src \notin T[m]
  BY <1>1, <1>2
<1>4. /\ f \in [N -> Int]
      /\ \A d \in E : f[d.src] < f[d.dst] \/ \E m \in DOMAIN T : {d.src, d.dst} \subseteq T[m]
  BY DEF IsTimed
<1> HIDE DEF N, E
<1>5. f[e.src] < f[e.dst]
  BY <1>1, <1>3, <1>4
<1>6. ASSUME NEW d \in E, d.dst = e.src PROVE d.src # e.src /\ f[d.src] < f[e.dst]
  <2>1. f[d.src] < f[e.src]
    BY <1>3, <1>4, <1>6
  <2>2. f[d.src] \in Int /\ f[e.src] \in Int /\ f[e.dst] \in Int
    BY <1>1, <1>4
  <2>3. QED
    BY <1>5, <2>1, <2>2
<1>7. QED
  BY <1>1, <1>2, <1>3, <1>6 DEF IsBefore, E

(* A copy is put next to what reads it.                                    *)
LEMMA AbsorbsWellCopy ==
  ASSUME NEW h, IsGraph(h), IsPlain(h), NEW live, NEW g, NEW gs, NEW i, NEW K,
         NEW s, NEW e, IsNext(h, g, gs, i, K, s, e), AbsorbsWell(h, live, g, gs, i, K, s),
         h.kind[First(s.graph, e.src)] = "broadcast",
         h.home[First(s.graph, e.src)] = h.home[First(s.graph, e.dst)],
         NEW s2, NEW from, IsCopy(s.graph, s2.graph, e, from),
         s2.front = Append(s.front, s.graph.last + 1), s.front \in Seq(NodesOf(s.graph))
  PROVE  AbsorbsWell(h, live, g, gs, i, K, s2)
<1> DEFINE a == s.graph
           b == s2.graph
           id == a.last + 1
           N == NodesOf(a)
           T == SetsWith(gs, i, Range(s.front))
           T2 == SetsWith(gs, i, Range(s2.front))
<1>1. /\ e \in a.edges /\ e.in # Control /\ e.dst \in K /\ e.src \in N
      /\ e.dst \in N /\ K \subseteq Range(gs[i]) /\ i \in DOMAIN gs
      /\ e.src \notin Range(s.front) /\ \A m \in DOMAIN gs : e.src \notin Range(gs[m])
      /\ Range(s.front) \subseteq N /\ Range(s.front) \cap K = {}
      /\ \A m \in DOMAIN gs : Range(gs[m]) \subseteq N
      /\ IsGraphOf(h, a) /\ Unfused(h, a) /\ NodesOf(g) \subseteq N
      /\ \A d \in a.edges : d.src \in N /\ d.dst \in N
  BY DEF IsNext
<1>2. /\ Covers(h, a)
      /\ \E f : IsTimed(f, N, a.edges, T)
      /\ \A m \in DOMAIN gs : InSequence(a.edges, gs[m])
      /\ \A d \in a.edges :
           /\ d.src \in NodesOf(g) /\ d.dst \in NodesOf(g) => d \in g.edges
           /\ d.dst \in Range(s.front) => d.src \notin Range(gs[i]) \cup Range(s.front)
      /\ \A n \in Range(s.front) : \E d \in ReadersOf(a, n) :
           d.dst \in K /\ h.home[First(a, n)] = h.home[First(a, d.dst)]
      /\ Wanted(h, a, live, gs)
  BY DEF AbsorbsWell
<1>3. Covers(h, b)
  BY <1>1, <1>2, CopyCovers
<1>4. (\A n \in N : First(b, n) = First(a, n)) /\ First(b, id) = First(a, e.src)
  BY <1>1, CopyKeepsShape
<1>5. /\ id \notin N /\ NodesOf(b) = N \cup {id}
      /\ \A d \in b.edges :
           \/ d \in a.edges /\ d # e
           \/ d.src = id /\ d.dst = e.dst /\ d.in = e.in
           \/ d.src = from.src /\ d.dst = id /\ d.in # Control
      /\ \A d \in a.edges : d # e => d \in b.edges
      /\ from \in a.edges
  BY <1>1, CopyEdges
<1>6. /\ DOMAIN b = {"edges", "ins", "outs", "kernels", "last"} /\ from.dst = e.src
      /\ CopyOf(a, e) \in b.edges
  BY DEF IsCopy
<1>7. CopyOf(a, e).src = id /\ CopyOf(a, e).dst = e.dst /\ CopyOf(a, e).in = e.in
  BY DEF CopyOf
<1>8. Range(s2.front) = Range(s.front) \cup {id}
  <2>1. s2.front = Append(s.front, id)
    OBVIOUS
  <2> HIDE DEF id
  <2>2. s.front \in Seq(N \cup {id}) /\ id \in N \cup {id}
    OBVIOUS
  <2> HIDE DEF N
  <2>3. QED
    BY <2>1, <2>2, AppendRange
<1>9. PICK f : IsTimed(f, N, a.edges, T)
  BY <1>2
<1>10. /\ DOMAIN T = DOMAIN gs /\ i \in DOMAIN T /\ e.dst \in T[i]
       /\ f[from.src] < f[e.dst]
  <2>1. T = SetsWith(gs, i, Range(s.front))
    OBVIOUS
  <2> HIDE DEF T
  <2>2. IsBefore(gs, i, s, e, T, f)
    BY <1>9, <2>1, BeforeNext
  <2>3. QED
    BY <1>5, <1>6, <2>2 DEF IsBefore
<1>11. /\ DOMAIN T2 = DOMAIN T /\ T2[i] = T[i] \cup {id}
       /\ \A k \in DOMAIN T : k # i => T2[k] = T[k]
       /\ T[i] = Range(gs[i]) \cup Range(s.front)
       /\ \A k \in DOMAIN T : k # i => T[k] = Range(gs[k])
  BY <1>1, <1>8 DEF SetsWith
<1> HIDE DEF a, b, id, N, T, T2
<1>12. \A k \in DOMAIN T : id \notin T[k]
  BY <1>1, <1>5, <1>10, <1>11
<1>13. \A d \in b.edges : \/ d \in a.edges /\ d.src # id /\ d.dst # id
                          \/ d.src = id /\ d.dst = e.dst
                          \/ d.dst = id /\ d.src \in N /\ d.src # id /\ f[d.src] < f[e.dst]
  BY <1>1, <1>5, <1>10
<1>14. /\ \E f2 : IsTimed(f2, N \cup {id}, b.edges, T2)
       /\ \A d \in b.edges : d.dst = id => d.src \notin T2[i]
  <2> DEFINE E == a.edges
             E2 == b.edges
             y == e.dst
  <2>1. EdgesRaised(f, N, E, y, id, E2)
    BY <1>1, <1>13 DEF EdgesRaised
  <2>2. IsTimed(f, N, E, T) /\ i \in DOMAIN T /\ y \in T[i]
    BY <1>9, <1>10
  <2> HIDE DEF E, E2, y
  <2>3. /\ \E f2 : IsTimed(f2, N \cup {id}, E2, T2)
        /\ \A d \in E2 : d.dst = id => d.src \notin T2[i]
    <3>1. IsRaised(T, i, id, T2)
      BY <1>11, <1>12 DEF IsRaised
    <3>2. QED
      BY <2>1, <2>2, <3>1, Raised
  <2>4. QED
    BY <2>3 DEF E2
<1>15. \A d \in b.edges : d.src \in N /\ d.dst \in N => d \in a.edges /\ d # e
  BY <1>5
<1>16. ASSUME NEW m \in DOMAIN gs PROVE InSequence(b.edges, gs[m])
  <2> SUFFICES ASSUME NEW d \in b.edges, NEW u \in DOMAIN gs[m], NEW v \in DOMAIN gs[m],
                      gs[m][u] = d.src, gs[m][v] = d.dst
               PROVE  u < v
    BY DEF InSequence
  <2>1. d.src \in Range(gs[m]) /\ d.dst \in Range(gs[m])
    BY InRange
  <2>2. d \in a.edges
    BY <1>1, <1>15, <2>1
  <2>3. QED
    BY <1>2, <2>2 DEF InSequence
<1>17. ASSUME NEW d \in b.edges
       PROVE  /\ d.src \in NodesOf(g) /\ d.dst \in NodesOf(g) => d \in g.edges
              /\ d.dst \in Range(s2.front) => d.src \notin Range(gs[i]) \cup Range(s2.front)
  <2>1. d.src \in NodesOf(g) /\ d.dst \in NodesOf(g) => d \in g.edges
    BY <1>1, <1>2, <1>15
  <2>2. CASE d.dst = id
    <3>1. d.src \notin T2[i]
      BY <1>14, <2>2
    <3>2. T2[i] = Range(gs[i]) \cup Range(s2.front)
      BY <1>8, <1>11
    <3>3. QED
      BY <2>1, <3>1, <3>2
  <2>3. CASE d.dst \in Range(s.front)
    <3>1. d.dst \in N /\ d.dst # e.dst
      BY <1>1, <2>3
    <3>2. d \in a.edges
      BY <1>5, <3>1
    <3>3. d.src \notin Range(gs[i]) \cup Range(s.front) /\ d.src # id
      BY <1>1, <1>2, <1>5, <2>3, <3>2
    <3>4. QED
      BY <1>8, <2>1, <3>3
  <2>4. QED
    BY <1>8, <2>1, <2>2, <2>3
<1>18. ASSUME NEW n \in Range(s2.front)
       PROVE  \E d \in ReadersOf(b, n) : d.dst \in K /\ h.home[First(b, n)] = h.home[First(b, d.dst)]
  <2>1. CASE n = id
    <3>1. CopyOf(a, e) \in ReadersOf(b, n)
      BY <1>1, <1>6, <1>7, <2>1 DEF ReadersOf
    <3>2. h.home[First(b, n)] = h.home[First(b, e.dst)]
      BY <1>1, <1>4, <2>1 DEF a
    <3>3. QED
      BY <1>1, <1>7, <3>1, <3>2
  <2>2. CASE n \in Range(s.front)
    <3>1. PICK d \in ReadersOf(a, n) : d.dst \in K /\ h.home[First(a, n)] = h.home[First(a, d.dst)]
      BY <1>2, <2>2
    <3>2. d \in a.edges /\ d.src = n /\ d.in # Control /\ d # e
      BY <1>1, <2>2, <3>1 DEF ReadersOf
    <3>3. d \in ReadersOf(b, n)
      BY <1>5, <3>2 DEF ReadersOf
    <3>4. n \in N /\ d.dst \in N
      BY <1>1, <2>2, <3>2
    <3>5. QED
      BY <1>4, <3>1, <3>3, <3>4
  <2>3. QED
    BY <1>8, <2>1, <2>2
<1>19. Wanted(h, b, live, gs)
  <2> SUFFICES ASSUME NEW m \in DOMAIN gs, NEW n \in Range(gs[m])
               PROVE  IF h.kind[First(b, n)] \in FusableKinds THEN n \in live
                      ELSE \E d \in ReadersOf(b, n) : d.dst \in live \cap Range(gs[m])
    BY DEF Wanted
  <2>1. First(b, n) = First(a, n) /\ n # e.src
    BY <1>1, <1>4
  <2>2. IF h.kind[First(a, n)] \in FusableKinds THEN n \in live
        ELSE \E d \in ReadersOf(a, n) : d.dst \in live \cap Range(gs[m])
    BY <1>2 DEF Wanted
  <2>3. \A d \in ReadersOf(a, n) : d \in ReadersOf(b, n)
    BY <1>5, <2>1 DEF ReadersOf
  <2>4. QED
    BY <2>1, <2>2, <2>3
<1>20. \E f2 : IsTimed(f2, NodesOf(b), b.edges, T2)
  BY <1>5, <1>14
<1>21. QED
  BY <1>3, <1>6, <1>16, <1>17, <1>18, <1>19, <1>20 DEF AbsorbsWell, b, T2

(* So is a broadcast with one reader.                                      *)
LEMMA AbsorbsWellTaken ==
  ASSUME NEW h, IsPlain(h), NEW live, NEW g, NEW gs, NEW i, NEW K,
         NEW s, NEW e, IsNext(h, g, gs, i, K, s, e), AbsorbsWell(h, live, g, gs, i, K, s),
         h.kind[First(s.graph, e.src)] = "broadcast",
         h.home[First(s.graph, e.src)] = h.home[First(s.graph, e.dst)],
         NEW s2, s2.graph = s.graph, ReadersOf(s.graph, e.src) = {e},
         s2.front = Append(s.front, e.src), s.front \in Seq(NodesOf(s.graph))
  PROVE  AbsorbsWell(h, live, g, gs, i, K, s2)
<1> DEFINE a == s.graph
           b == e.src
           N == NodesOf(a)
           T == SetsWith(gs, i, Range(s.front))
           T2 == SetsWith(gs, i, Range(s2.front))
<1>1. /\ e \in a.edges /\ e.in # Control /\ e.dst \in K /\ b \in N
      /\ e.dst \in N /\ K \subseteq Range(gs[i]) /\ i \in DOMAIN gs
      /\ b \notin Range(s.front) /\ Range(s.front) \cap K = {}
      /\ \A d \in a.edges : d.src \in N /\ d.dst \in N
  BY DEF IsNext
<1>2. /\ Covers(h, a) /\ DOMAIN a = {"edges", "ins", "outs", "kernels", "last"}
      /\ \E f : IsTimed(f, N, a.edges, T)
      /\ \A m \in DOMAIN gs : InSequence(a.edges, gs[m])
      /\ \A d \in a.edges :
           /\ d.src \in NodesOf(g) /\ d.dst \in NodesOf(g) => d \in g.edges
           /\ d.dst \in Range(s.front) => d.src \notin Range(gs[i]) \cup Range(s.front)
      /\ \A n \in Range(s.front) : \E d \in ReadersOf(a, n) :
           d.dst \in K /\ h.home[First(a, n)] = h.home[First(a, d.dst)]
      /\ Wanted(h, a, live, gs)
  BY DEF AbsorbsWell
<1>3. Range(s2.front) = Range(s.front) \cup {b}
  BY <1>1, AppendRange
<1>4. PICK f : IsTimed(f, N, a.edges, T)
  BY <1>2
<1>5. /\ DOMAIN T = DOMAIN gs /\ i \in DOMAIN T /\ e.dst \in T[i]
      /\ \A m \in DOMAIN T : b \notin T[m]
      /\ \A d \in a.edges : d.dst = b => d.src # b /\ f[d.src] < f[e.dst]
  <2>1. T = SetsWith(gs, i, Range(s.front))
    OBVIOUS
  <2> HIDE DEF T
  <2>2. IsBefore(gs, i, s, e, T, f)
    BY <1>4, <2>1, BeforeNext
  <2>3. QED
    BY <2>2 DEF IsBefore
<1>6. /\ DOMAIN T2 = DOMAIN T /\ T2[i] = T[i] \cup {b}
      /\ \A k \in DOMAIN T : k # i => T2[k] = T[k]
      /\ T[i] = Range(gs[i]) \cup Range(s.front)
  BY <1>1, <1>3 DEF SetsWith
<1>7. h.kind[First(a, b)] = "broadcast" /\ h.home[First(a, b)] = h.home[First(a, e.dst)]
      /\ ReadersOf(a, b) = {e} /\ s2.graph = a
  OBVIOUS
<1> HIDE DEF a, b, N, T, T2
<1>8. \A d \in a.edges : d.src = b => d = e
  <2> SUFFICES ASSUME NEW d \in a.edges, d.src = b PROVE d.in # Control
    BY <1>7 DEF ReadersOf
  <2> DEFINE c == Below(a, d)
  <2>1. c \in h.edges /\ h.kind[c.src] = "broadcast" /\ c.in = d.in
    BY <1>2, <1>7 DEF Covers, Below
  <2> HIDE DEF c
  <2>2. QED
    BY <2>1 DEF IsPlain
<1>9. \A d \in a.edges : \/ d \in a.edges /\ d.src # b /\ d.dst # b
                         \/ d.src = b /\ d.dst = e.dst
                         \/ d.dst = b /\ d.src \in N /\ d.src # b /\ f[d.src] < f[e.dst]
  BY <1>1, <1>5, <1>8
<1>10. /\ \E f2 : IsTimed(f2, N \cup {b}, a.edges, T2)
       /\ \A d \in a.edges : d.dst = b => d.src \notin T2[i]
  <2> DEFINE E == a.edges
             y == e.dst
  <2>1. EdgesRaised(f, N, E, y, b, E)
    BY <1>1, <1>9 DEF EdgesRaised
  <2>2. /\ IsTimed(f, N, E, T) /\ i \in DOMAIN T /\ y \in T[i]
        /\ \A m \in DOMAIN T : b \notin T[m]
    BY <1>4, <1>5
  <2> HIDE DEF E, y
  <2>3. /\ \E f2 : IsTimed(f2, N \cup {b}, E, T2)
        /\ \A d \in E : d.dst = b => d.src \notin T2[i]
    <3>1. IsRaised(T, i, b, T2)
      BY <1>6, <2>2 DEF IsRaised
    <3>2. QED
      BY <2>1, <2>2, <3>1, Raised
  <2>4. QED
    BY <2>3 DEF E
<1>11. N \cup {b} = N
  BY <1>1
<1>12. \A d \in a.edges :
         d.dst \in Range(s2.front) => d.src \notin Range(gs[i]) \cup Range(s2.front)
  <2> TAKE d \in a.edges
  <2>1. CASE d.dst = b
    <3>1. d.src \notin T2[i]
      BY <1>10, <2>1
    <3>2. QED
      BY <1>3, <1>6, <3>1
  <2>2. CASE d.dst \in Range(s.front)
    <3>1. d.src # b
      BY <1>1, <1>8, <2>2
    <3>2. QED
      BY <1>2, <1>3, <2>2, <3>1
  <2>3. QED
    BY <1>3, <2>1, <2>2
<1>13. \A n \in Range(s2.front) : \E d \in ReadersOf(a, n) :
         d.dst \in K /\ h.home[First(a, n)] = h.home[First(a, d.dst)]
  BY <1>1, <1>2, <1>3, <1>7
<1>14. \E f2 : IsTimed(f2, N, a.edges, T2)
  BY <1>10, <1>11
<1>15. QED
  BY <1>2, <1>7, <1>12, <1>13, <1>14 DEF AbsorbsWell, N, T2

(* Nothing is absorbed at first, ...                                       *)
LEMMA AbsorbsWellFirst ==
  ASSUME NEW h, NEW live, NEW g, NEW U, NEW gs \in Seq(Seq(U)), NEW i \in DOMAIN gs, NEW K,
         Covers(h, g), DOMAIN g = {"edges", "ins", "outs", "kernels", "last"},
         Timed(g, SetsFrom(gs, 1)), GroupsAlike(h, g, gs, 1), Wanted(h, g, live, gs)
  PROVE  AbsorbsWell(h, live, g, gs, i, K, [graph |-> g, front |-> <<>>])
<1> DEFINE s == [graph |-> g, front |-> <<>>]
<1>1. s.graph = g /\ Range(s.front) = {}
  BY DEF Range
<1>2. DOMAIN gs = 1 .. Len(gs) /\ \A m \in DOMAIN gs : m >= 1
  OBVIOUS
<1>3. SetsWith(gs, i, {}) = SetsFrom(gs, 1)
  <2>1. \A k \in DOMAIN gs : (IF k = i THEN Range(gs[i]) \cup {} ELSE Range(gs[k])) = Range(gs[k])
    OBVIOUS
  <2>2. SetsWith(gs, i, {}) = [k \in DOMAIN gs |-> Range(gs[k])]
    BY <2>1 DEF SetsWith
  <2>3. QED
    BY <1>2, <2>2 DEF SetsFrom
<1> HIDE DEF s
<1>4. \E f : IsTimed(f, NodesOf(g), g.edges, SetsWith(gs, i, {}))
  BY <1>3 DEF Timed
<1>5. \A m \in DOMAIN gs : InSequence(g.edges, gs[m])
  BY <1>2 DEF GroupsAlike
<1>6. AbsorbsWell(h, live, g, gs, i, K, s)
  BY <1>1, <1>4, <1>5 DEF AbsorbsWell
<1>7. QED
  BY <1>6 DEF s

(* ... and every step is one of these.                                     *)
LEMMA AbsorbsWellNext ==
  ASSUME NEW h, IsGraph(h), IsPlain(h), NEW live, NEW g, NEW gs, NEW i, NEW K, NEW es,
         KeptOf(h, g, gs, i, K, es), NEW k \in Nat, k + 1 \in 1 .. Len(es),
         NEW s, Absorbs(h, g, gs, i, K, es, k, s), AbsorbsWell(h, live, g, gs, i, K, s),
         NEW s2, AbsorbedStep(h, s, s2, es[k + 1])
  PROVE  AbsorbsWell(h, live, g, gs, i, K, s2)
<1> DEFINE e == es[k + 1]
<1>1. s.front \in Seq(NodesOf(s.graph))
  BY DEF Absorbs
<1>2. CASE s2 = s
  BY <1>2
<1>3. CASE s2 # s
  <2>1. /\ h.kind[First(s.graph, e.src)] = "broadcast"
        /\ h.home[First(s.graph, e.src)] = h.home[First(s.graph, e.dst)]
        /\ \/ /\ \E from \in s.graph.edges : IsCopy(s.graph, s2.graph, e, from)
              /\ s2.front = Append(s.front, s.graph.last + 1)
           \/ /\ s2.graph = s.graph /\ ReadersOf(s.graph, e.src) = {e}
              /\ s2.front = Append(s.front, e.src)
    BY <1>3 DEF AbsorbedStep
  <2>2. e = es[k + 1]
    OBVIOUS
  <2> HIDE DEF e
  <2>3. IsNext(h, g, gs, i, K, s, e)
    BY <2>1, <2>2, NextIs
  <2>4. CASE /\ \E from \in s.graph.edges : IsCopy(s.graph, s2.graph, e, from)
             /\ s2.front = Append(s.front, s.graph.last + 1)
    BY <1>1, <2>1, <2>3, <2>4, AbsorbsWellCopy
  <2>5. CASE /\ s2.graph = s.graph /\ ReadersOf(s.graph, e.src) = {e}
             /\ s2.front = Append(s.front, e.src)
    BY <1>1, <2>1, <2>3, <2>5, AbsorbsWellTaken
  <2>6. QED
    BY <2>1, <2>4, <2>5
<1>4. QED
  BY <1>2, <1>3

(* Hence they hold when all edges have been looked at.                     *)
LEMMA AbsorbsWellAll ==
  ASSUME NEW h, IsGraph(h), IsPlain(h), NEW live, NEW g, NEW gs, NEW i, NEW K, NEW es,
         KeptOf(h, g, gs, i, K, es), NEW over, AbsorbedChain(h, g, gs, i, K, es, over),
         AbsorbsWell(h, live, g, gs, i, K, [graph |-> g, front |-> <<>>])
  PROVE  AbsorbsWell(h, live, g, gs, i, K, over[Len(es)])
<1>1. es \in Seq(g.edges)
  BY DEF KeptOf
<1>2. Len(es) \in Nat
  BY <1>1
<1>3. /\ over[0] = [graph |-> g, front |-> <<>>]
      /\ \A k \in 0 .. Len(es) : Absorbs(h, g, gs, i, K, es, k, over[k])
      /\ \A k \in 0 .. Len(es) - 1 : AbsorbedStep(h, over[k], over[k + 1], es[k + 1])
  BY DEF AbsorbedChain
<1> DEFINE S == {k \in Nat : k \in 0 .. Len(es) => AbsorbsWell(h, live, g, gs, i, K, over[k])}
<1>4. 0 \in S
  BY <1>3
<1>5. ASSUME NEW k \in Nat, k \in S PROVE k + 1 \in S
  <2> SUFFICES ASSUME k + 1 \in 0 .. Len(es)
               PROVE  AbsorbsWell(h, live, g, gs, i, K, over[k + 1])
    OBVIOUS
  <2>1. k \in 0 .. Len(es) /\ k \in 0 .. Len(es) - 1 /\ k + 1 \in 1 .. Len(es)
    BY <1>2
  <2>2. AbsorbsWell(h, live, g, gs, i, K, over[k])
    BY <1>5, <2>1
  <2>3. Absorbs(h, g, gs, i, K, es, k, over[k]) /\ AbsorbedStep(h, over[k], over[k + 1], es[k + 1])
    BY <1>3, <2>1
  <2>4. QED
    BY <2>1, <2>2, <2>3, AbsorbsWellNext
<1>6. Nat \subseteq S
  <2> HIDE DEF S
  <2>1. QED
    BY <1>4, <1>5, EveryNumber
<1>7. QED
  BY <1>2, <1>6

(***************************************************************************)
(* The reshapes that are kept.                                             *)
(***************************************************************************)
Stays(n, ns) == KindOf(n) = "elementwise" \/ \E e \in ReadersOf(graph, n) : e.dst \in ns

KeptInSteps(stay, s) ==
  /\ stay[0] = {}
  /\ \A k \in Nat : k + 1 \in 0 .. Len(s) =>
       stay[k + 1] = stay[k] \cup {n \in {s[Len(s) - k]} : Stays(n, stay[k])}
  /\ Kept(s) = Among(s, stay[Len(s)])

(* They are found from the last to the first.                              *)
LEMMA KeptSteps ==
  ASSUME NEW T, NEW s \in Seq(T)
  PROVE  \E stay : KeptInSteps(stay, s)
<1> DEFINE n == Len(s)
           S == SUBSET T
           step == [k \in Nat |-> [P \in S |->
                      IF k \in 1 .. n THEN P \cup {x \in {s[n + 1 - k]} : Stays(x, P)} ELSE P]]
           By(f) == f = [k \in 0 .. n |-> IF k = 0 THEN {}
                          ELSE f[k - 1] \cup {x \in {s[n + 1 - k]} : Stays(x, f[k - 1])}]
           stay == CHOOSE f : By(f)
<1>1. n \in Nat /\ DOMAIN s = 1 .. n /\ \A k \in 1 .. n : s[n + 1 - k] \in T
  <2>1. \A k \in 1 .. n : n + 1 - k \in 1 .. n
    OBVIOUS
  <2>2. QED
    BY <2>1
<1>2. step \in [Nat -> [S -> S]] /\ {} \in S
  <2>1. \A k \in Nat : \A P \in S :
          (IF k \in 1 .. n THEN P \cup {x \in {s[n + 1 - k]} : Stays(x, P)} ELSE P) \in S
    BY <1>1
  <2> HIDE DEF S
  <2>2. QED
    BY <2>1 DEF S
<1> HIDE DEF S
<1>3. \E f : By(f)
  <2>1. PICK f \in [0 .. n -> S] : StepsOn(f, {}, step, n)
    BY <1>1, <1>2, StepsExist
  <2>2. \A k \in 0 .. n : f[k] = IF k = 0 THEN {} ELSE step[k][f[k - 1]]
    <3>1. f = [k \in 0 .. n |-> IF k = 0 THEN {} ELSE step[k][f[k - 1]]]
      BY <2>1 DEF StepsOn
    <3>2. QED
      BY <3>1
  <2>3. \A k \in 0 .. n : k # 0 => k \in Nat /\ k \in 1 .. n /\ f[k - 1] \in S
    <3>1. \A k \in 0 .. n : k # 0 => k \in Nat /\ k \in 1 .. n /\ k - 1 \in 0 .. n
      BY <1>1
    <3>2. QED
      BY <2>1, <3>1
  <2>4. \A k \in 0 .. n : k # 0 =>
          step[k][f[k - 1]] = f[k - 1] \cup {x \in {s[n + 1 - k]} : Stays(x, f[k - 1])}
    BY <2>3
  <2> HIDE DEF step, n
  <2>5. \A k \in 0 .. n : f[k] = IF k = 0 THEN {}
          ELSE f[k - 1] \cup {x \in {s[n + 1 - k]} : Stays(x, f[k - 1])}
    BY <2>2, <2>4
  <2> DEFINE g == [k \in 0 .. n |-> IF k = 0 THEN {}
                     ELSE f[k - 1] \cup {x \in {s[n + 1 - k]} : Stays(x, f[k - 1])}]
  <2>6. f = g
    BY <2>1, <2>5
  <2>7. QED
    BY <2>6
<1>4. stay = [k \in 0 .. n |-> IF k = 0 THEN {}
                ELSE stay[k - 1] \cup {x \in {s[n + 1 - k]} : Stays(x, stay[k - 1])}]
  BY <1>3
<1>5. Kept(s) = Among(s, stay[n])
  BY DEF Kept, Stays
<1> HIDE DEF stay, step, n
<1>6. stay[0] = {}
  BY <1>1, <1>4
<1>7. ASSUME NEW k \in Nat, k + 1 \in 0 .. n
      PROVE  stay[k + 1] = stay[k] \cup {x \in {s[n - k]} : Stays(x, stay[k])}
  <2>1. k + 1 # 0 /\ (k + 1) - 1 = k /\ n + 1 - (k + 1) = n - k
    BY <1>1
  <2>2. stay[k + 1] = stay[(k + 1) - 1] \cup
                        {x \in {s[n + 1 - (k + 1)]} : Stays(x, stay[(k + 1) - 1])}
    BY <1>4, <1>7, <2>1
  <2>3. QED
    BY <2>1, <2>2
<1>8. KeptInSteps(stay, s)
  BY <1>5, <1>6, <1>7 DEF KeptInSteps, n
<1>9. QED
  BY <1>8

(* A node stays if it does when it is looked at.                           *)
LEMMA StaysAt ==
  ASSUME NEW T, NEW s \in Seq(T), NEW stay, KeptInSteps(stay, s)
  PROVE  \A k \in 0 .. Len(s) : \A x :
           x \in stay[k] <=> \E j \in 1 .. k : x = s[(Len(s) + 1) - j] /\ Stays(x, stay[j - 1])
<1> DEFINE n == Len(s)
           By(x, j) == x = s[(n + 1) - j] /\ Stays(x, stay[j - 1])
           S == {k \in Nat : k \in 0 .. n => \A x : x \in stay[k] <=> \E j \in 1 .. k : By(x, j)}
<1>1. n \in Nat /\ stay[0] = {}
      /\ \A k \in Nat : k + 1 \in 0 .. n =>
           stay[k + 1] = stay[k] \cup {x \in {s[n - k]} : Stays(x, stay[k])}
  BY DEF KeptInSteps
<1> HIDE DEF n
<1>2. 0 \in S
  BY <1>1
<1>3. ASSUME NEW k \in Nat, k \in S PROVE k + 1 \in S
  <2> SUFFICES ASSUME k + 1 \in 0 .. n, NEW x
               PROVE  x \in stay[k + 1] <=> \E j \in 1 .. k + 1 : By(x, j)
    OBVIOUS
  <2>1. k \in 0 .. n /\ (n + 1) - (k + 1) = n - k /\ (k + 1) - 1 = k /\ k + 1 \in 1 .. k + 1
    BY <1>1
  <2>2. x \in stay[k] <=> \E j \in 1 .. k : By(x, j)
    BY <1>3, <2>1
  <2>3. x \in stay[k + 1] <=> x \in stay[k] \/ (x = s[n - k] /\ Stays(x, stay[k]))
    BY <1>1
  <2>4. By(x, k + 1) <=> x = s[n - k] /\ Stays(x, stay[k])
    BY <2>1
  <2>5. \A j : j \in 1 .. k + 1 <=> j \in 1 .. k \/ j = k + 1
    OBVIOUS
  <2> HIDE DEF By
  <2>6. QED
    BY <2>2, <2>3, <2>4, <2>5
<1>4. Nat \subseteq S
  <2> HIDE DEF S
  <2>1. QED
    BY <1>2, <1>3, EveryNumber
<1>5. QED
  BY <1>1, <1>4 DEF n

(* A node that is not kept is a reshape that nothing kept reads.           *)
LEMMA KeptIsRead ==
  ASSUME NEW T, NEW s \in Seq(T), IsInjective(s), InSequence(graph.edges, s),
         NEW n \in Range(s), n \notin Range(Kept(s))
  PROVE  /\ KindOf(n) # "elementwise"
         /\ \A e \in ReadersOf(graph, n) : e.dst \notin Range(Kept(s))
<1> DEFINE l == Len(s)
<1>1. PICK stay : KeptInSteps(stay, s)
  BY KeptSteps
<1>2. Range(Kept(s)) = Range(s) \cap stay[l]
  <2>1. Kept(s) = Among(s, stay[l])
    BY <1>1 DEF KeptInSteps
  <2>2. QED
    BY <2>1, AmongIs
<1>3. \A k \in 0 .. l : \A x :
        x \in stay[k] <=> \E j \in 1 .. k : x = s[(l + 1) - j] /\ Stays(x, stay[j - 1])
  BY <1>1, StaysAt
<1>4. l \in Nat /\ DOMAIN s = 1 .. l
  OBVIOUS
<1> HIDE DEF l
<1>5. PICK p \in 1 .. l : s[p] = n
  BY <1>4, InRange
<1> DEFINE j == (l + 1) - p
<1>6. j \in 1 .. l /\ (l + 1) - j = p /\ j - 1 \in 0 .. l /\ l \in 0 .. l
  BY <1>4
<1> HIDE DEF j
<1>7. ~Stays(n, stay[j - 1])
  <2>1. n \notin stay[l]
    BY <1>2
  <2>2. QED
    BY <1>3, <1>5, <1>6, <2>1
<1>8. ASSUME NEW e \in ReadersOf(graph, n), e.dst \in Range(Kept(s))
      PROVE  e.dst \in stay[j - 1]
  <2>1. e.dst \in stay[l] /\ e \in graph.edges /\ e.src = n
    BY <1>2, <1>8 DEF ReadersOf
  <2>2. PICK q \in 1 .. l : e.dst = s[(l + 1) - q] /\ Stays(e.dst, stay[q - 1])
    BY <1>3, <1>6, <2>1
  <2>3. (l + 1) - q \in 1 .. l
    BY <1>4
  <2>4. p < (l + 1) - q
    BY <1>4, <1>5, <2>1, <2>2, <2>3 DEF InSequence
  <2>5. q \in 1 .. j - 1
    BY <1>4, <1>6, <2>4 DEF j
  <2>6. QED
    BY <1>3, <1>6, <2>2, <2>5
<1>9. QED
  BY <1>7, <1>8 DEF Stays

(***************************************************************************)
(* A group from which D is dropped and which s.front is put before.        *)
(***************************************************************************)
Regroups(h, g, gs, i, c, s, new, gs2) ==
  /\ gs \in Seq(Seq(NodesOf(g))) /\ i \in DOMAIN gs /\ Disjoint(gs)
  /\ c \in Seq(NodesOf(g)) /\ Range(c) \subseteq Range(gs[i])
  /\ \A n \in Range(gs[i]) : n \in DOMAIN h.kind /\ h.kind[n] \in FusableKinds
  /\ \A n \in Range(gs[i]) \ Range(c) :
       h.kind[n] # "elementwise" /\ \A e \in ReadersOf(g, n) : e.dst \notin Range(c)
  /\ \A a, b \in DOMAIN c : a < b =>
       \E x, y \in DOMAIN gs[i] : x < y /\ c[a] = gs[i][x] /\ c[b] = gs[i][y]
  /\ IsGraphOf(h, s.graph) /\ Unfused(h, s.graph) /\ NodesOf(g) \subseteq NodesOf(s.graph)
  /\ \A n \in NodesOf(g) : First(s.graph, n) = First(g, n)
  /\ s.front \in Seq(NodesOf(s.graph))
  /\ \A n \in Range(s.front) : /\ h.kind[First(s.graph, n)] = "broadcast"
                               /\ \A e \in ReadersOf(s.graph, n) : e.dst \in Range(c)
  /\ \A m \in DOMAIN gs : m # i => Range(gs[m]) \cap Range(s.front) = {}
  /\ new = s.front \o c /\ gs2 \in Seq(Seq(NodesOf(s.graph))) /\ DOMAIN gs2 = DOMAIN gs
  /\ gs2[i] = new /\ \A m \in DOMAIN gs : m # i => gs2[m] = gs[m]

(* What is in the group then.                                              *)
LEMMA RegroupedIs ==
  ASSUME NEW h, NEW g, NEW gs, NEW i, NEW c, NEW s, NEW new, NEW gs2,
         Regroups(h, g, gs, i, c, s, new, gs2)
  PROVE  /\ IsConcat(new, NodesOf(s.graph), s.front, c, Len(s.front), Len(c))
         /\ c \in Seq(NodesOf(s.graph)) /\ gs[i] \in Seq(NodesOf(s.graph))
         /\ Range(new) = Range(s.front) \cup Range(c)
         /\ Range(s.front) \cap Range(gs[i]) = {}
         /\ \A n \in Range(gs[i]) : First(s.graph, n) = n /\ First(g, n) = n
<1> DEFINE N == NodesOf(g)
           N2 == NodesOf(s.graph)
<1>1. /\ gs \in Seq(Seq(N)) /\ i \in DOMAIN gs /\ c \in Seq(N) /\ N \subseteq N2
      /\ s.front \in Seq(N2) /\ new = s.front \o c /\ Range(c) \subseteq Range(gs[i])
      /\ \A n \in Range(gs[i]) : n \in DOMAIN h.kind /\ h.kind[n] \in FusableKinds
      /\ \A n \in N : First(s.graph, n) = First(g, n)
      /\ \A n \in DOMAIN h.kind : First(s.graph, n) = n
      /\ \A n \in Range(s.front) : h.kind[First(s.graph, n)] = "broadcast"
  BY DEF Regroups, Unfused
<1> HIDE DEF N, N2
<1>2. gs[i] \in Seq(N)
  BY <1>1
<1>3. c \in Seq(N2) /\ gs[i] \in Seq(N2)
  BY <1>1, <1>2
<1>4. Range(gs[i]) \subseteq N
  BY <1>2, InRange
<1>5. Range(s.front) \cap Range(gs[i]) = {}
  <2> SUFFICES ASSUME NEW n \in Range(s.front), n \in Range(gs[i]) PROVE FALSE
    OBVIOUS
  <2>1. First(s.graph, n) = n /\ h.kind[n] \in FusableKinds /\ h.kind[n] = "broadcast"
    BY <1>1
  <2>2. QED
    BY <2>1 DEF FusableKinds
<1>6. Range(new) = Range(s.front) \cup Range(c)
  BY <1>1, <1>3, ConcatRange
<1>7. IsConcat(new, N2, s.front, c, Len(s.front), Len(c))
  BY <1>1, <1>3, ConcatAt
<1>8. \A n \in Range(gs[i]) : First(s.graph, n) = n /\ First(g, n) = n
  BY <1>1, <1>4
<1>9. QED
  BY <1>3, <1>5, <1>6, <1>7, <1>8 DEF N2

(* Edges go forward in it.                                                 *)
LEMMA RegroupedInSequence ==
  ASSUME NEW h, NEW live, NEW g, NEW gs, NEW i, NEW c, NEW s, NEW new, NEW gs2,
         Regroups(h, g, gs, i, c, s, new, gs2), AbsorbsWell(h, live, g, gs, i, Range(c), s)
  PROVE  InSequence(s.graph.edges, new)
<1> DEFINE E2 == s.graph.edges
           N2 == NodesOf(s.graph)
           l == Len(s.front)
           r == gs[i]
<1> SUFFICES ASSUME NEW e \in E2, NEW a \in DOMAIN new, NEW b \in DOMAIN new,
                    new[a] = e.src, new[b] = e.dst
             PROVE  a < b
  BY DEF InSequence
<1>1. /\ IsConcat(new, N2, s.front, c, l, Len(c)) /\ c \in Seq(N2) /\ r \in Seq(N2)
      /\ Range(new) = Range(s.front) \cup Range(c)
  BY RegroupedIs
<1>2. /\ Range(c) \subseteq Range(r) /\ i \in DOMAIN gs /\ s.front \in Seq(N2)
      /\ \A x, y \in DOMAIN c : x < y =>
           \E p, q \in DOMAIN r : p < q /\ c[x] = r[p] /\ c[y] = r[q]
  BY DEF Regroups
<1>3. /\ InSequence(E2, r)
      /\ e.dst \in Range(s.front) => e.src \notin Range(r) \cup Range(s.front)
  BY <1>2 DEF AbsorbsWell
<1>4. l \in Nat /\ DOMAIN s.front = 1 .. l /\ Len(c) \in Nat /\ DOMAIN c = 1 .. Len(c)
  BY <1>1, <1>2
<1> HIDE DEF E2, N2, l, r
<1>5. /\ DOMAIN new = 1 .. l + Len(c)
      /\ \A k \in 1 .. l + Len(c) : new[k] = IF k <= l THEN s.front[k] ELSE c[k - l]
  BY <1>1 DEF IsConcat
<1>6. InSequence(E2, c)
  BY <1>1, <1>2, <1>3, SubInSequence
<1>7. a \in Int /\ b \in Int /\ 1 <= a /\ 1 <= b /\ a <= l + Len(c) /\ b <= l + Len(c)
  BY <1>4, <1>5
<1>8. b > l
  <2> SUFFICES ASSUME b <= l PROVE FALSE
    BY <1>4, <1>5, <1>7
  <2>1. b \in DOMAIN s.front /\ s.front[b] = e.dst
    BY <1>4, <1>5, <1>7
  <2>2. e.dst \in Range(s.front)
    BY <2>1, InRange
  <2>3. e.src \in Range(new)
    BY InRange
  <2>4. QED
    BY <1>1, <1>2, <1>3, <2>2, <2>3
<1>9. CASE a > l
  <2>1. a - l \in DOMAIN c /\ b - l \in DOMAIN c /\ c[a - l] = e.src /\ c[b - l] = e.dst
    BY <1>4, <1>5, <1>7, <1>8, <1>9
  <2>2. a - l < b - l
    BY <1>6, <2>1 DEF InSequence
  <2>3. QED
    BY <1>4, <1>5, <1>7, <2>2
<1>10. QED
  BY <1>4, <1>5, <1>7, <1>8, <1>9

(* The nodes of the group are alike.                                       *)
LEMMA RegroupedAlike ==
  ASSUME NEW h, IsGraph(h), NEW live, NEW g, NEW gs, NEW i, NEW c, NEW s, NEW new, NEW gs2,
         Regroups(h, g, gs, i, c, s, new, gs2), AbsorbsWell(h, live, g, gs, i, Range(c), s),
         AllAlike(h, g, gs[i])
  PROVE  AllAlike(h, s.graph, new)
<1> DEFINE F(n) == First(s.graph, n)
           a == s.graph
           K == Range(c)
           Like(m, n) == h.size[m] = h.size[n] /\ h.home[m] = h.home[n]
<1>1. /\ Range(new) = Range(s.front) \cup K
      /\ \A n \in Range(gs[i]) : F(n) = n /\ First(g, n) = n
  BY RegroupedIs
<1>2. /\ K \subseteq Range(gs[i]) /\ \A n \in K : h.kind[n] \in FusableKinds
      /\ \A n \in Range(s.front) : h.kind[F(n)] = "broadcast"
  BY DEF Regroups
<1>3. \A m, n \in K : Like(m, n)
  BY <1>1, <1>2 DEF AllAlike
<1>4. /\ \A d \in a.edges : Below(a, d) \in h.edges
      /\ \A n \in Range(s.front) : \E d \in ReadersOf(a, n) : d.dst \in K /\ h.home[F(n)] = h.home[F(d.dst)]
  BY DEF AbsorbsWell, Covers
<1>5. ASSUME NEW n \in Range(s.front) PROVE \E m \in K : Like(F(n), m)
  <2>1. PICK d \in ReadersOf(a, n) : d.dst \in K /\ h.home[F(n)] = h.home[F(d.dst)]
    BY <1>4
  <2>2. d \in a.edges /\ d.src = n /\ d.in # Control
    BY <2>1 DEF ReadersOf
  <2> DEFINE b == Below(a, d)
  <2>3. b \in h.edges /\ b.src = F(n) /\ b.dst = F(d.dst) /\ b.in = d.in
    BY <1>4, <2>2 DEF Below
  <2>4. F(d.dst) = d.dst
    BY <1>1, <1>2, <2>1
  <2> HIDE DEF b, F
  <2>5. h.kind[b.dst] \in FusableKinds /\ h.kind[b.src] # "other"
    BY <1>2, <2>1, <2>3, <2>4
  <2>6. h.size[b.src] = h.size[b.dst]
    BY <2>2, <2>3, <2>5 DEF IsGraph
  <2>7. QED
    BY <2>1, <2>3, <2>4, <2>6
<1> HIDE DEF F, K
<1>6. \A n \in Range(new) : \E m \in K : Like(F(n), m)
  <2>1. \A n \in K : F(n) = n /\ Like(F(n), n)
    BY <1>1, <1>2
  <2>2. QED
    BY <1>1, <1>5, <2>1
<1>7. \A m, n \in Range(new) : Like(F(m), F(n))
  BY <1>3, <1>6
<1>8. QED
  BY <1>7 DEF AllAlike, F

(* What is in the group is wanted.                                         *)
LEMMA RegroupedWanted ==
  ASSUME NEW h, NEW live, NEW g, NEW gs, NEW i, NEW c, NEW s, NEW new, NEW gs2,
         Regroups(h, g, gs, i, c, s, new, gs2), AbsorbsWell(h, live, g, gs, i, Range(c), s)
  PROVE  Wanted(h, s.graph, live, gs2)
<1> DEFINE a == s.graph
           K == Range(c)
<1>1. /\ Range(new) = Range(s.front) \cup K
      /\ \A n \in Range(gs[i]) : First(a, n) = n
  BY RegroupedIs
<1>2. /\ K \subseteq Range(gs[i]) /\ \A n \in K : h.kind[n] \in FusableKinds
      /\ \A n \in Range(s.front) : h.kind[First(a, n)] = "broadcast"
      /\ i \in DOMAIN gs /\ DOMAIN gs2 = DOMAIN gs /\ gs2[i] = new
      /\ \A m \in DOMAIN gs : m # i => gs2[m] = gs[m]
  BY DEF Regroups
<1>3. /\ Wanted(h, a, live, gs)
      /\ \A n \in Range(s.front) : \E d \in ReadersOf(a, n) : d.dst \in K
  BY DEF AbsorbsWell
<1> HIDE DEF a, K
<1>4. \A n \in K : n \in live /\ First(a, n) = n
  BY <1>1, <1>2, <1>3 DEF Wanted
<1>5. ASSUME NEW n \in Range(new)
      PROVE  IF h.kind[First(a, n)] \in FusableKinds THEN n \in live
             ELSE \E e \in ReadersOf(a, n) : e.dst \in live \cap Range(new)
  <2>1. CASE n \in K
    BY <1>2, <1>4, <2>1
  <2>2. CASE n \in Range(s.front)
    <3>1. h.kind[First(a, n)] \notin FusableKinds
      BY <1>2, <2>2 DEF FusableKinds
    <3>2. PICK d \in ReadersOf(a, n) : d.dst \in K
      BY <1>3, <2>2
    <3>3. QED
      BY <1>1, <1>4, <3>1, <3>2
  <2>3. QED
    BY <1>1, <2>1, <2>2
<1>6. ASSUME NEW k \in DOMAIN gs, k # i
      PROVE  gs2[k] = gs[k] /\ \A n \in Range(gs[k]) :
               IF h.kind[First(a, n)] \in FusableKinds THEN n \in live
               ELSE \E e \in ReadersOf(a, n) : e.dst \in live \cap Range(gs[k])
  BY <1>2, <1>3, <1>6 DEF Wanted
<1>7. Wanted(h, a, live, gs2)
  BY <1>2, <1>5, <1>6 DEF Wanted
<1>8. QED
  BY <1>7 DEF a

(* No edge leads from what is dropped to what is in the group then, or     *)
(* from what is put before to what is dropped.                             *)
LEMMA RegroupedApart ==
  ASSUME NEW h, IsPlain(h), NEW live, NEW g, Unfused(h, g),
         NEW gs, NEW i, NEW c, NEW s, NEW new, NEW gs2,
         Regroups(h, g, gs, i, c, s, new, gs2), AbsorbsWell(h, live, g, gs, i, Range(c), s),
         NEW e \in s.graph.edges
  PROVE  /\ e.src \in Range(gs[i]) \ Range(c) => e.dst \notin Range(new)
         /\ e.src \in Range(s.front) => e.dst \notin Range(gs[i]) \ Range(c)
<1>0. /\ IsConcat(new, NodesOf(s.graph), s.front, c, Len(s.front), Len(c))
      /\ c \in Seq(NodesOf(s.graph)) /\ gs[i] \in Seq(NodesOf(s.graph))
      /\ Range(new) = Range(s.front) \cup Range(c)
      /\ Range(s.front) \cap Range(gs[i]) = {}
      /\ \A n \in Range(gs[i]) : First(s.graph, n) = n /\ First(g, n) = n
  BY RegroupedIs
<1> DEFINE a == s.graph
           K == Range(c)
           D == Range(gs[i]) \ K
<1>1. /\ Range(new) = Range(s.front) \cup K /\ Range(s.front) \cap Range(gs[i]) = {}
      /\ \A n \in Range(gs[i]) : First(a, n) = n /\ First(g, n) = n
  BY <1>0
<1>2. /\ K \subseteq Range(gs[i])
      /\ \A n \in Range(gs[i]) : n \in DOMAIN h.kind /\ h.kind[n] \in FusableKinds
      /\ \A n \in D : h.kind[n] # "elementwise" /\ \A d \in ReadersOf(g, n) : d.dst \notin K
      /\ \A n \in Range(s.front) : /\ h.kind[First(a, n)] = "broadcast"
                                   /\ \A d \in ReadersOf(a, n) : d.dst \in K
      /\ Unfused(h, a)
  BY DEF Regroups
<1>3. /\ e.src \in NodesOf(g) /\ e.dst \in NodesOf(g) => e \in g.edges
      /\ e.dst \in Range(s.front) => e.src \notin Range(gs[i])
  BY DEF AbsorbsWell
<1>4. \E d \in h.edges : d.src = First(a, e.src) /\ d.dst = First(a, e.dst) /\ d.in = e.in
  BY <1>2 DEF Unfused
<1>5. DOMAIN h.kind \subseteq NodesOf(g)
  BY DEF Unfused
<1> HIDE DEF a, K, D
<1>6. \A n \in D : n \in Range(gs[i]) /\ n \notin K
  BY DEF D
<1>7. e.in # Control \/ {h.kind[First(a, e.src)], h.kind[First(a, e.dst)]} \cap {"reshape", "broadcast"} = {}
  BY <1>4 DEF IsPlain
<1>8. ASSUME e.src \in D PROVE e.dst \notin Range(new)
  <2>1. e.src \in Range(gs[i]) /\ First(a, e.src) = e.src /\ h.kind[e.src] = "reshape"
    <3>1. e.src \in Range(gs[i])
      BY <1>6, <1>8
    <3>2. h.kind[e.src] \in FusableKinds /\ h.kind[e.src] # "elementwise"
      BY <1>2, <1>8, <3>1
    <3>3. QED
      BY <1>1, <3>1, <3>2 DEF FusableKinds
  <2>2. e.dst \notin Range(s.front)
    BY <1>3, <2>1
  <2>3. e.in # Control
    BY <1>7, <2>1
  <2>4. ASSUME e.dst \in K PROVE FALSE
    <3>1. e.src \in NodesOf(g) /\ e.dst \in NodesOf(g)
      BY <1>2, <1>5, <2>1, <2>4
    <3>2. e \in ReadersOf(g, e.src)
      BY <1>3, <2>3, <3>1 DEF ReadersOf
    <3>3. QED
      BY <1>2, <1>8, <2>4, <3>2
  <2>5. QED
    BY <1>1, <2>2, <2>4
<1>9. ASSUME e.src \in Range(s.front) PROVE e.dst \notin D
  <2>1. e.in # Control
    BY <1>2, <1>7, <1>9
  <2>2. e \in ReadersOf(a, e.src)
    BY <2>1 DEF ReadersOf, a
  <2>3. e.dst \in K
    BY <1>2, <1>9, <2>2
  <2>4. QED
    BY <1>6, <2>3
<1>10. QED
  BY <1>8, <1>9 DEF D, K

(* The nodes have times still: what is dropped gets those of a reader.     *)
LEMMA RegroupedTimed ==
  ASSUME NEW h, IsPlain(h), NEW live, NEW g, Unfused(h, g),
         NEW gs, NEW i, NEW c, NEW s, NEW new, NEW gs2,
         Regroups(h, g, gs, i, c, s, new, gs2), AbsorbsWell(h, live, g, gs, i, Range(c), s)
  PROVE  Timed(s.graph, SetsFrom(gs2, 1))
<1>0. /\ IsConcat(new, NodesOf(s.graph), s.front, c, Len(s.front), Len(c))
      /\ c \in Seq(NodesOf(s.graph)) /\ gs[i] \in Seq(NodesOf(s.graph))
      /\ Range(new) = Range(s.front) \cup Range(c)
      /\ Range(s.front) \cap Range(gs[i]) = {}
      /\ \A n \in Range(gs[i]) : First(s.graph, n) = n /\ First(g, n) = n
  BY RegroupedIs
<1> DEFINE E == s.graph.edges
           N == NodesOf(s.graph)
           r == gs[i]
           K == Range(c)
           D == Range(r) \ K
           F == Range(s.front)
           l == Len(r)
           T == SetsWith(gs, i, F)
           T2 == SetsFrom(gs2, 1)
           place == [n \in N |-> IF n \in D THEN CHOOSE p \in 1 .. l : r[p] = n ELSE 0]
<1>1. /\ Range(new) = F \cup K /\ F \cap Range(r) = {} /\ r \in Seq(N)
  BY <1>0
<1>2. /\ K \subseteq Range(r) /\ i \in DOMAIN gs /\ Disjoint(gs)
      /\ gs2 \in Seq(Seq(N)) /\ DOMAIN gs2 = DOMAIN gs
      /\ gs2[i] = new /\ \A m \in DOMAIN gs : m # i => gs2[m] = gs[m]
      /\ IsGraphOf(h, s.graph)
  BY DEF Regroups
<1>3. \E f : IsTimed(f, N, E, T)
  BY DEF AbsorbsWell
<1>4. InSequence(E, r)
  BY <1>2 DEF AbsorbsWell
<1>5. \A e \in E : e.src \in N /\ e.dst \in N
  BY <1>2 DEF IsGraphOf
<1>6. \A e \in E : /\ e.src \in D => e.dst \notin Range(new)
                   /\ e.src \in F => e.dst \notin D
  BY RegroupedApart
<1>7. /\ DOMAIN T = DOMAIN gs /\ T[i] = Range(r) \cup F
      /\ \A k \in DOMAIN gs : k # i => T[k] = Range(gs[k])
  BY <1>2 DEF SetsWith
<1>8. DOMAIN T2 = DOMAIN gs /\ \A k \in DOMAIN gs : T2[k] = Range(gs2[k])
  <2>1. DOMAIN gs2 = 1 .. Len(gs2)
    BY <1>2
  <2>2. QED
    BY <1>2, <2>1 DEF SetsFrom
<1>9. l \in Nat /\ DOMAIN r = 1 .. l
  BY <1>1
<1>10. /\ Range(r) \subseteq N
       /\ \A p, q \in 1 .. l : r[p] = r[q] => p = q
  <2>1. Range(r) \subseteq N
    BY <1>1, InRange
  <2>2. QED
    BY <1>2, <1>9, <2>1 DEF Disjoint, IsInjective
<1> HIDE DEF E, N, r, K, F, l, T, T2
<1>11. \A n : n \in D <=> n \in Range(r) /\ n \notin K
  OBVIOUS
<1> HIDE DEF D
<1>12. \A n \in D : \E p \in 1 .. l : r[p] = n
  BY <1>9, <1>11, InRange
<1>13. \A n \in D : /\ (CHOOSE p \in 1 .. l : r[p] = n) \in 1 .. l
                    /\ r[CHOOSE p \in 1 .. l : r[p] = n] = n
  BY <1>12
<1>14. /\ place \in [N -> 0 .. l]
       /\ \A n \in N : n \notin D => place[n] = 0
       /\ \A n \in D : place[n] \in 1 .. l /\ r[place[n]] = n
  <2>1. \A n \in N : (IF n \in D THEN CHOOSE p \in 1 .. l : r[p] = n ELSE 0) \in 0 .. l
    <3>1. \A p \in 1 .. l : p \in 0 .. l
      BY <1>9
    <3>2. 0 \in 0 .. l
      BY <1>9
    <3>3. QED
      BY <1>13, <3>1, <3>2
  <2>2. \A n \in D : n \in N
    BY <1>10, <1>11
  <2>3. QED
    BY <1>13, <2>1, <2>2
<1> HIDE DEF place
<1>15. T2[i] = F \cup K /\ \A k \in DOMAIN gs : k # i => T2[k] = T[k]
  BY <1>1, <1>2, <1>7, <1>8
<1>16. ASSUME NEW k \in DOMAIN T2
       PROVE  /\ \E j \in DOMAIN T : T2[k] \subseteq T[j]
              /\ \A x \in T2[k] : place[x] = 0
  <2>1. T2[k] \subseteq T[k] /\ k \in DOMAIN T
    BY <1>2, <1>7, <1>8, <1>15
  <2>2. T[k] \subseteq N
    BY <1>3, <2>1 DEF IsTimed
  <2>3. T2[k] \cap D = {}
    <3>1. CASE k = i
      BY <1>1, <1>11, <1>15, <3>1
    <3>2. CASE k # i
      <4>1. T2[k] = Range(gs[k]) /\ Range(gs[k]) \cap Range(r) = {}
        BY <1>2, <1>7, <1>8, <1>15, <3>2 DEF Disjoint, r
      <4>2. QED
        BY <1>11, <4>1
    <3>3. QED
      BY <3>1, <3>2
  <2>4. QED
    BY <1>14, <2>1, <2>2, <2>3
<1>17. ASSUME NEW e \in E, NEW k \in DOMAIN T, {e.src, e.dst} \subseteq T[k]
       PROVE  \/ \E j \in DOMAIN T2 : {e.src, e.dst} \subseteq T2[j]
              \/ place[e.src] < place[e.dst]
  <2>1. k \in DOMAIN gs /\ k \in DOMAIN T2
    BY <1>7, <1>8
  <2>2. CASE k # i
    BY <1>15, <1>17, <2>1, <2>2
  <2>3. CASE k = i /\ e.src \notin D /\ e.dst \notin D
    <3>1. {e.src, e.dst} \subseteq T2[i]
      BY <1>7, <1>11, <1>15, <1>17, <2>3
    <3>2. QED
      BY <2>1, <2>3, <3>1
  <2>4. CASE k = i /\ e.dst \in D
    <3>1. e.src \in Range(r)
      BY <1>6, <1>7, <1>17, <2>4
    <3>2. place[e.dst] \in 1 .. l /\ r[place[e.dst]] = e.dst
      BY <1>14, <2>4
    <3>3. CASE e.src \in D
      <4>1. place[e.src] \in 1 .. l /\ r[place[e.src]] = e.src
        BY <1>14, <3>3
      <4>2. QED
        BY <1>4, <1>9, <3>2, <4>1 DEF InSequence
    <3>4. CASE e.src \notin D
      <4>1. place[e.src] = 0
        BY <1>5, <1>14, <3>4
      <4>2. QED
        BY <1>9, <3>2, <4>1
    <3>5. QED
      BY <3>3, <3>4
  <2>5. CASE k = i /\ e.src \in D /\ e.dst \notin D
    <3>1. e.dst \in F \cup K
      BY <1>7, <1>11, <1>17, <2>5
    <3>2. QED
      BY <1>1, <1>6, <2>5, <3>1
  <2>6. QED
    BY <2>2, <2>3, <2>4, <2>5
<1>18. PICK f : IsTimed(f, N, E, T)
  BY <1>3
<1>19. \E f2 : IsTimed(f2, N, E, T2)
  BY <1>5, <1>9, <1>14, <1>16, <1>17, <1>18, Retimed
<1>20. QED
  BY <1>19 DEF Timed, N, E, T2

(* What FuseReshapeAndBroadcast does to a group.                           *)
LEMMA RegroupedBy ==
  ASSUME KInv, PInv, FuseReshapeAndBroadcast
  PROVE  \E c, s, new :
           /\ Regroups(given, graph, groups, index, c, s, new, groups') /\ graph' = s.graph
           /\ AbsorbsWell(given, tagged, graph, groups, index, Range(c), s)
<1> DEFINE c == Kept(groups[index])
           es == DataInto(c)
           s == Absorbed(es)
           K == Range(c)
           gs == groups
           i == index
           N == NodesOf(graph)
           N2 == NodesOf(s.graph)
           new == s.front \o c
<1>1. /\ phase = "absorb" /\ index <= Len(groups) /\ graph' = s.graph
      /\ groups' = [gs EXCEPT ![i] = new]
  BY DEF FuseReshapeAndBroadcast
<1>2. /\ IsGraphOf(given, graph) /\ Unfused(given, graph)
      /\ gs \in Seq(Seq(N)) /\ Disjoint(gs) /\ i \in DOMAIN gs /\ gs[i] \in Seq(N)
      /\ Absorbing(given, graph, gs, 1 .. i - 1) /\ c \in Seq(N) /\ IsInjective(c)
      /\ Range(c) \subseteq Range(gs[i]) /\ KeptOf(given, graph, gs, i, K, es)
  BY <1>1, KeptOfGroup
<1>3. /\ IsPlain(given) /\ Covers(given, graph)
      /\ DOMAIN graph = {"edges", "ins", "outs", "kernels", "last"}
      /\ Timed(graph, SetsFrom(gs, 1)) /\ GroupsAlike(given, graph, gs, 1)
      /\ Wanted(given, graph, tagged, gs)
  BY <1>1 DEF PInv, Fusing
<1>4. IsGraph(given) /\ i \in Nat \ {0}
  BY AboutGiven DEF KInv
<1>5. /\ Absorbs(given, graph, gs, i, K, es, Len(es), s)
      /\ AbsorbsWell(given, tagged, graph, gs, i, K, s)
  <2>1. PICK over : /\ AbsorbedChain(given, graph, gs, i, K, es, over)
                    /\ s = over[Len(es)]
    BY <1>2, AbsorbedInSteps
  <2>2. es \in Seq(graph.edges)
    BY <1>2 DEF KeptOf
  <2> HIDE DEF es, s, K, gs, i, N, N2
  <2>3. Len(es) \in 0 .. Len(es)
    BY <2>2
  <2>4. Absorbs(given, graph, gs, i, K, es, Len(es), over[Len(es)])
    BY <2>1, <2>3 DEF AbsorbedChain
  <2>5. AbsorbsWell(given, tagged, graph, gs, i, K, [graph |-> graph, front |-> <<>>])
    BY <1>2, <1>3, AbsorbsWellFirst
  <2>6. AbsorbsWell(given, tagged, graph, gs, i, K, over[Len(es)])
    BY <1>2, <1>3, <1>4, <2>1, <2>5, AbsorbsWellAll
  <2>7. QED
    BY <2>1, <2>4, <2>6
<1>6. /\ IsGraphOf(given, s.graph) /\ Unfused(given, s.graph) /\ N \subseteq N2
      /\ s.front \in Seq(N2)
      /\ \A n \in N : First(s.graph, n) = First(graph, n)
      /\ \A n \in Range(s.front) : /\ given.kind[First(s.graph, n)] = "broadcast"
                                   /\ \A e \in ReadersOf(s.graph, n) : e.dst \in K
      /\ \A m \in DOMAIN gs : m # i => Range(gs[m]) \cap Range(s.front) = {}
  BY <1>5 DEF Absorbs
<1>7. \A n \in DOMAIN given.kind : First(graph, n) = n
  BY <1>2 DEF Unfused
<1>8. IsInjective(gs[i]) /\ InSequence(graph.edges, gs[i])
  BY <1>2, <1>3, <1>4 DEF Disjoint, GroupsAlike
<1>9. \A a, b \in DOMAIN c : a < b =>
        \E x, y \in DOMAIN gs[i] : x < y /\ c[a] = gs[i][x] /\ c[b] = gs[i][y]
  BY <1>2, KeptIs
<1>10. \A n \in Range(gs[i]) : n \in DOMAIN given.kind /\ given.kind[n] \in FusableKinds
  <2>1. i \notin 1 .. i - 1
    BY <1>4
  <2>2. QED
    BY <1>2, <2>1 DEF Absorbing
<1>11. ASSUME NEW n \in Range(gs[i]) \ Range(c)
       PROVE  given.kind[n] # "elementwise" /\ \A e \in ReadersOf(graph, n) : e.dst \notin Range(c)
  <2>1. KindOf(n) # "elementwise" /\ \A e \in ReadersOf(graph, n) : e.dst \notin Range(c)
    BY <1>2, <1>8, KeptIsRead
  <2>2. n \in DOMAIN given.kind /\ graph.kernels[n][1] = n
    BY <1>7, <1>10 DEF First
  <2>3. QED
    BY <2>1, <2>2 DEF KindOf
<1> HIDE DEF c, es, s, gs, i, N, N2
<1>12. c \in Seq(N2) /\ gs \in Seq(Seq(N2))
  BY <1>2, <1>6
<1>13. new \in Seq(N2) /\ new = s.front \o c
  BY <1>6, <1>12, ConcatRange
<1> HIDE DEF new
<1>14. /\ DOMAIN groups' = DOMAIN gs /\ groups' \in Seq(Seq(N2))
       /\ groups'[i] = new /\ \A m \in DOMAIN gs : m # i => groups'[m] = gs[m]
  <2>1. /\ gs \in Seq(Seq(N2)) /\ i \in DOMAIN gs /\ new \in Seq(N2)
        /\ groups' = [gs EXCEPT ![i] = new]
    BY <1>1, <1>2, <1>12, <1>13
  <2>2. QED
    BY <2>1
<1>15. Regroups(given, graph, gs, i, c, s, new, groups')
  BY <1>2, <1>6, <1>9, <1>10, <1>11, <1>13, <1>14 DEF Regroups, N, N2, K
<1>16. QED
  BY <1>1, <1>5, <1>15 DEF K, gs, i

(* FuseReshapeAndBroadcast keeps why the rest holds.                       *)
LEMMA FuseReshapeAndBroadcastPInv ==
  ASSUME KInv, PInv, FuseReshapeAndBroadcast
  PROVE  PInv'
<1> DEFINE gs == groups
           gs2 == groups'
           i == index
           g == graph
           g2 == graph'
<1>1. PICK c, s, new : /\ Regroups(given, g, gs, i, c, s, new, gs2) /\ g2 = s.graph
                       /\ AbsorbsWell(given, tagged, g, gs, i, Range(c), s)
  BY RegroupedBy
<1>2. /\ phase = "absorb" /\ UNCHANGED <<given, level, phase, tagged>>
  BY DEF FuseReshapeAndBroadcast, walkVars
<1>3. /\ IsPlain(given) /\ AllLive(given, tagged) /\ GroupsAlike(given, g, gs, 1)
      /\ IsGraph(given) /\ Unfused(given, g)
  BY <1>2, AboutGiven DEF PInv, KInv, Fusing
<1>4. /\ gs \in Seq(Seq(NodesOf(g))) /\ i \in DOMAIN gs /\ DOMAIN gs2 = DOMAIN gs
      /\ gs2[i] = new /\ \A m \in DOMAIN gs : m # i => gs2[m] = gs[m]
      /\ \A n \in NodesOf(g) : First(g2, n) = First(g, n)
  BY <1>1 DEF Regroups
<1>5. /\ Covers(given, g2) /\ DOMAIN g2 = {"edges", "ins", "outs", "kernels", "last"}
      /\ \A m \in DOMAIN gs : InSequence(g2.edges, gs[m])
  BY <1>1 DEF AbsorbsWell
<1> HIDE DEF gs, gs2, i, g, g2
<1>6. \A m \in DOMAIN gs : m >= 1 /\ Range(gs[m]) \subseteq NodesOf(g)
  <2>1. \A m \in DOMAIN gs : m >= 1 /\ gs[m] \in Seq(NodesOf(g))
    BY <1>4
  <2>2. QED
    BY <2>1, InRange
<1>7. AllAlike(given, g2, new) /\ InSequence(g2.edges, new)
  <2>1. AllAlike(given, g, gs[i])
    BY <1>3, <1>4, <1>6 DEF GroupsAlike
  <2>2. QED
    BY <1>1, <1>3, <2>1, RegroupedAlike, RegroupedInSequence
<1>8. GroupsAlike(given, g2, gs2, 1)
  <2>1. ASSUME NEW m \in DOMAIN gs, m # i PROVE AllAlike(given, g2, gs[m])
    <3>1. AllAlike(given, g, gs[m])
      BY <1>3, <1>6 DEF GroupsAlike
    <3>2. QED
      BY <1>4, <1>6, <3>1 DEF AllAlike
  <2>2. QED
    BY <1>4, <1>5, <1>7, <2>1 DEF GroupsAlike
<1>9. Wanted(given, g2, tagged, gs2)
  BY <1>1, RegroupedWanted
<1>10. Timed(g2, SetsFrom(gs2, 1))
  BY <1>1, <1>3, RegroupedTimed
<1>11. QED
  BY <1>2, <1>3, <1>5, <1>8, <1>9, <1>10 DEF PInv, Extracting, Fusing, gs2, g2

(* Every step keeps why the rest holds.                                    *)
LEMMA PInvKeeps == KInv /\ PInv /\ [Next]_vars => PInv'
<1> SUFFICES ASSUME KInv, PInv, [Next]_vars PROVE PInv'
  OBVIOUS
<1>1. CASE UNCHANGED vars
  BY <1>1 DEF vars, walkVars, PInv, Extracting, Fusing, Gathered
<1>2. QED
  BY <1>1, VisitReadyPInv, StartElementsPInv, VisitElementPInv, CloseGroupPInv,
     EndExtractionPInv, FuseReshapeAndBroadcastPInv, EndAbsorbingPInv,
     SplitIndependentGroupsPInv, EndSplittingPInv, FusePInv, FinishPInv DEF Next

(* Hence the graph is fine between any two steps.                          *)
LEMMA FineNow ==
  ASSUME KInv, PInv
  PROVE  GraphIsFine(given, graph, tagged, level = 3)
<1>1. CASE Fusing
  BY <1>1 DEF PInv
<1>2. CASE ~Fusing
  <2>1. /\ IsGraph(given) /\ IsGraphOf(given, graph) /\ Unfused(given, graph)
        /\ Covers(given, graph) /\ AllLive(given, tagged)
    BY <1>2, AboutGiven DEF KInv, PInv
  <2>2. QED
    BY <2>1, CoversFine
<1>3. QED
  BY <1>1, <1>2

(* While it is fused, it has an order.                                     *)
LEMMA NoCycleNow ==
  ASSUME KInv, PInv, Fusing
  PROVE  NoCycle(graph)
<1>1. /\ IsGraphOf(given, graph) /\ Disjoint(groups) /\ index \in Nat \ {0}
      /\ GroupsCanBeFused(given, graph, groups, index, level = 3)
  BY DEF KInv, PInv, GraphIsFine, Fusing, Extracting
<1>2. /\ groups \in Seq(Seq(1 .. graph.last)) /\ Timed(graph, SetsFrom(groups, index))
      /\ \A k \in DOMAIN groups : k >= index => InSequence(graph.edges, groups[k])
  BY <1>1 DEF GroupsCanBeFused, GroupsAlike
<1>3. QED
  BY <1>1, <1>2, TimedNoCycle

(***************************************************************************)
(* Of plain graphs: the kernels of a fused node are of one size and home   *)
(* and, at level 3, each has an edge with another of them.                 *)
(***************************************************************************)
THEOREM KernelsFitTogether ==
  (\A g \in Graphs : IsPlain(g)) /\ Spec => []FusedAlike
<1>1. KInv /\ PInv => FusedAlike
  <2> SUFFICES ASSUME KInv, PInv PROVE FusedAlike
    OBVIOUS
  <2>1. AlikeLinked(given, graph, level = 3)
    BY FineNow DEF GraphIsFine
  <2>2. QED
    BY <2>1 DEF AlikeLinked, FusedAlike
<1>2. (\A g \in Graphs : IsPlain(g)) => (Init => PInv)
  BY InitPInv
<1>3. QED
  BY <1>1, <1>2, InitKInv, KInvKeeps, PInvKeeps, PTL DEF Spec

(***************************************************************************)
(* Of plain graphs: whatever is copied, split and fused, edges bring every *)
(* input the tensor it was made to read, and a fused node has as inputs    *)
(* what its kernels read and do not make.                                  *)
(***************************************************************************)
THEOREM OperandsAreKept ==
  (\A g \in Graphs : IsPlain(g)) /\ Spec => []OperandsKept
<1>1. KInv /\ PInv => OperandsKept
  <2> SUFFICES ASSUME KInv, PInv PROVE OperandsKept
    OBVIOUS
  <2>1. GraphIsFine(given, graph, tagged, level = 3)
    BY FineNow
  <2>2. QED
    BY <2>1, FineOperands
<1>2. (\A g \in Graphs : IsPlain(g)) => (Init => PInv)
  BY InitPInv
<1>3. QED
  BY <1>1, <1>2, InitKInv, KInvKeeps, PInvKeeps, PTL DEF Spec

(***************************************************************************)
(* Of plain graphs: the program at any point of the fusing runs every      *)
(* live kernel, each after those that it depends on: fusing a group closes *)
(* no cycle, as its nodes have one time.                                   *)
(***************************************************************************)
THEOREM FusedGraphIsRun ==
  (\A g \in Graphs : IsPlain(g)) /\ Spec => []RunsTheGraph
<1>1. KInv /\ PInv => RunsTheGraph
  <2> SUFFICES ASSUME KInv, PInv, Fusing PROVE RunsTheGraph
    BY DEF RunsTheGraph, Fusing
  <2>1. GraphIsFine(given, graph, tagged, level = 3) /\ NoCycle(graph)
    BY FineNow, NoCycleNow
  <2>2. QED
    BY <2>1, FineRuns DEF RunsTheGraph
<1>2. (\A g \in Graphs : IsPlain(g)) => (Init => PInv)
  BY InitPInv
<1>3. QED
  BY <1>1, <1>2, InitKInv, KInvKeeps, PInvKeeps, PTL DEF Spec
=============================================================================
