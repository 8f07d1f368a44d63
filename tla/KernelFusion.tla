---------------------------- MODULE KernelFusion ----------------------------
(***************************************************************************)
(* KernelFuseOptimizer (kernel_fusion_pass.cpp) on a Graph: elementwise    *)
(* nodes and reshapes that are ready together are put into groups, the     *)
(* broadcasts that feed a group are taken into it, and every group is      *)
(* replaced by a fused node (FusedGNode).                                  *)
(***************************************************************************)
EXTENDS GraphEdges

CONSTANTS
  Graphs,     (* the graphs: [edges, kind, size, home]                     *)
  Levels,     (* of fkernel_fusion_level 1, 2 and 3, those that are tried  *)
  Limited,    (* the homes whose kernels take less than MaxArgs arguments  *)
  MaxArgs

Kinds == {"elementwise", "reshape", "broadcast", "other", "result"}

(* Whether AddNodeToReadyQueues puts a node of this kind into elem_ready.  *)
(* "reshape" is one that keeps the layout, on a device other than a CPU,   *)
(* "broadcast" an inner or outer one; they and the elementwise ones have   *)
(* one output.                                                             *)
FusableKinds == {"elementwise", "reshape"}

(* An edge goes to a node of a higher id, each input has one edge, and the *)
(* operands of an elementwise node or a reshape have the size of its       *)
(* result (of the size of an output of "other" nothing is recorded).       *)
IsGraph(g) ==
  /\ DOMAIN g.kind \subseteq Nat \ {0} /\ IsFiniteSet(DOMAIN g.kind) /\ DOMAIN g.kind # {}
  /\ g.kind \in [DOMAIN g.kind -> Kinds]
  /\ DOMAIN g.size = DOMAIN g.kind /\ DOMAIN g.home = DOMAIN g.kind
  /\ IsFiniteSet(g.edges)
  /\ \A e \in g.edges :
       /\ e \in [src : DOMAIN g.kind, out : Nat, dst : DOMAIN g.kind, in : Nat] /\ e.src < e.dst
       /\ \/ e.in = Control /\ e.out = Control
          \/ /\ e.in \in 1 .. Cardinality({d \in g.edges : d.dst = e.dst /\ d.in # Control})
             /\ e.out # Control /\ (g.kind[e.src] # "other" => e.out = 1)
             /\ g.kind[e.dst] \in FusableKinds /\ g.kind[e.src] # "other" =>
                  g.size[e.src] = g.size[e.dst]
  /\ \A d, e \in g.edges : d.dst = e.dst /\ d.in = e.in /\ e.in # Control => d = e
  /\ \A n \in DOMAIN g.kind : g.kind[n] \in {"reshape", "broadcast"} =>
       Cardinality({e \in g.edges : e.dst = n /\ e.in # Control}) = 1

ASSUME KernelFusionAssumption ==
  /\ \A g \in Graphs : IsGraph(g)
  /\ Levels \subseteq {1, 2, 3} /\ MaxArgs \in Nat

VARIABLES
  given,     (* the graph as the pass finds it                             *)
  level,     (* FLAGS_fkernel_fusion_level                                 *)
  graph,     (* the graph now: [edges, ins, outs, kernels, last], where a  *)
             (* node has the tensors it was made to read, those it yields, *)
             (* and the nodes of `given` whose kernels it runs             *)
  phase,     (* "ready", "elements", "absorb", "split", "fuse" or "done"   *)
  tagged,    (* the nodes that have a TaggedNode in m_nodes                *)
  visited,   (* those of them that are visited                             *)
  ready,     (* ready                                                      *)
  elements,  (* elem_ready                                                 *)
  open,      (* cur_elemgroup                                              *)
  group,     (* cur_group: its element groups                              *)
  groups,    (* the element groups of the groups, one after another        *)
  index      (* the element group that is looked at                        *)

walkVars == <<tagged, visited, ready, elements, open, group>>
vars     == <<given, level, graph, phase, walkVars, groups, index>>

-----------------------------------------------------------------------------
(* The graph. *)

NodesOf(g) == DOMAIN g.kernels

(* The op, the output size and the device of a node that is not fused.     *)
KindOf(n) == given.kind[graph.kernels[n][1]]
SizeOf(n) == given.size[graph.kernels[n][1]]
HomeOf(n) == given.home[graph.kernels[n][1]]

Results == {n \in DOMAIN given.kind : given.kind[n] = "result"}

OrderedOps == OpsInOrder(NodesOf(graph), graph.edges, Results)

ReadersOf(g, n) == {e \in g.edges : e.src = n /\ e.in # Control}

DataInto(ns) == FlattenSeq([i \in DOMAIN ns |-> OnlyData(InEdges(graph.edges, ns[i]))])

-----------------------------------------------------------------------------
(* ExtractFusionGroups. *)

(* The nodes that n makes ready: those that can be fused are pushed to the *)
(* front of elem_ready one by one, the others wait in ready.               *)
Newly(n) == Among(ReadyAfter(graph.edges, n, visited), tagged)

AddNodeToReadyQueues(n, readyRest, elementsRest) ==
  LET fusable == {m \in tagged : KindOf(m) \in FusableKinds}
  IN  /\ visited'  = visited \cup {n}
      /\ ready'    = readyRest \o Among(Newly(n), tagged \ fusable)
      /\ elements' = Reverse(Among(Newly(n), fusable)) \o elementsRest

VisitReady ==
  /\ phase = "ready" /\ ready # <<>>
  /\ AddNodeToReadyQueues(Head(ready), Tail(ready), elements)
  /\ UNCHANGED <<given, level, graph, phase, tagged, open, group, groups, index>>

StartElements ==
  /\ phase = "ready" /\ ready = <<>> /\ elements # <<>>
  /\ phase' = "elements"
  /\ UNCHANGED <<given, level, graph, walkVars, groups, index>>

SameHome(m, n) == HomeOf(m) = HomeOf(n)   (* mutant: sizes may differ *)

Alike(m, n) == SizeOf(m) = SizeOf(n) /\ HomeOf(m) = HomeOf(n)

(* An element group is closed by the first node that is unlike its last.   *)
VisitElement ==
  LET n == Head(elements)
  IN  /\ phase = "elements" /\ elements # <<>>
      /\ IF open = <<>> \/ Alike(Last(open), n)
         THEN open' = Append(open, n) /\ UNCHANGED group
         ELSE open' = <<n>> /\ group' = Append(group, open)
      /\ AddNodeToReadyQueues(n, ready, Tail(elements))
      /\ UNCHANGED <<given, level, graph, phase, tagged, groups, index>>

(* A group of one node is dropped. *)
CloseGroup ==
  LET closed == Append(group, open)
  IN  /\ phase = "elements" /\ elements = <<>>
      /\ groups' = IF Len(FlattenSeq(closed)) > 1 THEN groups \o closed ELSE groups
      /\ open' = <<>> /\ group' = <<>> /\ phase' = "ready"
      /\ UNCHANGED <<given, level, graph, tagged, visited, ready, elements, index>>

EndExtraction ==
  /\ phase = "ready" /\ ready = <<>> /\ elements = <<>>
  /\ phase' = IF groups = <<>> THEN "done" ELSE IF level = 1 THEN "fuse" ELSE "absorb"
  /\ UNCHANGED <<given, level, graph, walkVars, groups, index>>

-----------------------------------------------------------------------------
(* FuseReshapeAndBroadcast. *)

(* A reshape stays in a group only if a member that stays reads it.        *)
Kept(g) ==
  LET Stays(n, ns) == KindOf(n) = "elementwise" \/ \E e \in ReadersOf(graph, n) : e.dst \in ns
      stay[k \in 0 .. Len(g)] ==   (* those of the last k *)
        IF k = 0 THEN {}
        ELSE stay[k - 1] \cup {n \in {g[Len(g) + 1 - k]} : Stays(n, stay[k - 1])}
  IN  Among(g, stay[Len(g)])

NeverShared(g, n) == FALSE   (* mutant: a broadcast is never duplicated *)

IsShared(g, n) == Cardinality(ReadersOf(g, n)) > 1

(* f with a value for one element more. *)
With(f, x, value) == [y \in {x} \cup DOMAIN f |-> IF y = x THEN value ELSE f[y]]

(* The copy of a broadcast takes one edge over, and reads the first output *)
(* of the node that the broadcast reads.                                   *)
Duplicated(g, e) ==
  LET id   == g.last + 1
      from == CHOOSE d \in g.edges : d.dst = e.src /\ d.in = 1
      read == g.outs[from.src][1]
  IN  [edges   |-> (g.edges \ {e}) \cup {[src |-> id, out |-> 1, dst |-> e.dst, in |-> e.in],
                                         [src |-> from.src, out |-> 1, dst |-> id, in |-> 1]},
       ins     |-> With(g.ins, id, <<read>>),
       outs    |-> With(g.outs, id, IF read = g.ins[e.src][1] THEN g.outs[e.src] ELSE <<<<id, 1>>>>),
       kernels |-> With(g.kernels, id, g.kernels[e.src]),
       last    |-> id]

AbsorbOver(s, e) ==
  IF ~(KindOf(e.src) = "broadcast" /\ HomeOf(e.src) = HomeOf(e.dst)) THEN s
  ELSE IF IsShared(s.graph, e.src)
  THEN LET g == Duplicated(s.graph, e) IN [graph |-> g, front |-> Append(s.front, g.last)]
  ELSE [s EXCEPT !.front = Append(@, e.src)]

Absorbed(es) ==
  LET over[k \in 0 .. Len(es)] ==
        IF k = 0 THEN [graph |-> graph, front |-> <<>>] ELSE AbsorbOver(over[k - 1], es[k])
  IN  over[Len(es)]

FuseReshapeAndBroadcast ==
  LET kept == Kept(groups[index])
      s    == Absorbed(DataInto(kept))
  IN  /\ phase = "absorb" /\ index <= Len(groups)
      /\ graph' = s.graph
      /\ groups' = [groups EXCEPT ![index] = s.front \o kept]
      /\ index' = index + 1
      /\ UNCHANGED <<given, level, phase, walkVars>>

EndAbsorbing ==
  /\ phase = "absorb" /\ index > Len(groups)
  /\ phase' = (IF level = 2 THEN "fuse" ELSE "split") /\ index' = 1
  /\ UNCHANGED <<given, level, graph, walkVars, groups>>

-----------------------------------------------------------------------------
(* SplitIndependentGroups: the connected parts of a group, without those   *)
(* of one node, in no particular order (that of an unordered map).         *)
Join(parts, n) ==
  LET joined == {p \in parts : \E e \in graph.edges : e.src \in p /\ e.dst = n}
  IN  (parts \ joined) \cup {(UNION joined) \cup {n}}

Parts(g) ==
  LET joined[k \in 0 .. Len(g)] == IF k = 0 THEN {} ELSE Join(joined[k - 1], g[k])
  IN  {p \in joined[Len(g)] : Cardinality(p) > 1}

SplitIndependentGroups ==
  /\ phase = "split" /\ index <= Len(groups)
  /\ \E order \in SetToSeqs(Parts(groups[index])) :
       /\ groups' = SubSeq(groups, 1, index - 1)
            \o [i \in DOMAIN order |-> Among(groups[index], order[i])]
            \o SubSeq(groups, index + 1, Len(groups))
       /\ index' = index + Len(order)
  /\ UNCHANGED <<given, level, graph, phase, walkVars>>

EndSplitting ==
  /\ phase = "split" /\ index > Len(groups)
  /\ phase' = "fuse" /\ index' = 1
  /\ UNCHANGED <<given, level, graph, walkVars, groups>>

-----------------------------------------------------------------------------
(* FuseElementGroupOnGraph, with build_fused_node. *)

(* reorder_nodes. *)
MembersInOrder(members) == Among(OrderedOps, members)

(* set_inputs_and_outputs: an input for every edge that brings data from   *)
(* outside, an output for every member that data is read from outside.     *)
InputsOnce(members) ==   (* mutant: one input for all that a node yields *)
  LET into == DataInto(MembersInOrder(members))
  IN  SelectSeq(into, LAMBDA e : /\ e.src \notin members
                                 /\ \A d \in Range(into) : d.src = e.src => d.out >= e.out)

Inputs(members) ==
  LET into == DataInto(MembersInOrder(members))
  IN  Picked(into, {i \in DOMAIN into : into[i].src \notin members})

Writers(members) ==
  Among(MembersInOrder(members),
        {n \in members : \E e \in ReadersOf(graph, n) : e.dst \notin members})

NoControlEdges(members, id) == {}   (* mutant: control edges are left out *)

ControlEdges(members, id) ==
  LET control == {e \in graph.edges : e.in = Control}
  IN  {[e EXCEPT !.dst = id] : e \in {d \in control : d.dst \in members /\ d.src \notin members}}
      \cup
      {[e EXCEPT !.src = id] : e \in {d \in control : d.src \in members /\ d.dst \notin members}}

Fused(members) ==
  LET id   == graph.last + 1
      into == Inputs(members)
      from == Writers(members)
      left == NodesOf(graph) \ members
      Left(f) == [n \in left |-> f[n]]
  IN  [edges   |-> EdgesLeft(graph.edges, members)
         \cup {[into[i] EXCEPT !.dst = id, !.in = i] : i \in DOMAIN into}
         \cup (UNION {{[e EXCEPT !.src = id, !.out = i] :
                         e \in {d \in ReadersOf(graph, from[i]) : d.dst \notin members}} :
                      i \in DOMAIN from})
         \cup ControlEdges(members, id),
       ins     |-> With(Left(graph.ins), id,
                        [i \in DOMAIN into |-> graph.ins[into[i].dst][into[i].in]]),
       outs    |-> With(Left(graph.outs), id, [i \in DOMAIN from |-> graph.outs[from[i]][1]]),
       kernels |-> With(Left(graph.kernels), id,
                        LET order == MembersInOrder(members)
                        IN  FlattenSeq([i \in DOMAIN order |-> graph.kernels[order[i]]])),
       last    |-> id]

(* The fused node is removed again if it has too many arguments. *)
FuseElementGroupOnGraph ==
  LET members == Range(groups[index])
      args    == Len(Inputs(members)) + Len(Writers(members))
      tooMany == HomeOf(Last(groups[index])) \in Limited /\ args >= MaxArgs
  IN  /\ phase = "fuse" /\ index <= Len(groups)
      /\ graph' = IF Len(groups[index]) <= 1 THEN graph
                  ELSE IF tooMany THEN [graph EXCEPT !.last = @ + 1]
                  ELSE Fused(members)
      /\ index' = index + 1
      /\ UNCHANGED <<given, level, phase, walkVars, groups>>

Finish ==
  /\ phase = "fuse" /\ index > Len(groups)
  /\ phase' = "done"
  /\ UNCHANGED <<given, level, graph, walkVars, groups, index>>

-----------------------------------------------------------------------------
Init ==
  /\ given \in Graphs /\ level \in Levels
  /\ graph =
       LET NodeIds    == DOMAIN given.kind
           OutputsOf(n) == {e.out : e \in ReadersOf(given, n)} \cup {1}
       IN  [edges   |-> given.edges,
            ins     |-> [n \in NodeIds |->
                           LET es == OnlyData(InEdges(given.edges, n))
                           IN  [i \in DOMAIN es |-> <<es[i].src, es[i].out>>]],
            outs    |-> [n \in NodeIds |-> [i \in 1 .. Max(OutputsOf(n)) |-> <<n, i>>]],
            kernels |-> [n \in NodeIds |-> <<n>>],
            last    |-> Max(NodeIds)]
  /\ LET ops == OrderedOps
     IN  /\ tagged = Range(ops)
         /\ ready = Among(ops, {n \in tagged : InEdges(given.edges, n) = <<>>})
  /\ phase = "ready" /\ visited = {}
  /\ elements = <<>> /\ open = <<>> /\ group = <<>> /\ groups = <<>> /\ index = 1

Next ==
  \/ VisitReady \/ StartElements \/ VisitElement \/ CloseGroup \/ EndExtraction
  \/ FuseReshapeAndBroadcast \/ EndAbsorbing
  \/ SplitIndependentGroups \/ EndSplitting
  \/ FuseElementGroupOnGraph \/ Finish

Spec == Init /\ [][Next]_vars

-----------------------------------------------------------------------------
(* Properties. *)

(* Once the groups are formed, every live node has been visited, and no    *)
(* node, broadcasts that several groups read included, is in two groups,   *)
(* or twice in one: the second time it would be fused when it is gone from *)
(* the graph.                                                              *)
GroupsApart ==
  phase \notin {"ready", "elements"} =>
    /\ visited = tagged
    /\ \A k \in DOMAIN groups : IsInjective(groups[k])
    /\ \A i, j \in DOMAIN groups : i # j => Range(groups[i]) \cap Range(groups[j]) = {}

(* The kernels of a fused node run over the same number of elements on the *)
(* same device; at level 3 they depend on each other.                      *)
FusedAlike ==
  \A n \in NodesOf(graph) :
    LET fused == Range(graph.kernels[n])
        Linked(m) == \E e \in given.edges : {e.src, e.dst} \subseteq fused /\ m \in {e.src, e.dst}
    IN  Cardinality(fused) > 1 =>
          \A m \in fused :
            /\ \A k \in fused : given.size[k] = given.size[m] /\ given.home[k] = given.home[m]
            /\ level = 3 => Linked(m)

(* Edges join nodes of the graph.  Each input of each node has one, and it *)
(* comes from an output that is the tensor the input was made to read,     *)
(* whatever was duplicated or fused around it.  What a kernel of a fused   *)
(* node reads is an input of the node or made by another of its kernels.   *)
OperandsKept ==
  /\ \A e \in graph.edges : {e.src, e.dst} \subseteq NodesOf(graph)
  /\ \A n \in NodesOf(graph) :
       LET fused == Range(graph.kernels[n])
       IN  /\ \A i \in DOMAIN graph.ins[n] : \E e \in graph.edges :
                /\ e.dst = n /\ e.in = i /\ e.out \in DOMAIN graph.outs[e.src]
                /\ graph.outs[e.src][e.out] = graph.ins[n][i]
                /\ \A d \in graph.edges : d.dst = n /\ d.in = i => d = e
           /\ \A e \in given.edges :
                e.dst \in fused /\ e.src \notin fused /\ e.in # Control =>
                  \E i \in DOMAIN graph.ins[n] : graph.ins[n][i] = <<e.src, e.out>>

(* The order of the program that is made from the graph has every live     *)
(* kernel, and each after those that it depends on by data or control.     *)
RunsTheGraph ==
  phase \in {"fuse", "done"} =>
    LET ops   == OrderedOps
        order == FlattenSeq([i \in DOMAIN ops |-> graph.kernels[ops[i]]])
    IN  /\ tagged \subseteq Range(order)
        /\ \A e \in given.edges : \A j \in DOMAIN order :
             order[j] = e.dst => \E i \in 1 .. j - 1 : order[i] = e.src
-----------------------------------------------------------------------------
(* What the pass needs of a given graph for the rest to hold: nothing      *)
(* waits for a reshape or a broadcast, or they for it, without reading,    *)
(* and broadcasts read the first output of a node.                         *)
IsPlain(h) ==
  \A e \in h.edges :
    /\ e.in = Control => {h.kind[e.src], h.kind[e.dst]} \cap {"reshape", "broadcast"} = {}
    /\ e.in # Control /\ h.kind[e.dst] = "broadcast" => e.out = 1

-----------------------------------------------------------------------------
(* Why the groups stay apart: KInv is true between any two steps.  Its parts *)
(* are about a graph g that was given as h, and about element groups gs.     *)

First(g, n) == g.kernels[n][1]

Extracting == phase \in {"ready", "elements"}
Fusing     == phase \in {"fuse", "done"}

IsGraphOf(h, g) ==
  /\ g.last \in Nat /\ NodesOf(g) \subseteq 1 .. g.last
  /\ DOMAIN g.ins = NodesOf(g) /\ DOMAIN g.outs = NodesOf(g)
  /\ DOMAIN h.kind # {} /\ \A n \in NodesOf(g) : g.kernels[n] \in Seq(DOMAIN h.kind)
  /\ IsFiniteSet(g.edges)
  /\ \A e \in g.edges : /\ e \in [src : NodesOf(g), out : Nat, dst : NodesOf(g), in : Nat]
                        /\ e.in = Control <=> e.out = Control
  /\ \A d, e \in g.edges : d.dst = e.dst /\ d.in = e.in /\ e.in # Control => d = e
  /\ {n \in DOMAIN h.kind : h.kind[n] = "result"} \subseteq NodesOf(g)

(* Until nodes are fused each runs one kernel, its own or that of the      *)
(* broadcast it is a copy of, and has the edges of that.                   *)
Unfused(h, g) ==
  /\ DOMAIN h.kind \subseteq NodesOf(g)
  /\ \A n \in NodesOf(g) : g.kernels[n] = <<First(g, n)>>
  /\ \A n \in DOMAIN h.kind : First(g, n) = n
  /\ \A n \in NodesOf(g) \ DOMAIN h.kind : h.kind[First(g, n)] = "broadcast"
  /\ \A e \in g.edges : \E d \in h.edges :
       d.src = First(g, e.src) /\ d.dst = First(g, e.dst) /\ d.in = e.in
  /\ \A n \in NodesOf(g) : h.kind[First(g, n)] = "broadcast" =>
       \E e \in g.edges : e.dst = n /\ e.in = 1

(* A node waits once, when all that it depends on has been visited.        *)
Queues ==
  /\ visited \subseteq tagged /\ tagged \subseteq DOMAIN given.kind
  /\ ready \in Seq(tagged) /\ elements \in Seq(tagged)
  /\ \A e \in given.edges : /\ e.dst \in tagged => e.src \in tagged
                            /\ e.dst \in visited => e.src \in visited
  /\ IsInjective(ready) /\ IsInjective(elements) /\ Range(ready) \cap Range(elements) = {}
  /\ Range(ready) \cup Range(elements) =
       {n \in tagged \ visited : \A e \in given.edges : e.dst = n => e.src \in visited}
  /\ \A n \in Range(elements) : given.kind[n] \in FusableKinds

(* The element groups so far. *)
Gathered == groups \o group \o <<open>>

GroupsGather ==
  /\ groups \in Seq(Seq(DOMAIN given.kind)) /\ group \in Seq(Seq(DOMAIN given.kind))
  /\ open \in Seq(DOMAIN given.kind) /\ (phase = "ready" => group = <<>> /\ open = <<>>)
  /\ IsInjective(FlattenSeq(Gathered))
  /\ Range(FlattenSeq(Gathered)) \subseteq {n \in visited : given.kind[n] \in FusableKinds}

Disjoint(gs) ==
  /\ \A k \in DOMAIN gs : IsInjective(gs[k])
  /\ \A i, j \in DOMAIN gs : i # j => Range(gs[i]) \cap Range(gs[j]) = {}

(* A group has elements and, if it has been looked at, broadcasts that are *)
(* read there only.                                                        *)
Absorbing(h, g, gs, looked) ==
  \A k \in DOMAIN gs : \A n \in Range(gs[k]) :
    \/ n \in DOMAIN h.kind /\ h.kind[n] \in FusableKinds
    \/ /\ k \in looked /\ n \in NodesOf(g) /\ h.kind[First(g, n)] = "broadcast"
       /\ \A e \in ReadersOf(g, n) :
            e.dst \in DOMAIN h.kind /\ h.kind[e.dst] \in FusableKinds /\ e.dst \in Range(gs[k])

KInv ==
  /\ given \in Graphs /\ level \in Levels /\ index \in Nat \ {0}
  /\ phase \in {"ready", "elements", "absorb", "split", "fuse", "done"}
  /\ ~Fusing => IsGraphOf(given, graph) /\ Unfused(given, graph)
  /\ Extracting => /\ NodesOf(graph) = DOMAIN given.kind /\ graph.edges = given.edges
                   /\ Queues /\ GroupsGather /\ index = 1
  /\ ~Extracting => visited = tagged /\ Disjoint(groups)
  /\ phase = "absorb" =>
       groups \in Seq(Seq(NodesOf(graph))) /\ Absorbing(given, graph, groups, 1 .. index - 1)
  /\ phase = "split" => groups \in Seq(Seq(NodesOf(graph)))
=============================================================================
