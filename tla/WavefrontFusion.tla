-------------------------- MODULE WavefrontFusion --------------------------
(***************************************************************************)
(* BlockFusionWavefrontOptimizer (blockfusion_optimizer.cpp) on a Graph    *)
(* (core/graph/): the nodes are put into groups, wave by wave; the groups  *)
(* are split, merged, and replaced by fused nodes, one after another.      *)
(* BlockFusion takes it from there: the kernels of one group.              *)
(***************************************************************************)
EXTENDS GraphEdges

CONSTANTS
  Nodes,      (* the ids of the nodes that the graph has at first          *)
  Graphs,     (* the graphs: [edges, outputs, fusable]                     *)
  Levels,     (* of fblockfusion_level 1 and 2, those that are tried       *)
  MaxGroup    (* MAX_GROUP                                                 *)

(* An edge goes from a node to one of a higher id, the outputs and inputs  *)
(* of a node are numbered from 1, and each input has one edge.             *)
DataInto(g, n) == {e \in g.edges : e.dst = n /\ e.in # Control}

IsGraph(g) ==
  /\ g.fusable \subseteq Nodes /\ g.outputs \in [Nodes -> Nat]
  /\ IsFiniteSet(g.edges)
  /\ \A e \in g.edges :
       /\ e \in [src : Nodes, out : Nat, dst : Nodes, in : Nat]
       /\ e.src < e.dst /\ e.out <= g.outputs[e.src]
       /\ e.out = Control <=> e.in = Control
  /\ \A n \in Nodes : {e.in : e \in DataInto(g, n)} = 1 .. Cardinality(DataInto(g, n))

ASSUME FusionAssumption ==
  /\ Nodes \subseteq Nat /\ IsFiniteSet(Nodes) /\ Nodes # {}
  /\ \A g \in Graphs : IsGraph(g)
  /\ Levels \subseteq {1, 2} /\ MaxGroup \in Nat \ {0}

VARIABLES
  given,     (* the graph as the pass finds it                             *)
  active,    (* m_active_gnodes_name                                       *)
  nodes,     (* the nodes of the graph                                     *)
  edges,     (* m_edges: [src, out, dst, in]                               *)
  ins,       (* m_inputs of a node: the tensor each was made to read       *)
  outs,      (* m_outputs of a node: the tensor of each, which is named    *)
             (* after the node and the output that yield it in the given   *)
             (* graph                                                      *)
  kernels,   (* the kernels of a node: those of its group if it is fused   *)
  phase,     (* "extract", "split", "merge", "fuse" or "thrown"            *)
  visited,   (* the nodes whose TaggedNode is visited                      *)
  wave,      (* ready, in the parts that sub_group divides it into         *)
  groups,    (* the FusionGroups: [merge, parts]                           *)
  index      (* the group that is looked at                                *)

fixedVars == <<given, active>>
graphVars == <<nodes, edges, ins, outs, kernels>>
waveVars  == <<visited, wave>>
vars      == <<fixedVars, graphVars, phase, waveVars, groups, index>>

-----------------------------------------------------------------------------
(* The graph. *)

EdgesInto(n) == InEdges(edges, n)
EdgesFrom(n) == OutEdges(edges, n)

SourcesOf(ns)  == {e.src : e \in {d \in edges : d.dst \in ns}}
ReadersOf(ns)  == {e.dst : e \in {d \in edges : d.src \in ns}}

(* What can be reached from some nodes along the edges. *)
Reached(ns) ==
  LET reach[k \in 0 .. Cardinality(nodes)] ==
        IF k = 0 THEN ns ELSE reach[k - 1] \cup ReadersOf(reach[k - 1])
  IN  reach[Cardinality(nodes)]

(* The Result nodes, which are the outputs of the graph: no other node     *)
(* reads them and their kernel is no BlockCudaEmitter.                     *)
Outputs == {n \in Nodes \ given.fusable : \A e \in given.edges : e.src # n}

(* get_ordered_ops. *)
OrderedOps == OpsInOrder(nodes, edges, Outputs)

-----------------------------------------------------------------------------
(* ExtractFusionGroups. *)

KernelsOf(g) == FlattenSeq(g.parts)
NonEmpty(parts) == Picked(parts, {i \in DOMAIN parts : parts[i] # <<>>})

(* verify_node: alive when the optimizer was made, with a kernel that can  *)
(* be fused.                                                               *)
Verified(n) == n \in given.fusable /\ n \in active

VerifiedOf(ns) == Picked(ns, {i \in DOMAIN ns : Verified(ns[i])})

Released(n, seen) == ReadyAfter(edges, n, seen)

(* The nodes of a wave that can be fused are a group.  The nodes that one  *)
(* node has released stay together as a part of the next wave.             *)
ExtractWave ==
  LET order == FlattenSeq(wave)
      seen(k) == visited \cup {order[j] : j \in 1 .. k - 1}
      parts == NonEmpty([p \in DOMAIN wave |-> VerifiedOf(wave[p])])
  IN  /\ phase = "extract" /\ wave # <<>>
      /\ visited' = visited \cup {order[k] : k \in DOMAIN order}
      /\ wave' = NonEmpty([k \in DOMAIN order |-> Released(order[k], seen(k))])
      /\ groups' = IF parts = <<>> THEN groups
                   ELSE Append(groups, [merge |-> \A k \in DOMAIN order : Verified(order[k]),
                                        parts |-> parts])
      /\ UNCHANGED <<fixedVars, graphVars, phase, index>>

StartSplitting ==
  /\ phase = "extract" /\ wave = <<>> /\ visited = nodes
  /\ phase' = "split" /\ index' = 1
  /\ UNCHANGED <<fixedVars, graphVars, waveVars, groups>>

-----------------------------------------------------------------------------
(* SplitGroup.  The group is cut where a part ends, as late as MaxGroup    *)
(* allows; a part that is too large itself is cut into chunks if nothing   *)
(* is pending before it.                                                   *)
Ends(g) ==
  [i \in 1 .. Len(g.parts) + 1 |-> Len(FlattenSeq(SubSeq(g.parts, 1, i - 1)))]

Chunks(from, to) ==
  [i \in 1 .. (to - from + MaxGroup - 1) \div MaxGroup |->
     [from |-> from + (i - 1) * MaxGroup,
      to   |-> IF from + i * MaxGroup < to THEN from + i * MaxGroup ELSE to]]

CutAt(s, end) ==
  IF end <= MaxGroup + s.start THEN [s EXCEPT !.end = end]
  ELSE IF s.start = s.end
  THEN [cuts |-> s.cuts \o Chunks(s.start, end), start |-> end, end |-> end]
  ELSE [cuts  |-> Append(s.cuts, [from |-> s.start, to |-> s.end]),
        start |-> s.end, end |-> end]

CutsBefore(ends) ==
  LET cut[i \in 0 .. Len(ends)] ==
        IF i = 0 THEN [cuts |-> <<>>, start |-> 0, end |-> 0] ELSE CutAt(cut[i - 1], ends[i])
  IN  cut[Len(ends)]

CutsWithoutRest(g) == CutsBefore(Ends(g)).cuts   (* mutant: what is pending is lost *)

Cuts(g) ==
  LET s == CutsBefore(Ends(g))
  IN  IF s.start = Len(KernelsOf(g)) THEN s.cuts
      ELSE Append(s.cuts, [from |-> s.start, to |-> s.end])

Pieces(g) ==
  IF Len(KernelsOf(g)) <= MaxGroup THEN <<g>>
  ELSE [i \in DOMAIN Cuts(g) |->
          [merge |-> FALSE,
           parts |-> <<SubSeq(KernelsOf(g), Cuts(g)[i].from + 1, Cuts(g)[i].to)>>]]

SplitGroup ==
  /\ phase = "split" /\ index <= Len(groups)
  /\ groups' = SubSeq(groups, 1, index - 1) \o Pieces(groups[index])
                 \o SubSeq(groups, index + 1, Len(groups))
  /\ index' = index + Len(Pieces(groups[index]))
  /\ UNCHANGED <<fixedVars, graphVars, phase, waveVars>>

(* Optimize merges groups at m_fusion_level 2.  MergeGroups profiles the   *)
(* first group before it looks whether there is one.                       *)
EndSplitting(level) ==
  /\ phase = "split" /\ index > Len(groups)
  /\ IF level = 1 THEN phase' = "fuse" /\ index' = 1
     ELSE IF groups = <<>> THEN phase' = "thrown" /\ UNCHANGED index
     ELSE phase' = "merge" /\ index' = 2
  /\ UNCHANGED <<fixedVars, graphVars, waveVars, groups>>

-----------------------------------------------------------------------------
(* CheckGroupMergeable: no path leaves the first group and comes to the    *)
(* second by nodes that are in neither.                                    *)
Frontier(g, h) ==
  ReadersOf(Range(KernelsOf(g))) \ (Range(KernelsOf(g)) \cup Range(KernelsOf(h)))

NotFollowed(g, h) ==   (* mutant: the search does not go on *)
  Frontier(g, h) \cap Range(KernelsOf(h)) = {}

CheckGroupMergeable(g, h) ==
  Reached(Frontier(g, h)) \cap Range(KernelsOf(h)) = {}

(* MergeGroups: if the profiler finds that the merged group is faster.     *)
MergeGroups ==
  LET g == groups[index - 1]
      h == groups[index]
  IN  /\ phase = "merge" /\ index <= Len(groups)
      /\ \/ /\ g.merge /\ CheckGroupMergeable(g, h)
            /\ groups' = SubSeq(groups, 1, index - 2)
                           \o <<[merge |-> TRUE, parts |-> g.parts \o h.parts]>>
                           \o SubSeq(groups, index + 1, Len(groups))
            /\ UNCHANGED index
         \/ index' = index + 1 /\ UNCHANGED groups
      /\ UNCHANGED <<fixedVars, graphVars, phase, waveVars>>

EndMerging ==
  /\ phase = "merge" /\ index > Len(groups)
  /\ phase' = "fuse" /\ index' = 1
  /\ UNCHANGED <<fixedVars, graphVars, waveVars, groups>>

-----------------------------------------------------------------------------
(* FuseGroupOnGraph.  The device may be found slower than the kernels one  *)
(* by one, as it always is if there is only one, and the group is left.    *)
SkipGroup ==
  /\ phase = "fuse" /\ index <= Len(groups)
  /\ index' = index + 1
  /\ UNCHANGED <<fixedVars, graphVars, phase, waveVars, groups>>

(* The edges that come into the group or leave it get slots of the fused   *)
(* node in the order in which they are met.                                *)
Into(ks) ==
  FlattenSeq([i \in DOMAIN ks |->
    LET es == EdgesInto(ks[i]) IN Picked(es, {j \in DOMAIN es : es[j].src \notin Range(ks)})])

From(ks) ==
  FlattenSeq([i \in DOMAIN ks |->
    LET es == EdgesFrom(ks[i]) IN Picked(es, {j \in DOMAIN es : es[j].dst \notin Range(ks)})])

Slot(es, i) ==
  IF es[i].in = Control THEN Control
  ELSE Cardinality({j \in 1 .. i : es[j].in # Control})

(* remove_node takes the edges of the node away with it. *)
KeepEdges(removed) == edges   (* mutant: it does not *)

WithoutEdgesOf(removed) == EdgesLeft(edges, removed)

(* add_node: ids are not used again. *)
NewId == Max(Nodes) + index

FirstOutput(e) == outs[e.src][1]   (* mutant: not the output the edge leaves from *)

Yielded(e) == outs[e.src][e.out]

FuseGroup ==
  LET ks    == KernelsOf(groups[index])
      group == Range(ks)
      into  == Into(ks)
      from  == From(ks)
      left  == nodes \ group
      With(f, value) == [n \in left \cup {NewId} |-> IF n = NewId THEN value ELSE f[n]]
  IN  /\ phase = "fuse" /\ index <= Len(groups)
      /\ Len(ks) > 1
      /\ nodes' = left \cup {NewId}
      /\ edges' = WithoutEdgesOf(group)
           \cup {[into[i] EXCEPT !.dst = NewId, !.in = Slot(into, i)] : i \in DOMAIN into}
           \cup {[from[i] EXCEPT !.src = NewId, !.out = Slot(from, i)] : i \in DOMAIN from}
      /\ ins' = With(ins, LET es == OnlyData(into)
                          IN  [i \in DOMAIN es |-> ins[es[i].dst][es[i].in]])
      /\ outs' = With(outs, LET es == OnlyData(from)
                            IN  [i \in DOMAIN es |-> Yielded(es[i])])
      /\ kernels' = With(kernels, ks)
      /\ index' = index + 1
      /\ UNCHANGED <<fixedVars, phase, waveVars, groups>>

-----------------------------------------------------------------------------
Init ==
  /\ given \in Graphs
  /\ nodes = Nodes /\ edges = given.edges
  /\ outs = [n \in Nodes |-> [k \in 1 .. given.outputs[n] |-> <<n, k>>]]
  /\ ins = [n \in Nodes |->
              LET into == DataInto(given, n)
                  At(i) == CHOOSE e \in into : e.in = i
              IN  [i \in 1 .. Cardinality(into) |-> <<At(i).src, At(i).out>>]]
  /\ kernels = [n \in Nodes |-> <<n>>]
  /\ active = Range(OrderedOps)
  /\ phase = "extract" /\ visited = {} /\ groups = <<>> /\ index = 1
  /\ wave = LET first == Ascending({n \in Nodes : SourcesOf({n}) = {}})
            IN  [i \in DOMAIN first |-> <<first[i]>>]

Next ==
  \/ ExtractWave \/ StartSplitting
  \/ SplitGroup \/ \E level \in Levels : EndSplitting(level)
  \/ MergeGroups \/ EndMerging
  \/ SkipGroup \/ FuseGroup

Spec == Init /\ [][Next]_vars

-----------------------------------------------------------------------------
(* Properties. *)

(* The values of the variables: in the graph, edges join its nodes, at     *)
(* slots that they have.                                                   *)
TypeOK ==
  /\ given.fusable \subseteq Nodes /\ active \subseteq Nodes
  /\ nodes \subseteq Nat
  /\ DOMAIN ins = nodes /\ DOMAIN outs = nodes /\ DOMAIN kernels = nodes
  /\ \A e \in edges :
       /\ e.src \in nodes /\ e.out \in {Control} \cup DOMAIN outs[e.src]
       /\ e.dst \in nodes /\ e.in \in {Control} \cup DOMAIN ins[e.dst]
  /\ phase \in {"extract", "split", "merge", "fuse", "thrown"}
  /\ visited \subseteq Nodes /\ \A k \in DOMAIN wave : Range(wave[k]) \subseteq Nodes
  /\ \A k \in DOMAIN groups : groups[k].merge \in BOOLEAN /\ KernelsOf(groups[k]) # <<>>
  /\ index \in Nat \ {0}

(* Every kernel that can be fused is in one group, once, and after the     *)
(* kernels that it depends on: check_dependency finds those of its group   *)
(* on the device when it is scheduled, and the groups are fused in order.  *)
Grouped == FlattenSeq([k \in DOMAIN groups |-> KernelsOf(groups[k])])

GroupsInOrder ==
  phase # "extract" =>
    /\ IsInjective(Grouped) /\ Range(Grouped) = {n \in Nodes : Verified(n)}
    /\ \A e \in given.edges : \A i, j \in DOMAIN Grouped :
         Grouped[i] = e.src /\ Grouped[j] = e.dst => i < j

(* Each input of each node has one edge, and it comes from an output that  *)
(* is the tensor the input was made to read, however many of the nodes     *)
(* around it are fused by now.                                             *)
OperandsKept ==
  \A n \in nodes : \A i \in DOMAIN ins[n] :
    \E e \in edges :
      /\ e.dst = n /\ e.in = i /\ e.out \in DOMAIN outs[e.src]
      /\ outs[e.src][e.out] = ins[n][i]
      /\ \A d \in edges : d.dst = n /\ d.in = i => d = e

(* The order of the program that is made from the graph has every live     *)
(* kernel once, and after those that it depends on by data or control.     *)
Executed ==
  LET order == OrderedOps IN FlattenSeq([i \in DOMAIN order |-> kernels[order[i]]])

RunsTheGraph ==
  phase = "fuse" =>
    LET order == Executed
    IN  /\ IsInjective(order) /\ active \subseteq Range(order)
        /\ \A e \in given.edges : \A j \in DOMAIN order :
             order[j] = e.dst => \E i \in 1 .. j - 1 : order[i] = e.src

-----------------------------------------------------------------------------
(* Why these hold: what is true between any two steps. *)

Waiting == FlattenSeq(wave)

Tensors == Nodes \X Nat

(* Data that the steps compute with.  An edge carries data from an output  *)
(* to an input, or nothing at both of its ends.                            *)
Shapes ==
  /\ wave \in Seq(Seq(Nodes))
  /\ groups \in Seq([merge : BOOLEAN, parts : Seq(Seq(Nodes))])
  /\ ins \in [nodes -> Seq(Tensors)] /\ outs \in [nodes -> Seq(Tensors)]
  /\ IsFiniteSet(edges)
  /\ \A e \in edges : /\ e \in [src : nodes, out : Nat, dst : nodes, in : Nat]
                      /\ e.out = Control <=> e.in = Control

(* The groups are made before the graph is changed, and no fused node has  *)
(* the id that the next one gets.                                          *)
GraphAndPhase ==
  /\ phase # "fuse" => nodes = Nodes /\ edges = given.edges
  /\ phase = "merge" => index > 1
  /\ nodes \subseteq Nodes \cup {Max(Nodes) + i : i \in 1 .. index - 1}

(* A node waits once and is visited once, after its sources.               *)
WaveIsReady ==
  /\ IsInjective(Waiting) /\ Range(Waiting) \cap visited = {}
  /\ \A e \in given.edges : e.dst \in visited \cup Range(Waiting) => e.src \in visited
  /\ phase # "extract" => visited = Nodes

(* The groups hold the nodes to fuse among those that are visited.         *)
GroupsSoFar ==
  /\ IsInjective(Grouped) /\ Range(Grouped) = {n \in visited : Verified(n)}
  /\ \A e \in given.edges : \A i, j \in DOMAIN Grouped :
       Grouped[i] = e.src /\ Grouped[j] = e.dst => i < j

IInv == TypeOK /\ Shapes /\ GraphAndPhase /\ WaveIsReady /\ GroupsSoFar /\ OperandsKept

(* A path that leaves a group does not come back to it, or to a group that *)
(* is fused before it: from the group on it is in a set of other nodes.    *)
(* Until groups are joined, no edge is between two nodes of one.           *)
KernelSet(gs, k) == Range(KernelsOf(gs[k]))

GoesOnIn(after, es, gs, k, joined) ==
  /\ \A e \in es : e.src \in after => e.dst \in after
  /\ \A e \in es : e.src \in KernelSet(gs, k) =>
       e.dst \in after \/ (joined /\ e.dst \in KernelSet(gs, k))
  /\ \A j \in 1 .. k : KernelSet(gs, j) \cap after = {}

AllGoOn(es, gs, joined) ==
  \A k \in DOMAIN gs : \E after \in SUBSET Nodes : GoesOnIn(after, es, gs, k, joined)

GroupsFollow == AllGoOn(given.edges, groups, phase \notin {"extract", "split"})

(* The graph is the given one with some of its nodes put together: every   *)
(* kernel is that of one node, a node that is not given has those of a     *)
(* group that has been looked at, in an order in which they can run.       *)
KernelsPlaced ==
  /\ kernels \in [nodes -> Seq(Nodes)]
  /\ \A n \in nodes : IsInjective(kernels[n])
  /\ \A n \in nodes \cap Nodes : kernels[n] = <<n>>
  /\ \A n \in nodes \ Nodes : \A x \in Range(kernels[n]) :
       \E j \in DOMAIN groups : j < index /\ x \in KernelSet(groups, j)
  /\ \A x \in Nodes : \E n \in nodes : x \in Range(kernels[n])
  /\ \A m, n \in nodes : Range(kernels[m]) \cap Range(kernels[n]) # {} => m = n
  /\ \A n \in nodes : \A e \in given.edges : \A i, j \in DOMAIN kernels[n] :
       kernels[n][i] = e.src /\ kernels[n][j] = e.dst => i < j

(* Its edges are those of the given graph between different nodes, and     *)
(* they make no cycle.                                                     *)
EdgesPlaced ==
  /\ \A e \in edges : \E d \in given.edges :
       d.src \in Range(kernels[e.src]) /\ d.dst \in Range(kernels[e.dst])
  /\ \A d \in given.edges : \A m, n \in nodes :
       m # n /\ d.src \in Range(kernels[m]) /\ d.dst \in Range(kernels[n]) =>
         \E e \in edges : e.src = m /\ e.dst = n

NoCycle ==
  \E R \in SUBSET (nodes \X nodes) :
    /\ \A e \in edges : <<e.src, e.dst>> \in R
    /\ \A x \in nodes : <<x, x>> \notin R
    /\ \A x, y, z \in nodes : <<x, y>> \in R /\ <<y, z>> \in R => <<x, z>> \in R

(* The live nodes are those that the outputs depend on.                    *)
ActiveNeeded ==
  \A C \in SUBSET Nodes :
    Outputs \subseteq C /\ (\A e \in given.edges : e.dst \in C => e.src \in C) => active \subseteq C

RInv == IInv /\ GroupsFollow /\ KernelsPlaced /\ EdgesPlaced /\ NoCycle /\ ActiveNeeded
=============================================================================
