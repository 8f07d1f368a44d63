------------------------- MODULE MCWavefrontFusion -------------------------
(***************************************************************************)
(* Instances of WavefrontFusion for TLC: all graphs of NumNodes nodes      *)
(* whose edges carry data and whose nodes have one output, and all of      *)
(* NumMixed nodes that also have a control edge or whose nodes have two    *)
(* outputs.                                                                *)
(***************************************************************************)
EXTENDS WavefrontFusion

CONSTANTS NumNodes, NumMixed

NodeIds == 1 .. NumNodes

PairsUpTo(k) == {p \in (1 .. k) \X (1 .. k) : p[1] < p[2]}

DataEdges(data, second) ==
  {[src |-> p[1], out |-> IF p \in second THEN 2 ELSE 1, dst |-> p[2],
    in |-> Cardinality({q \in data : q[2] = p[2] /\ q[1] <= p[1]})] : p \in data}

ControlEdges(control) ==
  {[src |-> p[1], out |-> 0, dst |-> p[2], in |-> 0] : p \in control}

(* The last node is a Result. *)
FusableSets(k) == SUBSET (1 .. k - 1)

OneOutput(k, controls) ==
  {[edges   |-> DataEdges(data, {}) \cup ControlEdges(control),
    outputs |-> [n \in NodeIds |-> 1],
    fusable |-> fusable] :
     data \in SUBSET PairsUpTo(k), control \in controls, fusable \in FusableSets(k)}

(* Of the second outputs one is read; fewer than two nodes are not fused. *)
TwoOutputs(k) ==
  UNION {{[edges   |-> DataEdges(data, second),
           outputs |-> [n \in NodeIds |-> 2],
           fusable |-> fusable] :
            second \in (SUBSET data) \ {{}},
            fusable \in {ns \in FusableSets(k) : Cardinality(ns) > 1}} :
         data \in SUBSET PairsUpTo(k)}

AllGraphs ==
  OneOutput(NumNodes, {{}}) \cup OneOutput(NumMixed, {{p} : p \in PairsUpTo(NumMixed)})
    \cup TwoOutputs(NumMixed)
=============================================================================
