--------------------------- MODULE MCKernelFusion ---------------------------
(***************************************************************************)
(* Instances of KernelFusion for TLC.  The first node is an input, the     *)
(* last one the Result.                                                    *)
(***************************************************************************)
EXTENDS KernelFusion

CONSTANTS NumNodes

PairsUpTo(k) == {p \in (1 .. k) \X (1 .. k) : p[1] < p[2]}

Sources(data, n) == {p[1] : p \in {q \in data : q[2] = n}}

(* The Result reads the node before it, and may read the one before that.  *)
DataOn(k) ==
  {inner \cup {<<k - 1, k>>} \cup more :
     inner \in SUBSET PairsUpTo(k - 1), more \in SUBSET {<<k - 2, k>>}}

(* The edges of the pairs; a broadcast reads output `out` of its source if *)
(* that is a node with several, other readers alternate.                   *)
Edges(data, control, kind, out) ==
  {[src |-> p[1], dst |-> p[2],
    in  |-> Cardinality({n \in Sources(data, p[2]) : n <= p[1]}),
    out |-> IF kind[p[1]] # "other" THEN 1
            ELSE IF kind[p[2]] = "broadcast" THEN out ELSE 1 + ((p[1] + p[2]) % 2)] : p \in data}
  \cup {[src |-> p[1], out |-> Control, dst |-> p[2], in |-> Control] : p \in control}

KindsOf(k, kinds) ==
  {kind \in [1 .. k -> kinds \cup {"other", "result"}] :
     \A n \in 1 .. k : /\ n = 1 => kind[n] = "other"
                       /\ n = k <=> kind[n] = "result"}

Fits(data, kind) ==
  \A n \in DOMAIN kind :
    /\ kind[n] \in {"reshape", "broadcast"} => Cardinality(Sources(data, n)) = 1
    /\ kind[n] = "elementwise" => Cardinality(Sources(data, n)) \in {1, 2}

(* Nothing asks for the size and the home of nodes that are never fused.   *)
Tints(kind, tints) ==
  {tint \in [DOMAIN kind -> tints \cup {1}] :
     \A n \in DOMAIN kind : kind[n] \in {"other", "result"} => tint[n] = 1}

GraphsWith(k, datas, controls, kinds, sizes, homes, out) ==
  LET shapes == {s \in datas \X KindsOf(k, kinds) : Fits(s[1], s[2])}
  IN  {g \in UNION {
         {[edges |-> Edges(s[1], control, s[2], out), kind |-> s[2],
           size |-> size, home |-> home] :
            control \in controls, size \in Tints(s[2], sizes), home \in Tints(s[2], homes)} :
         s \in shapes} : IsGraph(g)}

(* One size and one device; two sizes or two devices; control edges        *)
(* between nodes that are neither reshapes nor broadcasts.                 *)
PlainGraphs ==
  GraphsWith(NumNodes, DataOn(NumNodes), {{}},
             {"elementwise", "reshape", "broadcast"}, {1}, {1}, 1)
TintedGraphs ==
  LET k == NumNodes - 1
      Of(sizes, homes) ==
        GraphsWith(k, DataOn(k), {{}}, {"elementwise", "broadcast"}, sizes, homes, 1)
  IN  Of({1, 2}, {1}) \cup Of({1}, {1, 2})
ControlledGraphs ==
  GraphsWith(NumNodes, DataOn(NumNodes), {{<<2, 3>>}, {<<2, 4>>}, {<<3, 4>>}},
             {"elementwise"}, {1}, {1}, 1)

(* Two waves of elements, with broadcasts and others between them.         *)
LayeredGraphs ==
  LET diamond == {<<1, 2>>, <<2, 3>>, <<2, 4>>, <<3, 5>>, <<4, 6>>, <<5, 7>>, <<6, 7>>, <<7, 8>>}
      chain   == {<<n, n + 1>> : n \in 1 .. 7} \cup {<<2, 6>>}
  IN  GraphsWith(8, {diamond, chain}, {{}}, {"elementwise", "broadcast"}, {1}, {1}, 1)
        \cup GraphsWith(8, {diamond}, {{<<3, 7>>}}, {"elementwise"}, {1}, {1}, 1)

AllGraphs == PlainGraphs \cup TintedGraphs \cup ControlledGraphs \cup LayeredGraphs

(* The theorems that ask for plain graphs are about all of these.          *)
ASSUME PlainAssumption == \A g \in AllGraphs : IsPlain(g)

(* Others, on which the pass goes wrong: OperandsKept fails when a copied  *)
(* broadcast reads the second output of its source, and RunsTheGraph when  *)
(* a broadcast, node 2, is fused and node 3 has to wait for it.            *)
SecondOutputGraphs ==
  GraphsWith(NumNodes, DataOn(NumNodes), {{}}, {"elementwise", "broadcast"}, {1}, {1}, 2)

AwaitedBroadcastGraphs ==
  GraphsWith(6, {{<<1, 2>>, <<2, 4>>, <<3, 4>>, <<4, 5>>, <<5, 6>>}}, {{<<2, 3>>}},
             {"elementwise", "broadcast"}, {1}, {1}, 1)
=============================================================================
