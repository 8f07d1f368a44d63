---------------------------- MODULE MCAsyncExec -----------------------------
(***************************************************************************)
(* Instances of AsyncExec for TLC: all the graphs of Size nodes with at    *)
(* most two in-edges for each, that the numbers of the nodes suit.         *)
(***************************************************************************)
EXTENDS AsyncExec

CONSTANTS
  MaxTensors,  (* the number of Parameters and Constants, at most      *)
  Controls     (* the number of control edges, at most                 *)

Order == INSTANCE GraphOrder

(* get_in_edges puts control edges first. *)
InEdges(n) ==
  LET from == [src : 1 .. n - 1, control : BOOLEAN]
  IN  {<<>>} \cup {<<e>> : e \in from} \cup (from \X from)

SuitsKind(kind, in) ==
  LET tensors == {k \in DOMAIN in : ~in[k].control}
  IN  /\ Len(in) = 2 => in[1].src # in[2].src /\ (in[2].control => in[1].control)
      /\ kind \in {"Parameter", "Constant"} <=> tensors = {}
      /\ kind \in {"AllReduce", "Result"} => Cardinality(tensors) = 1

(* A node with its kind and in-edges. *)
NodesAt(n) ==
  {<<k, in>> \in Kind \X InEdges(n) : SuitsKind(k, in)}

Join(nodes, folding, outs) ==
  [kind |-> [n \in Node |-> nodes[n][1]],
   in |-> [n \in Node |-> nodes[n][2]],
   outs |-> outs, folding |-> folding]

Unread(p) ==
  {m \in DOMAIN p : p[m][1] # "Result" /\
     \A n \in DOMAIN p, k \in {1, 2} : k \in DOMAIN p[n][2] => p[n][2][k].src # m}

Results(p)    == {n \in DOMAIN p : p[n][1] = "Result"}
AllReduces(p) == {n \in DOMAIN p : p[n][1] = "AllReduce"}
ControlsOf(p) ==
  {<<n, k>> \in (DOMAIN p) \X {1, 2} : k \in DOMAIN p[n][2] /\ p[n][2][k].control}

(* The graphs, node by node; each node that is still to come takes at most *)
(* one off the number of those that nothing reads.                         *)
Fits(p) ==
  /\ Cardinality({n \in DOMAIN p : p[n][1] \in {"Parameter", "Constant"}}) <= MaxTensors
  /\ ControlsOf(p) = {} \/ AllReduces(p) = {}
  /\ AllReduces(p) \cup ControlsOf(p) = {} \/ Cardinality(Results(p)) <= 1
  /\ Cardinality(ControlsOf(p)) <= Controls
  /\ \A n \in DOMAIN p, k \in {1, 2} :
       k \in DOMAIN p[n][2] => p[p[n][2][k].src][1] # "Result"
  /\ Cardinality(Unread(p)) <= Size - Len(p)

Begun[n \in 0 .. Size] ==
  IF n = 0 THEN {<<>>}
  ELSE {p \in {Append(q, x) : q \in Begun[n - 1], x \in NodesAt(n)} : Fits(p)}

SourcesOf(p) == [n \in DOMAIN p |-> [k \in DOMAIN p[n][2] |-> p[n][2][k].src]]

(* What get_ordered_ops returns for it is 1 .. Size. *)
Canonical(p, outs) ==
  Order!ReverseDFS(Node, SourcesOf(p), outs) = [n \in Node |-> n]

Programs ==
  UNION {{Join(p, folding, outs) :
            folding \in IF \E n \in Node : p[n][1] = "Constant" THEN BOOLEAN ELSE {FALSE},
            outs \in {o \in SetToSeqs(Results(p)) : o # <<>> /\ Canonical(p, o)}} :
         p \in Begun[Size]}
=============================================================================
