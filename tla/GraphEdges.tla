----------------------------- MODULE GraphEdges -----------------------------
(***************************************************************************)
(* A Graph (core/graph/) as the set of its edges [src, out, dst, in].      *)
(* Slots are counted from 1; kControlSlot is 0.                            *)
(***************************************************************************)
EXTENDS GraphOrder

Control == 0

ByInput(d, e)  == d.in < e.in \/ (d.in = e.in /\ d.src < e.src)
ByOutput(d, e) ==
  \/ d.out < e.out
  \/ d.out = e.out /\ (d.dst < e.dst \/ (d.dst = e.dst /\ d.in < e.in))

(* get_in_edges and get_out_edges: by slot, control edges first; the order *)
(* within a slot, which the code leaves open, is that of the ids.          *)
InEdges(edges, n)  == InOrder({e \in edges : e.dst = n}, ByInput)
OutEdges(edges, n) == InOrder({e \in edges : e.src = n}, ByOutput)

OnlyData(es) == Picked(es, {i \in DOMAIN es : es[i].in # Control})

(* get_ordered_ops: the nodes that the outputs depend on, in the order in  *)
(* which the walk from the outputs leaves them.                            *)
OpsInOrder(nodes, edges, outputs) ==
  ReverseDFS(nodes,
             [n \in nodes |-> LET into == InEdges(edges, n) IN [i \in DOMAIN into |-> into[i].src]],
             Ascending(outputs))

(* The nodes that are ready once n is visited, in the order of the edges   *)
(* that make them so: all their sources have been visited.                 *)
ReadyAfter(edges, n, visited) ==
  LET out   == OutEdges(edges, n)
      final == {i \in DOMAIN out :
                  /\ \A j \in i + 1 .. Len(out) : out[j].dst # out[i].dst
                  /\ \A e \in edges : e.dst = out[i].dst => e.src \in visited \cup {n}}
      order == Ascending(final)
  IN  [i \in DOMAIN order |-> out[order[i]].dst]

(* remove_node takes the edges of a node away with it. *)
EdgesLeft(edges, removed) == {e \in edges : e.src \notin removed /\ e.dst \notin removed}
=============================================================================
