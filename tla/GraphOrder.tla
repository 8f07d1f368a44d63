----------------------------- MODULE GraphOrder -----------------------------
(***************************************************************************)
(* The walk that gives the nodes of a graph an order                       *)
(* (core/graph/graph_util.cpp).  A graph is given by `sources`, which maps *)
(* a node to the sources of its in-edges in the order of get_in_edges      *)
(* (control edges first, then the data edges by input).  The stack holds   *)
(* the entries still to be looked at; each entry is one step.              *)
(***************************************************************************)
EXTENDS Integers, Sequences, SequencesExt, FiniteSetsExt

InOrder(S, Before(_, _)) ==
  [i \in 1 .. Cardinality(S) |-> CHOOSE e \in S : Cardinality({d \in S : Before(d, e)}) = i - 1]

Ascending(S) == InOrder(S, LAMBDA m, n : m < n)

(* The elements of a sequence at some places. *)
Picked(s, places) ==
  LET at == Ascending(places) IN [i \in DOMAIN at |-> s[at[i]]]

(* Those that are in a set. *)
Among(s, S) == Picked(s, {i \in DOMAIN s : s[i] \in S})

Enter(n) == [node |-> n, leave |-> FALSE]
Leave(n) == [node |-> n, leave |-> TRUE]

Entries(ns) == [i \in DOMAIN ns |-> Enter(ns[i])]

Unvisited(ns, visited) == Picked(ns, {i \in DOMAIN ns : ns[i] \notin visited})

(* Enough steps for any walk: an entry for each start node, one to leave   *)
(* each node, and one for each edge.                                       *)
StepsOf(nodes, next, start) ==
  Len(start) + Cardinality(nodes) +
    Cardinality(UNION {{n} \X DOMAIN next[n] : n \in nodes})

(***************************************************************************)
(* ReverseDFS with `leave` only: the last entry is taken; a node is marked *)
(* when it is entered and appended when it is left.                        *)
(***************************************************************************)
DFSStep(s, sources) ==
  LET w    == Last(s.stack)
      rest == Front(s.stack)
  IN  IF w.leave
      THEN [s EXCEPT !.stack = rest, !.order = Append(@, w.node)]
      ELSE IF w.node \in s.visited
      THEN [s EXCEPT !.stack = rest]
      ELSE LET marked == s.visited \cup {w.node}
           IN  [s EXCEPT !.visited = marked,
                         !.stack = Append(rest, Leave(w.node)) \o
                                   Entries(Unvisited(sources[w.node], marked))]

ReverseDFS(nodes, sources, start) ==
  LET steps == StepsOf(nodes, sources, start)
      walk[k \in 0 .. steps] ==
        IF k = 0 THEN [stack |-> Entries(start), visited |-> {}, order |-> <<>>]
        ELSE LET s == walk[k - 1]
             IN  IF s.stack = <<>> THEN s ELSE DFSStep(s, sources)
  IN  walk[steps].order
=============================================================================
