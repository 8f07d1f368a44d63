----------------------------- MODULE AsyncInfo ------------------------------
(***************************************************************************)
(* AssignAsyncInfoPass (engine/pass/graph/assign_async_info_pass.cpp): on  *)
(* which host thread and which CUDA stream each operator of a graph runs,  *)
(* and between which of them the generated program has a barrier or an     *)
(* event.  The naive policy, one device.                                   *)
(*                                                                         *)
(* A node is named by its place in Graph::get_ordered_ops, so 1 .. Size is *)
(* the program order, and an edge leads from a lower to a higher node.     *)
(***************************************************************************)
EXTENDS Integers, FiniteSets, Sequences, SequencesExt

CONSTANTS
  Size,       (* the number of nodes                                       *)
  Graphs,     (* the graphs that may be compiled                           *)
  Devices,    (* FLAGS_fdefault_device: "CPU" (GENERIC_CPU), "CUDA"        *)
  NumStreams, (* the values of FLAGS_fnum_stream                           *)
  None

Node == 1 .. Size

Kind == {"Parameter", "Constant", "Op", "AllReduce", "Result"}

(* An in-edge: its source, and whether it carries no tensor. *)
Edge == [src : Node, control : BOOLEAN]

(***************************************************************************)
(* A graph: the operator of each node, its in-edges in the order of        *)
(* get_in_edges, the output nodes, and the flag FLAGS_frt_const_folding it *)
(* is compiled with.                                                       *)
(***************************************************************************)
Sources(g, n) == {g.in[n][k].src : k \in DOMAIN g.in[n]}

(* Every node is needed for some output: get_ordered_ops has no other.     *)
AllNeeded(g) ==
  \A S \in SUBSET Node :
    /\ \A k \in DOMAIN g.outs : g.outs[k] \in S
    /\ \A n \in S : Sources(g, n) \subseteq S
    => S = Node

IsGraph(g) ==
  /\ g.kind \in [Node -> Kind]
  /\ g.in \in [Node -> Seq(Edge)]
  /\ g.outs \in Seq(Node)
  /\ g.folding \in BOOLEAN
  /\ \A n \in Node : Sources(g, n) \subseteq 1 .. n - 1
  /\ AllNeeded(g)

VARIABLES
  device,     (* the device the graph is compiled for                      *)
  numStream,  (* FLAGS_fnum_stream                                         *)
  graph,      (* the graph                                                 *)
  phase,      (* the function of the pass that comes next, then "run"      *)
  stack,      (* the stack of the walk from the outputs                    *)
  visited,    (* the nodes it has visited                                  *)
  count,      (* the number of the thread or stream it gives out           *)
  early,      (* the nodes that run in cuda_init or cpu_init               *)
  thread,     (* execution_thread of each node                             *)
  stream,     (* execution_stream of each node                             *)
  threads,    (* the host threads set_stream has created but the default   *)
  notifies,   (* the nodes with a notify_barrier                           *)
  waits,      (* the wait_barriers of each node, by the node that notifies *)
  records,    (* the nodes with a record_event                             *)
  waitEvents  (* the wait_events of each node, by the node that records    *)

config  == <<device, numStream, graph>>
walk    == <<stack, visited, count>>
threading == <<early, thread, threads>>
syncs   == <<notifies, waits, records, waitEvents>>
infoVars == <<config, phase, walk, threading, stream, syncs>>

(* Threads and streams are their symbols: set_stream finds them by name.   *)
Thread == [name : {"default", "", "dev", "async"}, number : Nat]

Default  == [name |-> "default", number |-> 0]
Dev      == [name |-> "dev", number |-> 0]
Numbered(k) == [name |-> "", number |-> k]
Async(k) == [name |-> "async", number |-> k]

(* A stream is named after a thread, with a number from 1 on or none (0).  *)
Stream == [of : Thread, number : Nat]

StreamOf(t, k) == [of |-> t, number |-> k]
DefaultStream  == StreamOf(Default, 0)

ASSUME AsyncAssumption ==
  /\ Size \in Nat \ {0}
  /\ \A g \in Graphs : IsGraph(g)
  /\ Devices \subseteq {"CPU", "CUDA"}
  /\ NumStreams \subseteq Nat
  /\ None \notin Thread \cup Stream

IsTensorOp(n) == graph.kind[n] \in {"Parameter", "Constant"}

InfoInit ==
  /\ device \in Devices
  /\ numStream \in NumStreams
  /\ graph \in Graphs
  /\ phase = "init"
  /\ stack = <<>> /\ visited = {} /\ count = 1
  /\ early = {}
  /\ thread = [n \in Node |-> None]
  /\ stream = [n \in Node |-> None]
  /\ threads = {}
  /\ notifies = {} /\ records = {}
  /\ waits = [n \in Node |-> {}]
  /\ waitEvents = [n \in Node |-> {}]

-----------------------------------------------------------------------------
(* With FLAGS_frt_const_folding, the nodes whose operands are all          *)
(* constants at compile time; control edges do not count.                  *)
Folded ==
  LET folded[n \in Node] ==
        /\ graph.folding
        /\ \/ graph.kind[n] = "Constant"
           \/ /\ graph.kind[n] \in {"Op", "AllReduce"}
              /\ \A k \in DOMAIN graph.in[n] :
                   graph.in[n][k].control \/ folded[graph.in[n][k].src]
  IN  {n \in Node : folded[n]}

(* The nodes the init function runs. *)
Early == Folded \cup {n \in Node : IsTensorOp(n)}

(* init_assign_async_info: what the init function does is on the default   *)
(* thread, in the default stream.                                          *)
InitAssign ==
  /\ phase = "init"
  /\ early' = Early
  /\ thread' = [n \in Node |-> IF n \in early' THEN Default ELSE None]
  /\ stream' = [n \in Node |-> IF n \in early' /\ device = "CUDA"
                               THEN DefaultStream ELSE None]
  /\ phase' = "threads"
  /\ UNCHANGED <<config, walk, threads, syncs>>

Exec == Node \ early

(* Where a walk starts. *)
StartWalk == stack' = graph.outs /\ visited' = {} /\ count' = 1

(* naive_assign_thread_info with one thread; gpu_assign_thread_info when   *)
(* nothing is asynchronous.                                                *)
HasAsync == \E n \in Node : graph.kind[n] = "AllReduce"

OneThread ==
  /\ phase = "threads"
  /\ IF device = "CPU" THEN numStream = 1 ELSE ~HasAsync
  /\ thread' = [n \in Node |-> IF thread[n] = None THEN Default ELSE thread[n]]
  /\ phase' = IF device = "CPU" THEN "events" ELSE "streams"
  /\ UNCHANGED <<config, walk, early, stream, threads, syncs>>

(***************************************************************************)
(* gpu_assign_thread_info: a thread for each AllReduce and the Results     *)
(* that take its value, and one for all the rest.                          *)
(***************************************************************************)
AsyncNodes == {n \in Exec : graph.kind[n] = "AllReduce"}

Rank(n) == Cardinality({m \in AsyncNodes : m < n})

(* The AllReduce whose thread a node runs on, the first if it has several. *)
Leaders(n) ==
  IF n \in AsyncNodes THEN {n}
  ELSE {m \in AsyncNodes :
          /\ graph.kind[n] = "Result" /\ m \in Sources(graph, n)
          /\ \A k \in AsyncNodes \cap Sources(graph, n) : m <= k}

OnDefaultThread(n) ==   (* mutant: the rest stays on the default thread *)
  IF \E m \in Leaders(n) : TRUE
  THEN Async(Rank(CHOOSE m \in Leaders(n) : TRUE))
  ELSE Default

DevThread(n) ==
  IF \E m \in Leaders(n) : TRUE
  THEN Async(Rank(CHOOSE m \in Leaders(n) : TRUE))
  ELSE Dev

UncountedThreads ==   (* mutant: the threads of the AllReduces are not counted *)
  /\ phase = "threads"
  /\ device = "CUDA" /\ HasAsync
  /\ thread' = [n \in Node |-> IF thread[n] = None THEN DevThread(n) ELSE thread[n]]
  /\ threads' = {Dev}
  /\ phase' = "streams"
  /\ UNCHANGED <<config, walk, early, stream, syncs>>

AsyncThreads ==
  /\ phase = "threads"
  /\ device = "CUDA" /\ HasAsync
  /\ thread' = [n \in Node |-> IF thread[n] = None THEN DevThread(n) ELSE thread[n]]
  /\ threads' = {thread'[n] : n \in Exec}
  /\ phase' = "streams"
  /\ UNCHANGED <<config, walk, early, stream, syncs>>

(***************************************************************************)
(* The walk from the outputs along the in-edges, of which                  *)
(* naive_assign_thread_info and naive_assign_stream_info have a copy each. *)
(* A path keeps its number; where the walk goes no deeper it takes the     *)
(* next one, round robin unless the numbers are unlimited.                 *)
(***************************************************************************)
Turn(limit) == IF limit = 0 \/ count < limit THEN count + 1 ELSE 1

(***************************************************************************)
(* One turn of the loop, but for the number it gives to the node.  The     *)
(* code leaves out of the stack the sources that have been visited; here   *)
(* they are in it, and dropped when it is their turn.                      *)
(***************************************************************************)
SourceSeq(n) == [k \in DOMAIN graph.in[n] |-> graph.in[n][k].src]

Visit(n, limit) ==
  /\ stack # <<>> /\ n = Last(stack)
  /\ visited' = visited \cup {n}
  /\ stack' = IF n \in visited THEN Front(stack) ELSE Front(stack) \o SourceSeq(n)
  /\ count' = IF n \notin visited /\ Sources(graph, n) \subseteq visited \cup {n}
              THEN Turn(limit) ELSE count

(* naive_assign_thread_info *)
StartThreads ==
  /\ phase = "threads"
  /\ device = "CPU" /\ numStream # 1
  /\ StartWalk
  /\ phase' = "walkThreads"
  /\ UNCHANGED <<config, threading, stream, syncs>>

VisitThread(n) ==
  /\ phase = "walkThreads"
  /\ Visit(n, numStream)
  /\ IF thread[n] = None   \* never of a node that has been visited
     THEN /\ thread' = [thread EXCEPT ![n] = Numbered(count)]
          /\ threads' = threads \cup {Numbered(count)}
     ELSE UNCHANGED <<thread, threads>>
  /\ UNCHANGED <<config, phase, early, stream, syncs>>

(* naive_assign_stream_info takes 0 for 1. *)
StreamLimit == IF numStream < 1 THEN 1 ELSE numStream

OwnStreams ==
  /\ phase = "streams" /\ StreamLimit = 1
  /\ stream' = [n \in Node |-> IF stream[n] = None THEN StreamOf(thread[n], 0)
                               ELSE stream[n]]
  /\ phase' = "events"
  /\ UNCHANGED <<config, walk, threading, syncs>>

StartStreams ==
  /\ phase = "streams" /\ StreamLimit # 1
  /\ StartWalk
  /\ phase' = "walkStreams"
  /\ UNCHANGED <<config, threading, stream, syncs>>

VisitStream(n) ==
  /\ phase = "walkStreams"
  /\ Visit(n, StreamLimit)
  /\ stream' = IF stream[n] = None
               THEN [stream EXCEPT ![n] = StreamOf(thread[n], count)]
               ELSE stream
  /\ UNCHANGED <<config, phase, threading, syncs>>

EndWalk ==
  /\ phase \in {"walkThreads", "walkStreams"} /\ stack = <<>>
  /\ phase' = "events"
  /\ UNCHANGED <<config, walk, threading, stream, syncs>>

(***************************************************************************)
(* assign_event_info: an edge between two threads takes a barrier, an edge *)
(* between two streams an event unless one of them is the default stream,  *)
(* with which CUDA synchronizes the others anyway.                         *)
(***************************************************************************)
Producers(n) == Sources(graph, n) \ early

BarrierBetween(m, n) == thread[m] # thread[n]

EventOfThreads(m, n) ==   (* mutant: none within a thread *)
  /\ stream[m] # stream[n] /\ thread[m] # thread[n]
  /\ {None, DefaultStream} \cap {stream[m], stream[n]} = {}

EventBetween(m, n) ==
  /\ stream[m] # stream[n]
  /\ {None, DefaultStream} \cap {stream[m], stream[n]} = {}

AssignEvents ==
  /\ phase = "events"
  /\ waits' = [n \in Node |-> {m \in Producers(n) : BarrierBetween(m, n)}]
  /\ waitEvents' = [n \in Node |-> {m \in Producers(n) : EventBetween(m, n)}]
  /\ notifies' = UNION {waits'[n] : n \in Node}
  /\ records' = UNION {waitEvents'[n] : n \in Node}
  /\ phase' = "run"
  /\ UNCHANGED <<config, walk, threading, stream>>

InfoNext ==
  \/ InitAssign
  \/ OneThread \/ AsyncThreads \/ StartThreads
  \/ OwnStreams \/ StartStreams
  \/ \E n \in Node : VisitThread(n) \/ VisitStream(n)
  \/ EndWalk
  \/ AssignEvents
=============================================================================
