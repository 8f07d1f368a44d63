--------------------------- MODULE AsyncExecProofs ---------------------------
(***************************************************************************)
(* The safety of AsyncExec for every graph, number of streams and number   *)
(* of workers, and its refinement of Dataflow.                             *)
(***************************************************************************)
EXTENDS AsyncExec, FiniteSetTheorems, TLAPS

LEMMA InitIInv == Init => IInv
<1> SUFFICES ASSUME Init PROVE IInv
  OBVIOUS
<1> USE AsyncAssumption DEF Init, InfoInit
<1>1. Exec = Node /\ issued = {} /\ Tasks = {}
  BY DEF Exec, Tasks
<1>2. OnThreads = {} /\ OnStreams = {}
  BY <1>1 DEF OnThreads, OnStreams
<1>3. MarksTyped
  BY DEF MarksTyped
<1>4. RunTyped
  BY <1>1 DEF RunTyped
<1>5. IsGraph(graph) /\ stack \in Seq(Node)
  OBVIOUS
<1>6. Walks
  BY DEF Walks
<1>7. ThreadsAssigned /\ StreamsAssigned
  BY <1>2 DEF ThreadsAssigned, StreamsAssigned, Exclusive
<1>8. SyncsAssigned
  BY DEF SyncsAssigned, Compiled
<1>9. TasksCounted
  BY <1>1, FS_EmptySet DEF TasksCounted
<1>10. InProgramOrder /\ KernelsOrdered
  BY DEF InProgramOrder, KernelsOrdered
<1> QED BY <1>3, <1>4, <1>5, <1>6, <1>7, <1>8, <1>9, <1>10 DEF IInv, PassInv, RunInv

-----------------------------------------------------------------------------
(* The pass *)

(* Before the program runs, nothing of it changes. *)
LEMMA NothingRuns ==
  ASSUME RunInv, ~Compiled, UNCHANGED <<host, kernels>>
  PROVE  RunInv'
<1>1. /\ caller = "idle" /\ issued = {} /\ running = {} /\ done = {}
      /\ todo = {} /\ pool = {} /\ active = {} /\ missing = 0
      /\ recorded = {} /\ notified = {} /\ after \in [Node -> SUBSET Node]
  <2>1. caller = "idle" /\ issued = {}
    BY DEF RunInv, TasksCounted
  <2>2. todo = {} /\ pool = {} /\ active = {} /\ missing = Cardinality(Tasks)
    BY <2>1 DEF RunInv, TasksCounted
  <2>3. missing = 0
    BY <2>2, FS_EmptySet DEF Tasks
  <2> QED BY <2>1, <2>2, <2>3 DEF RunInv, RunTyped
<1>2. /\ caller' = "idle" /\ issued' = {} /\ running' = {} /\ done' = {}
      /\ todo' = {} /\ pool' = {} /\ active' = {} /\ missing' = 0
      /\ recorded' = {} /\ notified' = {} /\ after' \in [Node -> SUBSET Node]
  BY <1>1 DEF host, kernels
<1>3. RunTyped'
  BY <1>2 DEF RunTyped
<1>4. TasksCounted'
  <2>1. Tasks' = {}
    BY <1>2 DEF Tasks
  <2> QED BY <1>2, <2>1, FS_EmptySet DEF TasksCounted
<1>5. InProgramOrder' /\ KernelsOrdered'
  BY <1>2 DEF InProgramOrder, KernelsOrdered
<1> QED BY <1>3, <1>4, <1>5 DEF RunInv

LEMMA EarlyInNode == Early \subseteq Node
  BY DEF Early, Folded

LEMMA EarlyFixed == ASSUME UNCHANGED graph PROVE Early' = Early
  BY DEF Early, Folded, IsTensorOp

LEMMA ThreadsTyped ==
  /\ Default \in Thread /\ Dev \in Thread /\ Default # Dev
  /\ \A k \in Nat : /\ Numbered(k) \in Thread /\ Async(k) \in Thread
                    /\ Numbered(k) # Default /\ Async(k) # Default
  BY DEF Default, Dev, Numbered, Async, Thread

LEMMA InitAssignKeeps == ASSUME PassInv, InitAssign PROVE PassInv'
<1> USE DEF PassInv, InitAssign, config, walk
<1>1. early' = Early /\ early' \subseteq Node /\ Early' = Early
  BY EarlyInNode, EarlyFixed
<1>2. MarksTyped'
  BY <1>1, ThreadsTyped DEF MarksTyped, syncs, DefaultStream, StreamOf, Stream
<1>3. OnThreads' = {} /\ OnStreams' = {}
  BY <1>1 DEF OnThreads, OnStreams, Exec
<1>4. Walks'
  BY DEF Walks
<1>5. ThreadsAssigned' /\ StreamsAssigned'
  BY <1>1, <1>3, AsyncAssumption, ThreadsTyped
     DEF ThreadsAssigned, StreamsAssigned, Exclusive, MarksTyped
<1>6. SyncsAssigned'
  BY DEF SyncsAssigned, Compiled
<1> QED BY <1>2, <1>4, <1>5, <1>6

LEMMA OneThreadKeeps == ASSUME PassInv, OneThread PROVE PassInv'
<1> USE DEF PassInv, OneThread, config, walk
<1>1. early' = Early /\ early' \subseteq Node /\ Early' = Early
  BY EarlyInNode, EarlyFixed DEF ThreadsAssigned
<1>2. MarksTyped'
  BY <1>1, ThreadsTyped DEF MarksTyped, syncs
<1>3. OnThreads = {} /\ OnStreams = {}
  BY DEF ThreadsAssigned, StreamsAssigned
<1>4. OnThreads' \subseteq {Default} /\ OnStreams' = {}
  BY <1>3, <1>2, ZenonT(60) DEF OnThreads, OnStreams, Exec, MarksTyped
<1>5. \A n \in Node : thread'[n] # None
  BY AsyncAssumption, ThreadsTyped DEF MarksTyped
<1>6. ThreadsAssigned' /\ StreamsAssigned'
  BY <1>1, <1>3, <1>4, <1>5, AsyncAssumption DEF ThreadsAssigned, StreamsAssigned, Exclusive, MarksTyped
<1>7. Walks' /\ SyncsAssigned'
  BY DEF Walks, SyncsAssigned, Compiled
<1> QED BY <1>2, <1>6, <1>7

LEMMA DevThreadTyped ==
  ASSUME NEW n \in Node
  PROVE  DevThread(n) \in Thread /\ DevThread(n) # Default
<1>1. CASE \E m \in Leaders(n) : TRUE
  <2> DEFINE m == CHOOSE k \in Leaders(n) : TRUE
  <2>1. DevThread(n) = Async(Rank(m))
    BY <1>1 DEF DevThread
  <2>2. {k \in AsyncNodes : k < m} \subseteq 1 .. Size
    BY DEF AsyncNodes, Exec, Node
  <2>3. IsFiniteSet(1 .. Size)
    BY AsyncAssumption, FS_Interval
  <2>4. Rank(m) \in Nat
    BY <2>2, <2>3, FS_Subset, FS_CardinalityType DEF Rank
  <2> QED BY <2>1, <2>4, ThreadsTyped
<1>2. CASE ~\E m \in Leaders(n) : TRUE
  BY <1>2, ThreadsTyped DEF DevThread
<1> QED BY <1>1, <1>2

LEMMA AsyncThreadsKeeps == ASSUME PassInv, AsyncThreads PROVE PassInv'
<1> USE DEF PassInv, AsyncThreads, config, walk
<1>1. early' = Early /\ early' \subseteq Node /\ Early' = Early
  BY EarlyInNode, EarlyFixed DEF ThreadsAssigned
<1>2. thread' \in [Node -> Thread \cup {None}]
  BY DevThreadTyped DEF MarksTyped
<1>3. \A n \in Node : thread'[n] # None
  BY AsyncAssumption, DevThreadTyped DEF MarksTyped
<1>4. threads' \subseteq Thread
  BY <1>2, <1>3 DEF Exec
<1>5. MarksTyped'
  BY <1>1, <1>2, <1>4 DEF MarksTyped, syncs
<1>6. OnThreads = {} /\ OnStreams = {}
  BY DEF ThreadsAssigned, StreamsAssigned
<1>7. \A n \in Exec : thread[n] = None
  BY <1>6 DEF OnThreads
<1>8. \A n \in Exec : thread'[n] # Default
  BY <1>7, DevThreadTyped DEF Exec, MarksTyped
<1>9. OnThreads' = threads' /\ OnStreams' = {}
  BY <1>3, <1>6 DEF OnThreads, OnStreams, Exec
<1>10. Default \notin OnThreads'
  BY <1>8, <1>9
<1>11. ThreadsAssigned' /\ StreamsAssigned'
  BY <1>1, <1>3, <1>9, <1>10, <1>6 DEF ThreadsAssigned, StreamsAssigned, Exclusive
<1>12. Walks' /\ SyncsAssigned'
  BY DEF Walks, SyncsAssigned, Compiled
<1> QED BY <1>5, <1>11, <1>12

LEMMA SourcesInNode ==
  ASSUME IsGraph(graph), NEW n \in Node
  PROVE  Sources(graph, n) \subseteq Node /\ Sources(graph, n) \subseteq 1 .. n - 1
  BY AsyncAssumption DEF IsGraph, Node

LEMMA RangeOfConcat ==
  ASSUME NEW S, NEW s \in Seq(S), NEW t \in Seq(S)
  PROVE  Range(s \o t) = Range(s) \cup Range(t)
<1>1. Range(s \o t) \subseteq Range(s) \cup Range(t)
  BY DEF Range
<1>2. ASSUME NEW i \in DOMAIN s PROVE s[i] \in Range(s \o t)
  <2>1. i \in DOMAIN (s \o t) /\ (s \o t)[i] = s[i]
    OBVIOUS
  <2> QED BY <2>1 DEF Range
<1>3. ASSUME NEW i \in DOMAIN t PROVE t[i] \in Range(s \o t)
  <2>1. Len(s) + i \in DOMAIN (s \o t) /\ (s \o t)[Len(s) + i] = t[i]
    OBVIOUS
  <2> QED BY <2>1 DEF Range
<1> QED BY <1>1, <1>2, <1>3 DEF Range

LEMMA RangeOfFront ==
  ASSUME NEW S, NEW s \in Seq(S), s # <<>>
  PROVE  Front(s) \in Seq(S) /\ Range(s) \subseteq Range(Front(s)) \cup {Last(s)}
<1>1. Len(s) \in Nat \ {0}
  OBVIOUS
<1>2. /\ Front(s) \in Seq(S) /\ DOMAIN Front(s) = 1 .. Len(s) - 1
      /\ \A i \in 1 .. Len(s) - 1 : Front(s)[i] = s[i]
  BY <1>1 DEF Front
<1>3. ASSUME NEW i \in DOMAIN s PROVE s[i] \in Range(Front(s)) \cup {Last(s)}
  <2>1. i = Len(s) \/ i \in DOMAIN Front(s)
    BY <1>1, <1>2
  <2> QED BY <1>2, <2>1 DEF Range, Last
<1> QED BY <1>2, <1>3 DEF Range

(* The walks. *)
LEMMA WalkStarts ==
  ASSUME IsGraph(graph), UNCHANGED graph, StartWalk
  PROVE  /\ stack' \in Seq(Node) /\ visited' = {} /\ count' \in Nat \ {0}
         /\ Walked(visited \cup Range(stack))'
  BY DEF IsGraph, StartWalk, Walked, Range

LEMMA WalkGoesOn ==
  ASSUME IsGraph(graph), UNCHANGED graph, stack \in Seq(Node), visited \subseteq Node,
         count \in Nat \ {0}, NEW n \in Node, NEW limit \in Nat, Visit(n, limit),
         Walked(visited \cup Range(stack))
  PROVE  /\ stack' \in Seq(Node) /\ visited' = visited \cup {n} /\ count' \in Nat \ {0}
         /\ Walked(visited \cup Range(stack))'
<1>1. visited' = visited \cup {n} /\ count' \in Nat \ {0}
  BY DEF Visit, Turn
<1>2. /\ Front(stack) \in Seq(Node)
      /\ Range(stack) \subseteq Range(Front(stack)) \cup {n}
  BY RangeOfFront DEF Visit
<1>3. /\ SourceSeq(n) \in Seq(Node)
      /\ Range(SourceSeq(n)) = Sources(graph, n)
  <2>1. graph.in[n] \in Seq(Edge)
    BY DEF IsGraph
  <2>2. /\ Len(graph.in[n]) \in Nat /\ DOMAIN graph.in[n] = 1 .. Len(graph.in[n])
        /\ \A k \in DOMAIN graph.in[n] : graph.in[n][k].src \in Node
    <3>1. \A q \in Seq(Edge) : Len(q) \in Nat /\ DOMAIN q = 1 .. Len(q)
                                /\ \A k \in DOMAIN q : q[k] \in Edge
      OBVIOUS
    <3>2. \A e \in Edge : e.src \in Node
      BY DEF Edge
    <3> QED BY <2>1, <3>1, <3>2
  <2>3. SourceSeq(n) \in Seq(Node)
    BY <2>2 DEF SourceSeq
  <2>4. Range(SourceSeq(n)) = Sources(graph, n)
    BY DEF SourceSeq, Sources, Range
  <2> QED BY <2>3, <2>4
<1>4. CASE n \in visited
  <2>1. stack' = Front(stack) /\ visited' = visited
    BY <1>1, <1>4 DEF Visit
  <2> QED BY <1>1, <1>2, <1>4, <2>1 DEF Walked
<1>5. CASE n \notin visited
  <2>1. stack' = Front(stack) \o SourceSeq(n)
    BY <1>5 DEF Visit
  <2>2. Range(stack') = Range(Front(stack)) \cup Range(SourceSeq(n))
    BY <2>1, <1>2, <1>3, RangeOfConcat
  <2>3. stack' \in Seq(Node)
    BY <2>1, <1>2, <1>3
  <2> QED BY <1>1, <1>2, <1>3, <2>2, <2>3 DEF Walked
<1> QED BY <1>4, <1>5

LEMMA WalkEnds ==
  ASSUME IsGraph(graph), stack = <<>>, visited \subseteq Node,
         Walked(visited \cup Range(stack))
  PROVE  visited = Node
<1>1. Range(stack) = {}
  BY DEF Range
<1>2. Range(graph.outs) \subseteq visited /\ \A n \in visited : Sources(graph, n) \subseteq visited
  BY <1>1 DEF Walked
<1>3. \A k \in DOMAIN graph.outs : graph.outs[k] \in visited
  BY <1>2 DEF Range
<1> QED BY <1>2, <1>3 DEF IsGraph, AllNeeded

LEMMA StartThreadsKeeps == ASSUME PassInv, StartThreads PROVE PassInv'
<1> USE DEF PassInv, StartThreads, config, threading
<1>1. Early' = Early
  BY EarlyFixed
<1>2. /\ stack' \in Seq(Node) /\ visited' = {} /\ count' \in Nat \ {0}
      /\ Walked(visited \cup Range(stack))'
  BY WalkStarts
<1>3. MarksTyped'
  BY <1>2 DEF MarksTyped, syncs
<1>4. OnThreads' = OnThreads /\ OnStreams' = OnStreams
  BY DEF OnThreads, OnStreams, Exec
<1>5. ThreadsAssigned' /\ StreamsAssigned'
  BY <1>1, <1>4 DEF ThreadsAssigned, StreamsAssigned, Exclusive
<1>6. Walks' /\ SyncsAssigned'
  BY <1>2 DEF Walks, SyncsAssigned, Compiled
<1> QED BY <1>2, <1>3, <1>5, <1>6

LEMMA VisitThreadKeeps ==
  ASSUME PassInv, NEW n \in Node, VisitThread(n)
  PROVE  PassInv'
<1> USE DEF PassInv, VisitThread, config
<1>1. Early' = Early
  BY EarlyFixed
<1>2. /\ stack' \in Seq(Node) /\ visited' = visited \cup {n} /\ count' \in Nat \ {0}
      /\ Walked(visited \cup Range(stack))'
  BY WalkGoesOn, AsyncAssumption DEF MarksTyped, Walks
<1>3. MarksTyped'
  BY <1>2, ThreadsTyped DEF MarksTyped, syncs
<1>4. ASSUME thread[n] = None PROVE ThreadsAssigned' /\ Walks'
  <2>1. /\ thread' = [thread EXCEPT ![n] = Numbered(count)]
        /\ threads' = threads \cup {Numbered(count)}
        /\ Numbered(count) \in Thread \ {Default, None}
    BY <1>4, ThreadsTyped, AsyncAssumption DEF MarksTyped
  <2>2. n \in Exec
    BY <1>4 DEF Exec, ThreadsAssigned
  <2>3. OnThreads' = OnThreads \cup {Numbered(count)}
    BY <2>1, <2>2, <1>4 DEF OnThreads, Exec, MarksTyped
  <2>4. ThreadsAssigned'
    BY <1>1, <2>1, <2>3, <1>4 DEF ThreadsAssigned, Exclusive, MarksTyped
  <2>5. Walks'
    <3>1. \A m \in visited' : thread'[m] # None
      BY <1>2, <2>1 DEF Walks, MarksTyped
    <3> QED BY <1>2, <3>1 DEF Walks
  <2> QED BY <2>4, <2>5
<1>5. ASSUME thread[n] # None PROVE ThreadsAssigned' /\ Walks'
  <2>1. thread' = thread /\ threads' = threads /\ OnThreads' = OnThreads
    BY <1>5 DEF OnThreads, Exec
  <2>2. ThreadsAssigned'
    BY <1>1, <1>5, <2>1 DEF ThreadsAssigned, Exclusive
  <2>3. \A m \in visited' : thread'[m] # None
    BY <1>2, <1>5, <2>1 DEF Walks
  <2>4. Walks'
    BY <1>2, <2>3 DEF Walks
  <2> QED BY <2>2, <2>4
<1>6. OnStreams' = OnStreams
  BY DEF OnStreams, Exec
<1>7. StreamsAssigned' /\ SyncsAssigned'
  BY <1>6 DEF StreamsAssigned, Exclusive, SyncsAssigned, Compiled
<1> QED BY <1>2, <1>3, <1>4, <1>5, <1>7

LEMMA StreamsTyped ==
  /\ DefaultStream \in Stream
  /\ \A t \in Thread, k \in Nat :
       /\ StreamOf(t, k) \in Stream
       /\ StreamOf(t, k) = DefaultStream => t = Default /\ k = 0
  BY ThreadsTyped DEF DefaultStream, StreamOf, Stream

LEMMA OwnStreamsKeeps == ASSUME PassInv, OwnStreams PROVE PassInv'
<1> USE DEF PassInv, OwnStreams, config, walk, threading
<1>1. Early' = Early
  BY EarlyFixed
<1>2. \A n \in Node : thread[n] \in Thread /\ thread[n] # None
  BY DEF ThreadsAssigned, MarksTyped
<1>3. \A n \in Node : StreamOf(thread[n], 0) \in Stream \ {None}
  BY <1>2, StreamsTyped, AsyncAssumption
<1>4. MarksTyped'
  BY <1>3 DEF MarksTyped, syncs
<1>5. \A n \in Node : stream'[n] # None
  BY <1>3, AsyncAssumption DEF MarksTyped
<1>6. OnThreads' = OnThreads
  BY DEF OnThreads, Exec
<1>7. \A n \in Exec : stream'[n] = StreamOf(thread[n], 0)
  BY DEF StreamsAssigned, OnStreams, Exec
<1>8. Exclusive(DefaultStream, OnStreams')
  <2> SUFFICES ASSUME DefaultStream \in OnStreams', NEW n \in Exec
               PROVE  stream'[n] = DefaultStream
    BY <1>5, <1>7 DEF Exclusive, OnStreams, Exec
  <2>1. PICK m \in Exec : StreamOf(thread[m], 0) = DefaultStream
    BY <1>7 DEF OnStreams, Exec
  <2>2. thread[m] = Default
    BY <2>1, <1>2, StreamsTyped DEF Exec
  <2>3. thread[n] = Default
    BY <2>2, <1>2 DEF ThreadsAssigned, Exclusive, OnThreads, Exec
  <2> QED BY <1>7, <2>3 DEF DefaultStream
<1>9. ThreadsAssigned' /\ StreamsAssigned'
  BY <1>1, <1>5, <1>6, <1>8 DEF ThreadsAssigned, StreamsAssigned, Exclusive
<1>10. Walks' /\ SyncsAssigned'
  BY DEF Walks, SyncsAssigned, Compiled
<1> QED BY <1>4, <1>9, <1>10

LEMMA StartStreamsKeeps == ASSUME PassInv, StartStreams PROVE PassInv'
<1> USE DEF PassInv, StartStreams, config, threading
<1>1. Early' = Early
  BY EarlyFixed
<1>2. /\ stack' \in Seq(Node) /\ visited' = {} /\ count' \in Nat \ {0}
      /\ Walked(visited \cup Range(stack))'
  BY WalkStarts DEF StartWalk
<1>3. MarksTyped'
  BY <1>2 DEF MarksTyped, syncs
<1>4. OnThreads' = OnThreads /\ OnStreams' = OnStreams
  BY DEF OnThreads, OnStreams, Exec
<1>5. ThreadsAssigned' /\ StreamsAssigned'
  BY <1>1, <1>4 DEF ThreadsAssigned, StreamsAssigned, Exclusive
<1>6. Walks' /\ SyncsAssigned'
  BY <1>2 DEF Walks, SyncsAssigned, Compiled
<1> QED BY <1>2, <1>3, <1>5, <1>6

LEMMA VisitStreamKeeps ==
  ASSUME PassInv, NEW n \in Node, VisitStream(n)
  PROVE  PassInv'
<1> USE DEF PassInv, VisitStream, config, threading
<1>1. Early' = Early
  BY EarlyFixed
<1>2. StreamLimit \in Nat
  BY AsyncAssumption DEF StreamLimit, MarksTyped
<1>3. /\ stack' \in Seq(Node) /\ visited' = visited \cup {n} /\ count' \in Nat \ {0}
      /\ Walked(visited \cup Range(stack))'
  BY <1>2, WalkGoesOn DEF MarksTyped, Walks
<1>4. thread[n] \in Thread
  BY DEF ThreadsAssigned, MarksTyped
<1>5. StreamOf(thread[n], count) \in Stream \ {None, DefaultStream}
  BY <1>4, StreamsTyped, AsyncAssumption DEF MarksTyped
<1>6. MarksTyped'
  BY <1>3, <1>5 DEF MarksTyped, syncs
<1>7. OnStreams' \subseteq OnStreams \cup {StreamOf(thread[n], count)}
  BY DEF OnStreams, Exec, MarksTyped
<1>8. DefaultStream \notin OnStreams'
  BY <1>5, <1>7 DEF StreamsAssigned
<1>9. OnThreads' = OnThreads
  BY DEF OnThreads, Exec
<1>10. ThreadsAssigned' /\ StreamsAssigned'
  BY <1>1, <1>8, <1>9 DEF ThreadsAssigned, StreamsAssigned, Exclusive
<1>11. Walks' /\ SyncsAssigned'
  BY <1>3, <1>5 DEF Walks, SyncsAssigned, Compiled, MarksTyped
<1> QED BY <1>3, <1>6, <1>10, <1>11

LEMMA EndWalkKeeps == ASSUME PassInv, EndWalk PROVE PassInv'
<1> USE DEF PassInv, EndWalk, config, walk, threading
<1>1. Early' = Early
  BY EarlyFixed
<1>2. visited = Node
  BY WalkEnds DEF Walks, MarksTyped
<1>3. MarksTyped'
  BY DEF MarksTyped, syncs
<1>4. OnThreads' = OnThreads /\ OnStreams' = OnStreams
  BY DEF OnThreads, OnStreams, Exec
<1>5. ThreadsAssigned' /\ StreamsAssigned'
  BY <1>1, <1>2, <1>4 DEF ThreadsAssigned, StreamsAssigned, Exclusive, Walks
<1>6. Walks' /\ SyncsAssigned'
  BY DEF Walks, SyncsAssigned, Compiled
<1> QED BY <1>3, <1>5, <1>6

LEMMA AssignEventsKeeps == ASSUME PassInv, AssignEvents PROVE PassInv'
<1> USE DEF PassInv, AssignEvents, config, walk, threading
<1>1. Early' = Early
  BY EarlyFixed
<1>2. \A n \in Node : Producers(n) \subseteq Node /\ Producers(n)' = Producers(n)
  BY SourcesInNode DEF Producers
<1>3. \A m, n \in Node : /\ BarrierBetween(m, n)' = BarrierBetween(m, n)
                        /\ EventBetween(m, n)' = EventBetween(m, n)
  BY DEF BarrierBetween, EventBetween
<1>4. MarksTyped'
  BY <1>2 DEF MarksTyped
<1>5. OnThreads' = OnThreads /\ OnStreams' = OnStreams
  BY DEF OnThreads, OnStreams, Exec
<1>6. ThreadsAssigned' /\ StreamsAssigned'
  BY <1>1, <1>5 DEF ThreadsAssigned, StreamsAssigned, Exclusive
<1>7. Walks'
  BY DEF Walks
<1>8. SyncsAssigned'
  BY <1>2, <1>3 DEF SyncsAssigned, Compiled
<1> QED BY <1>4, <1>6, <1>7, <1>8

LEMMA CompileKeeps == ASSUME IInv, Compile PROVE IInv'
<1>1. ~Compiled
  BY DEF Compile, InfoNext, Compiled, InitAssign, OneThread, AsyncThreads, StartThreads,
         OwnStreams, StartStreams, VisitThread, VisitStream, EndWalk, AssignEvents
<1>2. RunInv'
  BY <1>1, NothingRuns DEF IInv, Compile
<1>3. PassInv'
  BY InitAssignKeeps, OneThreadKeeps, AsyncThreadsKeeps, StartThreadsKeeps, VisitThreadKeeps,
     OwnStreamsKeeps, StartStreamsKeeps, VisitStreamKeeps, EndWalkKeeps, AssignEventsKeeps
     DEF IInv, Compile, InfoNext
<1> QED BY <1>2, <1>3 DEF IInv

-----------------------------------------------------------------------------
(* The program *)

LEMMA MarksKept ==
  ASSUME PassInv, UNCHANGED infoVars
  PROVE  /\ PassInv' /\ Compiled' = Compiled
         /\ device' = device /\ thread' = thread /\ stream' = stream
         /\ Exec' = Exec /\ ExecThreads' = ExecThreads
         /\ waits' = waits /\ waitEvents' = waitEvents
         /\ notifies' = notifies /\ records' = records
         /\ \A n \in Node : Producers(n)' = Producers(n)
<1> USE DEF infoVars, config, walk, threading, syncs
<1>1. Early' = Early
  BY EarlyFixed
<1>2. OnThreads' = OnThreads /\ OnStreams' = OnStreams
  BY DEF OnThreads, OnStreams, Exec
<1>3. MarksTyped' /\ IsGraph(graph)' /\ (stack \in Seq(Node))'
  BY DEF PassInv, MarksTyped
<1>4. Walks' /\ ThreadsAssigned' /\ StreamsAssigned'
  BY <1>1, <1>2 DEF PassInv, Walks, Walked, ThreadsAssigned, StreamsAssigned, Exclusive
<1>5. /\ Compiled' = Compiled /\ Exec' = Exec /\ ExecThreads' = ExecThreads
      /\ \A n \in Node : Producers(n)' = Producers(n)
  BY DEF Compiled, Exec, ExecThreads, Producers
<1>6. SyncsAssigned'
  BY <1>5 DEF PassInv, SyncsAssigned, BarrierBetween, EventBetween
<1> QED BY <1>3, <1>4, <1>5, <1>6 DEF PassInv

(* The threads of a compiled program. *)
LEMMA CompiledThreads ==
  ASSUME PassInv, Compiled
  PROVE  /\ device \in {"CPU", "CUDA"} /\ Exec \subseteq Node
         /\ \A n \in Node : thread[n] \in Thread
         /\ threads = ExecThreads \ {Default}
         /\ Exclusive(Default, ExecThreads)
         /\ IsFiniteSet(ExecThreads)
<1> USE DEF PassInv
<1>1. device \in {"CPU", "CUDA"} /\ Exec \subseteq Node
  BY AsyncAssumption DEF MarksTyped, Exec
<1>2. \A n \in Node : thread[n] \in Thread /\ thread[n] # None
  BY DEF MarksTyped, ThreadsAssigned, Compiled
<1>3. OnThreads = ExecThreads
  BY <1>1, <1>2 DEF OnThreads, ExecThreads
<1>4. threads = ExecThreads \ {Default} /\ Exclusive(Default, ExecThreads)
  BY <1>3 DEF ThreadsAssigned, Exclusive
<1>5. IsFiniteSet(Exec)
  <2>1. IsFiniteSet(Node)
    BY AsyncAssumption, FS_Interval DEF Node
  <2> QED BY <1>1, <2>1, FS_Subset
<1>6. IsFiniteSet(ExecThreads)
  <2> DEFINE f == [n \in Exec |-> thread[n]]
  <2>1. f \in Surjection(Exec, ExecThreads)
    BY DEF Surjection, ExecThreads
  <2> QED BY <1>5, <2>1, FS_Surjection
<1> QED BY <1>1, <1>2, <1>4, <1>6

(* What an operator needs is in its thread or behind a barrier, and in its *)
(* stream or behind an event.                                              *)
LEMMA NeedsAreMarked ==
  ASSUME PassInv, Compiled, NEW n \in Exec, NEW m \in Producers(n)
  PROVE  /\ m \in Exec /\ m < n
         /\ thread[m] = thread[n] \/ m \in waits[n]
         /\ device = "CUDA" =>
              stream[m] = stream[n] \/ (m \in waitEvents[n] /\ m \in records)
<1> USE DEF PassInv
<1>1. n \in Node /\ m \in Exec /\ m < n
  BY SourcesInNode, AsyncAssumption DEF Producers, Exec, Node
<1>2. thread[m] = thread[n] \/ m \in waits[n]
  BY <1>1 DEF SyncsAssigned, BarrierBetween
<1>3. ASSUME device = "CUDA", stream[m] # stream[n]
      PROVE  m \in waitEvents[n] /\ m \in records
  <2>1. \A k \in Node : stream[k] # None
    BY <1>3 DEF StreamsAssigned, Compiled
  <2>2. stream[m] \in OnStreams /\ stream[n] \in OnStreams
    BY <1>1, <2>1 DEF OnStreams, Exec
  <2>3. EventBetween(m, n)
    BY <1>1, <1>3, <2>1, <2>2 DEF StreamsAssigned, Exclusive, EventBetween, Exec
  <2>4. /\ waitEvents[n] = {k \in Producers(n) : EventBetween(k, n)}
        /\ waitEvents[n] \subseteq records
    BY <1>1 DEF SyncsAssigned
  <2> QED BY <2>3, <2>4
<1> QED BY <1>1, <1>2, <1>3

LEMMA NothingToDo ==
  ASSUME RunInv, caller = "idle"
  PROVE  /\ running = {} /\ issued = done /\ issued \in {{}, Exec}
         /\ todo = {} /\ pool = {} /\ active = {}
<1>1. issued = done /\ issued \in {{}, Exec} /\ todo = {} /\ pool = {} /\ active = {}
  BY DEF RunInv, TasksCounted
<1>2. running = {}
  BY <1>1 DEF RunInv, RunTyped, KernelsOrdered
<1> QED BY <1>1, <1>2

(* The host threads leave alone what the kernels are ordered by. *)
LEMMA KernelsKept ==
  ASSUME PassInv, RunInv, UNCHANGED <<infoVars, kernels>>
  PROVE  InProgramOrder' /\ KernelsOrdered'
<1>1. /\ Exec' = Exec /\ ExecThreads' = ExecThreads /\ thread' = thread
      /\ Compiled' = Compiled /\ device' = device
  BY MarksKept
<1> QED BY <1>1, MarksKept
        DEF RunInv, RunTyped, InProgramOrder, KernelsOrdered, Instructions, Exec, kernels

LEMMA CallKeeps == ASSUME PassInv, RunInv, Call PROVE RunInv'
<1> USE DEF Call
<1>1. Compiled
  BY DEF Compiled
<1>2. /\ Exec' = Exec /\ ExecThreads' = ExecThreads /\ thread' = thread
      /\ Compiled' = Compiled /\ device' = device
  BY MarksKept
<1>3. /\ running' = {} /\ pool' = {} /\ active' = {} /\ issued' = {}
      /\ after' \in [Node -> SUBSET Node]
  BY NothingToDo
<1>4. Tasks' = threads /\ missing' = Cardinality(threads) /\ missing' \in Nat
  BY <1>1, <1>3, CompiledThreads, FS_Subset, FS_CardinalityType DEF Tasks
<1>5. RunTyped'
  BY <1>2, <1>3, <1>4 DEF RunTyped
<1>6. TasksCounted'
  BY <1>1, <1>2, <1>3, <1>4 DEF TasksCounted, ExecThreads
<1>7. InProgramOrder' /\ KernelsOrdered'
  BY <1>3 DEF InProgramOrder, KernelsOrdered
<1> QED BY <1>5, <1>6, <1>7 DEF RunInv

LEMMA ScheduleKeeps ==
  ASSUME PassInv, RunInv, NEW t \in ExecThreads, Schedule(t)
  PROVE  RunInv'
<1> USE DEF Schedule, kernels
<1>1. /\ Exec' = Exec /\ ExecThreads' = ExecThreads /\ thread' = thread
      /\ Compiled' = Compiled /\ device' = device
  BY MarksKept
<1>2. Tasks' = Tasks
  BY DEF Tasks
<1>3. RunTyped'
  BY <1>1 DEF RunInv, RunTyped
<1>4. TasksCounted'
  BY <1>1, <1>2 DEF RunInv, RunTyped, TasksCounted, Past
<1>5. InProgramOrder' /\ KernelsOrdered'
  BY KernelsKept
<1> QED BY <1>3, <1>4, <1>5 DEF RunInv

LEMMA CallInlineKeeps == ASSUME PassInv, RunInv, CallInline PROVE RunInv'
<1> USE DEF CallInline, kernels
<1>1. /\ Exec' = Exec /\ ExecThreads' = ExecThreads /\ thread' = thread
      /\ Compiled' = Compiled /\ device' = device
  BY MarksKept
<1>2. Tasks' = Tasks
  BY DEF Tasks
<1>3. RunTyped'
  BY <1>1 DEF RunInv, RunTyped
<1>4. TasksCounted'
  BY <1>1, <1>2 DEF RunInv, RunTyped, TasksCounted, Past
<1>5. InProgramOrder' /\ KernelsOrdered'
  BY KernelsKept
<1> QED BY <1>3, <1>4, <1>5 DEF RunInv

LEMMA ReturnInlineKeeps == ASSUME PassInv, RunInv, ReturnInline PROVE RunInv'
<1> USE DEF ReturnInline, kernels
<1>1. /\ Exec' = Exec /\ ExecThreads' = ExecThreads /\ thread' = thread
      /\ Compiled' = Compiled /\ device' = device
  BY MarksKept
<1>2. Tasks' = Tasks
  BY DEF Tasks
<1>3. RunTyped'
  BY <1>1 DEF RunInv, RunTyped
<1>4. TasksCounted'
  <2>1. \A n \in Exec : thread[n] = Default => n \in Past
    BY DEF Instructions
  <2>2. device = "CPU" => \A n \in running : thread[n] \in active'
    BY <2>1 DEF RunInv, RunTyped, TasksCounted, KernelsOrdered, Past
  <2> QED BY <1>1, <1>2, <2>1, <2>2 DEF RunInv, RunTyped, TasksCounted, Past
<1>5. InProgramOrder' /\ KernelsOrdered'
  BY KernelsKept
<1> QED BY <1>3, <1>4, <1>5 DEF RunInv

LEMMA TasksFinite ==
  ASSUME PassInv, RunInv, Compiled
  PROVE  IsFiniteSet(Tasks) /\ missing = Cardinality(Tasks)
<1>1. Tasks \subseteq ExecThreads
  BY DEF Tasks, RunInv, RunTyped
<1>2. IsFiniteSet(Tasks)
  BY <1>1, CompiledThreads, FS_Subset
<1> QED BY <1>2 DEF RunInv, TasksCounted

LEMMA WaitAllKeeps == ASSUME PassInv, RunInv, WaitAll PROVE RunInv'
<1> USE DEF WaitAll, kernels
<1>1. /\ Exec' = Exec /\ ExecThreads' = ExecThreads /\ thread' = thread
      /\ Compiled' = Compiled /\ device' = device
  BY MarksKept
<1>2. Compiled
  BY DEF RunInv, TasksCounted
<1>3. Tasks = {}
  BY <1>2, TasksFinite, FS_EmptySet
<1>4. pool = {} /\ active = {}
  BY <1>3 DEF Tasks, RunInv, TasksCounted
<1>5. Tasks' = Tasks
  BY DEF Tasks
<1>6. RunTyped'
  BY <1>1 DEF RunInv, RunTyped
<1>7. TasksCounted'
  BY <1>1, <1>4, <1>5 DEF RunInv, RunTyped, TasksCounted, Past
<1>8. InProgramOrder' /\ KernelsOrdered'
  BY KernelsKept
<1> QED BY <1>6, <1>7, <1>8 DEF RunInv

LEMMA ReturnKeeps == ASSUME PassInv, RunInv, Return PROVE RunInv'
<1> USE DEF Return, kernels
<1>1. /\ Exec' = Exec /\ ExecThreads' = ExecThreads /\ thread' = thread
      /\ Compiled' = Compiled /\ device' = device
  BY MarksKept
<1>2. todo = {} /\ pool = {} /\ active = {} /\ \A n \in Exec : n \in Past
  BY DEF RunInv, TasksCounted
<1>3. issued = done /\ issued = Exec
  BY <1>2 DEF RunInv, RunTyped, Past
<1>4. Tasks' = Tasks
  BY DEF Tasks
<1>5. RunTyped'
  BY <1>1 DEF RunInv, RunTyped
<1>6. TasksCounted'
  BY <1>1, <1>2, <1>3, <1>4 DEF RunInv, RunTyped, TasksCounted, Past
<1>7. InProgramOrder' /\ KernelsOrdered'
  BY KernelsKept
<1> QED BY <1>5, <1>6, <1>7 DEF RunInv

LEMMA TakeKeeps ==
  ASSUME PassInv, RunInv, NEW t \in ExecThreads, Take(t)
  PROVE  RunInv'
<1> USE DEF Take, kernels
<1>1. /\ Exec' = Exec /\ ExecThreads' = ExecThreads /\ thread' = thread
      /\ Compiled' = Compiled /\ device' = device
  BY MarksKept
<1>2. Tasks' = Tasks
  BY DEF Tasks
<1>3. RunTyped'
  BY <1>1 DEF RunInv, RunTyped
<1>4. TasksCounted'
  BY <1>1, <1>2 DEF RunInv, RunTyped, TasksCounted, Past
<1>5. InProgramOrder' /\ KernelsOrdered'
  BY KernelsKept
<1> QED BY <1>3, <1>4, <1>5 DEF RunInv

LEMMA EndThreadKeeps ==
  ASSUME PassInv, RunInv, NEW t \in ExecThreads, EndThread(t)
  PROVE  RunInv'
<1> USE DEF EndThread, kernels
<1>1. /\ Exec' = Exec /\ ExecThreads' = ExecThreads /\ thread' = thread
      /\ Compiled' = Compiled /\ device' = device
  BY MarksKept
<1>2. Compiled
  BY DEF RunInv, TasksCounted
<1>3. t \in Tasks /\ Tasks' = Tasks \ {t}
  BY DEF RunInv, TasksCounted, Tasks
<1>4. missing' = Cardinality(Tasks') /\ missing' \in Nat
  <2>1. IsFiniteSet(Tasks) /\ missing = Cardinality(Tasks)
    BY <1>2, TasksFinite
  <2>2. IsFiniteSet(Tasks \ {t}) /\ Cardinality(Tasks \ {t}) = Cardinality(Tasks) - 1
    BY <1>3, <2>1, FS_RemoveElement
  <2>3. Cardinality(Tasks \ {t}) \in Nat
    BY <2>2, FS_CardinalityType
  <2> QED BY <1>3, <2>1, <2>2, <2>3
<1>5. RunTyped'
  BY <1>1, <1>4 DEF RunInv, RunTyped
<1>6. TasksCounted'
  <2>1. \A n \in Exec : thread[n] = t => n \in Past
    BY DEF Instructions
  <2>2. device = "CPU" => \A n \in running : thread[n] \in active'
    BY <2>1 DEF RunInv, RunTyped, TasksCounted, KernelsOrdered, Past
  <2> QED BY <1>1, <1>4, <2>1, <2>2 DEF RunInv, RunTyped, TasksCounted, Past
<1>7. InProgramOrder' /\ KernelsOrdered'
  BY KernelsKept
<1> QED BY <1>5, <1>6, <1>7 DEF RunInv

(* A thread that is being executed belongs to a call that is not over. *)
LEMMA ThreadInCall ==
  ASSUME PassInv, RunInv, active # {}
  PROVE  Compiled /\ caller \notin {"idle", "sync"} /\ device \in {"CPU", "CUDA"}
<1>1. Compiled /\ caller \notin {"idle", "sync"}
  BY DEF RunInv, TasksCounted
<1> QED BY <1>1, CompiledThreads

LEMMA CallKernelKeeps ==
  ASSUME PassInv, RunInv, NEW n \in Node, CallKernel(n)
  PROVE  RunInv'
<1> USE DEF CallKernel, host, IsNext
<1>1. /\ Exec' = Exec /\ ExecThreads' = ExecThreads /\ thread' = thread
      /\ Compiled' = Compiled /\ device' = device /\ records' = records
  BY MarksKept
<1>2. Compiled /\ caller \notin {"idle", "sync"}
  BY ThreadInCall
<1>3. Tasks' = Tasks
  BY DEF Tasks
<1>4. issued = running \cup done /\ notified \subseteq done
  BY DEF RunInv, KernelsOrdered
<1>5. Producers(n) \subseteq done
  <2> SUFFICES ASSUME NEW m \in Producers(n) PROVE m \in done
    OBVIOUS
  <2>1. m \in Exec /\ m < n /\ (thread[m] = thread[n] \/ m \in waits[n])
    BY <1>2, NeedsAreMarked
  <2>2. CASE m \in waits[n]
    BY <1>4, <2>2 DEF Passes
  <2>3. CASE thread[m] = thread[n]
    <3>1. m \in Instructions(thread[n])
      BY <2>1, <2>3 DEF Instructions
    <3> QED BY <1>4, <2>1, <3>1
  <2> QED BY <2>1, <2>2, <2>3
<1>6. RunTyped'
  BY <1>1 DEF RunInv, RunTyped
<1>7. TasksCounted'
  BY <1>1, <1>2, <1>3 DEF RunInv, RunTyped, TasksCounted, Past
<1>8. InProgramOrder'
  BY <1>1 DEF RunInv, RunTyped, InProgramOrder, Instructions
<1>9. KernelsOrdered'
  <2>1. \A m \in running : thread[m] # thread[n]
    BY DEF Instructions, RunInv, RunTyped
  <2>2. \A k, m \in running' : thread[k] = thread[m] => k = m
    BY <2>1 DEF RunInv, KernelsOrdered
  <2>3. running' \cap done' = {}
    BY <1>4 DEF RunInv, KernelsOrdered
  <2>4. \A m \in issued' : Producers(m)' \subseteq done'
    BY <1>5, MarksKept DEF RunInv, RunTyped, KernelsOrdered, Exec
  <2> QED BY <1>1, <1>4, <2>2, <2>3, <2>4 DEF KernelsOrdered
<1> QED BY <1>6, <1>7, <1>8, <1>9 DEF RunInv

LEMMA ReturnKernelKeeps ==
  ASSUME PassInv, RunInv, NEW n \in Node, ReturnKernel(n)
  PROVE  RunInv'
<1> USE DEF ReturnKernel, host
<1>1. /\ Exec' = Exec /\ ExecThreads' = ExecThreads /\ thread' = thread
      /\ Compiled' = Compiled /\ device' = device /\ records' = records
  BY MarksKept
<1>2. Compiled /\ caller \notin {"idle", "sync"}
  BY ThreadInCall DEF RunInv, TasksCounted
<1>3. Tasks' = Tasks
  BY DEF Tasks
<1>4. RunTyped'
  BY <1>1 DEF RunInv, RunTyped, Notified
<1>5. TasksCounted'
  BY <1>1, <1>2, <1>3 DEF RunInv, RunTyped, TasksCounted, Past
<1>6. InProgramOrder'
  BY <1>1 DEF RunInv, RunTyped, InProgramOrder, Instructions
<1>7. KernelsOrdered'
  <2>1. \A m \in issued' : Producers(m)' \subseteq done'
    BY MarksKept DEF RunInv, RunTyped, KernelsOrdered, Exec
  <2> QED BY <1>1, <2>1 DEF RunInv, RunTyped, KernelsOrdered, Notified
<1> QED BY <1>4, <1>5, <1>6, <1>7 DEF RunInv

LEMMA LaunchKeeps ==
  ASSUME PassInv, RunInv, NEW n \in Node, Launch(n)
  PROVE  RunInv'
<1> USE DEF Launch, host, IsNext
<1>1. /\ Exec' = Exec /\ ExecThreads' = ExecThreads /\ thread' = thread
      /\ Compiled' = Compiled /\ device' = device /\ records' = records
  BY MarksKept
<1>2. Compiled /\ caller \notin {"idle", "sync"}
  BY ThreadInCall
<1>3. Tasks' = Tasks
  BY DEF Tasks
<1>4. notified \subseteq issued /\ recorded = issued \cap records /\ issued \subseteq Exec
  BY DEF RunInv, RunTyped, KernelsOrdered
<1>5. /\ after' \in [Node -> SUBSET Node]
      /\ after'[n] = (waitEvents[n] \cap recorded) \cup InStreamBefore(n)
      /\ \A m \in Node \ {n} : after'[m] = after[m]
  BY DEF RunInv, RunTyped, InStreamBefore, Exec
<1>6. Producers(n) \subseteq after'[n] \cup done
  <2> SUFFICES ASSUME NEW m \in Producers(n), m \notin done PROVE m \in after'[n]
    OBVIOUS
  <2>1. /\ m \in Exec /\ m < n /\ (thread[m] = thread[n] \/ m \in waits[n])
        /\ stream[m] = stream[n] \/ (m \in waitEvents[n] /\ m \in records)
    BY <1>2, NeedsAreMarked
  <2>2. m \in issued
    BY <1>4, <2>1 DEF Passes, Instructions
  <2> QED BY <1>4, <1>5, <2>1, <2>2 DEF InStreamBefore
<1>7. RunTyped'
  BY <1>1, <1>4, <1>5 DEF RunInv, RunTyped, Notified
<1>8. TasksCounted'
  BY <1>1, <1>2, <1>3 DEF RunInv, RunTyped, TasksCounted, Past
<1>9. InProgramOrder'
  BY <1>1 DEF RunInv, RunTyped, InProgramOrder, Instructions
<1>10. KernelsOrdered'
  <2>1. \A m \in issued' : Producers(m)' \subseteq after'[m] \cup done'
    BY <1>4, <1>5, <1>6, MarksKept DEF RunInv, KernelsOrdered, Exec
  <2>2. \A m \in running' \cup done' : after'[m] \subseteq done'
    BY <1>5 DEF RunInv, RunTyped, KernelsOrdered, Exec
  <2> QED BY <1>1, <1>4, <2>1, <2>2 DEF RunInv, KernelsOrdered, Notified
<1> QED BY <1>7, <1>8, <1>9, <1>10 DEF RunInv

LEMMA BeginKernelKeeps ==
  ASSUME PassInv, RunInv, NEW n \in Node, BeginKernel(n)
  PROVE  RunInv' /\ Producers(n) \subseteq done
<1> USE DEF BeginKernel, host
<1>1. /\ Exec' = Exec /\ ExecThreads' = ExecThreads /\ thread' = thread
      /\ Compiled' = Compiled /\ device' = device /\ records' = records
  BY MarksKept
<1>2. Compiled /\ caller # "idle"
  BY DEF RunInv, TasksCounted
<1>3. Tasks' = Tasks
  BY DEF Tasks
<1>4. RunTyped'
  BY <1>1 DEF RunInv, RunTyped
<1>5. TasksCounted'
  BY <1>1, <1>2, <1>3 DEF RunInv, RunTyped, TasksCounted, Past
<1>6. InProgramOrder'
  BY <1>1 DEF RunInv, RunTyped, InProgramOrder, Instructions
<1>7. Producers(n) \subseteq done
  BY DEF RunInv, KernelsOrdered
<1>8. KernelsOrdered'
  <2>1. \A m \in issued' : Producers(m)' \subseteq after'[m] \cup done'
    BY MarksKept DEF RunInv, RunTyped, KernelsOrdered, Exec
  <2> QED BY <1>1, <2>1 DEF RunInv, KernelsOrdered
<1> QED BY <1>4, <1>5, <1>6, <1>7, <1>8 DEF RunInv

LEMMA EndKernelKeeps ==
  ASSUME PassInv, RunInv, NEW n \in Node, EndKernel(n)
  PROVE  RunInv'
<1> USE DEF EndKernel, host
<1>1. /\ Exec' = Exec /\ ExecThreads' = ExecThreads /\ thread' = thread
      /\ Compiled' = Compiled /\ device' = device /\ records' = records
  BY MarksKept
<1>2. Compiled /\ caller # "idle"
  BY NothingToDo DEF RunInv, RunTyped, TasksCounted
<1>3. Tasks' = Tasks
  BY DEF Tasks
<1>4. RunTyped'
  BY <1>1 DEF RunInv, RunTyped
<1>5. TasksCounted'
  BY <1>1, <1>2, <1>3 DEF RunInv, RunTyped, TasksCounted, Past
<1>6. InProgramOrder'
  BY <1>1 DEF RunInv, RunTyped, InProgramOrder, Instructions
<1>7. KernelsOrdered'
  <2>1. \A m \in issued' : Producers(m)' \subseteq after'[m] \cup done'
    BY MarksKept DEF RunInv, RunTyped, KernelsOrdered, Exec
  <2> QED BY <1>1, <2>1 DEF RunInv, RunTyped, KernelsOrdered
<1> QED BY <1>4, <1>5, <1>6, <1>7 DEF RunInv

LEMMA ExecuteKeeps ==
  ASSUME IInv, NEW n \in Node, Execute(n)
  PROVE  IInv'
<1>1. RunInv'
  BY CallKernelKeeps, ReturnKernelKeeps, LaunchKeeps, BeginKernelKeeps, EndKernelKeeps
     DEF IInv, Execute
<1>2. PassInv'
  BY MarksKept DEF IInv, Execute, CallKernel, ReturnKernel, Launch, BeginKernel, EndKernel
<1> QED BY <1>1, <1>2 DEF IInv

LEMMA WorkKeeps == ASSUME IInv, Work PROVE IInv'
<1>1. ASSUME CallInline \/ ReturnInline \/ WaitAll \/ Return
      PROVE  IInv'
  <2>1. RunInv'
    BY <1>1, CallInlineKeeps, ReturnInlineKeeps, WaitAllKeeps, ReturnKeeps DEF IInv
  <2>2. PassInv'
    BY <1>1, MarksKept DEF IInv, CallInline, ReturnInline, WaitAll, Return
  <2> QED BY <2>1, <2>2 DEF IInv
<1>2. ASSUME NEW t \in ExecThreads, Schedule(t) \/ Take(t) \/ EndThread(t)
      PROVE  IInv'
  <2>1. RunInv'
    BY <1>2, ScheduleKeeps, TakeKeeps, EndThreadKeeps DEF IInv
  <2>2. PassInv'
    BY <1>2, MarksKept DEF IInv, Schedule, Take, EndThread
  <2> QED BY <2>1, <2>2 DEF IInv
<1> QED BY <1>1, <1>2, ExecuteKeeps DEF Work

LEMMA NextKeeps == ASSUME IInv, [Next]_vars PROVE IInv'
<1>1. CASE Compile
  BY <1>1, CompileKeeps
<1>2. CASE Call
  <2>1. RunInv'
    BY <1>2, CallKeeps DEF IInv
  <2>2. PassInv'
    BY <1>2, MarksKept DEF IInv, Call
  <2> QED BY <2>1, <2>2 DEF IInv
<1>3. CASE Work
  BY <1>3, WorkKeeps
<1>4. CASE UNCHANGED vars
  <2>1. UNCHANGED <<infoVars, host, kernels>>
    BY <1>4 DEF vars
  <2>2. PassInv' /\ InProgramOrder' /\ KernelsOrdered'
    BY <2>1, MarksKept, KernelsKept DEF IInv
  <2>3. /\ Exec' = Exec /\ ExecThreads' = ExecThreads /\ thread' = thread
        /\ Compiled' = Compiled /\ device' = device
    BY <2>1, MarksKept DEF IInv
  <2>4. RunTyped' /\ TasksCounted'
    BY <2>1, <2>3 DEF IInv, RunInv, RunTyped, TasksCounted, Tasks, Past, host, kernels
  <2> QED BY <2>2, <2>4 DEF IInv, RunInv
<1> QED BY <1>1, <1>2, <1>3, <1>4 DEF Next

(* The inductive invariant holds for every set of graphs, number of        *)
(* streams and number of workers.                                          *)
THEOREM AsyncInvariant == Spec => []IInv
<1>1. Init => IInv
  BY InitIInv
<1>2. IInv /\ [Next]_vars => IInv'
  BY NextKeeps
<1> QED BY <1>1, <1>2, PTL DEF Spec

(* The types: above all, the count of default_barrier never goes below     *)
(* zero, however the threads and streams have been given out.              *)
THEOREM AsyncTypes == Spec => []TypeOK
<1>1. IInv => TypeOK
  BY DEF IInv, PassInv, RunInv, TypeOK
<1> QED BY <1>1, AsyncInvariant, PTL

(* No kernel runs before all it depends on is done (func_call_codegen,     *)
(* assign_event_info), for every graph and every assignment.               *)
THEOREM OperandsAreReady == Spec => []OperandsReady
<1>1. IInv => OperandsReady
  <2> SUFFICES ASSUME IInv, NEW n \in running \cup done
               PROVE  Producers(n) \subseteq done
    BY DEF OperandsReady
  <2>1. n \in issued
    BY DEF IInv, RunInv, RunTyped
  <2>2. Compiled
    BY <2>1 DEF IInv, RunInv, TasksCounted
  <2>3. device \in {"CPU", "CUDA"}
    BY <2>2, CompiledThreads DEF IInv
  <2> QED BY <2>1, <2>3 DEF IInv, RunInv, KernelsOrdered
<1> QED BY <1>1, AsyncInvariant, PTL

(* The default thread and the default stream share the work with no other  *)
(* (assign_async_info_pass.cpp:446, cuda_codegen_pass.cpp:542).            *)
THEOREM DefaultIsAlone == Spec => []DefaultRunsAlone
<1>1. IInv => DefaultRunsAlone
  <2> SUFFICES ASSUME IInv, Compiled
               PROVE  /\ Exclusive(Default, ExecThreads)
                      /\ Exclusive(DefaultStream, {stream[n] : n \in Exec})
    BY DEF DefaultRunsAlone, Compiled
  <2>1. Exclusive(Default, ExecThreads)
    BY CompiledThreads DEF IInv
  <2>2. CASE device = "CUDA"
    <3>1. \A n \in Exec : stream[n] # None
      BY <2>2, CompiledThreads DEF IInv, PassInv, StreamsAssigned, Compiled
    <3>2. OnStreams = {stream[n] : n \in Exec}
      BY <3>1 DEF OnStreams
    <3> QED BY <2>1, <3>2 DEF IInv, PassInv, StreamsAssigned
  <2>3. CASE device = "CPU"
    <3>1. DefaultStream \notin {stream[n] : n \in Exec}
      BY <2>3, StreamsTyped, AsyncAssumption DEF IInv, PassInv, StreamsAssigned, OnStreams
    <3> QED BY <2>1, <3>1 DEF Exclusive
  <2> QED BY <2>2, <2>3, CompiledThreads DEF IInv
<1> QED BY <1>1, AsyncInvariant, PTL

(* The barriers are reset only between calls, when nobody uses them        *)
(* (func_call_codegen, modify_codegen: reset at the start of kernel_entry).*)
THEOREM ResetsAreQuiet == Spec => []ResetIsQuiet
<1>1. IInv => ResetIsQuiet
  <2> SUFFICES ASSUME IInv, caller = "idle"
               PROVE  pool = {} /\ active = {} /\ missing = 0 /\ issued \subseteq done
    BY DEF ResetIsQuiet
  <2>1. todo = {} /\ pool = {} /\ active = {} /\ issued = done
    BY NothingToDo DEF IInv
  <2>2. missing = Cardinality(Tasks) /\ Tasks = {}
    BY <2>1 DEF IInv, RunInv, TasksCounted, Tasks
  <2> QED BY <2>1, <2>2, FS_EmptySet
<1> QED BY <1>1, AsyncInvariant, PTL

-----------------------------------------------------------------------------
(* The refinement *)

Needs == [n \in Node \ Early |-> Sources(graph, n) \ Early]

LEMMA NeedsFixed == ASSUME UNCHANGED graph PROVE UNCHANGED Needs
  BY EarlyFixed DEF Needs

LEMMA NeedsAreProducers ==
  ASSUME PassInv, Compiled
  PROVE  /\ DOMAIN Needs = Exec
         /\ \A n \in Exec : Needs[n] = Producers(n)
<1>1. early = Early
  BY DEF PassInv, ThreadsAssigned, Compiled
<1> QED BY <1>1 DEF Needs, Exec, Producers

LEMMA StepOfFlow == ASSUME IInv, [Next]_vars PROVE [Flow!Next]_(Flow!dataVars)
<1> SUFFICES \/ Needs' = Needs /\ running' = running /\ done' = done
             \/ Flow!Next
  BY DEF Flow!dataVars, Needs
<1>1. Needs' = Needs
  BY NeedsFixed
     DEF Next, Compile, InfoNext, InitAssign, OneThread, AsyncThreads, StartThreads,
         VisitThread, OwnStreams, StartStreams, VisitStream, EndWalk, AssignEvents,
         Call, Work, CallInline, ReturnInline, WaitAll, Return, Schedule, Take, EndThread,
         Execute, CallKernel, ReturnKernel, Launch, BeginKernel, EndKernel,
         vars, infoVars, config
<1>2. CASE Compile \/ UNCHANGED vars
  BY <1>1, <1>2 DEF Compile, vars, kernels
<1>3. CASE Call
  <2>1. running' = running /\ done' = {} /\ done \in {{}, Exec}
    BY <1>3, NothingToDo DEF Call, IInv
  <2>2. DOMAIN Needs = Exec
    BY <1>3, NeedsAreProducers DEF Call, Compiled, IInv
  <2>3. CASE done = Exec
    BY <1>1, <2>1, <2>2, <2>3 DEF Flow!Next, Flow!NextIteration, Needs
  <2> QED BY <1>1, <2>1, <2>3
<1>4. ASSUME CallInline \/ ReturnInline \/ WaitAll \/ Return
      PROVE  running' = running /\ done' = done
  BY <1>4 DEF CallInline, ReturnInline, WaitAll, Return, kernels
<1>5. ASSUME NEW t \in ExecThreads, Schedule(t) \/ Take(t) \/ EndThread(t)
      PROVE  running' = running /\ done' = done
  BY <1>5 DEF Schedule, Take, EndThread, kernels
<1>6. ASSUME NEW n \in Node, Launch(n)
      PROVE  running' = running /\ done' = done
  BY <1>6 DEF Launch
<1>7. ASSUME NEW n \in Node, CallKernel(n) \/ BeginKernel(n)
      PROVE  Flow!Next
  <2>1. n \in Exec /\ n \notin running \cup done
    BY <1>7 DEF CallKernel, BeginKernel, IsNext, IInv, RunInv, RunTyped
  <2>2. Compiled
    BY <1>7, ThreadInCall DEF CallKernel, BeginKernel, IsNext, IInv, RunInv, TasksCounted
  <2>3. Producers(n) \subseteq done
    <3>1. CASE BeginKernel(n)
      BY <3>1, BeginKernelKeeps DEF IInv
    <3>2. CASE CallKernel(n)
      <4>1. RunInv' /\ n \in issued' /\ done' = done /\ device' = "CPU" /\ Producers(n)' = Producers(n)
        BY <3>2, CallKernelKeeps, MarksKept DEF IInv, CallKernel
      <4> QED BY <4>1 DEF RunInv, KernelsOrdered
    <3> QED BY <1>7, <3>1, <3>2
  <2>4. DOMAIN Needs = Exec /\ Needs[n] = Producers(n)
    BY <2>1, <2>2, NeedsAreProducers DEF IInv
  <2>5. Flow!Begin(n)
    BY <1>1, <1>7, <2>1, <2>3, <2>4 DEF Flow!Begin, CallKernel, BeginKernel, Needs
  <2> QED BY <2>1, <2>4, <2>5 DEF Flow!Next, Needs
<1>8. ASSUME NEW n \in Node, ReturnKernel(n) \/ EndKernel(n)
      PROVE  Flow!Next
  <2>1. n \in Exec /\ n \in running
    BY <1>8 DEF ReturnKernel, EndKernel, IInv, RunInv, RunTyped
  <2>2. Compiled
    BY <2>1 DEF IInv, RunInv, RunTyped, TasksCounted
  <2>3. DOMAIN Needs = Exec
    BY <2>2, NeedsAreProducers DEF IInv
  <2>4. Flow!End(n)
    BY <1>1, <1>8, <2>1 DEF Flow!End, ReturnKernel, EndKernel, Needs
  <2> QED BY <2>1, <2>3, <2>4 DEF Flow!Next, Needs
<1> QED BY <1>1, <1>2, <1>3, <1>4, <1>5, <1>6, <1>7, <1>8 DEF Next, Work, Execute

(* The generated program runs every operator once per call, after all those *)
(* it depends on, and no call before the last one is over.                  *)
THEOREM AsyncIsDataflow == Spec => ImplementsDataflow
<1>1. Init => Flow!Init
  BY DEF Init, Flow!Init
<1>2. IInv /\ [Next]_vars => [Flow!Next]_(Flow!dataVars)
  BY StepOfFlow
<1> QED BY <1>1, <1>2, AsyncInvariant, PTL DEF Spec, ImplementsDataflow, Flow!Spec
=============================================================================
