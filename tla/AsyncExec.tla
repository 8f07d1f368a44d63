----------------------------- MODULE AsyncExec ------------------------------
(***************************************************************************)
(* The program CpuCodegenPass and CudaCodegenPass generate from the marks  *)
(* of AssignAsyncInfoPass, and its calls of kernel_entry: one after the    *)
(* other, as main_test makes them.  The function of each host thread goes  *)
(* to a pool of workers, that of the default thread is part of             *)
(* kernel_entry.  On a CPU the threads run the kernels; with CUDA they     *)
(* launch them, and the streams run them.                                  *)
(*                                                                         *)
(* The barriers are Latches here, as module Barrier shows them to be.  A   *)
(* thread waits for the barriers of an instruction one by one; since none  *)
(* of them falls back before the call is over (ResetIsQuiet), that is to   *)
(* wait until all of them have been notified.                              *)
(***************************************************************************)
EXTENDS AsyncInfo

CONSTANT Workers  (* hardware_concurrency(), the threads of the pool *)

ASSUME WorkersAssumption == Workers \in Nat \ {0}

VARIABLES
  caller,    (* where the thread that calls kernel_entry is               *)
  todo,      (* the threads whose part of kernel_entry is still to come   *)
  pool,      (* the thread functions scheduled and not begun              *)
  active,    (* those that are being executed                             *)
  issued,    (* the nodes that have been called or launched               *)
  after,     (* what a launched kernel comes after: the events its stream *)
             (* waits for and what is in its stream before it             *)
  recorded,  (* the events recorded in this call                          *)
  notified,  (* the barriers notified in this call                        *)
  missing,   (* the threads default_barrier still waits for               *)
  running,   (* the kernels at work                                       *)
  done       (* the kernels that are done in this call                    *)

host    == <<caller, todo, pool, active, missing>>
kernels == <<issued, after, recorded, notified, running, done>>
vars    == <<infoVars, host, kernels>>

Init ==
  /\ InfoInit
  /\ caller = "idle"
  /\ todo = {} /\ pool = {} /\ active = {} /\ missing = 0
  /\ issued = {} /\ after = [n \in Node |-> {}]
  /\ recorded = {} /\ notified = {}
  /\ running = {} /\ done = {}

(* collect_ins: the instructions of a thread, in program order. *)
Instructions(t) == {n \in Exec : thread[n] = t}

(* The keys "exec:..." of its map, whose order is arbitrary. *)
ExecThreads == {thread[n] : n \in Exec}

(* What the host threads are past: a call of a CPU kernel when it returns, *)
(* a launch at once.                                                       *)
Past == IF device = "CPU" THEN done ELSE issued

Compile == InfoNext /\ UNCHANGED <<host, kernels>>

-----------------------------------------------------------------------------
(* kernel_entry *)

CallAnew ==   (* mutant: the notifications are not reset *)
  /\ phase = "run" /\ caller = "idle"
  /\ missing' = Cardinality(threads)
  /\ todo' = ExecThreads /\ caller' = "calls"
  /\ issued' = {} /\ after' = [n \in Node |-> {}] /\ recorded' = {} /\ done' = {}
  /\ UNCHANGED <<infoVars, pool, active, running, notified>>

(* It resets the notifications and default_barrier.  What has been issued, *)
(* recorded and done counts from here on.                                  *)
Call ==
  /\ phase = "run" /\ caller = "idle"
  /\ notified' = {}
  /\ missing' = Cardinality(threads)
  /\ todo' = ExecThreads /\ caller' = "calls"
  /\ issued' = {} /\ after' = [n \in Node |-> {}] /\ recorded' = {} /\ done' = {}
  /\ UNCHANGED <<infoVars, pool, active, running>>

Schedule(t) ==
  /\ caller = "calls"
  /\ t \in todo \ {Default}
  /\ todo' = todo \ {t} /\ pool' = pool \cup {t}
  /\ UNCHANGED <<infoVars, caller, active, missing, kernels>>

CallInline ==
  /\ caller = "calls"
  /\ Default \in todo
  /\ todo' = todo \ {Default} /\ active' = active \cup {Default}
  /\ caller' = "inline"
  /\ UNCHANGED <<infoVars, pool, missing, kernels>>

ReturnInline ==
  /\ caller = "inline"
  /\ Instructions(Default) \subseteq Past
  /\ active' = active \ {Default}
  /\ caller' = "calls"
  /\ UNCHANGED <<infoVars, todo, pool, missing, kernels>>

NoWait ==   (* mutant: default_barrier is not waited for *)
  /\ caller = "calls"
  /\ todo = {}
  /\ caller' = "sync"
  /\ UNCHANGED <<infoVars, todo, pool, active, missing, kernels>>

(* default_barrier.Wait; without threads there is none. *)
WaitAll ==
  /\ caller = "calls"
  /\ todo = {} /\ missing = 0
  /\ caller' = "sync"
  /\ UNCHANGED <<infoVars, todo, pool, active, missing, kernels>>

(* cudaDeviceSynchronize of kernel_entry_host and main_test. *)
Return ==
  /\ caller = "sync"
  /\ issued \subseteq done
  /\ caller' = "idle"
  /\ UNCHANGED <<infoVars, todo, pool, active, missing, kernels>>

-----------------------------------------------------------------------------
(* The pool: an idle worker takes any task, its own or a stolen one. *)
Take(t) ==
  /\ t \in pool
  /\ Cardinality(active \ {Default}) < Workers
  /\ pool' = pool \ {t} /\ active' = active \cup {t}
  /\ UNCHANGED <<infoVars, caller, todo, missing, kernels>>

(* The end of a thread function notifies default_barrier. *)
EndThread(t) ==
  /\ t \in active \ {Default}
  /\ Instructions(t) \subseteq Past
  /\ active' = active \ {t}
  /\ missing' = missing - 1
  /\ UNCHANGED <<infoVars, caller, todo, pool, kernels>>

-----------------------------------------------------------------------------
(* func_call_codegen: barriers are waited for and events set to be waited  *)
(* for, the kernel is called or launched, its event recorded, its barrier  *)
(* notified.                                                               *)
IsNext(n) ==
  /\ thread[n] \in active
  /\ n \in Exec \ issued
  /\ \A m \in Instructions(thread[n]) : m < n => m \in issued

Passes(n) == waits[n] \subseteq notified

NeverNotified(n) == notified   (* mutant *)

Notified(n) == notified \cup (notifies \cap {n})

(* A call of a CPU kernel, *)
CallKernel(n) ==
  /\ device = "CPU"
  /\ IsNext(n) /\ Passes(n)
  /\ Instructions(thread[n]) \cap running = {}
  /\ issued' = issued \cup {n}
  /\ running' = running \cup {n}
  /\ UNCHANGED <<infoVars, host, after, recorded, notified, done>>

(* and its return, after which the thread goes on. *)
ReturnKernel(n) ==
  /\ device = "CPU"
  /\ n \in running
  /\ running' = running \ {n} /\ done' = done \cup {n}
  /\ notified' = Notified(n)
  /\ UNCHANGED <<infoVars, host, issued, after, recorded>>

(* The launch of a CUDA kernel.  cudaStreamWaitEvent waits for what the    *)
(* event was last recorded after; if that was in an earlier call it is     *)
(* done long ago.                                                          *)
InStreamBefore(n) == {m \in issued \ done : stream[m] = stream[n]}

Launch(n) ==
  /\ device = "CUDA"
  /\ IsNext(n) /\ Passes(n)
  /\ issued' = issued \cup {n}
  /\ after' = [after EXCEPT ![n] = (waitEvents[n] \cap recorded) \cup InStreamBefore(n)]
  /\ recorded' = recorded \cup (records \cap {n})
  /\ notified' = Notified(n)
  /\ UNCHANGED <<infoVars, host, running, done>>

(* The streams. *)
BeginKernel(n) ==
  /\ device = "CUDA"
  /\ n \in issued \ (running \cup done)
  /\ after[n] \subseteq done
  /\ running' = running \cup {n}
  /\ UNCHANGED <<infoVars, host, issued, after, recorded, notified, done>>

EndKernel(n) ==
  /\ device = "CUDA"
  /\ n \in running
  /\ running' = running \ {n} /\ done' = done \cup {n}
  /\ UNCHANGED <<infoVars, host, issued, after, recorded, notified>>

Execute(n) == CallKernel(n) \/ ReturnKernel(n) \/ Launch(n) \/ BeginKernel(n) \/ EndKernel(n)

Work ==
  \/ CallInline \/ ReturnInline \/ WaitAll \/ Return
  \/ \E t \in ExecThreads : Schedule(t) \/ Take(t) \/ EndThread(t)
  \/ \E n \in Node : Execute(n)

Next == Compile \/ Call \/ Work

Spec == Init /\ [][Next]_vars

(***************************************************************************)
(* Fairness: while a thread, a worker or a stream can go on, one of them   *)
(* does.  Nobody is obliged to call kernel_entry again.                    *)
(***************************************************************************)
Fairness == WF_vars(Work)

FairSpec == Spec /\ Fairness

-----------------------------------------------------------------------------
MarksTyped ==
  /\ device \in Devices /\ numStream \in NumStreams
  /\ phase \in {"init", "threads", "walkThreads", "streams", "walkStreams",
                "events", "run"}
  /\ visited \subseteq Node /\ count \in Nat \ {0}
  /\ early \subseteq Node
  /\ thread \in [Node -> Thread \cup {None}]
  /\ stream \in [Node -> Stream \cup {None}]
  /\ threads \subseteq Thread
  /\ waits \in [Node -> SUBSET Node] /\ waitEvents \in [Node -> SUBSET Node]
  /\ notifies \subseteq Node /\ records \subseteq Node

RunTyped ==
  /\ caller \in {"idle", "calls", "inline", "sync"}
  /\ todo \subseteq ExecThreads /\ pool \subseteq ExecThreads
  /\ active \subseteq ExecThreads
  /\ missing \in Nat
  /\ issued \subseteq Exec /\ running \subseteq issued /\ done \subseteq issued
  /\ after \in [Node -> SUBSET Node]
  /\ recorded \subseteq issued /\ notified \subseteq issued

TypeOK == MarksTyped /\ RunTyped

(* A kernel starts only when all it depends on, by a tensor or a control   *)
(* edge, is done in the same call, whichever threads and streams they have *)
(* been given.                                                             *)
OperandsReady ==
  \A n \in running \cup done : Producers(n) \subseteq done

(* The default thread is called in line, and the default stream is left    *)
(* out of the events, so neither may share the work with others: a call in *)
(* line would keep threads from being scheduled that it waits for, and     *)
(* what is ordered by the default stream only is not by an event.          *)
Exclusive(x, users) == x \in users => users = {x}

DefaultRunsAlone ==
  phase = "run" =>
    /\ Exclusive(Default, ExecThreads)
    /\ Exclusive(DefaultStream, {stream[n] : n \in Exec})

(* The barriers are only reset, for the next call, when no thread waits    *)
(* for one or is still to notify one, and default_barrier has counted      *)
(* neither a thread too many nor one too few.                              *)
ResetIsQuiet ==
  caller = "idle" => pool = {} /\ active = {} /\ missing = 0 /\ issued \subseteq done

(* With a worker for each thread function, every call returns: the threads *)
(* never wait for each other in a circle, in whatever order they are       *)
(* scheduled and taken.                                                    *)
EveryCallReturns == caller = "calls" ~> caller = "idle"

(* The program implements the data flow of its graph. *)
Flow == INSTANCE Dataflow WITH
  needs <- [n \in Node \ Early |-> Sources(graph, n) \ Early]

ImplementsDataflow == Flow!Spec

-----------------------------------------------------------------------------
(***************************************************************************)
(* Why: the inductive invariant.                                           *)
(***************************************************************************)
Compiled == phase = "run"

(* The walks leave nothing out. *)
Walked(ns) == Range(graph.outs) \subseteq ns /\ \A n \in visited : Sources(graph, n) \subseteq ns

Walks ==
  /\ phase \in {"walkThreads", "walkStreams"} => Walked(visited \cup Range(stack))
  /\ phase = "walkThreads" =>
       device = "CPU" /\ \A n \in visited : thread[n] # None
  /\ phase = "walkStreams" => \A n \in visited : stream[n] # None

(* The host threads are those of the nodes that have one and do not run    *)
(* early; the default thread is given to all of them or to none.           *)
OnThreads == {thread[n] : n \in Exec} \ {None}

ThreadsAssigned ==
  /\ phase = "init" => early = {}
  /\ phase # "init" => early = Early /\ \A n \in early : thread[n] # None
  /\ threads = OnThreads \ {Default}
  /\ phase \in {"init", "threads"} => OnThreads = {}
  /\ phase = "walkThreads" => Default \notin OnThreads
  /\ Exclusive(Default, OnThreads)
  /\ phase \in {"streams", "walkStreams", "events", "run"} => \A n \in Node : thread[n] # None

(* The same of the streams. *)
OnStreams == {stream[n] : n \in Exec} \ {None}

StreamsAssigned ==
  /\ device = "CPU" \/ phase \in {"init", "threads", "walkThreads", "streams"} => OnStreams = {}
  /\ phase = "walkStreams" => DefaultStream \notin OnStreams
  /\ Exclusive(DefaultStream, OnStreams)
  /\ phase \in {"streams", "walkStreams"} => device = "CUDA"
  /\ phase \in {"events", "run"} /\ device = "CUDA" => \A n \in Node : stream[n] # None

SyncsAssigned ==
  Compiled =>
    \A n \in Node :
      /\ waits[n] = {m \in Producers(n) : BarrierBetween(m, n)}
      /\ waitEvents[n] = {m \in Producers(n) : EventBetween(m, n)}
      /\ waits[n] \subseteq notifies /\ waitEvents[n] \subseteq records

(* A thread function is still to be scheduled, waits in the pool, is being *)
(* executed or has gone through its instructions.                          *)
Tasks == (todo \cup pool \cup active) \ {Default}

TasksCounted ==
  /\ ~Compiled => caller = "idle" /\ issued = {}
  /\ todo \cap pool = {} /\ todo \cap active = {} /\ pool \cap active = {}
  /\ Default \notin pool
  /\ Default \in active <=> caller = "inline"
  /\ missing = Cardinality(Tasks)
  /\ caller \in {"sync", "idle"} => todo = {} /\ pool = {} /\ active = {}
  /\ caller = "idle" => done = issued /\ issued \in {{}, Exec}
  /\ caller # "idle" =>
       \A n \in Exec : thread[n] \in todo \cup pool \cup active \/ n \in Past
  /\ device = "CPU" => \A n \in running : thread[n] \in active

InProgramOrder ==
  \A n \in issued : \A m \in Instructions(thread[n]) : m < n => m \in issued

(* What a kernel needs is behind it in its thread, its stream or an event. *)
KernelsOrdered ==
  /\ running \cap done = {}
  /\ device = "CPU" =>
       /\ issued = running \cup done /\ notified \subseteq done
       /\ \A n \in issued : Producers(n) \subseteq done
       /\ \A m, n \in running : thread[m] = thread[n] => m = n
  /\ device = "CUDA" =>
       /\ recorded = issued \cap records
       /\ \A n \in issued : Producers(n) \subseteq after[n] \cup done
       /\ \A n \in running \cup done : after[n] \subseteq done

PassInv ==
  /\ MarksTyped /\ IsGraph(graph) /\ stack \in Seq(Node)
  /\ Walks /\ ThreadsAssigned /\ StreamsAssigned /\ SyncsAssigned

RunInv == RunTyped /\ TasksCounted /\ InProgramOrder /\ KernelsOrdered

IInv == PassInv /\ RunInv
=============================================================================
