---------------------------- MODULE BlockFusion ----------------------------
(***************************************************************************)
(* BlockFusion (engine/pass/graph/blockfusion/): the kernels of a group    *)
(* become one CUDA kernel.  A BlockParallelDevice places the blocks of     *)
(* each kernel on block executors and makes a list of instructions for     *)
(* every executor; BlockFusionCudaCodegen emits the lists as the branches  *)
(* of one __global__ function; the thread blocks of its launch go through  *)
(* them, thread by thread, and wait for one another by the words of        *)
(* be_state_buffer.                                                        *)
(***************************************************************************)
EXTENDS Integers, Sequences, FiniteSets

CONSTANTS
  NumBes,     (* the block executors of the device (DEFAULT_BE)            *)
  NumThreads, (* the threads of a thread block of the launch               *)
  Groups,     (* the groups: sequences of [grid, deps]                     *)
  Policies,   (* of "DEFAULT" and "RANGE", those that are tried            *)
  OptLevels,  (* of codegen_opt_level 0 and 2, those that are tried        *)
  Durations,  (* what a kernel may be measured to take                     *)
  Slots       (* how many thread blocks the GPU may hold at once           *)

Bes     == 0 .. NumBes - 1
Threads == 0 .. NumThreads - 1

(* A kernel depends on kernels of the group that come before it. *)
IsGroup(g) ==
  /\ g \in Seq([grid : Nat \ {0}, deps : SUBSET Nat])
  /\ \A k \in DOMAIN g : g[k].deps \subseteq 1 .. k - 1

ASSUME DeviceAssumption ==
  /\ NumBes \in Nat \ {0} /\ NumThreads \in Nat \ {0}
  /\ \A g \in Groups : IsGroup(g)
  /\ Policies \subseteq {"DEFAULT", "RANGE"} /\ OptLevels \subseteq {0, 2}
  /\ Durations \subseteq Nat /\ Slots \subseteq Nat \ {0}

VARIABLES
  group,     (* the kernels of the group, in its order                     *)
  policy,    (* the BlockKernelScheduler of the device                     *)
  opt,       (* codegen_opt_level                                          *)
  slots,     (* the thread blocks that fit on the GPU                      *)
  phase,     (* "schedule", "skipped" or "run"                             *)
  next,      (* the first kernel that is not scheduled                     *)
  lane,      (* be_lane: for each executor, when it is free                *)
  steps,     (* block_executor_steps                                       *)
  bes,       (* schedule_kernel_log: the executors of a kernel's blocks    *)
  normal,    (* normal_execution_time: the durations so far, added up      *)
  program,   (* block_executors: the instructions of each executor         *)
  emitted,   (* the branches of the emitted function                       *)
  grid,      (* the number of its thread blocks                            *)
  started,   (* the thread blocks the GPU has begun in this launch         *)
  at,        (* the instruction each thread of each thread block is at     *)
  flag       (* be_state_buffer                                            *)

deviceVars == <<next, lane, steps, bes, normal, program>>
codeVars   == <<emitted, grid>>
runVars    == <<started, at, flag>>
fixedVars  == <<group, policy, opt, slots>>
vars       == <<fixedVars, phase, deviceVars, codeVars, runVars>>

-----------------------------------------------------------------------------
(* The schedulers.  Of the executors that are free by some time, `need`    *)
(* are taken at the first time there are so many: those of the lowest ids, *)
(* and under RANGE the first so many that stand side by side.              *)
Least(S)    == CHOOSE x \in S : \A y \in S : x <= y
Greatest(S) == CHOOSE x \in S : \A y \in S : x >= y

FreeBy(t) == {b \in Bes : lane[b] <= t}

Windows(t, need) ==
  {b \in Bes : b + need <= NumBes /\ b .. b + need - 1 \subseteq FreeBy(t)}

Enough(t, need) ==
  IF policy = "RANGE" THEN Windows(t, need) # {} ELSE Cardinality(FreeBy(t)) >= need

TimeStart(need) == Least({t \in {lane[b] : b \in Bes} : Enough(t, need)})

ReadyBes(need) ==
  LET t == TimeStart(need)
  IN  IF policy = "RANGE"
      THEN LET first == Least(Windows(t, need)) IN first .. first + need - 1
      ELSE {b \in FreeBy(t) : Cardinality({c \in FreeBy(t) : c < b}) < need}

(* A kernel larger than the device has several blocks on an executor. *)
Needed(k) == IF group[k].grid < NumBes THEN group[k].grid ELSE NumBes

-----------------------------------------------------------------------------
(* The instructions. *)
Execute(k, block) == [op |-> "execute", kernel |-> k, block |-> block]
StepTo(step)      == [op |-> "step", step |-> step]
WaitFor(on, step) == [op |-> "wait", on |-> on, step |-> step]

(* The blocks of kernel k that the scheduler gives to executor b: block    *)
(* number i goes to the (i mod |ready|)-th of the ready ones.              *)
Place(b, ready) == Cardinality({c \in ready : c < b})

BlocksEvenly(k, b, ready) ==   (* mutant: what is left of a division is lost *)
  LET n == Cardinality(ready)
  IN  IF b \notin ready THEN <<>>
      ELSE [i \in 1 .. group[k].grid \div n |-> Execute(k, Place(b, ready) + (i - 1) * n)]

BlocksOn(k, b, ready) ==
  LET n    == Cardinality(ready)
      mine == {i \in 0 .. group[k].grid - 1 : i % n = Place(b, ready)}
  IN  IF b \notin ready THEN <<>>
      ELSE [i \in 1 .. Cardinality(mine) |-> Execute(k, Place(b, ready) + (i - 1) * n)]

LastStep(preds) == Greatest({0} \cup {steps[b] : b \in preds})   (* mutant: not incremented *)

(* group_sync: one step for all executors that are waited for, after every *)
(* step that any of them has.                                              *)
NewStep(preds) == Greatest({0} \cup {steps[b] : b \in preds}) + 1

(* schedule_group_wait: those waited for and those that wait go on at the  *)
(* same time, one after the last of the former.                            *)
TimeSync(preds) == Greatest({0} \cup {lane[b] : b \in preds}) + 1

LaterOf(s, t) == IF s < t THEN t ELSE s

(* The instructions that kernel k adds to executor b: a step if blocks of  *)
(* its dependencies are there, a wait before its own blocks.               *)
Added(k, b, ready, preds) ==
  (IF b \in preds THEN <<StepTo(NewStep(preds))>> ELSE <<>>) \o
  (IF b \in ready /\ preds # {} THEN <<WaitFor(preds, NewStep(preds))>> ELSE <<>>) \o
  BlocksOn(k, b, ready)

FreeAt(b, ready, preds) ==
  IF preds # {} /\ b \in preds \cup ready THEN LaterOf(lane[b], TimeSync(preds)) ELSE lane[b]

BusyUntil(k, b, ready, preds, duration) ==
  IF b \notin ready THEN FreeAt(b, ready, preds)
  ELSE LaterOf(FreeAt(b, ready, preds), TimeStart(Needed(k)))
         + Len(BlocksOn(k, b, ready)) * LaterOf(duration, 1)

(* schedule_kernel, if the kernel has no dependency in the group, or       *)
(* schedule_kernel_with_dependency.  The ready executors are chosen before *)
(* the others are made to wait.                                            *)
ScheduleKernel(duration) ==
  LET k     == next
      ready == ReadyBes(Needed(k))
      preds == UNION {bes[d] : d \in group[k].deps}
  IN  /\ phase = "schedule" /\ next <= Len(group)
      /\ program' = [b \in Bes |-> program[b] \o Added(k, b, ready, preds)]
      /\ steps' = [b \in Bes |-> IF b \in preds THEN NewStep(preds) ELSE steps[b]]
      /\ lane' = [b \in Bes |-> BusyUntil(k, b, ready, preds, duration)]
      /\ bes' = Append(bes, ready)
      /\ normal' = normal + duration
      /\ next' = next + 1
      /\ UNCHANGED <<fixedVars, phase, codeVars, runVars>>

(* Kernels that are measured come without dependencies (fusion level 1);   *)
(* otherwise assign_kernel_id takes 10.                                    *)
DefaultDuration == 10
Measured == {k \in DOMAIN group : group[k].deps # {}} = {}

Schedule ==
  \E duration \in {DefaultDuration} \cup (IF Measured THEN Durations ELSE {}) :
    ScheduleKernel(duration)

(* SkipGroupOnProfilingResult: one kernel, only large kernels, or no gain. *)
LargeKernels == {k \in DOMAIN group : group[k].grid >= NumBes}
Skipped ==
  \/ Len(group) <= 1
  \/ LargeKernels = DOMAIN group
  \/ Greatest({lane[b] : b \in Bes}) >= normal

-----------------------------------------------------------------------------
SameKind(x, y) == x.op = y.op   (* mutant: the operands are not compared *)

(* The emitted function.  Executors side by side whose instructions differ *)
(* only in the block and the executor by one share a branch at             *)
(* codegen_opt_level 2.                                                    *)
SequentialInstructions(x, y) ==
  /\ x.op = y.op
  /\ x.op = "execute" => x.kernel = y.kernel /\ y.block - x.block = 1
  /\ x.op = "step" => x.step = y.step
  /\ x.op = "wait" => x.step = y.step /\ x.on = y.on

Sequential(b) ==
  /\ {b, b + 1} \subseteq Bes
  /\ Len(program[b]) = Len(program[b + 1])
  /\ \A i \in DOMAIN program[b] : SequentialInstructions(program[b][i], program[b + 1][i])

InRange(b) == opt = 2 /\ (Sequential(b - 1) \/ Sequential(b))

RangeStart(b) == Least({s \in 0 .. b : \A c \in s .. b - 1 : Sequential(c)})

(* emit_block_executor, or emit_range_block_executor: the instructions of  *)
(* the first executor of the range, the block counted from its own.        *)
Instructions(b) ==
  LET first == RangeStart(b)
  IN  IF ~InRange(b) THEN program[b]
      ELSE [i \in DOMAIN program[first] |->
              LET x == program[first][i]
              IN  IF x.op = "execute" THEN Execute(x.kernel, b - first + x.block) ELSE x]

(* There is __syncthreads between any two instructions of an executor that *)
(* has a branch of its own; in a range only before the blocks.  A wait     *)
(* ends in one in both.                                                    *)
Syncs(b, i, op) ==
  \/ i > 1 /\ (InRange(b) => op = "execute")
  \/ op = "wait"

Branch(b) ==
  [i \in DOMAIN Instructions(b) |->
     [ins |-> Instructions(b)[i], sync |-> Syncs(b, i, Instructions(b)[i].op)]]

LastInUse == Greatest({0} \cup {b \in Bes : program[b] # <<>>})   (* mutant: one too few *)

(* compute_launch_config: executors after the last that has instructions   *)
(* are not launched.                                                       *)
GridDim == Greatest({0} \cup {b + 1 : b \in {c \in Bes : program[c] # <<>>}})

NoLanes == [b \in Bes |-> 0]

(* The group is compiled, or left as it is; the device is gone after that. *)
Compile ==
  /\ phase = "schedule" /\ next > Len(group)
  /\ phase' = IF Skipped THEN "skipped" ELSE "run"
  /\ emitted' = IF Skipped THEN emitted ELSE [b \in Bes |-> Branch(b)]
  /\ grid' = IF Skipped THEN grid ELSE GridDim
  /\ lane' = NoLanes /\ steps' = NoLanes /\ normal' = 0
  /\ UNCHANGED <<fixedVars, next, bes, program, runVars>>

-----------------------------------------------------------------------------
(* A launch.  A wait: as many threads as there are words to wait for read  *)
(* one word each, if the words are side by side and the threads enough;    *)
(* thread 0 reads them all otherwise.                                      *)
Consecutive(on) == on = Least(on) .. Greatest(on)
ByThreads(on)   == Consecutive(on) /\ Cardinality(on) <= NumThreads
Awaited(on) ==
  IF ByThreads(on)
  THEN {Least(on) + t : t \in {u \in Threads : u < Cardinality(on)}}
  ELSE on

Grid     == 0 .. grid - 1
Over(b)  == \A t \in Threads : at[b][t] > Len(emitted[b])
Resident == {b \in started : ~Over(b)}

(* The GPU begins a thread block when it has room for it. *)
Begin(b) ==
  /\ phase = "run" /\ b \in Grid \ started
  /\ Cardinality(Resident) < slots
  /\ started' = started \cup {b}
  /\ UNCHANGED <<fixedVars, phase, deviceVars, codeVars, at, flag>>

(* A thread goes through its next instruction: the other threads have come *)
(* so far if there is a __syncthreads, and the words that it waits for are *)
(* set.  Only thread 0 writes a word.                                      *)
Pass(b, t) ==
  LET i == at[b][t]
      x == emitted[b][i].ins
  IN  /\ phase = "run" /\ b \in started
      /\ i <= Len(emitted[b])
      /\ emitted[b][i].sync => \A u \in Threads : at[b][u] >= i
      /\ x.op = "wait" => \A p \in Awaited(x.on) : flag[p] >= x.step
      /\ at' = [at EXCEPT ![b][t] = i + 1]
      /\ flag' = IF x.op = "step" /\ t = 0 THEN [flag EXCEPT ![b] = x.step] ELSE flag
      /\ UNCHANGED <<fixedVars, phase, deviceVars, codeVars, started>>

(* kernel_entry clears the words before it launches the kernel again. *)
Finished == phase = "run" /\ started = Grid /\ Resident = {}
Cleared  == [b \in Bes |-> 0]
Start    == [b \in Bes |-> [t \in Threads |-> 1]]

RelaunchStale ==   (* mutant: the words are not cleared *)
  /\ Finished
  /\ started' = {} /\ at' = Start
  /\ UNCHANGED <<fixedVars, phase, deviceVars, codeVars, flag>>

Relaunch ==
  /\ Finished
  /\ started' = {} /\ at' = Start /\ flag' = Cleared
  /\ UNCHANGED <<fixedVars, phase, deviceVars, codeVars>>

-----------------------------------------------------------------------------
Init ==
  /\ group \in Groups /\ policy \in Policies /\ opt \in OptLevels /\ slots \in Slots
  /\ phase = "schedule" /\ next = 1 /\ bes = <<>> /\ normal = 0
  /\ lane = NoLanes /\ steps = NoLanes
  /\ program = [b \in Bes |-> <<>>] /\ emitted = program /\ grid = 0
  /\ started = {} /\ at = Start /\ flag = Cleared

Move == \E b \in Bes : Begin(b) \/ \E t \in Threads : Pass(b, t)

Next == Schedule \/ Compile \/ Move \/ Relaunch

Spec     == Init /\ [][Next]_vars
FairSpec == Spec /\ WF_vars(Move)

-----------------------------------------------------------------------------
(* Properties. *)

Instruction ==
  [op : {"execute"}, kernel : DOMAIN group, block : Nat] \cup
  [op : {"step"}, step : Nat \ {0}] \cup
  [op : {"wait"}, on : SUBSET Bes, step : Nat \ {0}]

(* The values of the variables. *)
TypeOK ==
  /\ IsGroup(group) /\ policy \in Policies /\ opt \in OptLevels /\ slots \in Slots
  /\ phase \in {"schedule", "skipped", "run"}
  /\ next \in 1 .. Len(group) + 1
  /\ lane \in [Bes -> Nat] /\ steps \in [Bes -> Nat] /\ normal \in Nat
  /\ bes \in Seq(SUBSET Bes) /\ Len(bes) = next - 1
  /\ program \in [Bes -> Seq(Instruction)]
  /\ emitted \in [Bes -> Seq([ins : Instruction, sync : BOOLEAN])] /\ grid \in 0 .. NumBes
  /\ started \subseteq Bes
  /\ at \in [Bes -> [Threads -> Nat \ {0}]]
  /\ flag \in [Bes -> Nat]

(* The launch has every block of the kernels once, also of those that are  *)
(* larger than the device.                                                 *)
Places(k, block) ==
  UNION {{<<b, i>> : i \in {j \in DOMAIN emitted[b] : emitted[b][j].ins = Execute(k, block)}}
         : b \in Grid}

EveryBlockOnce ==
  phase = "run" =>
    \A k \in DOMAIN group : \A block \in 0 .. group[k].grid - 1 :
      Cardinality(Places(k, block)) = 1

(* What a branch for a range of executors does is for each of them what    *)
(* its own list says.                                                      *)
RangesDoTheirOwn ==
  phase = "run" =>
    \A b \in Bes : /\ DOMAIN emitted[b] = DOMAIN program[b]
                   /\ \A i \in DOMAIN program[b] : emitted[b][i].ins = program[b][i]

(* The branch of executor b executes a block of kernel k at i, and thread  *)
(* t has done so.                                                          *)
Executes(b, i, k) ==
  i \in DOMAIN emitted[b] /\ emitted[b][i].ins.op = "execute" /\ emitted[b][i].ins.kernel = k

Done(b, i, t) == at[b][t] > i

DependenciesDoneBy(writers) ==
  \A b, c \in Bes : \A i \in DOMAIN emitted[b], j \in DOMAIN emitted[c] :
    \A k \in DOMAIN group : \A d \in group[k].deps :
      Executes(b, i, k) /\ Executes(c, j, d) =>
        \A t \in Threads : Done(b, i, t) => \A u \in writers[c] : Done(c, j, u)

(* A block begins after those of the kernels that its kernel depends on:   *)
(* after all their threads where an executor has a branch of its own, and  *)
(* at least after the thread that writes the word where a range has one.   *)
Writers == [b \in Bes |-> IF InRange(b) THEN {0} ELSE Threads]

DependenciesDone == DependenciesDoneBy(Writers)

(* "group wait for dependency_kernels" (block_parallel_device.cpp): all of *)
(* the threads of their blocks are waited for.                             *)
DependenciesComplete == DependenciesDoneBy([b \in Bes |-> Threads])

(* If the GPU can hold all thread blocks of the launch, it comes to an     *)
(* end: no executors wait for one another, and no word is overwritten      *)
(* before it is read.                                                      *)
EveryLaunchFinishes == (phase = "run" /\ grid <= slots) ~> Finished

-----------------------------------------------------------------------------
(* The inductive invariant. *)

(* In the list of an executor the steps grow; the last is in `steps`. *)
StepsGrow ==
  \A b \in Bes : \A i, j \in DOMAIN program[b] :
    i < j /\ program[b][i].op = "step" /\ program[b][j].op = "step" =>
      program[b][i].step < program[b][j].step

StepsKnown ==
  phase = "schedule" =>
    \A b \in Bes : \A i \in DOMAIN program[b] :
      program[b][i].op = "step" => program[b][i].step <= steps[b]

Runs(b, i, k) ==
  i \in DOMAIN program[b] /\ program[b][i].op = "execute" /\ program[b][i].kernel = k

(* The blocks are where bes says. *)
BlocksKnown ==
  \A b \in Bes : \A i \in DOMAIN program[b] :
    program[b][i].op = "execute" =>
      program[b][i].kernel < next /\ b \in bes[program[b][i].kernel]

(* Before a block there is a wait for a step that comes after the block of *)
(* a dependency.                                                           *)
WaitBetween(b, i, c, j) ==
  \E h \in DOMAIN program[b], g \in DOMAIN program[c] :
    /\ h < i /\ g > j
    /\ program[b][h].op = "wait" /\ c \in program[b][h].on
    /\ program[c][g] = StepTo(program[b][h].step)

BlocksGuarded ==
  \A b, c \in Bes : \A i \in DOMAIN program[b], j \in DOMAIN program[c] :
    \A k \in DOMAIN group : \A d \in group[k].deps :
      Runs(b, i, k) /\ Runs(c, j, d) => WaitBetween(b, i, c, j)

(* No executor waits for nobody. *)
WaitsNamed ==
  \A b \in Bes : \A i \in DOMAIN program[b] :
    program[b][i].op = "wait" => program[b][i].on # {}

(* No thread block runs before the function is there. *)
Idle == phase # "run" => started = {} /\ at = Start /\ flag = Cleared

(* What is emitted is the list with the calls of __syncthreads. *)
EmittedIsProgram ==
  IF phase = "run"
  THEN \A b \in Bes :
         /\ DOMAIN emitted[b] = DOMAIN program[b]
         /\ \A i \in DOMAIN program[b] :
              emitted[b][i] = [ins |-> program[b][i], sync |-> Syncs(b, i, program[b][i].op)]
  ELSE \A b \in Bes : emitted[b] = <<>>

(* A word holds a step that thread 0 of the executor has gone through. *)
FlagsArePast ==
  \A b \in Bes :
    flag[b] = 0 \/ \E h \in DOMAIN emitted[b] :
                     Done(b, h, 0) /\ emitted[b][h].ins = StepTo(flag[b])

WaitsAreOver ==
  \A b \in Bes : \A t \in Threads : \A h \in DOMAIN emitted[b] :
    Done(b, h, t) /\ emitted[b][h].ins.op = "wait" =>
      \A p \in emitted[b][h].ins.on : flag[p] >= emitted[b][h].ins.step

ThreadsMeet ==
  \A b \in Bes : \A t, u \in Threads : \A i \in DOMAIN emitted[b] :
    Done(b, i, t) /\ emitted[b][i].sync => at[b][u] >= i

(* Every block of a kernel that is scheduled is in the lists once, and the *)
(* launch covers the lists.                                                *)
BlocksPlaced ==
  \A k \in 1 .. next - 1 : \A block \in 0 .. group[k].grid - 1 :
    /\ \E b \in Bes : \E i \in DOMAIN program[b] : program[b][i] = Execute(k, block)
    /\ \A b, c \in Bes : \A i \in DOMAIN program[b], j \in DOMAIN program[c] :
         program[b][i] = Execute(k, block) /\ program[c][j] = Execute(k, block) =>
           b = c /\ i = j

LaunchCovers == phase = "run" => next = Len(group) + 1 /\ grid = GridDim

PlacementInv == BlocksPlaced /\ LaunchCovers

ProgramInv == StepsGrow /\ StepsKnown /\ BlocksKnown /\ BlocksGuarded /\ WaitsNamed
LaunchInv  == Idle /\ EmittedIsProgram /\ FlagsArePast /\ WaitsAreOver /\ ThreadsMeet

IInv == TypeOK /\ ProgramInv /\ LaunchInv
=============================================================================
