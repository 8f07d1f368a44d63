# Models of NNFusion's memory planning, kernel fusion and generated synchronisation

NNFusion compiles a model graph into a C++/CUDA program. Three parts of it decide
whether that program computes the right numbers independently of any operator's
arithmetic: the *planning of memory*, which gives every tensor an offset in a
pool and lets tensors share bytes; the *synchronisation* of the threads and
streams the program runs on; and the *fusion* of kernels, which puts one node in
the place of many in the graph, and with BlockFusion orders their blocks itself.
This directory holds TLA+ modules of these, TLC runs that check them on small
instances, and TLAPS proofs for all instances.

Paths below are relative to `src/src/nnfusion/` unless they start with `src/`.

## 1. The system

```
 front ends -> Graph -> graph passes -> visitor -> Program -> tensor passes -> code generation -> program
                         (BlockFusion,   (reversed           liveness           (kernel_entry,
                          KernelFusion,   DFS)               in-place            thread functions,
                          op in-place,                       layout              barriers, streams)
                          streams)
```

The engine (`engine/engine.cpp`, `engine/device/*.cpp`) runs the passes one
after the other on one thread. They communicate through the graph, through the
fields of `descriptor::Tensor`, and through tags on nodes and instructions
(`Async_info`, `InplaceTensorMapping`, ...). The compiled program is the
concurrent part.

| component | state | operations | what is hard | what makes it correct |
|---|---|---|---|---|
| `MemoryAllocator` | node list, high-water mark, offset/root/count of tensors | `allocate` (own block, or inside another tensor's), `free` | references keep a block alive; joins move offsets; long sequences of calls | no overlap, no leak, no double free, pool large enough, free memory is used |
| liveness analysis | groups, `cross_stream`, new and free lists | one forward and one reverse pass | a tensor of two threads has no last reader | live data is not overwritten, dead data is reclaimed |
| in-place analysis | `inplace_inputs`, `inplace_use_count`, the mapping tags | pair, Concat folding | aliases of aliases, counts moved between tensors, moved allocations | an in-place write never hits data somebody needs |
| memory layout | the allocators | per instruction: new, references, frees | hash sets walked in any order; roots in other groups than their references | every tensor placed once, passes agree |
| eliminated kernels | - | `is_eliminative` | decides from offsets what need not run | what is left out is already there |
| `Barrier`, `Notification` | counter with a flag, mutex, condition variable | `Notify`, `Wait`, `Reset` | lost and spurious wake-ups, reuse in the next iteration | no early return, no lost wake-up, safe `Reset` |
| `AssignAsyncInfoPass`, `AsyncManager` | thread and stream of each operator, barriers, events | walks that give out threads and streams, `set_stream`, `set_event` | two walks and a default that must not be mixed | each dependency is behind a program order, a barrier or an event |
| `kernel_entry`, thread functions (CPU and CUDA code generation) | barriers, pool of workers, streams | schedule, call in line, wait, reset | order of emission, size of the pool, events not yet recorded, successive calls | each kernel after what it needs; every call returns; resets meet nobody |
| BlockFusion: the groups (`BlockFusionWavefrontOptimizer`) | waves, groups, the graph | extract, split, merge, fuse | merged groups with a path around them; slots of nodes that others have been fused into | the graph stays acyclic and keeps its operands; no kernel is lost |
| BlockFusion: a group (`BlockParallelDevice`, schedulers, `BlockFusionCudaCodegen`) | lanes and steps of block executors, their instructions, the words of `be_state_buffer` | schedule with dependencies, emission of branches, launch | which steps a block waits for; shared branches; words of the last launch | each block once, after all it depends on; no circular wait |
| KernelFusion (`KernelFuseOptimizer`, `FusedGNode`) | queues of ready nodes, element groups, the graph | visit, close groups, absorb broadcasts, split, fuse | groups cut out of the order of visits; broadcasts with several readers; control edges | what is fused fits together, the graph stays acyclic and keeps its operands |
| graph core | nodes, edges, slots | add, remove, traversals | stale edges and slots | orders are topological, edges end at nodes |
| everything else | | rewrites, kernel selection, text of kernels, front ends | arithmetic and formats | see section 7 |

`PROJECT.json` lists each component with its files, and each place where the
code is hard to test (hazards) with the properties that guard it.

## 2. The modules

| module | what it is |
|---|---|
| `NodeList` | the node list of a pool: search (first fit, best fit), split, join; parameters `PoolSize`, `Alignment` |
| `MemoryAllocator` | one allocator and the calls the layout pass may make; its invariants and its inductive invariant `IInv` |
| `MemoryAllocatorProofs` | its theorems |
| `MemoryPool` | abstract: blocks are disjoint and live as long as their users |
| `MCMemoryAllocator` | five tensors for TLC |
| `TensorPlan` | from a program to the bytes at run time: visitor, liveness, in-place analysis, layout (with `NodeList` for each group), then the threads of the generated program |
| `TensorPlanProofs` | its theorems about the three passes, with their inductive invariant `IInv` |
| `MCTensorPlan` | operators, streams and classes of programs for TLC |
| `Barrier` | `Barrier`/`Notification` at the grain of atomic operations and critical sections |
| `Latch` | abstract: return after the last call, round after round |
| `BarrierProofs` | theorems, the refinement of `Latch` among them |
| `AsyncInfo` | the pass that assigns threads, streams, barriers and events |
| `AsyncExec` | extends it by the program that is generated from them, and its calls; inductive invariant `IInv` |
| `Dataflow` | abstract: in each iteration every operator runs once, after those it needs |
| `AsyncExecProofs` | theorems, the refinement of `Dataflow` among them |
| `MCAsyncExec` | all graphs of some size, in the order the walk of `GraphOrder` gives them |
| `GraphOrder` | `ReverseDFS`, the order of `get_ordered_ops` |
| `GraphEdges` | the edges of a graph with their slots, in the orders the code walks them |
| `StructureProofs` | lemmas for all theorem modules below and above but those of barriers and streams. Node lists: splitting and joining preserve tiling and coalescing, and what they do to the allocated nodes. Graphs: the orders of edges have each edge once; the walk of `get_ordered_ops` ends, and has what the outputs need, once and after its sources; flattened sequences, slots that are numbered |
| `WavefrontFusion` | the groups of BlockFusion and the graph they are fused in; inductive invariants `IInv` and `RInv` |
| `WavefrontFusionProofs` | its theorems |
| `MCWavefrontFusion` | all graphs of some size |
| `KernelFusion` | the pass that fuses elementwise nodes, reshapes and broadcasts; inductive invariant `KInv` |
| `KernelFusionProofs` | its theorems; second invariant `PInv` |
| `MCKernelFusion` | its graphs: small ones of any kind, layered ones |
| `BlockFusion` | one group: schedule, emitted function, thread blocks of its launches; inductive invariant `IInv` |
| `BlockFusionProofs` | its theorems; the last part counts: each block once |
| `MCBlockFusion` | all groups of some size |

How they compose: `MemoryAllocator` and `TensorPlan` use `NodeList`; `AsyncExec`
extends `AsyncInfo`, and takes the barriers as `Barrier` is shown to be
(`Latch`); `WavefrontFusion` and `KernelFusion` work on the graph of `GraphEdges`
in the order of `GraphOrder`, and the former ends where `BlockFusion` begins, with
the kernels of a group in order; `MCAsyncExec` takes from `GraphOrder` the program order that `AsyncInfo` assumes. `TensorPlan` runs its
programs under the waits that `AsyncInfo` derives.

### MemoryAllocator and the code

`nodes` is `m_node_list`. The code walks the list adding up the sizes and uses
the sum as the offset of the node, so the model indexes each node by that sum.
`TakeNode` is `first_fit`/`best_fit`, `TakeFresh` is `no_reuse_allocator`,
`Allocate`, `AllocateRef` and `Free` are the two `allocate` and `free`, each
with its checks: an exception sets `outcome` and ends the run. The environment
is the client `AssignTensorMemoryLayout`: it allocates a tensor once, places a
reference inside a parent that is in use, and frees each tensor once. That the
client does so is not assumed twice: `TensorPlan` contains the passes
themselves, with the same operators, and `PassesAgree`, proved for every program,
says that no check fails and every tensor is placed.
`PoolSize` stands for `numeric_limits<size_t>::max()`.

`scheme` is the one of the three allocation schemes the allocator was made with.

### TensorPlan and the code

One behaviour is one compilation followed by one iteration of the program.
`Visit` builds any program the visitor may emit, `Analyse` is
`TensorLivenessAnalysis::run`, `Inplace` one instruction of
`InplaceTensorAnalysis::run` (`InplacePair`, `InplaceConcat`, `NotInplace`),
`AllocateNew`/`AllocateRef`/`Free`/`NextInstruction` the loop of
`AssignTensorMemoryLayout::run`; the sets it walks are hash sets, so their
order is open. `Run(i)` executes an instruction: each thread in program
order, waiting for its operands as `assign_event_info` arranges. A byte of
memory holds an atom `<<t, k>>`, "byte k of the value tensor t should have".
Operators are classes: `Kernel` (new output), `Scratch` (with a workspace),
`Elementwise` (destructive in-place pair), `Reshape` (non-destructive pair),
`AllReduce` (a non-destructive pair too, but on CUDA its kernel sums up in its
input), `Update` (`ApplyGradient` and its like: a destructive pair that is *forced*,
taken also on a Parameter and on an operand that others read), `Concat`, `Constant`,
`Parameter`, `Result`. A Parameter keeps the offset `m_pool_offset` starts with,
`SIZE_MAX` (`Unset`), and what is placed in it adds to that; the address it has in the
program is the one `codegen_mem_ref` copies from the input of a forced pair
(`Address`), and a tensor left with `SIZE_MAX` has none (`Nowhere`). `AllocateRef` has
both checks of the `allocate` that takes a root: what is referred to is no reference
itself, and is still in use. `Kernel` values are one byte, a
Concat has as many as its operands together. `sharing` is the option
`disable_memory_sharing` negated: CPU programs share, CUDA programs do not.

### Barrier and the code

Each access to `state_` is a step, and so is each critical section of `mu_`.
`notified_` is read and written in `Wait` and `Notify` only under the mutex;
`Reset` writes it without, which is why `ResetIsSafe` matters. The client is
`kernel_entry`: each notifier calls `Notify` once in an iteration, each waiter
`Wait` once, and `Reset` comes when all Waits have returned. It does *not* wait
for the notifiers to have returned; that they have is what is to be shown.
Waiters may be woken for no reason (`SpuriousWakeup`).

### AsyncInfo, AsyncExec and the code

A node is named by its place in `get_ordered_ops`, so that edges lead upwards and
the instructions of a thread are in the order of their numbers. `InitAssign` is
`init_assign_async_info` (constants, parameters and folded operators run in the
init function, on the default thread); `OneThread`, `AsyncThreads` and
`StartThreads`/`VisitThread` are the branches of `gpu_assign_thread_info` and
`naive_assign_thread_info`; `OwnStreams`, `StartStreams`/`VisitStream` those of
`naive_assign_stream_info`. The two walks are copies of one another in the code,
and share `Visit` here. `AssignEvents` is `assign_event_info`. A thread or stream
is its symbol, as `set_stream` looks it up by name.

The program: `Call` is the head of `kernel_entry` (resets), `Schedule` and
`CallInline` the parts `collect_ins` and `collect_funcs` make of each thread, in
any order as those of an `unordered_map`, `WaitAll` is `default_barrier.Wait`,
`Return` the `cudaDeviceSynchronize` of the caller. A worker of the pool takes a
thread function (`Take`), goes through its instructions (`Execute`) and notifies
`default_barrier` (`EndThread`). `CallKernel`/`ReturnKernel` are the call of a CPU
kernel with the waits before it and the notification behind it; `Launch` is a
CUDA call with its barriers and events, `BeginKernel`/`EndKernel` what the stream
does with it. `cudaStreamWaitEvent` on an event that this call has not recorded
does not wait: `Launch` takes only the recorded ones, and that this suffices is
`OperandsReady`.

### WavefrontFusion and the code

`ExtractWave` is one wave of the loop of `ExtractFusionGroups` (the code handles
its nodes one by one in the queue; nothing else runs in between), `SplitGroup`,
`MergeGroups` and `FuseGroup` one turn of the loop of each. What the profiler
measures is open: any mergeable pair may be merged or not, any group skipped. An
edge is `[src, out, dst, in]`; `ins` and `outs` are the tensors `set_input` and
`set_output` store in the slots, named by the node and the output of the given graph
that yield them, so that `OperandsKept` can compare the tensor an input was made for
with the one its edge brings, also when the node has several outputs. `RunsTheGraph` takes the order that `get_ordered_ops` gives of the graph
as it is after each fusing.

### KernelFusion and the code

`VisitReady` and `VisitElement` are the turns of the state machine of
`ExtractFusionGroups` that take a node from `ready` or `elem_ready`;
`StartElements` and `CloseGroup` are the changes of state between them
(`fuse_ready` is always empty, as no operator is registered for it).
`FuseReshapeAndBroadcast`, `SplitIndependentGroups` and
`FuseElementGroupOnGraph` handle one element group in each step. Only element
groups are fused, so `groups` lists them one after another; the group around them
decides in `CloseGroup` whether they stay. A node has a kind, the size of its
first output and a home, which is its device and stage: all that the pass asks.
`graph` has the tensors of each node as in `WavefrontFusion`; a copy of a
broadcast yields the tensor of the original if it reads the same tensor.
`OperandsKept` says also that the graph stays one: edges end at nodes, and each
input has one. Splitting
orders the parts of a group as an `unordered_map` does, in any way.

### BlockFusion and the code

`ScheduleKernel` is `schedule_kernel` or `schedule_kernel_with_dependency` of the
device, with the scheduler's `get_ready_bes`, `schedule_kernel_sync` and
`schedule_group_wait`. A lane is only as long as it is, so it is a number here.
`Compile` is the end of `FuseGroupOnGraph`: the group is skipped, or its code is
emitted, `Branch(b)` for each executor; at `codegen_opt_level` 2 executors with
instructions that differ by one share a branch (`RangeStart`). An instruction of
the emitted function has a mark for the `__syncthreads` before it. A launch:
`Begin` when the GPU takes a thread block, `Pass` when a thread goes through an
instruction, `Relaunch` when it is over and `kernel_entry` clears
`be_state_buffer` for the next.

## 3. The runs

Passing runs:

| run | question | bounds and why they are enough |
|---|---|---|
| `MCAllocator` | is the allocator right when the pool runs full, under each of its schemes? | five tensors of sizes 0, 2, 3, 4, 6 with alignment 2, so that blocks of one, two and three units split, join on either side and on both; 14 bytes, less than the 18 the five need, so that `bad_alloc`, the tail that best fit should leave alone, and every exact fit occur |
| `MCBarrier` | is the barrier right over any number of iterations? | three notifiers and three waiters: calls before, at and after the last `Notify`, a waiter that set the flag and two that did not; the theorems cover any number |
| `MCPlan` | do the passes agree, and does the program compute the graph, with chains of in-place operators and folded or copied Concats on one thread, and on two threads in every interleaving with workspaces, constants, Concats and aliases of the other thread's tensors? | programs of up to 7 instructions on one thread whose kernels have one operand: of in-place operators, or with two Concats, one inside the other, the kernels they fold and the Result, which need 7. Up to 6 with kernels of two operands (a kernel, two aliases, an in-place operator and two readers), with in-place operators next to Concats, and on two threads, as the shortest program in which memory freed too early by one thread is reused while the other reads it has 6; there the second instruction is on stream 0, by symmetry, and so are the Results, which write nothing and whose tensors and operands are persistent wherever they run. Memory is shared, as on a CPU; the programs of up to 6 on one thread are also run without sharing. Up to 6 with an AllReduce that is the last to read a tensor with a block and no alias, and with Updates of constants, Parameters and intermediate results |
| `MCAsyncExec` | does each kernel run after what it needs, and does every call return, whatever threads and streams the pass gives out? | every graph of 5 nodes with at most two in-edges each, one constant or parameter and one control edge, CPU and CUDA, `fnum_stream` 0 (unlimited), 1 and 2; 5 nodes are a fork, a join and an AllReduce with its Result, or three threads that wait for each other in a row. A worker for each thread. Two calls are enough to go round: a call starts from the state the last one has left |
| `MCBlockFusion` | is a fused kernel right, launch after launch? | every group of up to 3 kernels of 1 to 4 blocks, any dependencies among them, on 3 executors (so that 4 blocks are more than the device), 2 threads in a thread block (so that a wait for 3 executors is thread 0's alone), room for 2 or 3 thread blocks; both schedulers, with and without shared branches |
| `MCWavefrontFusion` | is the graph still the same computation after groups were merged and fused? | every graph of 5 nodes with data edges, and of 4 with a control edge as well, each node with one output and any of them fusable; and of 4 nodes with two outputs, with any choice of the output each edge leaves from, two of them fusable at least; groups of at most 2 kernels, so that waves of 3 and 4 are split. Two groups with a path around them, and a group between two that are fused already, need 4 or 5 |
| `MCKernelFusion` | is the graph still the same computation after elements, reshapes and broadcasts were fused, at each level? | graphs of 5 nodes, inputs and Result included, of all kinds (two broadcast readers in one group, two groups joined by a third member, a reshape that is pruned); of 4 with two sizes or two devices, one of them with a limit of 3 arguments; of 5 with a control edge; layered ones of 8, so that a broadcast feeds two groups and a group stands between two nodes that are not fused. Control edges join neither reshapes nor broadcasts, and a broadcast reads the first output of its source: what happens otherwise is at the end of this section |

`MCPlan` uses `Alignment = 1` (alignment is a matter of the allocator run; with
1 every byte counts and overlaps show) and `PoolSize = 12`, which no program of
that length fills. The first instruction is the only source. `Completable`
prunes prefixes that are the prefix of no program in which each output is read,
and leaves out no such program. `PlannedWell` and its parts in `MCTensorPlan` delimit the
programs of the run. They leave out the ones around four of the
findings below: an in-place operator on a tensor others are aliased to, a
Concat that is not sure to be folded and may lie in another pool than its
operand, and a Concat whose operands are on another thread; and those around the
`AllReduce` and the forced pairs of the list at the end of this section. Within this class
nothing is left out; outside of them the plan is known to be wrong for some
programs, and the runs do not say for which others it is right. Compilations and
iterations end, and so do allocations and the passes of `WavefrontFusion` and
`KernelFusion`, hence
`CHECK_DEADLOCK FALSE`; `MCBlockFusion` has it because a launch with more thread
blocks than the GPU holds may really stop. `MCBarrier` and `MCAsyncExec` go on for
ever and check deadlock.

Runs that end in a violation, each of a statement the repository makes:

* `MCDestroyedResult`. `K = Kernel(P); O = Reshape(K); E = Elementwise(K);
  Result(O)`. `O` lies in `K`. `E` is the last reader of `K`, and
  `inplace_tensor_analysis.cpp:272-278` lets it overwrite `K`: it looks at the
  free list and the aliases of its input, not at the tensors aliased to it. `O`
  is destroyed before it is handed out.
* `MCReusedSpace`. `tensor.hpp:91` says persistent tensors "do not reuse any
  memory space"; one that is in place on an ordinary tensor is in the pool of
  that tensor's stream, where others have been.
* `MCUnwrittenConcat`. `concat.cpp:84` compares offsets but not pools: a Concat
  at offset 0 of group `persist`, whose operand is at offset 0 of a stream's
  group, is left out of the program, and its output is never written. The groups
  differ without persistence too, when the operand is in place on a tensor of
  another stream; the class of the passing runs excludes both.
* `MCCrossThreadConcat`. Folding a Concat moves its allocation to its first
  operand's instruction (`inplace_tensor_analysis.cpp:227-234`); when the
  operands are on another thread, nothing orders them after the last user of
  the bytes, and they overwrite the workspace of a kernel that still runs.
* `MCRangeWait`. Where executors share a branch, `emit_range_block_executor`
  (`blockfusion_codegen.cpp:618`) puts no `__syncthreads` before a step.
  Thread 0 announces that the kernel is done while other threads of its thread
  block still run it. `block_parallel_device.cpp:156` says "group wait for
  dependency_kernels". In a branch of its own an executor has the
  `__syncthreads`, and `DependenciesDone` says what holds in both: all threads are
  done there, and at least thread 0 in a shared branch.

More things the models show, without a statement in the repository that they
contradict:

* `AllReduce` overwrites its input (`allreduce.cpp:35`), in its pair as in a block of
  its own, and `op_inplace_pass.cpp:83-87` says that it does not. If a later
  instruction reads the input, or the input is a Parameter or has aliases, it gets
  the sum. Gradients are read by the update alone in the usual case, but
  the rewrites that insert AllReduce (`gradient_weight_mapping_pass.cpp:64`,
  `superscaler_dataparallelism_pass.cpp:202`) do not look at other readers.
* A forced pair is taken whoever reads the operand: the pass logs "has potential
  side effects" (`inplace_tensor_analysis.cpp:283`) and goes on. A reader that comes
  after the update gets the updated value. The autodiff pass orders all readers of a
  weight before its update by control edges (`autodiff/parameter.cpp:44-47`);
  `gradient_weight_mapping_pass.cpp:66-82` adds none. The class has updates that come
  after the other readers of their operand (`UpdatedLast`).
* An update of a Parameter, and what is aliased to its output, get the offset
  `SIZE_MAX` of a tensor without a place. No check notices: the assignment of the
  address is emitted as a comment (`memory_allocator.cpp:308`), and
  `codegen_mem_ref` sets the address of the update's output when its kernel is called.
  An alias of that output, a Reshape of the updated weight, has no such line and so
  no address at all. The class leaves such aliases out; `PassesAgree` allows
  `SIZE_MAX` for what lies in a Parameter only.
* `SplitGroup` lets a group larger than `MAX_GROUP` through when what is
  pending is cut off before a part that is itself larger
  (`blockfusion_optimizer.cpp:400-405`; it takes seven nodes).
* `MergeGroups` looks at the first group when there is none
  (`blockfusion_optimizer.cpp:484`), an exception at fusion level 2 if no kernel
  can be fused (phase `thrown`).
* A broadcast with several readers is copied for each member of a group that
  reads it, with `add_node_and_edge(op, GNodeVector({source}))`
  (`kernel_fusion_pass.cpp:480`), which reads output 0, whichever output the
  broadcast reads: behind a node with several outputs the fused kernel computes
  with the wrong tensor, or the shapes do not fit. `MCKernelFusion` with
  `Graphs <- SecondOutputGraphs` violates `OperandsKept`.
* A broadcast with one data edge is fused into the group that reads it, also if
  another node waits for it by a control edge (`kernel_fusion_pass.cpp:467-472`
  counts data edges). If the group reads that node too, the fused node and that
  node depend on each other, and the order of the graph breaks the dependency:
  `Graphs <- AwaitedBroadcastGraphs` violates `RunsTheGraph`. A reshape that is
  pruned from the middle of a group and has control edges on both sides would do
  the same. Control edges come from control inputs of TensorFlow graphs
  (`graph_convert.cpp:3587`) and from loops of ONNX ones (`loop.cpp:304`).

## 4. Fairness

* `MCBarrier`: weak fairness of the steps of a thread: the operating system
  preempts threads but does not stop them. Strong fairness of taking the mutex: a
  thread that finds it free again and again gets it in the end, as mutexes of the
  generated program's platforms provide; weak fairness would let one waiter starve
  behind others that are woken for no reason. There is none for
  `SpuriousWakeup` (nothing may rely on it) and none for `Reset` (no property
  needs that another iteration begins: `[]<>(pc[w] = "out")` also holds when the
  program stays after the last one).
* `MCAsyncExec`: weak fairness of `Work`, the steps of all threads, workers and
  streams together: as long as one of them can go on, one does. That is less than
  fairness of each; a call has finitely many steps, so it is enough, and it makes
  `EveryCallReturns` a statement about circular waits and nothing else. No
  fairness of `Call`.
* `MCBlockFusion`: the same of `Move`. A wait is modelled by its end, a thread that
  spins is one that cannot go on, so that spinning does not count as progress.

## 5. What is proved

For every value of the constants that satisfies the named assumptions
(`PoolAssumption`: a pool and an alignment of at least one byte;
`AllocatorAssumption`: finitely many tensors, sizes in `Nat`, some of the three
schemes, `None` is no tensor and no number; `BarrierAssumption`: finite non-empty
sets of notifiers and waiters that are disjoint; `AsyncAssumption` and
`WorkersAssumption`: graphs in program order all of whose nodes are needed, any
numbers of streams, a worker at least; `DeviceAssumption`: groups whose kernels
depend on earlier ones, an executor and a thread at least; `FusionAssumption`:
finite graphs as `add_edge` makes them, in which edges go from lower to higher ids
each from one of the outputs its source has (any number of them), and the inputs of
each node are numbered and have one edge each, and a `MAX_GROUP` of at least one; `PlanAssumption`: programs of bounded, arbitrary length, the stream 0 among the streams):

* **Allocator** (`MemoryAllocatorProofs`): `TypeCorrect`, `ChecksHold`,
  `ListTilesPool`, `FreeNodesAreJoined`, `TensorsDoNotOverlap`,
  `BlocksAreNotLeaked`, `PoolIsLargeEnough`, `BlocksStartAligned`, the two action
  properties `HolesAreUsedFirst` and `ThrowsOnlyWhenFull`, and the refinement
  `AllocatorIsAPool`. None of these is inductive: that
  `free` finds a node at the offset of its tensor needs to know which nodes are
  blocks, and that it may give the node back needs to know what the counts
  count. `IInv` adds: references are one level deep (`RootsAreFlat`), the count
  of a root is the number of its users (`CountsUsers`), a reference lies inside
  its root (`InsideRoot`), the taken nodes are the blocks of the roots with users
  (`NodesAreBlocks`; `BlocksPileUp` without reuse), and blocks end below the
  high-water mark. `StructureProofs` has the facts about the list (`CarveTakes`,
  `ReleaseGivesBack`); the five `Users...` lemmas say how the set of users of a
  root changes with each action; then there is one lemma per action. Alignment
  needs one more invariant on top (`OffsetsAligned`): nodes start at multiples of
  `m_alignment`, as `align` returns such multiples (`AlignRounds`) and `Carve`
  adds one to an offset. That a hole is used first, and that `bad_alloc` is thrown
  only when no free range is long enough, rest on every byte being in a node
  (`NodeAt`) and on a FREE node being followed by a block or by the end of the pool
  (`ClearRangeIsServed`, `AbovePeak`). The refinement maps `Allocate` to `Reserve`,
  `AllocateRef` to `Share` and `Free` to `Drop`.
* **Barrier** (`BarrierProofs`): `BarrierInvariant`, from it `BarrierTypes`, `NoAssertFails`,
  `WaitsForAll`, `ResetMeetsNobody` and the refinement `BarrierIsALatch`. The
  invariant says that the counter is twice the calls that are missing plus the
  flag, that one notifier at most is about to wake, only after all have called,
  and that whoever sleeps still has somebody to wake him (`WakeInOrder`).

* **Asynchronous execution** (`AsyncExecProofs`): `AsyncInvariant`, from it
  `AsyncTypes`, `OperandsAreReady`, `DefaultIsAlone`, `ResetsAreQuiet` and the
  refinement `AsyncIsDataflow`. The invariant has two halves. Of the pass: what
  is still on the stack or visited is closed under operands, so that a walk that
  ends has given a thread or stream to every node (`Walks`), the default thread
  and stream are given to all or none (`ThreadsAssigned`, `StreamsAssigned`), and
  the marks are those of the rule (`SyncsAssigned`). Of the run: `default_barrier`
  counts the thread functions still to end (`TasksCounted`), threads go in program
  order, and what a launched kernel needs is done or among what its stream waits
  for (`KernelsOrdered`), because whatever is on another thread has been notified,
  hence issued, hence its event recorded.
* **A fused kernel** (`BlockFusionProofs`): `FusionInvariant`, from it
  `FusionTypes`, `BranchesDoTheirOwn` and `DependenciesAreDone`. Of the lists: between a block
  and each of those it depends on there is a step on the one executor and, for the
  same number, a wait on the other (`BlocksGuarded`), and steps grow on each
  executor (`StepsGrow`), so that a word that is large enough means this step or a
  later one. Of the launch: a word holds a step that thread 0 has gone through
  (`FlagsArePast`), whoever is past a wait has seen it served (`WaitsAreOver`), and
  threads meet at `__syncthreads` (`ThreadsMeet`). The last part has
  `PlacementInvariant` and from it `BlocksAreExecutedOnce`: the places of the ready
  executors are the numbers below their count (`PlacesDiffer`, `PlacesAreTaken`), so
  that the executor and the index of a block are the remainder and the quotient of
  its number (`DivisionIsUnique`), an executor has as many blocks as it takes to get
  there (`EnoughBlocks`), appending to the lists moves nothing, and the launch
  reaches the last list that is not empty (`GridHasThem`).

* **The groups and their graph** (`WavefrontFusionProofs`): `AlwaysIInv`, from it
  `WavefrontTypes`, `GroupsAreInOrder` and `OperandsAreKept`. `GroupsInOrder` speaks
  of the time after `ExtractFusionGroups`; the invariant says the same of the nodes
  visited so far (`GroupsSoFar`), and that the nodes that wait do so once, unvisited
  and with all their sources visited (`WaveIsReady`), which makes every wave a set
  of nodes that do not depend on each other. Splitting and merging leave the
  concatenation of all groups as it is: the cuts of `SplitGroup` cover the kernels
  one after another without a gap, because `CutAt` keeps what has been cut plus what
  is pending equal to what has been passed (`CutAtKeeps`, `CutsOfParts`,
  `PiecesKeepKernels`). `OperandsKept` is inductive with what the steps compute with
  (`Shapes`) and with the fact that no id is used again (`GraphAndPhase`): an edge
  from outside gets the slot of its input among those of the fused node, which is
  the number of data edges met up to it (`DataNumbered`, `SlotOfData`), and an edge
  of the group is met once because a kernel is in the group once (`IntoEdges`,
  `FromEdges`). That all of this holds of what recursive functions compute
  (flattening, `ReverseDFS`, the cuts) is shown by induction on the set of numbers
  up to which it does (`EveryNumber`, `EverySequence`), and for the functions
  themselves, after a proof that there is a function with that recursion
  (`FlatExists`, `StepsExist`).

  The second half has `AlwaysRInv` and from it `GraphIsRun`: after every fusing, the
  order of `get_ordered_ops` has every live kernel once and after its operands.
  `RInv` adds to `IInv` why the graph stays acyclic. From each group on there is a
  set of nodes that the edges do not leave, into which every edge out of the group
  leads, and in which no kernel of it or of an earlier group is (`GroupsFollow`).
  While groups are extracted that set is what has not been visited
  (`OneMoreGoesOn`). A merge keeps it because `CheckGroupMergeable` has followed all
  paths from the frontier of the first group (`ReachedClosed`: the search of
  `Cardinality(nodes)` rounds ends with a closed set). Fusing then puts one node in
  the place of some (`KernelsPlaced`, `EdgesPlaced`), and a relation that orders the
  old nodes gives one that orders the new ones (`NoCycle`, `FuseNoCycle`): a path
  from the fused node to itself would leave the group and come back. The walk itself
  is in `StructureProofs` (`WalkOrder`, `OpsAreOrdered`): in a graph without cycles
  each node on the stack that has been entered waits only for what is above it
  (`StackOK`), and each step uses up one of the steps that are allowed
  (`OnwardInTime`), so that the stack is empty at the end. The live nodes are in the
  least set that holds the outputs and the sources of its members (`ActiveNeeded`),
  therefore in the order of the fused graph.

* **The fusing of elementwise nodes** (`KernelFusionProofs`): `GroupsStayApart` (property `GroupsApart`), that no
  node is in two element groups and each group lists its nodes once, for all graphs,
  levels and limits on arguments. The groups are rewritten three times before they are fused, and the
  invariant `KInv` says of each stage why it keeps them apart:
  * During the extraction a node is in one of the two queues exactly when it is not
    visited and all that it depends on is (`Queues`), so it is taken once, and the
    groups, with the one that is open, hold visited nodes, each once (`GroupsGather`,
    `QueuesKeep`).
  * When a group is looked at for broadcasts, one that several nodes read is copied,
    and the copy has a new id; one that is not copied is read by the node at hand and
    by no other by data. Hence what a group has absorbed is read in that group only, and a
    later group, which has other elements, cannot absorb it again (`Absorbing`,
    `AbsorbsCopy`, `AbsorbsTaken`). That holds after each edge (`AbsorbedStep`), so it is
    shown by induction over the edges (`AbsorbedInSteps`). The copy keeps the graph one in
    which a node has the edges of the broadcast that it is a copy of (`Unfused`).
  * The parts of a group are disjoint sets whose union is the group (`Whole`,
    `JoinKeeps`, `PartsIs`), and each is put into the place of the group in order of
    the nodes (`PartsSequences`, `SplitGroups`).
  * `get_ordered_ops` has each node once, as in `WavefrontFusion`: until nodes are fused,
    an edge goes from the lower to the higher of two kernels (`UnfusedNoCycle`).

  The same module proves, of graphs that are plain (`IsPlain`: nothing waits for a
  reshape or a broadcast, or they for it, by a control edge, and broadcasts read the
  first output of a node): `KernelsFitTogether` (property `FusedAlike`),
  `OperandsAreKept` (`OperandsKept`) and `FusedGraphIsRun` (`RunsTheGraph`). The
  hypothesis is that of the theorems alone; it is needed, as on other graphs the pass
  goes wrong (section 3), and it is true of every graph of the run
  (`PlainAssumption`). Behind them is a second invariant, `PInv`:
  * Nodes have times (`Timed`): those of a group have the same, an edge leads to a later
    node or stays within a group, and there it leads forward (`InSequence`). So no
    cycle goes through a group that is still to be fused (`TimedNoCycle`).
  * The extraction gives a node that is not fused, and each element group, a time
    later than all before (`VisitTimes`, `VisitElementPInv`): what an element makes ready waits
    behind it in the same group or in a later one.
  * A broadcast that is absorbed is moved up to the time of the group, as all that reads
    it is in the group and what it reads is earlier (`Raised`, `AbsorbsWellCopy`,
    `AbsorbsWellTaken`); what is dropped, a reshape that nothing in the group reads,
    moves behind the group, in the order it had there (`KeptIsRead`, `Retimed`). Parts
    of a group have no edges between them (`EdgeInPart`, `PartsTimed`).
  * Until the fusing, each node reads and yields what its kernel does in the given graph,
    from nodes with the kernels that this one reads (`Covers`, `CopyCovers`). From then
    on the edges bring each input the tensor that it was made to read (`Supplied`), what a
    kernel depends on is before it in its node or in a node from which an edge comes
    (`Preceded`), and the kernels of live nodes are in every set of nodes that has the
    results and what its nodes depend on (`AllRun`). One lemma each says that
    `Fused` keeps these (`FusedSupplied`, `FusedPreceded`, `FusedAllRun`,
    `FusedAreAlike`, `FusedTimed`).
  * The nodes of a group have one size and home (`AllAlike`): an element is compared
    with the last one, and a broadcast has the home of its reader and, as its reader
    is elementwise or a reshape, its size. At level 3 a part of more than one node is
    connected (`Whole`), so each of its kernels has an edge with another (`PartLinked`).

* **The planning passes** (`TensorPlanProofs`): `PlanInvariant`, from it `PlanTypes`,
  `ThePassesAgree` and `AllElseIsReclaimed`, for programs of any length, operators,
  operands and streams, whatever `Allowed` and `Sharing` select, pools of any
  size and any alignment. Each of the passes relies on what the one before has left, and
  the invariant says what that is:
  * The free lists are a function of the program (`AnalysisOK`), and a tensor is
    last seen at one instruction only (`FreedOnce`).
  * The in-place analysis moves allocations to earlier instructions, never later,
    and never behind the tensor that is referred to (`ListsOK`, `MappingOK`: a
    reference is to a tensor allocated earlier, namely an operand, or to the Concat that
    the operand is folded into). While it runs, the use count of a tensor is no less
    than the number of tensors that lie in it and are still to be freed (`AliasesOK`);
    this is why the count never drops below zero. It is no more than a bound: a
    folded Concat takes over the counts of its operands, and what has been freed
    before is counted as well.
  * What lies in a Parameter has no block: it may be without an offset, and the
    Parameter is in use for good, as its own use is never given up. No other root is a
    tensor without a block (`PlacesOK`), so that every reference finds its root placed
    and with a count above zero, which is what the checks of `allocate` ask for.
  * In the layout pass the reference count of a tensor with a block of its own is
    the number of placed tensors in it that are not freed (`CountsOK`); with shared memory
    the allocated nodes of a pool are the blocks of the tensors whose count is
    positive, no two at one offset (`BlocksOK`). A tensor is freed at its last
    instruction, after all allocations there (`FreedOK`), so that what a new
    reference refers to is still in use (`ParentInUse`, `RootInUse`): its last
    reader is the instruction at hand or a later one.
  * What the pass has left behind has a place, and is freed or has a persistent
    root (`PassedOK`).

  The proof has one lemma per action (`VisitKeeps`, `AnalyseKeeps`, `PairAgrees`,
  `ConcatAgrees`, `NotInplaceAgrees`, `AllocateNewKeeps`, `AllocateRefKeeps`,
  `FreeKeeps`, `NextInstructionKeeps`); the lemmas about node lists serve it as they serve
  the allocator. `AllElseIsReclaimed` says of what is still allocated after the pass that its root is
  persistent or that another stream uses it; tensors of two streams are never freed.
  `PlanAssumption` says of `None` that it is no number, place or mapping.

The invariants are over sets of any size; they were first checked by TLC on the
runs' instances, that of `TensorPlan` on all programs of up to four instructions on
two streams, of five on one, and of six with fewer operators, `RInv` on all graphs of
four nodes and most of its parts on those of five. `PInv` speaks of times, which are
any integers, and is only proved.

## 6. What is only model-checked

* Liveness (`EveryWaitReturns`, `EveryCallReturns`, `EveryLaunchFinishes`): the
  prover has no rule for fairness and `ENABLED` here.
* `LiveDataIntact` of `TensorPlan`, which is about the run of the generated program:
  the theorems say that blocks do not overlap and who keeps them. That a byte is not
  overwritten before its last reader, on whatever thread, also needs that a
  destructive operator is the last reader, which does not hold of all programs (section 3):
  `Allowed` would have to be part of the invariant.

## 7. What is not modelled

* Memory: runtime constant folding (`frt_const_folding`, off by default,
  `liveness_analysis.cpp:130-177`) and Variable nodes, which no front end makes (the
  lines that would are commented out, `graph_convert.cpp:3471`), devices and copies
  between them (`add_memcpy_ir`), RDMA and memset pools,
  host entries and external result memory, nested programs (If, Loop, While),
  operators that take another input than the first in place (MatMulAdd), Concats of more
  than two operands, Slices into the middle of a tensor. `TensorPlan` runs one
  iteration. `PoolSize` replaces 2^64 - 1; sums of sizes that overflow `size_t` are
  not modelled.
* Asynchronous execution: the `kernel_prof_based` policy (and with it the cached
  breadth-first order, `graph.cpp:202`, whose check fails after a node was removed),
  several devices, the cap of 1000 asynchronous threads, `fuse_default_stream`
  switched off, super scaler, calls of the CUDA `kernel_entry` one after another
  without a synchronisation in between, fewer workers than thread functions (a
  thread that waits for one still in the queue then stays for ever: the pool has
  `hardware_concurrency()` workers, the flags allow more threads), kernels that
  split their work over the worker pool.
* BlockFusion: weak memory (the step is a volatile store without
  `__threadfence`, `blockfusion_codegen.cpp:334`; the model is sequentially
  consistent), the retry of groups with too many arguments on ROCm, the choice of
  kernels from the database when resources are short, `codegen_opt_level` 1,
  deduplication of kernels and shared memory. `is_ins_step_to_opt` changes
  nothing, as its loop works on a copy of the list (`blockfusion_codegen.cpp:71`).
  The order of the edges within one slot is that of the ids here and that of a
  hash set in the code.
* KernelFusion: the blacklists of operators (a kind here), the `fuse_ready` queue,
  to which nothing is ever added, edges into nodes that no output needs other than
  as readers, and what the fused kernel computes (`ElementWiseFused`).
* Kernel selection and tuning, the other graph rewrites, autodiff, front ends,
  emitters of kernels, HLSL/ROCm/Graphcore output and the Python bindings:
  sequential code whose correctness is that of operators or formats. They, and
  vendored and generated files, are most of the repository's lines.

## 8. Plan

1. *done* `NodeList`, `MemoryAllocator`, `MemoryPool`; `Barrier`, `Latch`;
   `TensorPlan`; `AsyncInfo`, `AsyncExec`, `Dataflow`; `BlockFusion`,
   `WavefrontFusion`, `GraphOrder`, `KernelFusion`, `GraphEdges`; proofs of the
   allocator, the barrier, the asynchronous execution, the fused kernel, the
   groups of BlockFusion in their graph and the walk through it, the groups of
   elementwise nodes and what they are fused to, and the planning passes.
2. Proofs: `LiveDataIntact` of `TensorPlan` for programs on one thread.
3. `TensorPlan`: several iterations, Concats of three operands, nested
   programs.
4. `AsyncInfo`: the `kernel_prof_based` policy with the cached order and its flag.
5. The remaining rewrites that replace several nodes by one (GEMM fusion, pattern
   substitution), on `GraphEdges`.
