----------------------------- MODULE TensorPlan -----------------------------
(***************************************************************************)
(* From a program to the bytes its tensors use.  The visitor turns a graph *)
(* into instructions, each with one output tensor.  Three passes plan the  *)
(* memory: TensorLivenessAnalysis says when a tensor is first and last     *)
(* needed, InplaceTensorAnalysis which tensors may lie in another one, and *)
(* AssignTensorMemoryLayout drives one MemoryAllocator per group.  Then    *)
(* the generated program runs: one thread per stream, each in program      *)
(* order, that waits where it reads what another one writes.               *)
(*                                                                         *)
(* A tensor is named after the instruction that outputs it.  The memory of *)
(* the running program holds atoms <<t, k>>, the k-th byte of the value    *)
(* tensor t should have: what a kernel computes is told apart from what is *)
(* left of any other tensor, and nothing else is.                          *)
(***************************************************************************)
EXTENDS NodeList, FiniteSets, Sequences

CONSTANTS
  Length,     (* the largest number of instructions                       *)
  Ops,        (* the operators that may occur                             *)
  Streams,    (* the ids of the streams (threads of a CPU program)        *)
  Sharing(_), (* the values of ~m_disable_memory_sharing that are tried   *)
              (* with a program: TRUE is that of a CPU, FALSE of CUDA     *)
  Allowed(_), (* the programs of interest, and their prefixes             *)
  None

ASSUME PlanAssumption ==
  /\ Length \in Nat \ {0}
  /\ Ops \subseteq {"Parameter", "Constant", "Kernel", "Scratch", "Elementwise",
                    "Reshape", "Concat", "AllReduce", "Update", "Result"}
  /\ Streams \subseteq Nat /\ 0 \in Streams
  /\ None \notin Nat /\ None \notin [pool : Int, offset : Int]
  /\ None \notin [tensor : Nat, offset : Nat]

VARIABLES
  sharing,    (* whether tensors share memory: the back end of a device    *)
              (* creates the layout pass with this option                  *)
  prog,       (* ir::Program: the instructions in order                    *)
  phase,      (* "visit", "inplace", "layout" or "run"                     *)
  pc,         (* the instruction the pass is at                            *)
  group,      (* Tensor::m_group                                           *)
  persistent, (* the tensors with m_persistent                             *)
  newList,    (* liveness_new_list of each instruction                     *)
  freeList,   (* liveness_free_list of each instruction                    *)
  mapping,    (* InplaceTensorMapping: the parent and the offset in it     *)
  inplace,    (* inplace_inputs: the root tensor and the offset in it      *)
  useCount,   (* inplace_use_count                                         *)
  nodes,      (* m_node_list of the allocator of each group                *)
  peak,       (* m_max_allocated of each of them                           *)
  place,      (* m_pool and m_pool_offset of each tensor; Unset is what    *)
              (* m_pool_offset starts with, SIZE_MAX, or -1 modulo 2^64    *)
  root,       (* m_root_tensor                                             *)
  refCount,   (* m_ref_count                                               *)
  freed,      (* the tensors the layout pass has freed                     *)
  done,       (* the instructions that have run                            *)
  mem,        (* the bytes written so far                                  *)
  outcome     (* "ok", the check that has ended the compilation, or        *)
              (* "unplaced": an offset has been read before it was set     *)

analysis == <<group, persistent, newList, freeList>>
aliases  == <<mapping, inplace, useCount>>
layout   == <<nodes, peak, place, root, refCount, freed>>
running  == <<done, mem>>
vars ==
  <<sharing, prog, phase, pc, analysis, aliases, layout, running, outcome>>

Ins      == 1 .. Length
Temp(i)  == Length + i            (* the workspace of a Scratch kernel *)
Tensors  == 1 .. 2 * Length
Persist  == -1                    (* the group "persist"               *)
Caller   == -2                    (* not a group of ours               *)
Unset    == -1
Pools    == Streams \cup {Persist}

Op(i)      == prog[i].op
Inputs(i)  == {prog[i].in[k] : k \in DOMAIN prog[i].in}
Readers(t) == {i \in DOMAIN prog : t \in Inputs(i)}
Value(t)   == IF t \in DOMAIN prog THEN prog[t].value ELSE <<<<t, 1>>>>
SizeOf(t)  == Len(Value(t))

(* Op::is_tensor_op: parameters and constants have no kernel that reads. *)
IsTensorOp(i) == Op(i) \in {"Parameter", "Constant"}

(* The pairs of OpInplacePass: what an operator may do in its first input, *)
(* or must: an Update is an ApplyGradient of a weight and its gradient.    *)
Forced(i)      == Op(i) = "Update"
Destructive(i) == Op(i) \in {"Elementwise", "Update"}
HasPair(i)     == Op(i) \in {"Elementwise", "Reshape", "AllReduce", "Update", "Result"}

Init ==
  /\ sharing = None
  /\ prog = <<>> /\ phase = "visit" /\ pc = 1
  /\ group = [t \in Tensors |-> None]
  /\ persistent = {}
  /\ newList = [i \in Ins |-> {}] /\ freeList = [i \in Ins |-> {}]
  /\ mapping = [t \in Tensors |-> None]
  /\ inplace = [t \in Tensors |-> None]
  /\ useCount = [t \in Tensors |-> 0]
  /\ nodes = [p \in Pools |-> EmptyPool]
  /\ peak = [p \in Pools |-> 0]
  /\ place = [t \in Tensors |-> None]
  /\ root = [t \in Tensors |-> None]
  /\ refCount = [t \in Tensors |-> 1]
  /\ freed = {} /\ done = {} /\ mem = <<>>
  /\ outcome = "ok"

-----------------------------------------------------------------------------
(* ReversedDFSVisitor::run_on_graph: operands come before their readers,   *)
(* and what no output of the graph depends on is not visited.  Tensor      *)
(* operators are on the default stream.                                    *)

Operands(op) ==
  LET known == {i \in DOMAIN prog : Op(i) # "Result"}
  IN  CASE op \in {"Parameter", "Constant"} -> {<<>>}
        [] op \in {"Elementwise", "Reshape", "AllReduce", "Result"} -> {<<a>> : a \in known}
        [] op \in {"Kernel", "Scratch"} ->
             {<<a>> : a \in known} \cup
             {<<ab[1], ab[2]>> : ab \in {xy \in known \X known : xy[1] < xy[2]}}
        [] op \in {"Concat", "Update"} -> {<<a, b>> : a, b \in known}

Computed(op, in) ==
  CASE op \in {"Reshape", "Result"} -> Value(in[1])
    [] op = "Concat" -> Value(in[1]) \o Value(in[2])
    [] op \in {"Elementwise", "AllReduce", "Update"} ->
         [k \in 1 .. SizeOf(in[1]) |-> <<Len(prog) + 1, k>>]
    [] OTHER -> <<<<Len(prog) + 1, 1>>>>

Visit ==
  /\ phase = "visit" /\ Len(prog) < Length
  /\ \E op \in Ops, s \in Streams : \E in \in Operands(op) :
       /\ op \in {"Parameter", "Constant"} => s = 0
       /\ LET longer == Append(prog, [op |-> op, in |-> in, stream |-> s,
                                      value |-> Computed(op, in)])
          IN  Allowed(longer) /\ prog' = longer
  /\ UNCHANGED <<sharing, phase, pc, analysis, aliases, layout, running, outcome>>

-----------------------------------------------------------------------------
(***************************************************************************)
(* TensorLivenessAnalysis.  The forward pass puts persistent tensors in    *)
(* the group "persist", the others in that of the stream that outputs      *)
(* them, and notes the tensors it meets on a second stream; a tensor that  *)
(* is persistent when its group is set counts as one of these.             *)
(***************************************************************************)
IsTensor(t) == t \in DOMAIN prog \/ \E i \in DOMAIN prog : t = Temp(i)

Stream(t) == IF t <= Length THEN prog[t].stream ELSE prog[t - Length].stream

Persistent ==
  {t \in DOMAIN prog : Op(t) \in {"Parameter", "Constant", "Result"}
                       \/ \E i \in Readers(t) : Op(i) = "Result"}

GroupOf(t) == IF t \in persistent' THEN Persist ELSE Stream(t)

CrossStreamIgnored == Persistent   (* mutant *)

CrossStream ==
  {t \in DOMAIN prog :
     t \in Persistent \/ \E i \in Readers(t) : prog[i].stream # Stream(t)}

(* The reverse pass: a tensor is freed by the last instruction it occurs   *)
(* in, unless another stream uses it.                                      *)
LastSeen(i) ==
  {t \in Inputs(i) \cup {i} : \A j \in Readers(t) : j <= i} \ CrossStream

TemporariesOf(i) == IF Op(i) = "Scratch" THEN {Temp(i)} ELSE {}

Analyse ==
  /\ phase = "visit" /\ prog # <<>>
  /\ \A t \in DOMAIN prog : Op(t) = "Result" \/ Readers(t) # {}
  /\ persistent' = Persistent
  /\ group' = [t \in Tensors |-> IF IsTensor(t) THEN GroupOf(t) ELSE None]
  /\ newList' = [i \in Ins |-> IF IsTensor(i) THEN {i} ELSE {}]
  /\ freeList' = [i \in Ins |-> IF IsTensor(i) THEN LastSeen(i) ELSE {}]
  /\ phase' = "inplace"
  /\ UNCHANGED <<sharing, prog, pc, aliases, layout, running, outcome>>

-----------------------------------------------------------------------------
(* InplaceTensorAnalysis, one instruction after the other. *)

RootOf(t, where) == IF where[t] = None THEN t ELSE where[t].tensor
OffsetOf(t, where) == IF where[t] = None THEN 0 ELSE where[t].offset

(* A pair is taken if it does not destroy its input, or nothing else seems *)
(* to need the input any more; a forced one is taken in any case, also in  *)
(* a tensor of the caller.                                                 *)
MayDestroy(i, t) ==
  /\ Op(t) # "Constant"
  /\ t \notin persistent
  /\ inplace[t] # None => useCount[inplace[t].tensor] = 0
  /\ t \in freeList[i]

TakesPair(i) ==
  /\ HasPair(i)
  /\ Op(prog[i].in[1]) = "Parameter" => Forced(i)
  /\ i \in newList[i]
  /\ Forced(i) \/ (Destructive(i) => MayDestroy(i, prog[i].in[1]))

(* A Concat whose operands can all be output right where it wants them: an *)
(* operand that lies at the start of another tensor of its size stands for *)
(* that tensor.                                                            *)
Candidate(t) == RootOf(t, inplace)

HasDuplicates(i) ==
  LET in == prog[i].in
  IN  \E k, l \in DOMAIN in :
        k # l /\ RootOf(Candidate(in[k]), inplace) = RootOf(Candidate(in[l]), inplace)

Foldable(i) ==
  LET in == prog[i].in
  IN  /\ \A k \in DOMAIN in :
           /\ Op(in[k]) # "Parameter"
           /\ inplace[in[k]] # None =>
                /\ inplace[in[k]].offset = 0
                /\ SizeOf(inplace[in[k]].tensor) = SizeOf(in[k])
                /\ Op(inplace[in[k]].tensor) # "Parameter"
           /\ mapping[Candidate(in[k])] = None
      /\ ~HasDuplicates(i)

(* The uses that end with the instruction. *)
Ended(i, where, t) ==
  Cardinality({u \in freeList[i] : where[u] # None /\ RootOf(u, where) = t})

(* The end of the loop body: the uses that end are taken off the counts. *)
CountUses(i, where, count) ==
  /\ inplace' = where
  /\ outcome' = IF \E t \in Tensors : count[t] < Ended(i, where, t)
                THEN "check" ELSE outcome
  /\ useCount' = IF \E t \in Tensors : count[t] < Ended(i, where, t)
                 THEN count
                 ELSE [t \in Tensors |-> count[t] - Ended(i, where, t)]

InplacePair(i) ==
  LET t == prog[i].in[1]
      r == RootOf(t, inplace)
  IN  /\ TakesPair(i)
      /\ mapping' = [mapping EXCEPT ![i] = [tensor |-> t, offset |-> 0]]
      /\ CountUses(i,
           [inplace EXCEPT ![i] = [tensor |-> r, offset |-> OffsetOf(t, inplace)]],
           [useCount EXCEPT ![r] = @ + 1])
      /\ UNCHANGED <<group, persistent, newList>>

FirstCandidate(operands) == CHOOSE t \in operands : \A u \in operands : t <= u

(* The operands become references into the output, which is allocated at   *)
(* the first of them, and so do the tensors that refer to an operand.      *)
InplaceConcat(i) ==
  LET in == prog[i].in
      operand == [k \in DOMAIN in |-> Candidate(in[k])]
      operands == {operand[k] : k \in DOMAIN in}
      at == [t \in operands |->
               IF t = operand[1] THEN 0 ELSE SizeOf(operand[1])]
      first == FirstCandidate(operands)
      moved(t) ==
        IF t \in operands THEN [tensor |-> i, offset |-> at[t]]
        ELSE IF inplace[t] # None /\ inplace[t].tensor \in operands
                /\ useCount[inplace[t].tensor] > 0
             THEN [tensor |-> i,
                   offset |-> at[inplace[t].tensor] + inplace[t].offset]
             ELSE inplace[t]
      count == [t \in Tensors |->
                  IF t = i THEN useCount[i] + Len(in) + useCount[operand[1]]
                                + useCount[operand[2]]
                  ELSE IF t \in operands THEN 0 ELSE useCount[t]]
  IN  /\ Op(i) = "Concat" /\ Foldable(i)
      /\ mapping' = [t \in Tensors |->
                       IF t \in operands THEN [tensor |-> i, offset |-> at[t]]
                       ELSE mapping[t]]
      /\ IF operands \cap persistent # {}
         THEN /\ persistent' = persistent \cup {i}
              /\ group' = [group EXCEPT ![i] = Persist]
         ELSE UNCHANGED <<persistent, group>>
      /\ IF i \in newList[i] /\ i \notin newList[first]
         THEN /\ newList' = [newList EXCEPT ![first] = @ \cup {i}, ![i] = @ \ {i}]
              /\ CountUses(i, [t \in Tensors |-> moved(t)], count)
         ELSE /\ outcome' = "check"
              /\ UNCHANGED <<newList, inplace, useCount>>

NotInplace(i) ==
  /\ ~TakesPair(i) /\ ~(Op(i) = "Concat" /\ Foldable(i))
  /\ CountUses(i, inplace, useCount)
  /\ UNCHANGED <<mapping, group, persistent, newList>>

Inplace ==
  /\ phase = "inplace" /\ outcome = "ok"
  /\ InplacePair(pc) \/ InplaceConcat(pc) \/ NotInplace(pc)
  /\ IF pc = Len(prog)
     THEN pc' = 1 /\ phase' = "layout" /\ sharing' \in BOOLEAN \cap Sharing(prog)
     ELSE pc' = pc + 1 /\ UNCHANGED <<phase, sharing>>
  /\ UNCHANGED <<prog, freeList, layout, running>>

-----------------------------------------------------------------------------
(***************************************************************************)
(* AssignTensorMemoryLayout: at each instruction first the tensors that    *)
(* get a block, then those that refer to another one, then the frees; each *)
(* of the three lists is a hash set, walked in any order.                  *)
(***************************************************************************)
NewHere ==
  IF Op(pc) = "Parameter" THEN {} ELSE TemporariesOf(pc) \cup newList[pc]

(* InplaceTensorMapping is a tag of the instruction: it says nothing about *)
(* an output that is allocated at another one.                             *)
RefsHere == {t \in NewHere : t = pc /\ mapping[t] # None}

Unplaced(ts) == {t \in ts : place[t] = None}

TopOf(t) == IF root[t] = None THEN t ELSE root[t]

FreeWithoutTemporaries ==   (* mutant *)
  IF ~sharing \/ Op(pc) = "Parameter" THEN {}
  ELSE {t \in freeList[pc] : TopOf(t) \notin persistent} \ freed

FreeHere ==
  IF ~sharing \/ Op(pc) = "Parameter" THEN {}
  ELSE {t \in TemporariesOf(pc) \cup freeList[pc] : TopOf(t) \notin persistent} \ freed

(* MemoryAllocator::allocate(tensor), first_fit or no_reuse. *)
AllocateNew(t) ==
  LET p == group[t]
      size == Align(SizeOf(t))
  IN  /\ t \notin RefsHere
      /\ IF sharing
         THEN \E o \in FirstFit(nodes[p], size) :
                /\ nodes' = [nodes EXCEPT ![p] = Carve(@, o, size)]
                /\ peak' = [peak EXCEPT ![p] = IF o + size > @ THEN o + size ELSE @]
                /\ place' = [place EXCEPT ![t] = [pool |-> p, offset |-> o]]
         ELSE /\ place' = [place EXCEPT ![t] = [pool |-> p, offset |-> peak[p]]]
              /\ peak' = [peak EXCEPT ![p] = @ + size]
              /\ UNCHANGED nodes
      /\ UNCHANGED <<pc, phase, root, refCount, freed, outcome>>

(* What a tensor refers to is the root of its parent, if the parent is a   *)
(* reference itself.                                                       *)
ParentToShare(t) == mapping[t].tensor   (* mutant: in any case the parent *)

RootToShare(t) == TopOf(mapping[t].tensor)

(* MemoryAllocator::allocate(tensor, root_tensor, offset) and its checks.  *)
(* A Parameter has no offset, and what lies in it gets none either.        *)
AllocateRef(t) ==
  LET parent == mapping[t].tensor
      r == RootToShare(t)
      base == IF place[parent] = None THEN Unset ELSE place[parent].offset
  IN  /\ t \in RefsHere
      /\ Unplaced(NewHere \ RefsHere) = {}
      /\ place' = [place EXCEPT ![t] = [pool |-> group[r], offset |-> base + mapping[t].offset]]
      /\ root' = [root EXCEPT ![t] = r]
      /\ refCount' = [refCount EXCEPT ![r] = @ + 1]
      /\ outcome' = IF root[r] # None \/ refCount[r] < 1 THEN "check"
                    ELSE IF place[parent] = None /\ Op(parent) # "Parameter" THEN "unplaced"
                    ELSE outcome
      /\ UNCHANGED <<pc, phase, nodes, peak, freed>>

(* MemoryAllocator::free(tensor). *)
Free(t) ==
  LET r == TopOf(t)
      p == place[r].pool
      last == refCount[r] = 1
  IN  /\ Unplaced(NewHere) = {}
      /\ refCount' = IF refCount[r] > 0 THEN [refCount EXCEPT ![r] = @ - 1] ELSE refCount
      /\ nodes' = IF last /\ place[r].offset \in DOMAIN nodes[p]
                  THEN [nodes EXCEPT ![p] = Release(@, place[r].offset)] ELSE nodes
      /\ outcome' = IF refCount[r] = 0 THEN "check"
                    ELSE IF last /\ place[r].offset \notin DOMAIN nodes[p]
                    THEN "bad_free" ELSE outcome
      /\ freed' = freed \cup {t}
      /\ UNCHANGED <<pc, phase, peak, place, root>>

NextInstruction ==
  /\ Unplaced(NewHere) = {} /\ FreeHere = {}
  /\ phase' = IF pc = Len(prog) THEN "run" ELSE phase
  /\ pc' = IF pc = Len(prog) THEN 1 ELSE pc + 1
  /\ UNCHANGED <<layout, outcome>>

Layout ==
  /\ phase = "layout" /\ outcome = "ok"
  /\ \/ \E t \in Unplaced(NewHere) : AllocateNew(t) \/ AllocateRef(t)
     \/ \E t \in FreeHere : Free(t)
     \/ NextInstruction
  /\ UNCHANGED <<sharing, prog, analysis, aliases, running>>

-----------------------------------------------------------------------------
(***************************************************************************)
(* One iteration of the generated program.  Constants are written by its   *)
(* init function.  A thread runs its instructions in program order and     *)
(* waits for the barriers of the instructions of other threads whose       *)
(* outputs it reads (assign_event_info).                                   *)
(***************************************************************************)
Ready(i) ==
  \A j \in DOMAIN prog \ done :
    /\ IsTensorOp(j) => IsTensorOp(i) /\ i <= j
    /\ prog[j].stream = prog[i].stream => i <= j
    /\ j \notin Inputs(i)

(* The tensor whose address a tensor has: before the kernel of a forced    *)
(* pair runs, its output is made to point where its input does.            *)
Address(t) ==
  LET address[u \in Ins] ==
        IF u \in DOMAIN prog /\ Forced(u) THEN address[prog[u].in[1]] ELSE u
  IN  IF t \in Ins THEN address[t] ELSE t

(* The bytes of a tensor: parameters lie in the caller's own buffers, and  *)
(* nowhere what has been given no offset.                                  *)
Nowhere == <<Caller, 0>>

Cell(t, k) ==
  LET u == Address(t)
  IN  IF u \in DOMAIN prog /\ Op(u) = "Parameter" THEN <<Caller, u>>
      ELSE IF place[u].offset = Unset THEN Nowhere
      ELSE <<place[u].pool, place[u].offset + k>>

Contents(t) ==
  [k \in 1 .. SizeOf(t) |->
     IF Cell(t, k) \in DOMAIN mem \ {Nowhere} THEN mem[Cell(t, k)] ELSE None]

Write(t, value) ==
  LET cells == {Cell(t, k) : k \in DOMAIN value}
  IN  mem' = [c \in DOMAIN mem \cup cells |->
                IF c \in cells THEN value[CHOOSE k \in DOMAIN value : Cell(t, k) = c]
                ELSE mem[c]]

(* A Concat is left out of the program when its output starts at the same  *)
(* offset as its first operand, in whatever pool.                          *)
Eliminated(i) ==
  /\ Op(i) = "Concat"
  /\ Op(prog[i].in[1]) # "Parameter"
  /\ place[i].offset = place[prog[i].in[1]].offset

RunKernel(i) ==
  /\ Op(i) \in {"Parameter", "Constant", "Kernel", "Elementwise", "Update"}
  /\ Write(i, Value(i))

(* What a kernel leaves in its workspace is nobody's value. *)
RunScratch(i) ==
  /\ Op(i) = "Scratch"
  /\ LET out == Cell(i, 1)
         tmp == Cell(Temp(i), 1)
     IN  mem' = [c \in DOMAIN mem \cup {out, tmp} |->
                   IF c = out THEN <<i, 1>> ELSE IF c = tmp THEN None ELSE mem[c]]

RunCopy(i) ==
  \/ Op(i) = "Reshape" /\ Write(i, Contents(prog[i].in[1]))
  \/ /\ Op(i) = "Concat" /\ ~Eliminated(i)
     /\ Write(i, Contents(prog[i].in[1]) \o Contents(prog[i].in[2]))

(* On CUDA AllReduce sums up where its input lies, and copies the sum to   *)
(* its output; on a CPU it leaves the input alone.                         *)
RunAllReduce(i) ==
  /\ Op(i) = "AllReduce"
  /\ LET sum == Value(i)
         a   == prog[i].in[1]
         CellsOf(t) == {Cell(t, k) : k \in DOMAIN sum}
         written == CellsOf(i) \cup (IF sharing THEN {} ELSE CellsOf(a))
     IN  mem' = [c \in DOMAIN mem \cup written |->
                   IF c \in written
                   THEN sum[CHOOSE k \in DOMAIN sum : c \in {Cell(i, k), Cell(a, k)}]
                   ELSE mem[c]]

(* The kernel of a Result hands the caller the address of its input. *)
RunNothing(i) ==
  /\ Op(i) = "Result" \/ Eliminated(i)
  /\ UNCHANGED mem

Run(i) ==
  /\ phase = "run" /\ outcome = "ok"
  /\ i \notin done /\ Ready(i)
  /\ RunKernel(i) \/ RunScratch(i) \/ RunCopy(i) \/ RunAllReduce(i) \/ RunNothing(i)
  /\ done' = done \cup {i}
  /\ UNCHANGED <<sharing, prog, phase, pc, analysis, aliases, layout, outcome>>

Next == Visit \/ Analyse \/ Inplace \/ Layout \/ \E i \in DOMAIN prog : Run(i)

Spec == Init /\ [][Next]_vars

-----------------------------------------------------------------------------
TypeOK ==
  /\ sharing \in BOOLEAN \cup {None} /\ Len(prog) <= Length
  /\ phase \in {"visit", "inplace", "layout", "run"} /\ pc \in Ins
  /\ group \in [Tensors -> Pools \cup {None}]
  /\ persistent \subseteq Tensors /\ freed \subseteq Tensors
  /\ newList \in [Ins -> SUBSET Tensors] /\ freeList \in [Ins -> SUBSET Tensors]
  /\ useCount \in [Tensors -> Nat] /\ refCount \in [Tensors -> Nat]
  /\ \A p \in Pools : IsNodeList(nodes[p])
  /\ \A t \in Tensors :
       place[t] # None => place[t].pool \in Pools /\ place[t].offset \in Nat \cup {Unset}
  /\ root \in [Tensors -> Tensors \cup {None}]
  /\ done \subseteq Ins
  /\ outcome \in {"ok", "check", "bad_free", "unplaced"}

(* The three passes fit together: no use is taken off a count that is      *)
(* zero, the output of a Concat is moved once, no block is freed twice,    *)
(* no tensor refers to a reference or to a block that has been given back, *)
(* what a tensor refers to has its place first, and in the end every       *)
(* tensor has one, with an offset unless it lies in a Parameter.           *)
PassesAgree ==
  /\ outcome = "ok"
  /\ phase = "run" =>
       \A i \in DOMAIN prog : Op(i) # "Parameter" =>
         \A t \in {i} \cup TemporariesOf(i) :
           /\ place[t] # None
           /\ place[t].offset = Unset =>
                TopOf(t) \in DOMAIN prog /\ Op(TopOf(t)) = "Parameter"

(* The program computes what the graph says: from the moment a tensor is   *)
(* written to the moment its last reader has run, on whatever thread, its  *)
(* bytes hold its value.  What a Result hands out holds it to the end of   *)
(* the iteration, and a constant, or a weight once it is updated, to the   *)
(* next one.                                                               *)
Updated(t) == \E i \in done : Forced(i) /\ prog[i].in[1] = t

IsWeight(t) == Op(t) = "Constant" \/ (Forced(t) /\ IsTensorOp(TopOf(t)))

Pending(t) ==
  \/ IsWeight(t) /\ ~Updated(t)
  \/ \E i \in Readers(t) : i \notin done \/ Op(i) = "Result"

LiveDataIntact ==
  \A t \in done : Op(t) # "Result" /\ Pending(t) => Contents(t) = Value(t)

(* When the plan is made the pools hold on to nothing but what they must:  *)
(* a block that is still taken has a user that no pass may free, because   *)
(* it is persistent or because another stream uses it.                     *)
BlocksAreReclaimed ==
  phase = "run" /\ sharing =>
    \A p \in Pools : \A o \in Taken(nodes[p]) :
      \E t \in Tensors \ freed :
        /\ place[t] # None
        /\ place[TopOf(t)] = [pool |-> p, offset |-> o]
        /\ TopOf(t) \in persistent \/ t \in CrossStream

(* inplace_tensor_analysis.cpp: "the output should not overwrite the       *)
(* constant tensor, parameter tensor and persistent tensor".               *)
PersistentDataIntact ==
  \A t \in done \cap persistent : Op(t) # "Result" => Contents(t) = Value(t)

(* tensor.hpp: "persistent tensors exist in all iterations, and do not     *)
(* reuse any memory space", neither before nor after them.                 *)
CellsOf(t) == {Cell(t, k) : k \in 1 .. SizeOf(t)}

PersistentKeepsItsSpace ==
  phase = "run" =>
    \A t \in persistent \ {i \in DOMAIN prog : Op(i) = "Parameter"}, u \in Tensors :
      place[u] # None /\ TopOf(t) # TopOf(u) => CellsOf(t) \cap CellsOf(u) = {}

(* batch_test.cpp: "check_kernels<nnfusion::op::Concat>(GENERIC_CPU, ...)": *)
(* the kernel leaves the concatenation of its operands in its output.       *)
ConcatsAreWritten ==
  \A i \in done : Op(i) = "Concat" /\ Pending(i) => Contents(i) = Value(i)
=============================================================================
