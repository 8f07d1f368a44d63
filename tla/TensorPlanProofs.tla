-------------------------- MODULE TensorPlanProofs --------------------------
(***************************************************************************)
(* Theorems about TensorPlan for every program: any length, operators and  *)
(* streams, any size and alignment of the pools, with shared memory or     *)
(* without.                                                                *)
(***************************************************************************)
EXTENDS TensorPlan, StructureProofs

(***************************************************************************)
(* The inductive invariant.                                                *)
(***************************************************************************)

(* A program: operands come before their readers, and the operators whose  *)
(* operands the passes look at have as many as they expect.                *)
Instruction ==
  [op : Ops, in : Seq(Ins), stream : Streams, value : Seq(Nat \X Nat)]

ProgramOK ==
  /\ prog \in Seq(Instruction) /\ Len(prog) <= Length
  /\ \A i \in DOMAIN prog :
       /\ \A k \in DOMAIN prog[i].in : prog[i].in[k] \in 1 .. i - 1
       /\ Op(i) = "Parameter" => prog[i].in = <<>>
       /\ Op(i) = "Concat" => Len(prog[i].in) = 2
       /\ HasPair(i) => Len(prog[i].in) >= 1

(* The tensors that lie in buffers of the caller. *)
IsParameter(t) == t \in DOMAIN prog /\ Op(t) = "Parameter"

(* What a pass has not yet touched. *)
NothingAnalysed ==
  /\ pc = 1
  /\ persistent = {}
  /\ group = [t \in Tensors |-> None]
  /\ newList = [i \in Ins |-> {}] /\ freeList = [i \in Ins |-> {}]
  /\ mapping = [t \in Tensors |-> None]
  /\ inplace = [t \in Tensors |-> None]
  /\ useCount = [t \in Tensors |-> 0]

NothingPlaced ==
  /\ sharing = None
  /\ nodes = [p \in Pools |-> EmptyPool]
  /\ peak = [p \in Pools |-> 0]
  /\ place = [t \in Tensors |-> None]
  /\ root = [t \in Tensors |-> None]
  /\ refCount = [t \in Tensors |-> 1]
  /\ freed = {} /\ done = {}

(* The results of the liveness analysis that the later passes keep. *)
AnalysisOK ==
  /\ pc \in DOMAIN prog
  /\ group \in [Tensors -> Pools \cup {None}]
  /\ \A t \in Tensors : IsTensor(t) => group[t] \in Pools
  /\ freeList = [i \in Ins |-> IF IsTensor(i) THEN LastSeen(i) ELSE {}]
  /\ persistent \subseteq Tensors /\ Persistent \subseteq persistent

(* Every tensor is allocated at an instruction that allocates, no later    *)
(* than it is output, and what it refers to no later than itself; but no   *)
(* instruction allocates a parameter.                                      *)
AllocatedBy(t, i) == \E j \in 1 .. i : t \in newList[j] /\ Op(j) # "Parameter"

ListsOK ==
  /\ newList \in [Ins -> SUBSET DOMAIN prog]
  /\ \A i \in DOMAIN prog : Op(i) # "Parameter" => AllocatedBy(i, i)
  /\ \A j \in Ins : \A t \in newList[j] : IsParameter(t) => t = j

MappingOK ==
  /\ mapping \in [Tensors -> [tensor : DOMAIN prog, offset : Nat] \cup {None}]
  /\ \A t \in Tensors : mapping[t] # None =>
       /\ t \in DOMAIN prog
       /\ AllocatedBy(mapping[t].tensor, t) \/ IsParameter(mapping[t].tensor)
       /\ mapping[t].tensor > t \/ t \in Readers(mapping[t].tensor)

(* The in-place analysis before instruction n: the count of a tensor is no *)
(* less than the number of those that lie in it and are still in use.      *)
InUse(where, r, n) ==
  {u \in Tensors : /\ where[u] # None
                   /\ where[u].tensor = r
                   /\ \A j \in 1 .. n - 1 : u \notin freeList[j]}

AliasesOK(n) ==
  /\ inplace \in [Tensors -> [tensor : Ins, offset : Nat] \cup {None}]
  /\ useCount \in [Tensors -> Nat]
  /\ \A t \in Tensors : inplace[t] # None => t < n /\ inplace[t].tensor < n
  /\ \A t \in Tensors : mapping[t] # None => t < n
  /\ \A i \in DOMAIN prog : i >= n => newList[i] = {i}
  /\ \A i \in DOMAIN prog, j \in Ins : i >= n /\ i \in newList[j] => j = i
  /\ \A r \in Tensors : Cardinality(InUse(inplace, r, n)) <= useCount[r]

(* The layout pass.  A tensor that refers to another one has a place, and  *)
(* so has the other one, which refers to none, unless it is a parameter:   *)
(* only what lies in one has no offset.  The count of a tensor that has    *)
(* its own block is the number of its users that are not freed, and with   *)
(* shared memory the blocks taken are those of the tensors in use.         *)
Placed == {t \in Tensors : place[t] # None}

Allocatable == DOMAIN prog \cup UNION {TemporariesOf(i) : i \in DOMAIN prog}

Users(r) == {u \in Placed \ freed : TopOf(u) = r}

Holders(p) ==
  {r \in Placed : root[r] = None /\ place[r].pool = p /\ refCount[r] > 0}

Spot == [pool : Pools, offset : Nat \cup {Unset}]

PlacesOK ==
  /\ place \in [Tensors -> Spot \cup {None}]
  /\ root \in [Tensors -> Tensors \cup {None}]
  /\ \A t \in Tensors : root[t] # None =>
       /\ t \in Placed /\ root[root[t]] = None
       /\ root[t] \in Placed \/ IsParameter(root[t])
  /\ \A t \in Placed :
       ~ IsParameter(t) /\ (IsParameter(TopOf(t)) \/ place[t].offset \in Nat)
  /\ freed \subseteq Placed /\ Placed \subseteq Allocatable

CountsOK ==
  /\ refCount \in [Tensors -> Nat]
  /\ \A r \in Tensors : r \notin Placed =>
       refCount[r] >= 1 /\ (IsParameter(r) \/ refCount[r] = 1)
  /\ \A r \in Placed : root[r] = None => refCount[r] = Cardinality(Users(r))

BlocksOK ==
  /\ DOMAIN nodes = Pools
  /\ peak \in [Pools -> Nat]
  /\ \A p \in Pools : IsNodeList(nodes[p])
  /\ sharing => \A p \in Pools :
       /\ \A r \in Holders(p) : place[r].offset \in Taken(nodes[p])
       /\ \A o \in Taken(nodes[p]) : \E r \in Holders(p) : place[r].offset = o
       /\ \A r, s \in Holders(p) : place[r].offset = place[s].offset => r = s

(* The instructions the pass has left. *)
Passed == IF phase = "layout" THEN 1 .. pc - 1 ELSE DOMAIN prog

PassedOK ==
  \A j \in Passed : Op(j) # "Parameter" =>
    /\ newList[j] \cup TemporariesOf(j) \subseteq Placed
    /\ sharing => \A t \in freeList[j] \cup TemporariesOf(j) :
         TopOf(t) \in persistent \/ t \in freed

(* What is freed has met its last instruction, and when that is the one    *)
(* the pass is at, nothing is left to allocate there.                      *)
FreedOK ==
  phase = "layout" =>
    \A t \in freed \cap DOMAIN prog : \E j \in 1 .. pc :
      t \in freeList[j] /\ (j = pc => Unplaced(NewHere) = {})

IInv ==
  /\ outcome = "ok"
  /\ ProgramOK
  /\ phase \in {"visit", "inplace", "layout", "run"}
  /\ phase = "visit" => NothingAnalysed
  /\ phase \in {"visit", "inplace"} => NothingPlaced
  /\ phase # "visit" => AnalysisOK /\ ListsOK /\ MappingOK
  /\ phase = "inplace" => AliasesOK(pc)
  /\ phase \in {"layout", "run"} =>
       /\ useCount \in [Tensors -> Nat]
       /\ sharing \in BOOLEAN /\ done \subseteq Ins
       /\ PlacesOK /\ CountsOK /\ BlocksOK /\ PassedOK /\ FreedOK


-----------------------------------------------------------------------------
(***************************************************************************)
(* Tensors and values.                                                     *)
(***************************************************************************)

Atom == Nat \X Nat

(* There are as many tensors as instructions, twice: the names of the      *)
(* workspaces are not those of outputs.                                    *)
LEMMA TensorFacts ==
  /\ Length \in Nat /\ Length > 0
  /\ Ins \subseteq Tensors /\ Ins \subseteq Nat /\ Tensors \subseteq Nat
  /\ \A i \in Ins : Temp(i) \in Tensors \ Ins
  /\ \A i, j \in Ins : Temp(i) = Temp(j) => i = j
  /\ Persist \in Pools /\ Streams \subseteq Pools /\ Pools \subseteq Int
<1>1. Length \in Nat /\ Length > 0 /\ Streams \subseteq Nat
  BY PlanAssumption
<1>2. QED
  BY <1>1 DEF Ins, Tensors, Temp, Persist, Pools

(* Every set of tensors is finite. *)
LEMMA TensorsAreFinite ==
  ASSUME NEW S \in SUBSET Tensors
  PROVE  IsFiniteSet(S) /\ Cardinality(S) \in Nat
<1>1. 2 * Length \in Int /\ 1 \in Int
  BY TensorFacts
<1>2. IsFiniteSet(Tensors)
  BY <1>1, FS_Interval DEF Tensors
<1>3. QED
  BY <1>2, FS_Subset, FS_CardinalityType

(* An element more or less changes the number by one. *)
LEMMA OneMore ==
  ASSUME NEW S \in SUBSET Tensors, NEW t \in Tensors, t \notin S
  PROVE  Cardinality(S \cup {t}) = Cardinality(S) + 1
BY TensorsAreFinite, FS_AddElement

LEMMA OneLess ==
  ASSUME NEW S \in SUBSET Tensors, NEW t \in S
  PROVE  Cardinality(S \ {t}) = Cardinality(S) - 1 /\ Cardinality(S) >= 1
<1>1. S \ {t} \in SUBSET Tensors /\ t \in Tensors /\ t \notin S \ {t}
  OBVIOUS
<1>2. Cardinality((S \ {t}) \cup {t}) = Cardinality(S \ {t}) + 1
  BY <1>1, OneMore
<1>3. (S \ {t}) \cup {t} = S
  OBVIOUS
<1>4. Cardinality(S \ {t}) \in Nat
  BY <1>1, TensorsAreFinite
<1> DEFINE less == Cardinality(S \ {t})
<1>5. Cardinality(S) = less + 1 /\ less \in Nat
  BY <1>2, <1>3, <1>4
<1> HIDE DEF less
<1>6. less = Cardinality(S) - 1 /\ Cardinality(S) >= 1
  BY <1>5
<1>7. QED
  BY <1>6 DEF less

(* A part of a set has no more elements, and what it leaves has the rest.  *)
LEMMA PartCount ==
  ASSUME NEW S \in SUBSET Tensors, NEW T \in SUBSET S
  PROVE  /\ Cardinality(T) <= Cardinality(S)
         /\ Cardinality(S \ T) = Cardinality(S) - Cardinality(T)
<1>1. IsFiniteSet(S) /\ T \subseteq Tensors
  BY TensorsAreFinite
<1>2. Cardinality(T) <= Cardinality(S)
  BY <1>1, FS_Subset
<1>3. Cardinality(S \ T) = Cardinality(S) - Cardinality(S \cap T)
  BY <1>1, FS_Difference
<1>4. S \cap T = T
  OBVIOUS
<1>5. QED
  BY <1>2, <1>3, <1>4

LEMMA UnionCount ==
  ASSUME NEW S \in SUBSET Tensors, NEW T \in SUBSET Tensors
  PROVE  Cardinality(S \cup T) <= Cardinality(S) + Cardinality(T)
<1>1. /\ IsFiniteSet(S) /\ IsFiniteSet(T)
      /\ Cardinality(S) \in Nat /\ Cardinality(T) \in Nat
      /\ S \cap T \in SUBSET Tensors
  BY TensorsAreFinite
<1>2. Cardinality(S \cap T) \in Nat
  BY <1>1, TensorsAreFinite
<1>3. Cardinality(S \cup T) = Cardinality(S) + Cardinality(T) - Cardinality(S \cap T)
  BY <1>1, FS_Union
<1>4. QED
  BY <1>1, <1>2, <1>3

(* An instruction is a record with these fields. *)
LEMMA InstructionAt ==
  ASSUME ProgramOK, NEW i \in DOMAIN prog
  PROVE  /\ i \in Ins /\ i \in Nat /\ DOMAIN prog = 1 .. Len(prog) /\ Len(prog) \in Nat
         /\ prog[i] \in Instruction
         /\ Op(i) \in Ops
         /\ prog[i].in \in Seq(Ins)
         /\ prog[i].stream \in Streams
         /\ prog[i].value \in Seq(Atom)
         /\ Inputs(i) \subseteq 1 .. i - 1
         /\ Inputs(i) \subseteq DOMAIN prog
<1>1. prog \in Seq(Instruction) /\ Len(prog) <= Length /\ Length \in Nat
  BY TensorFacts DEF ProgramOK
<1>2. DOMAIN prog = 1 .. Len(prog) /\ Len(prog) \in Nat /\ prog[i] \in Instruction
  BY <1>1
<1>3. i \in Ins /\ i \in Nat
  BY <1>1, <1>2 DEF Ins
<1>4. Inputs(i) \subseteq 1 .. i - 1
  BY DEF ProgramOK, Inputs
<1>5. 1 .. i - 1 \subseteq DOMAIN prog
  BY <1>2, <1>3
<1>6. QED
  BY <1>1, <1>2, <1>3, <1>4, <1>5 DEF Instruction, Op, Atom

LEMMA ValueIsSequence ==
  ASSUME ProgramOK, NEW t \in Tensors
  PROVE  Value(t) \in Seq(Atom) /\ SizeOf(t) \in Nat
<1>1. CASE t \in DOMAIN prog
  <2>1. Value(t) \in Seq(Atom)
    BY <1>1, InstructionAt DEF Value
  <2>2. QED
    BY <2>1, LenProperties DEF SizeOf
<1>2. CASE t \notin DOMAIN prog
  <2>1. Value(t) = <<<<t, 1>>>>
    BY <1>2 DEF Value
  <2>2. t \in Tensors => <<t, 1>> \in Atom
    BY TensorFacts DEF Atom
  <2>3. t \in Tensors => <<<<t, 1>>>> \in Seq(Atom)
    BY <2>2
  <2>4. QED
    BY <2>1, <2>3, LenProperties DEF SizeOf
<1>3. QED
  BY <1>1, <1>2

(* Lists of one, of two, and of all that is in two lists. *)
LEMMA ShortLists ==
  ASSUME NEW S, NEW a \in S, NEW b \in S
  PROVE  /\ <<a>> \in Seq(S) /\ Len(<<a>>) = 1 /\ <<a>>[1] = a
         /\ <<a, b>> \in Seq(S) /\ Len(<<a, b>>) = 2
         /\ DOMAIN <<a>> = {1} /\ DOMAIN <<a, b>> = {1, 2}
OBVIOUS

-----------------------------------------------------------------------------
(***************************************************************************)
(* The visitor.                                                            *)
(***************************************************************************)

LEMMA OperandsFit ==
  ASSUME ProgramOK, NEW op \in Ops, NEW in \in Operands(op)
  PROVE  /\ in \in Seq(DOMAIN prog)
         /\ op \in {"Parameter", "Constant"} => in = <<>>
         /\ op \in {"Concat", "Update"} => Len(in) = 2
         /\ op \in {"Elementwise", "Reshape", "AllReduce", "Result"} => Len(in) = 1
<1> DEFINE known == {i \in DOMAIN prog : Op(i) # "Result"}
           one == {<<a>> : a \in known}
           pairs == {<<ab[1], ab[2]>> : ab \in {xy \in known \X known : xy[1] < xy[2]}}
           both == {<<a, b>> : a, b \in known}
<1>1. \A s \in one : s \in Seq(DOMAIN prog) /\ Len(s) = 1
  BY ShortLists, ZenonT(60)
<1>2. \A s \in pairs \cup both : s \in Seq(DOMAIN prog) /\ Len(s) = 2
  <2>1. \A a, b \in DOMAIN prog : <<a, b>> \in Seq(DOMAIN prog) /\ Len(<<a, b>>) = 2
    BY ShortLists
  <2>2. \A s \in both : \E a, b \in DOMAIN prog : s = <<a, b>>
    OBVIOUS
  <2>3. \A s \in pairs : \E ab \in known \X known : s = <<ab[1], ab[2]>>
    OBVIOUS
  <2>4. \A ab \in known \X known : ab[1] \in DOMAIN prog /\ ab[2] \in DOMAIN prog
    OBVIOUS
  <2>5. ASSUME NEW s \in both PROVE s \in Seq(DOMAIN prog) /\ Len(s) = 2
    <3>1. PICK a \in DOMAIN prog, b \in DOMAIN prog : s = <<a, b>>
      BY <2>2
    <3>2. QED
      BY <2>1, <3>1
  <2>6. ASSUME NEW s \in pairs PROVE s \in Seq(DOMAIN prog) /\ Len(s) = 2
    <3>1. PICK ab \in known \X known : s = <<ab[1], ab[2]>>
      BY <2>3
    <3>2. ab[1] \in DOMAIN prog /\ ab[2] \in DOMAIN prog
      BY <2>4
    <3>3. QED
      BY <2>1, <3>1, <3>2
  <2> HIDE DEF pairs, both
  <2>7. QED
    BY <2>5, <2>6
<1>3. <<>> \in Seq(DOMAIN prog)
  OBVIOUS
<1> HIDE DEF one, pairs, both, known
<1>4. /\ op \in {"Parameter", "Constant"} => Operands(op) = {<<>>}
      /\ op \in {"Elementwise", "Reshape", "AllReduce", "Result"} => Operands(op) = one
      /\ op \in {"Kernel", "Scratch"} => Operands(op) = one \cup pairs
      /\ op \in {"Concat", "Update"} => Operands(op) = both
  BY DEF Operands, one, pairs, both, known
<1>5. op \in {"Parameter", "Constant", "Kernel", "Scratch", "Elementwise",
              "Reshape", "Concat", "AllReduce", "Update", "Result"}
  BY PlanAssumption
<1>6. CASE op \in {"Parameter", "Constant"}
  BY <1>3, <1>4, <1>6
<1>7. CASE op \in {"Elementwise", "Reshape", "AllReduce", "Result"}
  BY <1>1, <1>4, <1>7
<1>8. CASE op \in {"Kernel", "Scratch"}
  BY <1>1, <1>2, <1>4, <1>8
<1>9. CASE op \in {"Concat", "Update"}
  BY <1>2, <1>4, <1>9
<1>10. QED
  BY <1>5, <1>6, <1>7, <1>8, <1>9

LEMMA ComputedIsSequence ==
  ASSUME ProgramOK, NEW op \in Ops, NEW in \in Operands(op)
  PROVE  Computed(op, in) \in Seq(Atom)
<1>1. prog \in Seq(Instruction) /\ Len(prog) + 1 \in Nat
  BY DEF ProgramOK
<1>2. DOMAIN prog = 1 .. Len(prog)
  BY <1>1
<1>3. \A t \in DOMAIN prog : Value(t) \in Seq(Atom) /\ SizeOf(t) \in Nat
  <2>1. \A t \in DOMAIN prog : t \in Tensors
    BY InstructionAt, TensorFacts
  <2>2. QED
    BY <2>1, ValueIsSequence
<1>4. /\ Len(in) >= 1 => in[1] \in DOMAIN prog
      /\ Len(in) = 2 => in[2] \in DOMAIN prog
  <2>1. in \in Seq(DOMAIN prog)
    BY OperandsFit
  <2>2. QED
    BY <2>1, ElementOfSeq
<1>5. \A k \in Nat : <<Len(prog) + 1, k>> \in Atom
  BY <1>1 DEF Atom
<1>6. CASE op \in {"Reshape", "Result"}
  <2>1. Computed(op, in) = Value(in[1])
    BY <1>6 DEF Computed
  <2>2. QED
    BY <1>3, <1>4, <1>6, <2>1, OperandsFit
<1>7. CASE op = "Concat"
  <2>1. Computed(op, in) = Value(in[1]) \o Value(in[2])
    BY <1>7 DEF Computed
  <2>2. Len(in) = 2
    BY <1>7, OperandsFit
  <2>3. Value(in[1]) \in Seq(Atom) /\ Value(in[2]) \in Seq(Atom)
    BY <1>3, <1>4, <2>2
  <2>4. QED
    BY <2>1, <2>3, ConcatProperties
<1>8. CASE op \in {"Elementwise", "AllReduce", "Update"}
  <2>1. Computed(op, in) = [k \in 1 .. SizeOf(in[1]) |-> <<Len(prog) + 1, k>>]
    BY <1>8 DEF Computed
  <2>2. Len(in) >= 1
    <3>1. /\ op \in {"Concat", "Update"} => Len(in) = 2
          /\ op \in {"Elementwise", "Reshape", "AllReduce", "Result"} => Len(in) = 1
      BY OperandsFit
    <3>2. QED
      BY <1>8, <3>1
  <2>3. SizeOf(in[1]) \in Nat
    BY <1>3, <1>4, <2>2
  <2>4. \A k \in 1 .. SizeOf(in[1]) : <<Len(prog) + 1, k>> \in Atom
    BY <1>5, <2>3
  <2>5. [k \in 1 .. SizeOf(in[1]) |-> <<Len(prog) + 1, k>>] \in [1 .. SizeOf(in[1]) -> Atom]
    BY <2>4
  <2>6. QED
    BY <2>1, <2>3, <2>5, SeqDef
<1>9. CASE op \notin {"Reshape", "Result", "Concat", "Elementwise", "AllReduce", "Update"}
  <2>1. Computed(op, in) = <<<<Len(prog) + 1, 1>>>>
    BY <1>9 DEF Computed
  <2>2. <<Len(prog) + 1, 1>> \in Atom
    BY <1>5
  <2>3. QED
    BY <2>1, <2>2
<1>10. QED
  BY <1>6, <1>7, <1>8, <1>9

LEMMA VisitKeeps ==
  ASSUME IInv, Visit
  PROVE  IInv'
<1> USE DEF analysis, aliases, layout, running
<1>1. ProgramOK /\ phase = "visit" /\ NothingAnalysed /\ NothingPlaced /\ outcome = "ok"
  BY DEF IInv, Visit
<1>2. PICK op \in Ops, s \in Streams :
        \E in \in Operands(op) :
          prog' = Append(prog, [op |-> op, in |-> in, stream |-> s,
                                value |-> Computed(op, in)])
  BY DEF Visit
<1>3. PICK in \in Operands(op) :
        prog' = Append(prog, [op |-> op, in |-> in, stream |-> s,
                              value |-> Computed(op, in)])
  BY <1>2
<1> DEFINE new == [op |-> op, in |-> in, stream |-> s, value |-> Computed(op, in)]
           n == Len(prog) + 1
<1>4. prog \in Seq(Instruction) /\ Len(prog) \in Nat /\ DOMAIN prog = 1 .. Len(prog)
  BY <1>1 DEF ProgramOK
<1>5. Len(prog) < Length /\ Length \in Nat
  BY TensorFacts DEF Visit
<1>6. in \in Seq(DOMAIN prog)
  BY <1>1, OperandsFit
<1>7. DOMAIN prog \subseteq Ins
  BY <1>4, <1>5 DEF Ins
<1>8. in \in Seq(Ins)
  BY <1>6, <1>7, SeqMonotonic
<1>9. new \in Instruction
  BY <1>1, <1>8, ComputedIsSequence DEF Instruction, Atom
<1> HIDE DEF new
<1>10. /\ prog' = Append(prog, new)
       /\ new.op = op /\ new.in = in
  BY <1>3 DEF new
<1>11. /\ prog' \in Seq(Instruction) /\ Len(prog') = n
       /\ DOMAIN prog' = DOMAIN prog \cup {n}
       /\ prog'[n] = new
       /\ \A i \in DOMAIN prog : prog'[i] = prog[i]
  BY <1>4, <1>9, <1>10, AppendProperties
<1>12. ASSUME NEW i \in DOMAIN prog'
       PROVE  /\ \A k \in DOMAIN prog'[i].in : prog'[i].in[k] \in 1 .. i - 1
              /\ Op(i)' = "Parameter" => prog'[i].in = <<>>
              /\ Op(i)' = "Concat" => Len(prog'[i].in) = 2
              /\ HasPair(i)' => Len(prog'[i].in) >= 1
  <2>1. CASE i \in DOMAIN prog
    BY <1>1, <1>11, <2>1 DEF ProgramOK, Op, HasPair
  <2>2. CASE i = n
    <3>1. \A k \in DOMAIN in : in[k] \in 1 .. n - 1
      <4>1. DOMAIN in = 1 .. Len(in)
        BY <1>6
      <4>2. \A k \in DOMAIN in : in[k] \in DOMAIN prog
        BY <1>6, <4>1, ElementOfSeq
      <4>3. QED
        BY <1>4, <4>2
    <3>2. prog'[i].in = in /\ prog'[i].op = op
      BY <1>10, <1>11, <2>2
    <3>4. /\ op \in {"Parameter", "Constant"} => in = <<>>
          /\ op \in {"Concat", "Update"} => Len(in) = 2
          /\ op \in {"Elementwise", "Reshape", "AllReduce", "Result"} => Len(in) = 1
      BY <1>1, OperandsFit
    <3>5. Op(i)' = op /\ (HasPair(i)' => Len(in) = 1 \/ Len(in) = 2)
      BY <3>2, <3>4 DEF Op, HasPair
    <3>6. Len(in) = 1 \/ Len(in) = 2 => Len(in) >= 1
      OBVIOUS
    <3>7. HasPair(i)' => Len(prog'[i].in) >= 1
      BY <3>2, <3>5, <3>6
    <3>8. \A k \in DOMAIN prog'[i].in : prog'[i].in[k] \in 1 .. i - 1
      BY <2>2, <3>1, <3>2
    <3>3. QED
      BY <3>2, <3>4, <3>5, <3>7, <3>8
  <2>3. QED
    BY <1>11, <2>1, <2>2
<1>13. ProgramOK'
  <2>1. Len(prog') <= Length
    BY <1>4, <1>5, <1>11
  <2>2. QED
    BY <1>11, <1>12, <2>1 DEF ProgramOK
<1>14. NothingAnalysed' /\ NothingPlaced'
  BY <1>1 DEF NothingAnalysed, NothingPlaced, Visit
<1>15. phase' = "visit" /\ outcome' = "ok"
  BY <1>1 DEF Visit
<1>16. QED
  BY <1>13, <1>14, <1>15 DEF IInv

-----------------------------------------------------------------------------
(***************************************************************************)
(* The liveness analysis.                                                  *)
(***************************************************************************)

(* A tensor is freed by one instruction at most, the last that reads it;   *)
(* and never one that another stream reads, or that is persistent.         *)
LEMMA SeenLast ==
  ASSUME ProgramOK, NEW i \in DOMAIN prog, NEW t \in LastSeen(i)
  PROVE  /\ t \in DOMAIN prog /\ t <= i
         /\ \A j \in Readers(t) : j <= i
         /\ t \notin CrossStream /\ t \notin Persistent
         /\ t = i \/ (t < i /\ i \in Readers(t))
<1>1. /\ t \in Inputs(i) \cup {i}
      /\ \A j \in Readers(t) : j <= i
      /\ t \notin CrossStream
  BY DEF LastSeen
<1>2. Inputs(i) \subseteq 1 .. i - 1 /\ Inputs(i) \subseteq DOMAIN prog /\ i \in Nat
  BY InstructionAt
<1>3. t \in DOMAIN prog /\ t <= i
  BY <1>1, <1>2
<1>4. t \notin Persistent
  BY <1>1, <1>3 DEF CrossStream
<1>5. t = i \/ (t < i /\ i \in Readers(t))
  BY <1>1, <1>2 DEF Readers
<1>6. QED
  BY <1>1, <1>3, <1>4, <1>5

LEMMA FreedOnce ==
  ASSUME ProgramOK, NEW i \in DOMAIN prog, NEW j \in DOMAIN prog,
         NEW t \in LastSeen(i), t \in LastSeen(j)
  PROVE  i = j
<1>1. /\ \A k \in Readers(t) : k <= i /\ k <= j
      /\ t <= i /\ t <= j
      /\ t = i \/ i \in Readers(t)
      /\ t = j \/ j \in Readers(t)
  BY SeenLast
<1>2. i \in Nat /\ j \in Nat
  BY InstructionAt
<1>3. QED
  BY <1>1, <1>2

LEMMA IsTensorIn ==
  ASSUME ProgramOK
  PROVE  /\ \A i \in Ins : IsTensor(i) <=> i \in DOMAIN prog
         /\ DOMAIN prog \subseteq Ins
         /\ Allocatable \subseteq Tensors
         /\ \A t \in Allocatable : IsTensor(t)
<1>1. DOMAIN prog \subseteq Ins
  BY InstructionAt
<1>2. \A i \in DOMAIN prog : TemporariesOf(i) \subseteq {Temp(i)}
  BY DEF TemporariesOf
<1>3. \A i \in Ins, j \in DOMAIN prog : i # Temp(j)
  BY <1>1, TensorFacts
<1>4. \A i \in Ins : IsTensor(i) <=> i \in DOMAIN prog
  BY <1>3 DEF IsTensor
<1>5. \A t \in Allocatable : t \in DOMAIN prog \/ \E i \in DOMAIN prog : t = Temp(i)
  BY <1>2 DEF Allocatable
<1>6. Allocatable \subseteq Tensors
  BY <1>1, <1>5, TensorFacts, ZenonT(60)
<1>7. \A t \in Allocatable : IsTensor(t)
  BY <1>5 DEF IsTensor
<1>8. QED
  BY <1>1, <1>4, <1>6, <1>7

LEMMA GroupIsPool ==
  ASSUME ProgramOK, NEW t \in Tensors, IsTensor(t)
  PROVE  Stream(t) \in Pools
<1>1. CASE t \in DOMAIN prog
  <2>1. t <= Length
    BY <1>1, IsTensorIn, TensorFacts DEF Ins
  <2>2. QED
    BY <1>1, <2>1, InstructionAt, TensorFacts DEF Stream
<1>2. CASE t \notin DOMAIN prog
  <2>1. PICK i \in DOMAIN prog : t = Temp(i)
    BY <1>2 DEF IsTensor
  <2>2. i \in 1 .. Length /\ Length \in Nat
    BY IsTensorIn, TensorFacts DEF Ins
  <2>3. ~ (t <= Length) /\ t - Length = i
    BY <2>1, <2>2 DEF Temp
  <2>4. QED
    BY <2>1, <2>3, InstructionAt, TensorFacts DEF Stream
<1>3. QED
  BY <1>1, <1>2

LEMMA AnalyseKeeps ==
  ASSUME IInv, Analyse
  PROVE  IInv'
<1> USE DEF aliases, layout, running
<1>1. ProgramOK /\ phase = "visit" /\ NothingAnalysed /\ NothingPlaced /\ outcome = "ok"
  BY DEF IInv, Analyse
<1>2. /\ prog' = prog /\ pc' = pc /\ pc = 1 /\ phase' = "inplace" /\ outcome' = "ok"
      /\ persistent' = Persistent /\ mapping' = mapping /\ inplace' = inplace
      /\ useCount' = useCount
  BY <1>1 DEF Analyse, NothingAnalysed
<1>3. ProgramOK'
  BY <1>1, <1>2 DEF ProgramOK, Op, HasPair, Instruction
<1>4. NothingPlaced'
  BY <1>1 DEF NothingPlaced, Analyse
<1>5. DOMAIN prog = 1 .. Len(prog) /\ Len(prog) \in Nat /\ 1 \in DOMAIN prog
  <2>1. prog \in Seq(Instruction)
    BY <1>1 DEF ProgramOK
  <2>2. Len(prog) # 0
    BY <2>1, EmptySeq DEF Analyse
  <2>3. QED
    BY <2>1, <2>2
<1>6. AnalysisOK'
  <2>1. \A t \in Tensors : IsTensor(t) => GroupOf(t) \in Pools
    BY <1>1, GroupIsPool, TensorFacts DEF GroupOf
  <2>2. /\ group' \in [Tensors -> Pools \cup {None}]
        /\ \A t \in Tensors : IsTensor(t) => group'[t] \in Pools
    BY <2>1 DEF Analyse
  <2>3. Persistent \subseteq Tensors
    BY <1>1, IsTensorIn, TensorFacts DEF Persistent
  <2>4. freeList' = [i \in Ins |-> IF IsTensor(i) THEN LastSeen(i) ELSE {}]
    BY DEF Analyse
  <2>5. /\ \A t : IsTensor(t)' <=> IsTensor(t)
        /\ \A i : LastSeen(i)' = LastSeen(i)
        /\ Persistent' = Persistent
    BY <1>2 DEF IsTensor, Temp, LastSeen, Inputs, Readers, CrossStream, Persistent, Op, Stream
  <2>6. QED
    BY <1>2, <1>5, <2>2, <2>3, <2>4, <2>5 DEF AnalysisOK
<1>7. newList' = [i \in Ins |-> IF i \in DOMAIN prog THEN {i} ELSE {}]
  BY <1>1, IsTensorIn DEF Analyse
<1>8. ListsOK'
  <2>1. newList' \in [Ins -> SUBSET DOMAIN prog]
    BY <1>7
  <2>2. \A i \in DOMAIN prog : i \in newList'[i] /\ i \in 1 .. i
    BY <1>1, <1>7, InstructionAt, IsTensorIn
  <2>4. \A j \in Ins : \A t \in newList'[j] : t = j
    BY <1>7
  <2>3. QED
    BY <1>2, <2>1, <2>2, <2>4 DEF ListsOK, AllocatedBy, Op
<1>9. \A t \in Tensors : mapping'[t] = None /\ inplace'[t] = None /\ useCount'[t] = 0
  BY <1>1, <1>2 DEF NothingAnalysed
<1>10. MappingOK'
  BY <1>1, <1>2, <1>9 DEF MappingOK, NothingAnalysed
<1>11. AliasesOK(pc)'
  <2>1. \A r \in Tensors : InUse(inplace, r, pc)' = {}
    BY <1>9 DEF InUse
  <2>2. \A r \in Tensors : Cardinality(InUse(inplace, r, pc)') = 0
    BY <2>1, FS_EmptySet
  <2>3. /\ inplace' \in [Tensors -> [tensor : Ins, offset : Nat] \cup {None}]
        /\ useCount' \in [Tensors -> Nat]
    BY <1>1, <1>2 DEF NothingAnalysed
  <2>4. \A r \in Tensors : Cardinality(InUse(inplace, r, pc)') <= useCount'[r]
    BY <1>9, <2>2
  <2>5. \A i \in DOMAIN prog : newList'[i] = {i}
    BY <1>1, <1>7, IsTensorIn
  <2>6. \A i \in DOMAIN prog, j \in Ins : i \in newList'[j] => j = i
    BY <1>7
  <2>7. QED
    BY <1>2, <1>9, <2>3, <2>4, <2>5, <2>6 DEF AliasesOK
<1>12. QED
  BY <1>2, <1>3, <1>4, <1>6, <1>8, <1>10, <1>11 DEF IInv

-----------------------------------------------------------------------------
(***************************************************************************)
(* The in-place analysis.                                                  *)
(***************************************************************************)

LEMMA FreeListAt ==
  ASSUME ProgramOK, AnalysisOK
  PROVE  /\ \A i \in DOMAIN prog : freeList[i] = LastSeen(i) /\ freeList[i] \subseteq Tensors
         /\ \A i \in Ins : i \notin DOMAIN prog => freeList[i] = {}
<1>1. DOMAIN prog \subseteq Ins /\ Ins \subseteq Tensors
  BY IsTensorIn, TensorFacts
<1>2. \A i \in DOMAIN prog : LastSeen(i) \subseteq DOMAIN prog
  BY SeenLast
<1>3. QED
  BY <1>1, <1>2, IsTensorIn DEF AnalysisOK

(* The uses that end at an instruction are among those the count covers,   *)
(* so no count drops below zero, and it covers those that are left.        *)
LEMMA UsesAreCounted ==
  ASSUME ProgramOK, AnalysisOK, outcome = "ok", freeList' = freeList,
         NEW i \in DOMAIN prog, NEW where, NEW count \in [Tensors -> Nat],
         \A r \in Tensors : Cardinality(InUse(where, r, i)) <= count[r],
         CountUses(i, where, count)
  PROVE  /\ outcome' = "ok" /\ inplace' = where
         /\ useCount' \in [Tensors -> Nat]
         /\ \A r \in Tensors : Cardinality(InUse(inplace, r, i + 1)') <= useCount'[r]
<1> DEFINE W(r) == InUse(where, r, i)
           E(r) == {u \in freeList[i] : where[u] # None /\ RootOf(u, where) = r}
<1>1. i \in Nat /\ DOMAIN prog = 1 .. Len(prog) /\ Len(prog) \in Nat
  BY InstructionAt
<1>2. freeList[i] \subseteq Tensors
  BY FreeListAt
<1>3. \A u \in freeList[i], j \in 1 .. i - 1 : u \notin freeList[j]
  <2>1. \A j \in 1 .. i - 1 : j \in DOMAIN prog /\ j # i
    BY <1>1
  <2>2. QED
    BY <2>1, FreeListAt, FreedOnce
<1>4. ASSUME NEW r \in Tensors
      PROVE  /\ E(r) \in SUBSET W(r) /\ W(r) \in SUBSET Tensors
             /\ Ended(i, where, r) = Cardinality(E(r))
             /\ (InUse(inplace, r, i + 1))' = W(r) \ E(r)
  <2>1. E(r) \in SUBSET W(r)
    BY <1>2, <1>3 DEF InUse, RootOf
  <2>2. inplace' = where
    BY DEF CountUses
  <2>3. 1 .. (i + 1) - 1 = (1 .. i - 1) \cup {i}
    BY <1>1
  <2>4. (InUse(inplace, r, i + 1))' =
          {u \in Tensors : /\ where[u] # None
                           /\ where[u].tensor = r
                           /\ \A j \in 1 .. (i + 1) - 1 : u \notin freeList[j]}
    BY <2>2 DEF InUse
  <2>5. (InUse(inplace, r, i + 1))' = W(r) \ E(r)
    BY <2>3, <2>4 DEF InUse, RootOf
  <2>6. QED
    BY <2>1, <2>5 DEF Ended, InUse
<1>5. ASSUME NEW r \in Tensors
      PROVE  /\ Ended(i, where, r) \in Nat /\ Ended(i, where, r) <= count[r]
             /\ Cardinality((InUse(inplace, r, i + 1))') <= count[r] - Ended(i, where, r)
  <2>1. /\ Cardinality(E(r)) <= Cardinality(W(r))
        /\ Cardinality(W(r) \ E(r)) = Cardinality(W(r)) - Cardinality(E(r))
    BY <1>4, PartCount
  <2>2. Cardinality(W(r)) \in Nat /\ Cardinality(E(r)) \in Nat
    BY <1>4, TensorsAreFinite
  <2>3. Cardinality(W(r)) <= count[r] /\ count[r] \in Nat
    OBVIOUS
  <2>4. /\ Ended(i, where, r) = Cardinality(E(r))
        /\ (InUse(inplace, r, i + 1))' = W(r) \ E(r)
    BY <1>4
  <2> HIDE DEF W, E
  <2>5. QED
    BY <2>1, <2>2, <2>3, <2>4
<1>6. ~ \E t \in Tensors : count[t] < Ended(i, where, t)
  BY <1>5
<1>7. /\ outcome' = "ok" /\ inplace' = where
      /\ useCount' = [t \in Tensors |-> count[t] - Ended(i, where, t)]
  BY <1>6 DEF CountUses
<1>8. \A t \in Tensors : count[t] - Ended(i, where, t) \in Nat
  BY <1>5
<1>9. QED
  BY <1>5, <1>7, <1>8

(* What the analysis of instruction i has to leave behind. *)
StillAgree(i) ==
  /\ outcome = "ok"
  /\ group \in [Tensors -> Pools \cup {None}]
  /\ \A t \in Tensors : IsTensor(t) => group[t] \in Pools
  /\ persistent \subseteq Tensors /\ Persistent \subseteq persistent
  /\ ListsOK /\ MappingOK /\ AliasesOK(i + 1)

LEMMA SameProgram ==
  ASSUME prog' = prog
  PROVE  /\ ProgramOK <=> ProgramOK'
         /\ Persistent' = Persistent
         /\ \A i : LastSeen(i)' = LastSeen(i)
         /\ \A i : TemporariesOf(i)' = TemporariesOf(i)
         /\ \A t : Readers(t)' = Readers(t)
         /\ \A t : IsTensor(t)' <=> IsTensor(t)
         /\ \A i : Op(i)' = Op(i)
         /\ \A t : IsParameter(t)' <=> IsParameter(t)
         /\ Allocatable' = Allocatable
BY DEF ProgramOK, Op, IsParameter, HasPair, Persistent, LastSeen, CrossStream, Inputs, Readers,
       Stream, TemporariesOf, IsTensor, Temp, Allocatable, Instruction

LEMMA NotInplaceAgrees ==
  ASSUME IInv, phase = "inplace", NEW i \in DOMAIN prog, i = pc,
         NotInplace(i), prog' = prog, freeList' = freeList
  PROVE  StillAgree(i)'
<1>1. /\ ProgramOK /\ AnalysisOK /\ ListsOK /\ MappingOK /\ AliasesOK(i) /\ outcome = "ok"
  BY DEF IInv
<1>2. mapping' = mapping /\ group' = group /\ persistent' = persistent /\ newList' = newList
  BY DEF NotInplace
<1>3. /\ outcome' = "ok" /\ inplace' = inplace
      /\ useCount' \in [Tensors -> Nat]
      /\ \A r \in Tensors : Cardinality(InUse(inplace, r, i + 1)') <= useCount'[r]
  <2>1. CountUses(i, inplace, useCount)
    BY DEF NotInplace
  <2>2. /\ useCount \in [Tensors -> Nat]
        /\ \A r \in Tensors : Cardinality(InUse(inplace, r, i)) <= useCount[r]
    BY <1>1 DEF AliasesOK
  <2>3. QED
    BY <1>1, <2>1, <2>2, UsesAreCounted
<1>4. i \in Nat /\ Tensors \subseteq Nat /\ DOMAIN prog \subseteq Nat
  BY <1>1, InstructionAt, TensorFacts
<1>5. AliasesOK(i + 1)'
  <2>1. /\ inplace' \in [Tensors -> [tensor : Ins, offset : Nat] \cup {None}]
        /\ \A t \in Tensors : inplace[t] # None =>
             inplace[t] \in [tensor : Ins, offset : Nat] /\ t < i /\ inplace[t].tensor < i
        /\ \A t \in Tensors : mapping[t] # None => t < i
        /\ \A k \in DOMAIN prog : k >= i => newList[k] = {k}
        /\ \A k \in DOMAIN prog, j \in Ins : k >= i /\ k \in newList[j] => j = k
    BY <1>1, <1>3 DEF AliasesOK
  <2>2. \A k \in Nat : (k < i => k < i + 1) /\ (k >= i + 1 => k >= i)
    BY <1>4
  <2>3. \A t \in Tensors : inplace[t] # None => inplace[t].tensor \in Nat
    BY <2>1, TensorFacts
  <2>4. /\ \A t \in Tensors : inplace'[t] # None => t < i + 1 /\ inplace'[t].tensor < i + 1
        /\ \A t \in Tensors : mapping'[t] # None => t < i + 1
        /\ \A k \in DOMAIN prog' : k >= i + 1 => newList'[k] = {k}
        /\ \A k \in DOMAIN prog', j \in Ins : k >= i + 1 /\ k \in newList'[j] => j = k
    BY <1>2, <1>3, <1>4, <2>1, <2>2, <2>3
  <2>5. QED
    BY <1>3, <2>1, <2>4 DEF AliasesOK
<1>6. ListsOK' /\ MappingOK'
  BY <1>1, <1>2, SameProgram DEF ListsOK, MappingOK, AllocatedBy, IsParameter
<1>7. QED
  BY <1>1, <1>2, <1>3, <1>5, <1>6, SameProgram DEF StillAgree, AnalysisOK

(* A root is a tensor that an instruction before has output. *)
LEMMA RootFacts ==
  ASSUME ProgramOK, NEW i \in DOMAIN prog, AliasesOK(i), NEW t \in 1 .. i - 1
  PROVE  /\ t \in Tensors /\ t \in DOMAIN prog
         /\ RootOf(t, inplace) \in 1 .. i - 1
         /\ RootOf(t, inplace) \in Tensors /\ RootOf(t, inplace) \in DOMAIN prog
         /\ OffsetOf(t, inplace) \in Nat
<1>1. i \in Nat /\ DOMAIN prog = 1 .. Len(prog) /\ Len(prog) \in Nat
      /\ DOMAIN prog \subseteq Tensors
  BY InstructionAt, TensorFacts
<1>2. t \in DOMAIN prog
  BY <1>1
<1>3. CASE inplace[t] = None
  BY <1>1, <1>2, <1>3 DEF RootOf, OffsetOf
<1>4. CASE inplace[t] # None
  <2>1. inplace[t].tensor \in Ins /\ inplace[t].tensor < i /\ inplace[t].offset \in Nat
    BY <1>1, <1>2, <1>4 DEF AliasesOK
  <2>2. inplace[t].tensor \in 1 .. i - 1
    BY <1>1, <2>1, TensorFacts DEF Ins
  <2>3. QED
    BY <1>1, <1>2, <1>4, <2>1, <2>2 DEF RootOf, OffsetOf
<1>5. QED
  BY <1>3, <1>4

LEMMA PairAgrees ==
  ASSUME IInv, phase = "inplace", NEW i \in DOMAIN prog, i = pc,
         InplacePair(i), prog' = prog, freeList' = freeList
  PROVE  StillAgree(i)'
<1> DEFINE t == prog[i].in[1]
           r == RootOf(t, inplace)
           new == [tensor |-> r, offset |-> OffsetOf(t, inplace)]
           where == [inplace EXCEPT ![i] = new]
           count == [useCount EXCEPT ![r] = @ + 1]
<1>1. /\ ProgramOK /\ AnalysisOK /\ ListsOK /\ MappingOK /\ AliasesOK(i) /\ outcome = "ok"
  BY DEF IInv
<1>2. /\ TakesPair(i)
      /\ mapping' = [mapping EXCEPT ![i] = [tensor |-> t, offset |-> 0]]
      /\ CountUses(i, where, count)
      /\ group' = group /\ persistent' = persistent /\ newList' = newList
  BY DEF InplacePair
<1>3. t \in 1 .. i - 1 /\ i \in Readers(t)
  <2>1. HasPair(i)
    BY <1>2 DEF TakesPair
  <2>2. prog[i].in \in Seq(Ins) /\ Len(prog[i].in) >= 1
    BY <1>1, <2>1, InstructionAt DEF ProgramOK
  <2>3. 1 \in DOMAIN prog[i].in
    BY <2>2
  <2>4. QED
    BY <1>1, <2>1, <2>3 DEF ProgramOK, Inputs, Readers
<1>4. /\ i \in Nat /\ i \in Tensors /\ i \in Ins /\ Tensors \subseteq Nat /\ Ins \subseteq Nat
      /\ DOMAIN prog \subseteq Nat
  BY <1>1, InstructionAt, TensorFacts
<1>5. /\ t \in Tensors /\ t \in DOMAIN prog
      /\ r \in 1 .. i - 1 /\ r \in Tensors /\ r \in DOMAIN prog /\ r \in Ins
      /\ OffsetOf(t, inplace) \in Nat
  BY <1>1, <1>3, RootFacts, IsTensorIn
<1> HIDE DEF t
<1>6. new \in [tensor : Ins, offset : Nat] /\ new # None /\ new.tensor = r
  BY <1>4, <1>5, PlanAssumption
<1> HIDE DEF r, new
<1>7. /\ inplace \in [Tensors -> [tensor : Ins, offset : Nat] \cup {None}]
      /\ useCount \in [Tensors -> Nat]
      /\ \A u \in Tensors : inplace[u] # None => u < i /\ inplace[u].tensor < i
      /\ \A u \in Tensors : mapping[u] # None => u < i
      /\ \A k \in DOMAIN prog : k >= i => newList[k] = {k}
      /\ \A k \in DOMAIN prog, j \in Ins : k >= i /\ k \in newList[j] => j = k
      /\ \A s \in Tensors : Cardinality(InUse(inplace, s, i)) <= useCount[s]
  BY <1>1 DEF AliasesOK
<1>8. /\ where \in [Tensors -> [tensor : Ins, offset : Nat] \cup {None}]
      /\ where[i] = new /\ \A u \in Tensors : u # i => where[u] = inplace[u]
      /\ count \in [Tensors -> Nat]
      /\ count[r] = useCount[r] + 1 /\ \A s \in Tensors : s # r => count[s] = useCount[s]
  BY <1>4, <1>5, <1>6, <1>7
<1>9. ASSUME NEW s \in Tensors
      PROVE  Cardinality(InUse(where, s, i)) <= count[s]
  <2>1. inplace[i] = None
    BY <1>4, <1>7
  <2>2. CASE s # r
    <3>1. InUse(where, s, i) = InUse(inplace, s, i)
      BY <1>6, <1>8, <2>1, <2>2 DEF InUse
    <3>2. QED
      BY <1>7, <1>8, <2>2, <3>1
  <2>3. CASE s = r
    <3>1. InUse(where, r, i) \subseteq InUse(inplace, r, i) \cup {i}
      BY <1>8 DEF InUse
    <3>2. InUse(inplace, r, i) \in SUBSET Tensors /\ i \notin InUse(inplace, r, i)
      BY <2>1 DEF InUse
    <3>3. Cardinality(InUse(inplace, r, i) \cup {i}) = Cardinality(InUse(inplace, r, i)) + 1
      BY <1>4, <3>2, OneMore
    <3>4. (InUse(inplace, r, i) \cup {i}) \in SUBSET Tensors
      BY <1>4, <3>2
    <3>5. Cardinality(InUse(where, r, i)) <= Cardinality(InUse(inplace, r, i) \cup {i})
      BY <3>1, <3>4, PartCount
    <3>6. Cardinality(InUse(inplace, r, i)) \in Nat /\ Cardinality(InUse(where, r, i)) \in Nat
      BY <3>1, <3>2, <3>4, TensorsAreFinite
    <3>7. Cardinality(InUse(inplace, r, i)) <= useCount[r] /\ useCount[r] \in Nat
      BY <1>5, <1>7
    <3>8. QED
      BY <1>8, <2>3, <3>3, <3>5, <3>6, <3>7
  <2>4. QED
    BY <2>2, <2>3
<1> HIDE DEF where, count
<1>10. /\ outcome' = "ok" /\ inplace' = where
       /\ useCount' \in [Tensors -> Nat]
       /\ \A s \in Tensors : Cardinality(InUse(inplace, s, i + 1)') <= useCount'[s]
  BY <1>1, <1>2, <1>8, <1>9, UsesAreCounted
<1>11. DOMAIN mapping = Tensors
  BY <1>1 DEF MappingOK
<1>12. /\ mapping'[i] = [tensor |-> t, offset |-> 0]
       /\ \A u \in Tensors : u # i => mapping'[u] = mapping[u]
       /\ mapping' \in [Tensors -> [tensor : DOMAIN prog, offset : Nat] \cup {None}]
  BY <1>1, <1>2, <1>4, <1>5, <1>11 DEF MappingOK
<1>13. AliasesOK(i + 1)'
  <2>1. \A k \in Nat : (k < i => k < i + 1) /\ (k >= i + 1 => k >= i)
    BY <1>4
  <2>2. \A u \in Tensors : inplace[u] # None => inplace[u].tensor \in Nat
    BY <1>4, <1>7
  <2>3. \A u \in Tensors : inplace'[u] # None => u < i + 1 /\ inplace'[u].tensor < i + 1
    <3>1. ASSUME NEW u \in Tensors, inplace'[u] # None, u # i
          PROVE  u < i + 1 /\ inplace'[u].tensor < i + 1
      <4>1. inplace[u] # None /\ inplace'[u] = inplace[u] /\ u \in Nat
        BY <1>4, <1>8, <1>10, <3>1
      <4>2. u < i /\ inplace[u].tensor < i /\ inplace[u].tensor \in Nat
        BY <1>7, <2>2, <4>1
      <4>3. QED
        BY <1>4, <4>1, <4>2
    <3>2. i < i + 1 /\ inplace'[i].tensor < i + 1
      BY <1>4, <1>5, <1>6, <1>8, <1>10
    <3>3. QED
      BY <3>1, <3>2
  <2>4. \A u \in Tensors : mapping'[u] # None => u < i + 1
    <3>1. ASSUME NEW u \in Tensors, mapping'[u] # None, u # i
          PROVE  u < i + 1
      <4>1. u < i /\ u \in Nat
        BY <1>4, <1>7, <1>12, <3>1
      <4>2. QED
        BY <1>4, <4>1
    <3>2. QED
      BY <1>4, <3>1
  <2>5. /\ \A k \in DOMAIN prog' : k >= i + 1 => newList'[k] = {k}
        /\ \A k \in DOMAIN prog', j \in Ins : k >= i + 1 /\ k \in newList'[j] => j = k
    BY <1>2, <1>4, <1>7, <2>1
  <2>6. QED
    BY <1>8, <1>10, <2>3, <2>4, <2>5 DEF AliasesOK
<1>14. \A u, k : AllocatedBy(u, k)' <=> AllocatedBy(u, k)
  BY <1>2, SameProgram DEF AllocatedBy
<1>15. ListsOK'
  BY <1>1, <1>2, <1>14, SameProgram DEF ListsOK
<1>16. MappingOK'
  <2>1. ASSUME NEW u \in Tensors, mapping'[u] # None
        PROVE  /\ u \in DOMAIN prog'
               /\ AllocatedBy(mapping[u].tensor, u)' \/ IsParameter(mapping[u].tensor)'
               /\ mapping'[u].tensor > u \/ u \in Readers(mapping[u].tensor)'
    <3>1. CASE u # i
      <4>1. mapping'[u] = mapping[u]
        BY <1>12, <3>1
      <4>2. /\ u \in DOMAIN prog
            /\ AllocatedBy(mapping[u].tensor, u) \/ IsParameter(mapping[u].tensor)
            /\ mapping[u].tensor > u \/ u \in Readers(mapping[u].tensor)
        BY <1>1, <2>1, <4>1 DEF MappingOK
      <4>3. QED
        BY <4>1, <4>2, <1>14, SameProgram DEF AllocatedBy, Readers, Inputs, IsParameter
    <3>2. CASE u = i
      <4>1. mapping'[u].tensor = t
        BY <1>12, <3>2
      <4>2. AllocatedBy(t, i) \/ IsParameter(t)
        <5>1. SUFFICES ASSUME ~ IsParameter(t) PROVE AllocatedBy(t, i)
          OBVIOUS
        <5>2. PICK j \in 1 .. t : t \in newList[j] /\ Op(j) # "Parameter"
          BY <1>1, <1>3, <1>5, <5>1 DEF ListsOK, AllocatedBy, IsParameter
        <5>3. j \in 1 .. i
          BY <1>3, <1>4, <5>2
        <5>4. QED
          BY <5>2, <5>3 DEF AllocatedBy
      <4>5. AllocatedBy(mapping[u].tensor, u)' \/ IsParameter(mapping[u].tensor)'
        BY <1>2, <3>2, <4>1, <4>2, SameProgram DEF AllocatedBy, IsParameter
      <4>6. u \in Readers(mapping[u].tensor)'
        BY <1>3, <3>2, <4>1 DEF Readers, Inputs
      <4>7. QED
        BY <3>2, <4>5, <4>6
    <3>3. QED
      BY <3>1, <3>2
  <2>2. QED
    BY <1>12, <2>1 DEF MappingOK
<1>17. QED
  BY <1>1, <1>2, <1>10, <1>13, <1>15, <1>16, SameProgram DEF StillAgree, AnalysisOK

(* The operands of a Concat that is taken: two different tensors output    *)
(* before, that instructions with a kernel output.                         *)
LEMMA FoldedOperands ==
  ASSUME ProgramOK, NEW i \in DOMAIN prog, AliasesOK(i), Op(i) = "Concat", Foldable(i)
  PROVE  LET c(k) == Candidate(prog[i].in[k])
         IN  /\ Len(prog[i].in) = 2 /\ DOMAIN prog[i].in = {1, 2}
             /\ \A k \in {1, 2} :
                  /\ c(k) \in 1 .. i - 1 /\ c(k) \in Ins /\ c(k) \in Tensors
                  /\ c(k) \in DOMAIN prog
                  /\ Op(c(k)) # "Parameter" /\ mapping[c(k)] = None
             /\ c(1) # c(2)
<1> DEFINE in == prog[i].in
           c(k) == Candidate(in[k])
<1>1. in \in Seq(Ins) /\ Len(in) = 2 /\ DOMAIN in = {1, 2}
  <2>1. in \in Seq(Ins) /\ Len(in) = 2
    BY InstructionAt DEF ProgramOK
  <2>2. DOMAIN in = 1 .. 2
    BY <2>1
  <2>3. 1 .. 2 = {1, 2}
    OBVIOUS
  <2>4. QED
    BY <2>1, <2>2, <2>3
<1>2. ASSUME NEW k \in {1, 2}
      PROVE  /\ c(k) \in 1 .. i - 1 /\ c(k) \in Ins /\ c(k) \in Tensors
             /\ c(k) \in DOMAIN prog
             /\ Op(c(k)) # "Parameter" /\ mapping[c(k)] = None
  <2>1. in[k] \in 1 .. i - 1 /\ k \in DOMAIN in
    BY <1>1 DEF ProgramOK
  <2>2. /\ c(k) \in 1 .. i - 1 /\ c(k) \in Tensors /\ c(k) \in DOMAIN prog
    BY <2>1, RootFacts DEF Candidate
  <2>3. c(k) \in Ins
    BY <2>2, InstructionAt
  <2>4. /\ Op(in[k]) # "Parameter"
        /\ inplace[in[k]] # None => Op(inplace[in[k]].tensor) # "Parameter"
        /\ mapping[c(k)] = None
    BY <2>1 DEF Foldable
  <2>5. Op(c(k)) # "Parameter"
    BY <2>4 DEF Candidate, RootOf
  <2>6. QED
    BY <2>2, <2>3, <2>4, <2>5
<1>3. c(1) # c(2)
  <2>1. ~ HasDuplicates(i)
    BY DEF Foldable
  <2>2. RootOf(c(1), inplace) # RootOf(c(2), inplace)
    BY <1>1, <2>1 DEF HasDuplicates
  <2>3. QED
    BY <2>2
<1>4. QED
  BY <1>1, <1>2, <1>3

LEMMA FirstIsFirst ==
  ASSUME NEW a \in Nat, NEW b \in Nat
  PROVE  /\ FirstCandidate({a, b}) \in {a, b}
         /\ FirstCandidate({a, b}) <= a /\ FirstCandidate({a, b}) <= b
<1>1. \E t \in {a, b} : \A u \in {a, b} : t <= u
  <2>1. CASE a <= b
    BY <2>1
  <2>2. CASE b <= a
    BY <2>2
  <2>3. QED
    BY <2>1, <2>2
<1>2. QED
  BY <1>1 DEF FirstCandidate

(* What a Concat i of the tensors a and b makes of the tensors that lie in *)
(* other ones, and of their numbers.                                       *)
Moves(i, a, b, where, count) ==
  /\ \A t \in Tensors :
       \/ t \in {a, b} /\ where[t] # None /\ where[t].tensor = i
       \/ /\ t \notin {a, b}
          /\ inplace[t] # None /\ inplace[t].tensor \in {a, b}
          /\ useCount[inplace[t].tensor] > 0
          /\ where[t] # None /\ where[t].tensor = i
       \/ /\ t \notin {a, b}
          /\ ~ (/\ inplace[t] # None /\ inplace[t].tensor \in {a, b}
                /\ useCount[inplace[t].tensor] > 0)
          /\ where[t] = inplace[t]
  /\ count[i] = useCount[i] + 2 + useCount[a] + useCount[b]
  /\ count[a] = 0 /\ count[b] = 0
  /\ \A t \in Tensors : t \notin {a, b, i} => count[t] = useCount[t]

(* The tensors that lie in the output of the Concat are its two operands,  *)
(* those that lay in one of them, and those that lay in the output before. *)
LEMMA MovedUses ==
  ASSUME NEW i \in Tensors, NEW a \in Tensors, NEW b \in Tensors, a # i, b # i,
         inplace \in [Tensors -> [tensor : Ins, offset : Nat] \cup {None}],
         useCount \in [Tensors -> Nat],
         \A r \in Tensors : Cardinality(InUse(inplace, r, i)) <= useCount[r],
         NEW where, NEW count, Moves(i, a, b, where, count)
  PROVE  \A r \in Tensors : Cardinality(InUse(where, r, i)) <= count[r]
<1> USE DEF Moves
<1> DEFINE U(r) == InUse(inplace, r, i)
           V(r) == InUse(where, r, i)
<1>1. \A r \in Tensors :
        /\ U(r) \in SUBSET Tensors /\ V(r) \in SUBSET Tensors
        /\ Cardinality(U(r)) \in Nat /\ Cardinality(V(r)) \in Nat
        /\ IsFiniteSet(V(r)) /\ IsFiniteSet(U(r))
  <2>1. \A r \in Tensors : U(r) \in SUBSET Tensors /\ V(r) \in SUBSET Tensors
    BY DEF InUse
  <2>2. QED
    BY <2>1, TensorsAreFinite
<1>2. Cardinality(V(i)) <= count[i]
  <2>1. V(i) \subseteq (U(i) \cup {a} \cup {b}) \cup (U(a) \cup U(b))
    BY DEF InUse
  <2>2. /\ Cardinality(U(i) \cup {a}) <= Cardinality(U(i)) + 1
        /\ Cardinality((U(i) \cup {a}) \cup {b}) <= Cardinality(U(i) \cup {a}) + 1
        /\ Cardinality(U(a) \cup U(b)) <= Cardinality(U(a)) + Cardinality(U(b))
    <3>1. Cardinality({a}) = 1 /\ Cardinality({b}) = 1
      BY FS_Singleton
    <3>2. {a} \in SUBSET Tensors /\ {b} \in SUBSET Tensors
      OBVIOUS
    <3>3. U(i) \cup {a} \in SUBSET Tensors
      BY <1>1
    <3> HIDE DEF U
    <3>4. QED
      BY <1>1, <3>1, <3>2, <3>3, UnionCount
  <2> DEFINE X == (U(i) \cup {a}) \cup {b}
             Y == U(a) \cup U(b)
  <2>3. X \in SUBSET Tensors /\ Y \in SUBSET Tensors /\ V(i) \in SUBSET (X \cup Y)
    BY <1>1, <2>1
  <2>4. Cardinality(X \cup Y) <= Cardinality(X) + Cardinality(Y)
    BY <2>3, UnionCount
  <2>5. Cardinality(V(i)) <= Cardinality(X \cup Y)
    <3>1. X \cup Y \in SUBSET Tensors
      BY <2>3
    <3>2. QED
      BY <2>3, <3>1, PartCount
  <2>6. /\ Cardinality(U(i) \cup {a}) \in Nat /\ Cardinality(X) \in Nat
        /\ Cardinality(Y) \in Nat /\ Cardinality(X \cup Y) \in Nat
    <3>1. U(i) \cup {a} \in SUBSET Tensors /\ X \cup Y \in SUBSET Tensors
      BY <1>1, <2>3
    <3>2. QED
      BY <2>3, <3>1, TensorsAreFinite
  <2>7. /\ Cardinality(U(i)) <= useCount[i] /\ useCount[i] \in Nat
        /\ Cardinality(U(a)) <= useCount[a] /\ useCount[a] \in Nat
        /\ Cardinality(U(b)) <= useCount[b] /\ useCount[b] \in Nat
    OBVIOUS
  <2>8. Cardinality(X) <= Cardinality(U(i) \cup {a}) + 1
    BY <2>2
  <2>9. /\ Cardinality(V(i)) \in Nat /\ Cardinality(U(i)) \in Nat
        /\ Cardinality(U(a)) \in Nat /\ Cardinality(U(b)) \in Nat
    BY <1>1
  <2>10. count[i] = useCount[i] + 2 + useCount[a] + useCount[b]
    OBVIOUS
  <2> HIDE DEF X, Y, U, V
  <2>11. QED
    BY <2>2, <2>4, <2>5, <2>6, <2>7, <2>8, <2>9, <2>10 DEF Y
<1>3. ASSUME NEW r \in {a, b}
      PROVE  Cardinality(V(r)) <= count[r]
  <2>1. CASE useCount[r] > 0
    <3>1. V(r) = {}
      BY <2>1 DEF InUse
    <3>2. QED
      BY <3>1, FS_EmptySet
  <2>2. CASE ~ (useCount[r] > 0)
    <3>1. V(r) \in SUBSET U(r)
      BY DEF InUse
    <3>2. Cardinality(V(r)) <= Cardinality(U(r))
      BY <1>1, <3>1, PartCount
    <3>3. Cardinality(U(r)) <= useCount[r] /\ useCount[r] \in Nat /\ count[r] = 0
      OBVIOUS
    <3>4. Cardinality(V(r)) \in Nat /\ Cardinality(U(r)) \in Nat
      BY <1>1
    <3> HIDE DEF U, V
    <3>5. QED
      BY <2>2, <3>2, <3>3, <3>4
  <2>3. QED
    BY <2>1, <2>2
<1>4. ASSUME NEW r \in Tensors, r \notin {a, b, i}
      PROVE  Cardinality(V(r)) <= count[r]
  <2>1. V(r) \in SUBSET U(r)
    BY <1>4 DEF InUse
  <2>2. Cardinality(V(r)) <= Cardinality(U(r))
    BY <1>1, <2>1, PartCount
  <2>3. Cardinality(U(r)) <= useCount[r] /\ useCount[r] \in Nat /\ count[r] = useCount[r]
    BY <1>4
  <2>4. Cardinality(V(r)) \in Nat /\ Cardinality(U(r)) \in Nat
    BY <1>1
  <2> HIDE DEF U, V
  <2>5. QED
    BY <2>2, <2>3, <2>4
<1>5. QED
  BY <1>2, <1>3, <1>4

LEMMA ConcatAgrees ==
  ASSUME IInv, phase = "inplace", NEW i \in DOMAIN prog, i = pc,
         InplaceConcat(i), prog' = prog, freeList' = freeList
  PROVE  StillAgree(i)'
<1> DEFINE in == prog[i].in
           operand == [k \in DOMAIN in |-> Candidate(in[k])]
           operands == {operand[k] : k \in DOMAIN in}
           at == [t \in operands |-> IF t = operand[1] THEN 0 ELSE SizeOf(operand[1])]
           first == FirstCandidate(operands)
           moved(t) ==
             IF t \in operands THEN [tensor |-> i, offset |-> at[t]]
             ELSE IF inplace[t] # None /\ inplace[t].tensor \in operands
                     /\ useCount[inplace[t].tensor] > 0
                  THEN [tensor |-> i,
                        offset |-> at[inplace[t].tensor] + inplace[t].offset]
                  ELSE inplace[t]
           count == [t \in Tensors |->
                       IF t = i THEN useCount[i] + Len(in) + useCount[operand[1]]
                                     + useCount[operand[2]]
                       ELSE IF t \in operands THEN 0 ELSE useCount[t]]
           where == [t \in Tensors |-> moved(t)]
           a == Candidate(in[1])
           b == Candidate(in[2])
<1>1. /\ ProgramOK /\ AnalysisOK /\ ListsOK /\ MappingOK /\ AliasesOK(i) /\ outcome = "ok"
  BY DEF IInv
<1>2. /\ Op(i) = "Concat" /\ Foldable(i)
      /\ mapping' = [t \in Tensors |->
                       IF t \in operands THEN [tensor |-> i, offset |-> at[t]]
                       ELSE mapping[t]]
      /\ IF operands \cap persistent # {}
         THEN /\ persistent' = persistent \cup {i}
              /\ group' = [group EXCEPT ![i] = Persist]
         ELSE persistent' = persistent /\ group' = group
      /\ IF i \in newList[i] /\ i \notin newList[first]
         THEN /\ newList' = [newList EXCEPT ![first] = @ \cup {i}, ![i] = @ \ {i}]
              /\ CountUses(i, where, count)
         ELSE outcome' = "check"
  BY DEF InplaceConcat
<1>3. /\ Len(in) = 2 /\ DOMAIN in = {1, 2} /\ a # b
      /\ a \in 1 .. i - 1 /\ a \in Ins /\ a \in Tensors /\ a \in DOMAIN prog
      /\ Op(a) # "Parameter" /\ mapping[a] = None
      /\ b \in 1 .. i - 1 /\ b \in Ins /\ b \in Tensors /\ b \in DOMAIN prog
      /\ Op(b) # "Parameter" /\ mapping[b] = None
  BY <1>1, <1>2, FoldedOperands
<1>4. operand[1] = a /\ operand[2] = b
  BY <1>3
<1>5. operands = {a, b}
  BY <1>3, <1>4
<1>6. /\ i \in Nat /\ i \in Ins /\ i \in Tensors /\ Tensors \subseteq Nat /\ Ins \subseteq Nat
      /\ DOMAIN prog \subseteq Nat /\ a \in Nat /\ b \in Nat /\ a < i /\ b < i
  BY <1>1, <1>3, InstructionAt, TensorFacts
<1>7. /\ first \in {a, b} /\ first <= a /\ first <= b
  BY <1>5, <1>6, FirstIsFirst
<1>8. SizeOf(operand[1]) \in Nat
  BY <1>1, <1>3, <1>4, ValueIsSequence
<1>9. at \in [{a, b} -> Nat]
  BY <1>5, <1>8
<1>10. /\ inplace \in [Tensors -> [tensor : Ins, offset : Nat] \cup {None}]
       /\ useCount \in [Tensors -> Nat]
       /\ \A u \in Tensors : inplace[u] # None => u < i /\ inplace[u].tensor < i
       /\ \A u \in Tensors : mapping[u] # None => u < i
       /\ \A k \in DOMAIN prog : k >= i => newList[k] = {k}
       /\ \A k \in DOMAIN prog, j \in Ins : k >= i /\ k \in newList[j] => j = k
       /\ \A s \in Tensors : Cardinality(InUse(inplace, s, i)) <= useCount[s]
  BY <1>1 DEF AliasesOK
<1>11. /\ count \in [Tensors -> Nat]
       /\ count[i] = useCount[i] + 2 + useCount[a] + useCount[b]
       /\ count[a] = 0 /\ count[b] = 0
       /\ \A t \in Tensors : t \notin {a, b, i} => count[t] = useCount[t]
  BY <1>3, <1>4, <1>5, <1>6, <1>10
<1> HIDE DEF operand, operands, at, first, count, a, b
<1>12. \A t \in {a, b} :
         /\ [tensor |-> i, offset |-> at[t]] \in [tensor : Ins, offset : Nat]
         /\ [tensor |-> i, offset |-> at[t]] \in [tensor : DOMAIN prog, offset : Nat]
         /\ [tensor |-> i, offset |-> at[t]] # None
         /\ [tensor |-> i, offset |-> at[t]].tensor = i
  <2>1. \A t \in {a, b} : at[t] \in Nat
    BY <1>9
  <2>2. \A t \in {a, b} : [tensor |-> i, offset |-> at[t]] \in [tensor : Nat, offset : Nat]
    BY <1>6, <2>1
  <2>3. QED
    BY <1>6, <2>1, <2>2, PlanAssumption
<1>13. ASSUME NEW t \in Tensors
       PROVE  \/ /\ t \in {a, b} /\ where[t] # None /\ where[t].tensor = i
                 /\ where[t] \in [tensor : Ins, offset : Nat]
              \/ /\ t \notin {a, b}
                 /\ inplace[t] # None /\ inplace[t].tensor \in {a, b}
                 /\ useCount[inplace[t].tensor] > 0
                 /\ where[t] # None /\ where[t].tensor = i
                 /\ where[t] \in [tensor : Ins, offset : Nat]
              \/ /\ t \notin {a, b}
                 /\ ~ (/\ inplace[t] # None /\ inplace[t].tensor \in {a, b}
                       /\ useCount[inplace[t].tensor] > 0)
                 /\ where[t] = inplace[t]
  <2>1. CASE t \in {a, b}
    <3>1. where[t] = [tensor |-> i, offset |-> at[t]]
      BY <1>5, <2>1
    <3>2. QED
      BY <1>12, <2>1, <3>1
  <2>2. CASE /\ t \notin {a, b} /\ inplace[t] # None /\ inplace[t].tensor \in {a, b}
             /\ useCount[inplace[t].tensor] > 0
    <3> DEFINE o == at[inplace[t].tensor] + inplace[t].offset
    <3>1. where[t] = [tensor |-> i, offset |-> o]
      BY <1>5, <2>2
    <3>2. inplace[t].offset \in Nat
      BY <1>10, <2>2
    <3>3. at[inplace[t].tensor] \in Nat
      BY <1>9, <2>2
    <3>4. o \in Nat
      BY <3>2, <3>3
    <3> HIDE DEF o
    <3>5. where[t] \in [tensor : Ins, offset : Nat] /\ where[t].tensor = i
      BY <1>6, <3>1, <3>4
    <3>6. where[t] \in [tensor : Nat, offset : Nat]
      BY <1>6, <3>1, <3>4
    <3>7. QED
      BY <2>2, <3>5, <3>6, PlanAssumption
  <2>3. CASE /\ t \notin {a, b}
             /\ ~ (/\ inplace[t] # None /\ inplace[t].tensor \in {a, b}
                   /\ useCount[inplace[t].tensor] > 0)
    BY <1>5, <2>3
  <2>4. QED
    BY <2>1, <2>2, <2>3
<1>14. where \in [Tensors -> [tensor : Ins, offset : Nat] \cup {None}]
  <2>1. \A t \in Tensors : where[t] \in [tensor : Ins, offset : Nat] \cup {None}
    BY <1>10, <1>13
  <2>2. \A t \in Tensors : moved(t) \in [tensor : Ins, offset : Nat] \cup {None}
    BY <2>1
  <2> HIDE DEF moved
  <2>3. QED
    BY <2>2
<1> HIDE DEF where, moved
<1>15. \A s \in Tensors : Cardinality(InUse(where, s, i)) <= count[s]
  <2>1. Moves(i, a, b, where, count)
    BY <1>11, <1>13 DEF Moves
  <2>2. i \in Tensors /\ a \in Tensors /\ b \in Tensors /\ a # i /\ b # i
    BY <1>3, <1>6
  <2>3. /\ inplace \in [Tensors -> [tensor : Ins, offset : Nat] \cup {None}]
        /\ useCount \in [Tensors -> Nat]
        /\ \A s \in Tensors : Cardinality(InUse(inplace, s, i)) <= useCount[s]
    BY <1>10
  <2>4. QED
    BY <2>1, <2>2, <2>3, MovedUses
<1>16. newList[i] = {i} /\ i \notin newList[first] /\ first \in Ins /\ first \in DOMAIN prog
       /\ first # i /\ first \in Nat /\ first < i
  BY <1>3, <1>6, <1>7, <1>10
<1>17. newList' = [newList EXCEPT ![first] = @ \cup {i}, ![i] = @ \ {i}]
       /\ CountUses(i, where, count)
  BY <1>2, <1>16
<1>18. /\ outcome' = "ok" /\ inplace' = where
       /\ useCount' \in [Tensors -> Nat]
       /\ \A s \in Tensors : Cardinality(InUse(inplace, s, i + 1)') <= useCount'[s]
  BY <1>1, <1>11, <1>15, <1>17, UsesAreCounted
<1>19. /\ newList' \in [Ins -> SUBSET DOMAIN prog]
       /\ newList'[first] = newList[first] \cup {i}
       /\ newList'[i] = {}
       /\ \A j \in Ins : j # first /\ j # i => newList'[j] = newList[j]
  <2>1. newList \in [Ins -> SUBSET DOMAIN prog]
    BY <1>1 DEF ListsOK
  <2>2. QED
    BY <1>6, <1>16, <1>17, <2>1
<1>20. ASSUME NEW x \in DOMAIN prog, NEW k \in DOMAIN prog, AllocatedBy(x, k)
       PROVE  AllocatedBy(x, k)'
  <2>1. PICK j \in 1 .. k : x \in newList[j] /\ Op(j) # "Parameter"
    BY <1>20 DEF AllocatedBy
  <2>2. k \in Nat /\ k \in Ins /\ j \in Ins
    BY <1>1, InstructionAt DEF Ins
  <2>3. CASE x # i
    <3>1. x \in newList'[j]
      BY <1>10, <1>16, <1>19, <2>1, <2>2, <2>3
    <3>2. QED
      BY <2>1, <3>1, SameProgram DEF AllocatedBy
  <2>4. CASE x = i
    <3>1. j = i
      BY <1>6, <1>10, <2>1, <2>2, <2>4
    <3>2. first \in 1 .. k
      BY <1>6, <1>16, <2>1, <2>2, <3>1 DEF Ins
    <3>3. i \in newList'[first] /\ Op(first) # "Parameter"
      BY <1>3, <1>7, <1>19
    <3>4. QED
      BY <2>4, <3>2, <3>3, SameProgram DEF AllocatedBy
  <2>5. QED
    BY <2>3, <2>4
<1>21. ListsOK'
  <2>1. \A j \in Ins : \A x \in newList[j] : IsParameter(x) => x = j
    BY <1>1 DEF ListsOK
  <2>2. \A j \in Ins : newList'[j] \subseteq newList[j] \cup {i}
    BY <1>19
  <2>3. ~ IsParameter(i)
    BY <1>2 DEF IsParameter
  <2>4. \A j \in Ins : \A x \in newList'[j] : IsParameter(x) => x = j
    BY <2>1, <2>2, <2>3
  <2>5. QED
    BY <1>1, <1>19, <1>20, <2>4, SameProgram DEF ListsOK, IsParameter, Op
<1>22. /\ \A t \in {a, b} : mapping'[t] = [tensor |-> i, offset |-> at[t]]
       /\ \A t \in Tensors : t \notin {a, b} => mapping'[t] = mapping[t]
       /\ mapping' \in [Tensors -> [tensor : DOMAIN prog, offset : Nat] \cup {None}]
  <2>1. mapping \in [Tensors -> [tensor : DOMAIN prog, offset : Nat] \cup {None}]
    BY <1>1 DEF MappingOK
  <2>2. mapping' = [t \in Tensors |->
                      IF t \in {a, b} THEN [tensor |-> i, offset |-> at[t]] ELSE mapping[t]]
    BY <1>2, <1>5
  <2>3. \A t \in Tensors :
          (IF t \in {a, b} THEN [tensor |-> i, offset |-> at[t]] ELSE mapping[t])
            \in [tensor : DOMAIN prog, offset : Nat] \cup {None}
    BY <1>12, <2>1
  <2>4. QED
    BY <1>3, <2>2, <2>3
<1>23. MappingOK'
  <2>1. ASSUME NEW u \in Tensors, mapping'[u] # None
        PROVE  /\ u \in DOMAIN prog'
               /\ AllocatedBy(mapping[u].tensor, u)' \/ IsParameter(mapping[u].tensor)'
               /\ mapping'[u].tensor > u \/ u \in Readers(mapping[u].tensor)'
    <3>1. CASE u \notin {a, b}
      <4>1. mapping'[u] = mapping[u]
        BY <1>22, <3>1
      <4>2. /\ u \in DOMAIN prog /\ mapping[u].tensor \in DOMAIN prog
            /\ AllocatedBy(mapping[u].tensor, u) \/ IsParameter(mapping[u].tensor)
            /\ mapping[u].tensor > u \/ u \in Readers(mapping[u].tensor)
        BY <1>1, <2>1, <4>1 DEF MappingOK
      <4>3. AllocatedBy(mapping[u].tensor, u)' \/ IsParameter(mapping[u].tensor)'
        BY <1>20, <4>1, <4>2 DEF AllocatedBy, IsParameter, Op
      <4>4. QED
        BY <4>1, <4>2, <4>3 DEF Readers, Inputs
    <3>2. CASE u \in {a, b}
      <4>1. mapping'[u].tensor = i
        BY <1>12, <1>22, <3>2
      <4>2. u \in DOMAIN prog /\ i > u /\ first \in 1 .. u
        BY <1>3, <1>6, <1>7, <1>16, <3>2 DEF Ins
      <4>3. i \in newList'[first] /\ Op(first) # "Parameter"
        BY <1>3, <1>7, <1>19
      <4>4. AllocatedBy(mapping[u].tensor, u)'
        BY <4>1, <4>2, <4>3, SameProgram DEF AllocatedBy
      <4>5. QED
        BY <4>1, <4>2, <4>4
    <3>3. QED
      BY <3>1, <3>2
  <2>2. QED
    BY <1>22, <2>1 DEF MappingOK
<1>24. AliasesOK(i + 1)'
  <2>1. \A k \in Nat : (k < i => k < i + 1) /\ (k >= i + 1 => k >= i /\ k # i /\ k > first)
    BY <1>6, <1>16
  <2>2. \A u \in Tensors : inplace'[u] # None => u < i + 1 /\ inplace'[u].tensor < i + 1
    <3>1. ASSUME NEW u \in Tensors, inplace'[u] # None
          PROVE  u < i + 1 /\ inplace'[u].tensor < i + 1
      <4>1. u \in Nat /\ inplace[u] # None => u < i
        BY <1>6, <1>10
      <4>2. u < i
        BY <1>6, <1>13, <1>18, <3>1, <4>1
      <4>3. inplace[u] # None => inplace[u].tensor < i /\ inplace[u].tensor \in Nat
        BY <1>6, <1>10
      <4>4. inplace'[u].tensor = i \/ (inplace'[u] = inplace[u] /\ inplace[u] # None)
        BY <1>13, <1>18, <3>1
      <4>5. QED
        BY <1>6, <4>2, <4>3, <4>4
    <3>2. QED
      BY <3>1
  <2>3. \A u \in Tensors : mapping'[u] # None => u < i + 1
    <3>1. ASSUME NEW u \in Tensors, mapping'[u] # None
          PROVE  u < i + 1
      <4>1. u \in {a, b} \/ mapping[u] # None
        BY <1>22, <3>1
      <4>2. u < i /\ u \in Nat
        BY <1>6, <1>10, <4>1
      <4>3. QED
        BY <1>6, <4>2
    <3>2. QED
      BY <3>1
  <2>4. \A k \in DOMAIN prog' : k >= i + 1 => newList'[k] = {k}
    <3>1. \A k \in DOMAIN prog : k >= i + 1 => k >= i /\ k # first /\ k # i /\ k \in Ins
      BY <1>1, <1>6, <1>16, <2>1, IsTensorIn
    <3>2. QED
      BY <1>10, <1>19, <3>1
  <2>5. \A k \in DOMAIN prog', j \in Ins : k >= i + 1 /\ k \in newList'[j] => j = k
    <3>1. ASSUME NEW k \in DOMAIN prog, NEW j \in Ins, k >= i + 1, k \in newList'[j]
          PROVE  j = k
      <4>1. k >= i /\ k # i
        BY <1>6, <2>1, <3>1
      <4>2. k \in newList[j]
        BY <1>19, <3>1, <4>1
      <4>3. QED
        BY <1>10, <4>1, <4>2
    <3>2. QED
      BY <3>1
  <2>6. QED
    BY <1>14, <1>18, <2>2, <2>3, <2>4, <2>5 DEF AliasesOK
<1>25. /\ group' \in [Tensors -> Pools \cup {None}]
       /\ \A t \in Tensors : IsTensor(t) => group'[t] \in Pools
       /\ persistent' \subseteq Tensors /\ Persistent \subseteq persistent'
  <2>1. /\ group \in [Tensors -> Pools \cup {None}]
        /\ \A t \in Tensors : IsTensor(t) => group[t] \in Pools
        /\ persistent \subseteq Tensors /\ Persistent \subseteq persistent
    BY <1>1 DEF AnalysisOK
  <2>2. Persist \in Pools
    BY TensorFacts
  <2>3. CASE operands \cap persistent # {}
    BY <1>2, <1>6, <2>1, <2>2, <2>3
  <2>4. CASE ~ (operands \cap persistent # {})
    BY <1>2, <2>1, <2>4
  <2>5. QED
    BY <2>3, <2>4
<1>26. QED
  BY <1>18, <1>21, <1>23, <1>24, <1>25, SameProgram DEF StillAgree

(* The layout pass starts with no tensor placed and no block taken. *)
LEMMA LayoutStarts ==
  ASSUME pc' = 1, phase' = "layout",
         nodes' = [p \in Pools |-> EmptyPool],
         peak' = [p \in Pools |-> 0],
         place' = [t \in Tensors |-> None],
         root' = [t \in Tensors |-> None],
         refCount' = [t \in Tensors |-> 1],
         freed' = {}
  PROVE  PlacesOK' /\ CountsOK' /\ BlocksOK' /\ PassedOK' /\ FreedOK'
<1>1. Placed' = {}
  BY DEF Placed
<1>2. PlacesOK'
  BY <1>1 DEF PlacesOK
<1>3. CountsOK'
  BY <1>1 DEF CountsOK
<1>4. BlocksOK'
  <2>1. \A p \in Pools : IsNodeList(nodes'[p]) /\ Taken(nodes'[p]) = {}
    BY EmptyPoolIsNodeList
  <2>2. \A p \in Pools : Holders(p)' = {}
    BY <1>1 DEF Holders
  <2>3. QED
    BY <2>1, <2>2 DEF BlocksOK
<1>5. Passed' = {}
  <2>1. pc' - 1 = 0 /\ 1 .. 0 = {}
    OBVIOUS
  <2>2. QED
    BY <2>1 DEF Passed
<1>6. PassedOK' /\ FreedOK'
  BY <1>5 DEF PassedOK, FreedOK
<1>7. QED
  BY <1>2, <1>3, <1>4, <1>6

LEMMA InplaceStep ==
  ASSUME IInv, Inplace, NEW i \in DOMAIN prog, i = pc
  PROVE  IInv'
<1>1. /\ ProgramOK /\ AnalysisOK /\ phase = "inplace" /\ NothingPlaced
  BY DEF IInv, Inplace
<1>2. /\ prog' = prog /\ freeList' = freeList
      /\ nodes' = nodes /\ peak' = peak /\ place' = place /\ root' = root
      /\ refCount' = refCount /\ freed' = freed /\ done' = done
  BY DEF Inplace, layout, running
<1>3. StillAgree(i)'
  <2>1. CASE InplacePair(i)
    BY <1>1, <1>2, <2>1, PairAgrees
  <2>2. CASE InplaceConcat(i)
    BY <1>1, <1>2, <2>2, ConcatAgrees
  <2>3. CASE NotInplace(i)
    BY <1>1, <1>2, <2>3, NotInplaceAgrees
  <2>4. QED
    BY <2>1, <2>2, <2>3 DEF Inplace
<1>4. /\ outcome' = "ok" /\ ListsOK' /\ MappingOK' /\ AliasesOK(i + 1)'
      /\ group' \in [Tensors -> Pools \cup {None}]
      /\ \A t \in Tensors : IsTensor(t)' => group'[t] \in Pools
      /\ persistent' \subseteq Tensors /\ Persistent' \subseteq persistent'
  BY <1>3 DEF StillAgree
<1>5. ProgramOK'
  BY <1>1, <1>2, SameProgram
<1>6. i \in Nat /\ DOMAIN prog = 1 .. Len(prog) /\ Len(prog) \in Nat
  BY <1>1, InstructionAt
<1>7. freeList' = [k \in Ins |-> IF IsTensor(k)' THEN LastSeen(k)' ELSE {}]
  <2>1. freeList = [k \in Ins |-> IF IsTensor(k) THEN LastSeen(k) ELSE {}]
    BY <1>1 DEF AnalysisOK
  <2>2. /\ \A k : LastSeen(k)' = LastSeen(k)
        /\ \A k : IsTensor(k)' <=> IsTensor(k)
    BY <1>2, SameProgram
  <2>3. QED
    BY <1>2, <2>1, <2>2
<1>8. CASE i = Len(prog)
  <2>1. /\ pc' = 1 /\ phase' = "layout" /\ sharing' \in BOOLEAN
    BY <1>8 DEF Inplace
  <2>2. AnalysisOK'
    BY <1>2, <1>4, <1>6, <1>7, <2>1 DEF AnalysisOK
  <2>3. PlacesOK' /\ CountsOK' /\ BlocksOK' /\ PassedOK' /\ FreedOK'
    <3>1. /\ nodes' = [p \in Pools |-> EmptyPool]
          /\ peak' = [p \in Pools |-> 0]
          /\ place' = [t \in Tensors |-> None]
          /\ root' = [t \in Tensors |-> None]
          /\ refCount' = [t \in Tensors |-> 1]
          /\ freed' = {}
      BY <1>1, <1>2 DEF NothingPlaced
    <3>2. QED
      BY <2>1, <3>1, LayoutStarts
  <2>4. useCount' \in [Tensors -> Nat] /\ done' \subseteq Ins
    BY <1>1, <1>2, <1>4 DEF AliasesOK, NothingPlaced
  <2>5. QED
    BY <1>4, <1>5, <2>1, <2>2, <2>3, <2>4 DEF IInv
<1>9. CASE i # Len(prog)
  <2>1. pc' = i + 1 /\ phase' = "inplace" /\ sharing' = sharing
    BY <1>1, <1>9 DEF Inplace
  <2>2. AnalysisOK'
    <3>1. pc' \in DOMAIN prog'
      BY <1>2, <1>6, <1>9, <2>1
    <3>2. QED
      BY <1>4, <1>7, <3>1 DEF AnalysisOK
  <2>3. NothingPlaced'
    BY <1>1, <1>2, <2>1 DEF NothingPlaced
  <2>4. AliasesOK(pc)'
    BY <1>4, <2>1 DEF AliasesOK, InUse
  <2>5. QED
    BY <1>4, <1>5, <2>1, <2>2, <2>3, <2>4 DEF IInv
<1>10. QED
  BY <1>8, <1>9

LEMMA InplaceKeeps ==
  ASSUME IInv, Inplace
  PROVE  IInv'
<1>1. pc \in DOMAIN prog
  BY DEF IInv, Inplace, AnalysisOK
<1>2. QED
  BY <1>1, InplaceStep

-----------------------------------------------------------------------------
(***************************************************************************)
(* The layout pass.                                                        *)
(***************************************************************************)

(* A step of the pass leaves the program and its analyses alone. *)
LayoutFrame ==
  /\ sharing' = sharing /\ prog' = prog
  /\ group' = group /\ persistent' = persistent
  /\ newList' = newList /\ freeList' = freeList
  /\ mapping' = mapping /\ inplace' = inplace /\ useCount' = useCount
  /\ done' = done

LEMMA FrameKeeps ==
  ASSUME IInv, phase = "layout", LayoutFrame, pc' \in DOMAIN prog,
         phase' \in {"layout", "run"}, outcome' = "ok",
         PlacesOK', CountsOK', BlocksOK', PassedOK', FreedOK'
  PROVE  IInv'
<1>1. /\ ProgramOK /\ AnalysisOK /\ ListsOK /\ MappingOK
      /\ useCount \in [Tensors -> Nat] /\ sharing \in BOOLEAN /\ done \subseteq Ins
  BY DEF IInv
<1>2. ProgramOK'
  BY <1>1, SameProgram DEF LayoutFrame
<1>3. AnalysisOK'
  <2>1. freeList' = [k \in Ins |-> IF IsTensor(k)' THEN LastSeen(k)' ELSE {}]
    <3>1. freeList = [k \in Ins |-> IF IsTensor(k) THEN LastSeen(k) ELSE {}]
      BY <1>1 DEF AnalysisOK
    <3>2. /\ \A k : LastSeen(k)' = LastSeen(k)
          /\ \A k : IsTensor(k)' <=> IsTensor(k)
      BY SameProgram DEF LayoutFrame
    <3>3. QED
      BY <3>1, <3>2 DEF LayoutFrame
  <2>2. QED
    BY <1>1, <2>1, SameProgram DEF AnalysisOK, LayoutFrame
<1>4. ListsOK' /\ MappingOK'
  BY <1>1, SameProgram DEF ListsOK, MappingOK, AllocatedBy, IsParameter, LayoutFrame
<1>5. QED
  BY <1>1, <1>2, <1>3, <1>4 DEF IInv, LayoutFrame

(* What the pass may allocate at an instruction: its workspace and the     *)
(* tensors the liveness and in-place analyses have put there.              *)
LEMMA NewHereFacts ==
  ASSUME IInv, phase = "layout", NEW t \in NewHere
  PROVE  /\ t \in Allocatable /\ t \in Tensors /\ group[t] \in Pools
         /\ t \in newList[pc] \cup TemporariesOf(pc) /\ pc \in DOMAIN prog
         /\ Op(pc) # "Parameter" /\ ~ IsParameter(t)
<1>1. ProgramOK /\ AnalysisOK /\ ListsOK /\ pc \in DOMAIN prog
  BY DEF IInv, AnalysisOK
<1>2. Op(pc) # "Parameter" /\ t \in newList[pc] \cup TemporariesOf(pc)
  BY DEF NewHere
<1>3. newList[pc] \subseteq DOMAIN prog
  BY <1>1, IsTensorIn DEF ListsOK
<1>4. t \in Allocatable
  BY <1>1, <1>2, <1>3 DEF Allocatable
<1>6. pc \in Ins
  BY <1>1, InstructionAt
<1>7. ~ IsParameter(t)
  <2>1. CASE t \in newList[pc]
    BY <1>1, <1>2, <1>6, <2>1 DEF ListsOK, IsParameter
  <2>2. CASE t \in TemporariesOf(pc)
    <3>1. t = Temp(pc)
      BY <2>2 DEF TemporariesOf
    <3>2. t \notin DOMAIN prog
      BY <1>1, <1>6, <3>1, IsTensorIn, TensorFacts
    <3>3. QED
      BY <3>2 DEF IsParameter
  <2>3. QED
    BY <1>2, <2>1, <2>2
<1>5. QED
  BY <1>1, <1>2, <1>4, <1>7, IsTensorIn DEF AnalysisOK

(* A tensor that has its own block: the block is reserved, the tensor is   *)
(* its first user.                                                         *)
LEMMA NewTensorPlaced ==
  ASSUME IInv, phase = "layout", NEW t \in Unplaced(NewHere), LayoutFrame,
         NEW p \in Pools, NEW o \in Nat,
         place' = [place EXCEPT ![t] = [pool |-> p, offset |-> o]],
         pc' = pc, phase' = phase, root' = root, refCount' = refCount, freed' = freed
  PROVE  /\ PlacesOK' /\ CountsOK' /\ PassedOK' /\ FreedOK'
         /\ t \in Tensors
         /\ \A q \in Pools : Holders(q)' = Holders(q) \cup (IF q = p THEN {t} ELSE {})
         /\ place'[t] = [pool |-> p, offset |-> o]
         /\ \A u \in Tensors : u # t => place'[u] = place[u]
         /\ t \notin Placed
<1>1. /\ ProgramOK /\ AnalysisOK /\ PlacesOK /\ CountsOK /\ PassedOK /\ FreedOK
  BY DEF IInv
<1>2. t \in NewHere /\ place[t] = None
  BY DEF Unplaced
<1>3. t \in Allocatable /\ t \in Tensors /\ ~ IsParameter(t)
  BY <1>2, NewHereFacts
<1>4. /\ place \in [Tensors -> Spot \cup {None}]
      /\ root \in [Tensors -> Tensors \cup {None}]
      /\ \A u \in Tensors : root[u] # None =>
           /\ u \in Placed /\ root[root[u]] = None
           /\ root[u] \in Placed \/ IsParameter(root[u])
      /\ \A u \in Placed :
           ~ IsParameter(u) /\ (IsParameter(TopOf(u)) \/ place[u].offset \in Nat)
      /\ freed \subseteq Placed /\ Placed \subseteq Allocatable
  BY <1>1 DEF PlacesOK
<1> DEFINE new == [pool |-> p, offset |-> o]
<1>5. new \in Spot /\ new # None /\ new.pool = p /\ new.offset \in Nat
  <2>1. new \in Spot /\ new \in [pool : Int, offset : Int]
    BY TensorFacts DEF Spot
  <2>2. QED
    BY <2>1, PlanAssumption
<1> HIDE DEF new
<1>6. place' = [place EXCEPT ![t] = new]
  BY DEF new
<1>7. /\ place' \in [Tensors -> Spot \cup {None}]
      /\ place'[t] = new
      /\ \A u \in Tensors : u # t => place'[u] = place[u]
  BY <1>3, <1>4, <1>5, <1>6
<1>8. t \notin Placed /\ t \notin freed /\ root[t] = None
  BY <1>2, <1>3, <1>4 DEF Placed
<1>9. Placed' = Placed \cup {t}
  BY <1>3, <1>5, <1>7 DEF Placed
<1>10. Allocatable' = Allocatable
  BY SameProgram DEF LayoutFrame
<1>12. \A u : TopOf(u)' = TopOf(u)
  BY DEF TopOf
<1>a. \A u : IsParameter(u)' <=> IsParameter(u)
  BY SameProgram DEF LayoutFrame
<1>11. PlacesOK'
  <2>1. \A u \in Tensors : root'[u] # None =>
          /\ u \in Placed' /\ root'[root'[u]] = None
          /\ root'[u] \in Placed' \/ IsParameter(root[u])'
    BY <1>4, <1>9, <1>a
  <2>2. \A u \in Placed' :
          ~ IsParameter(u)' /\ (IsParameter(TopOf(u))' \/ place'[u].offset \in Nat)
    <3>1. ASSUME NEW u \in Placed, u # t
          PROVE  ~ IsParameter(u)' /\ (IsParameter(TopOf(u))' \/ place'[u].offset \in Nat)
      BY <1>4, <1>7, <1>12, <1>a, <3>1 DEF Placed, IsParameter
    <3>2. ~ IsParameter(t)' /\ place'[t].offset \in Nat
      BY <1>3, <1>5, <1>7, <1>a
    <3>3. QED
      BY <1>8, <1>9, <3>1, <3>2
  <2>3. QED
    BY <1>3, <1>4, <1>7, <1>9, <1>10, <2>1, <2>2 DEF PlacesOK, Spot
<1>13. CountsOK'
  <2>1. ASSUME NEW r \in Placed, root[r] = None
        PROVE  Users(r)' = Users(r)
    <3>1. TopOf(t) # r
      BY <1>8 DEF TopOf
    <3>2. QED
      BY <1>9, <1>12, <3>1 DEF Users
  <2>2. Users(t)' = {t}
    <3>1. \A u \in Placed : TopOf(u) # t
      BY <1>3, <1>4, <1>8 DEF TopOf, Placed
    <3>2. TopOf(t) = t
      BY <1>8 DEF TopOf
    <3>3. QED
      BY <1>8, <1>9, <1>12, <3>1, <3>2 DEF Users
  <2>3. Cardinality({t}) = 1
    BY FS_Singleton
  <2>4. refCount[t] = 1
    BY <1>1, <1>3, <1>8 DEF CountsOK
  <2>5. \A r \in Placed' : root'[r] = None => refCount'[r] = Cardinality(Users(r)')
    BY <1>1, <1>9, <2>1, <2>2, <2>3, <2>4 DEF CountsOK
  <2>6. \A r \in Tensors : r \notin Placed' =>
          refCount'[r] >= 1 /\ (IsParameter(r)' \/ refCount'[r] = 1)
    BY <1>1, <1>9, <1>a DEF CountsOK
  <2>7. refCount' \in [Tensors -> Nat]
    BY <1>1 DEF CountsOK
  <2>8. QED
    BY <2>5, <2>6, <2>7 DEF CountsOK
<1>14. Passed' = Passed
  BY DEF Passed, LayoutFrame
<1>15. PassedOK'
  BY <1>1, <1>9, <1>12, <1>14, SameProgram DEF PassedOK, LayoutFrame
<1>16. FreedOK'
  <2>1. ASSUME NEW u \in freed \cap DOMAIN prog
        PROVE  \E j \in 1 .. pc : u \in freeList[j] /\ j # pc
    BY <1>1 DEF FreedOK
  <2>2. QED
    BY <2>1 DEF FreedOK, LayoutFrame
<1>17. ASSUME NEW q \in Pools
       PROVE  Holders(q)' = Holders(q) \cup (IF q = p THEN {t} ELSE {})
  <2>1. refCount[t] = 1
    BY <1>1, <1>3, <1>8 DEF CountsOK
  <2>2. \A r \in Placed : place'[r] = place[r]
    BY <1>7, <1>8 DEF Placed
  <2>3. place'[t].pool = p
    BY <1>5, <1>7
  <2>4. QED
    BY <1>8, <1>9, <2>1, <2>2, <2>3 DEF Holders
<1>18. QED
  BY <1>3, <1>7, <1>8, <1>11, <1>13, <1>15, <1>16, <1>17 DEF new

LEMMA AllocateNewKeeps ==
  ASSUME IInv, phase = "layout", LayoutFrame,
         NEW t \in Unplaced(NewHere), AllocateNew(t), outcome = "ok"
  PROVE  IInv'
<1> DEFINE p == group[t]
           size == Align(SizeOf(t))
<1>1. /\ ProgramOK /\ AnalysisOK /\ PlacesOK /\ BlocksOK /\ sharing \in BOOLEAN
  BY DEF IInv
<1>2. /\ pc' = pc /\ phase' = phase /\ root' = root /\ refCount' = refCount
      /\ freed' = freed /\ outcome' = "ok"
  BY DEF AllocateNew
<1>3. t \in NewHere /\ t \in Tensors /\ p \in Pools /\ pc \in DOMAIN prog
  BY NewHereFacts DEF Unplaced
<1>4. size \in Nat \ {0}
  BY <1>1, <1>3, ValueIsSequence, AlignCovers
<1>5. /\ DOMAIN nodes = Pools /\ peak \in [Pools -> Nat]
      /\ \A q \in Pools : IsNodeList(nodes[q])
  BY <1>1 DEF BlocksOK
<1> HIDE DEF p, size
<1>6. CASE sharing
  <2>1. PICK o \in FirstFit(nodes[p], size) :
          /\ nodes' = [nodes EXCEPT ![p] = Carve(@, o, size)]
          /\ peak' = [peak EXCEPT ![p] = IF o + size > @ THEN o + size ELSE @]
          /\ place' = [place EXCEPT ![t] = [pool |-> p, offset |-> o]]
    BY <1>6 DEF AllocateNew, p, size
  <2> DEFINE after == Carve(nodes[p], o, size)
  <2>2. o \in Fitting(nodes[p], size)
    BY DEF FirstFit
  <2>3. o \in Nat
    BY <1>3, <1>5, <2>2 DEF Fitting, IsNodeList
  <2>4. /\ IsNodeList(after)
        /\ Taken(after) = Taken(nodes[p]) \cup {o}
        /\ o \notin Taken(nodes[p])
    BY <1>3, <1>4, <1>5, <2>2, CarveTakes
  <2> HIDE DEF after
  <2>5. /\ PlacesOK' /\ CountsOK' /\ PassedOK' /\ FreedOK'
        /\ \A q \in Pools : Holders(q)' = Holders(q) \cup (IF q = p THEN {t} ELSE {})
        /\ place'[t] = [pool |-> p, offset |-> o]
        /\ \A u \in Tensors : u # t => place'[u] = place[u]
        /\ t \notin Placed
    BY <1>2, <1>3, <2>1, <2>3, NewTensorPlaced
  <2>6. /\ DOMAIN nodes' = Pools /\ nodes'[p] = after
        /\ \A q \in Pools : q # p => nodes'[q] = nodes[q]
    BY <1>3, <1>5, <2>1 DEF after
  <2>7. \A q \in Pools : IsNodeList(nodes'[q])
    BY <1>5, <2>4, <2>6
  <2>8. peak' \in [Pools -> Nat]
    <3>1. o + size \in Nat
      BY <1>4, <2>3
    <3>2. QED
      BY <1>3, <1>5, <2>1, <3>1
  <2>9. ASSUME NEW q \in Pools
        PROVE  /\ \A r \in Holders(q)' : place'[r].offset \in Taken(nodes'[q])
               /\ \A x \in Taken(nodes'[q]) : \E r \in Holders(q)' : place'[r].offset = x
               /\ \A r, s \in Holders(q)' : place'[r].offset = place'[s].offset => r = s
    <3>1. /\ \A r \in Holders(q) : place[r].offset \in Taken(nodes[q])
          /\ \A x \in Taken(nodes[q]) : \E r \in Holders(q) : place[r].offset = x
          /\ \A r, s \in Holders(q) : place[r].offset = place[s].offset => r = s
      BY <1>1, <1>6 DEF BlocksOK
    <3>2. \A r \in Holders(q) : r # t /\ place'[r] = place[r]
      BY <2>5 DEF Holders, Placed
    <3>3. CASE q # p
      BY <2>5, <2>6, <3>1, <3>2, <3>3
    <3>4. CASE q = p
      <4>1. Holders(q)' = Holders(q) \cup {t} /\ place'[t].offset = o
        BY <2>5, <3>4
      <4>2. Taken(nodes'[q]) = Taken(nodes[q]) \cup {o} /\ o \notin Taken(nodes[q])
        BY <2>4, <2>6, <3>4
      <4>3. QED
        BY <3>1, <3>2, <4>1, <4>2
    <3>5. QED
      BY <3>3, <3>4
  <2>10. BlocksOK'
    BY <2>6, <2>7, <2>8, <2>9 DEF BlocksOK
  <2>11. QED
    BY <1>2, <1>3, <2>5, <2>10, FrameKeeps
<1>7. CASE ~ sharing
  <2>1. /\ place' = [place EXCEPT ![t] = [pool |-> p, offset |-> peak[p]]]
        /\ peak' = [peak EXCEPT ![p] = @ + size]
        /\ nodes' = nodes
    BY <1>1, <1>7 DEF AllocateNew, p, size
  <2>2. peak[p] \in Nat /\ peak' \in [Pools -> Nat]
    BY <1>3, <1>4, <1>5, <2>1
  <2>3. PlacesOK' /\ CountsOK' /\ PassedOK' /\ FreedOK'
    BY <1>2, <1>3, <2>1, <2>2, NewTensorPlaced
  <2>4. BlocksOK'
    BY <1>1, <1>5, <1>7, <2>1, <2>2 DEF BlocksOK, LayoutFrame
  <2>5. QED
    BY <1>2, <1>3, <2>3, <2>4, FrameKeeps
<1>8. QED
  BY <1>1, <1>6, <1>7

(* What a tensor refers to has been allocated, and is not freed yet, or is *)
(* a parameter.                                                            *)
LEMMA ParentInUse ==
  ASSUME IInv, phase = "layout", NEW t \in RefsHere, place[t] = None,
         Unplaced(NewHere \ RefsHere) = {}
  PROVE  /\ mapping[t] \in [tensor : DOMAIN prog, offset : Nat]
         /\ IsParameter(mapping[t].tensor) \/ mapping[t].tensor \in Placed \ freed
         /\ t = pc
<1> DEFINE parent == mapping[t].tensor
<1>1. /\ ProgramOK /\ AnalysisOK /\ ListsOK /\ MappingOK /\ PlacesOK /\ PassedOK /\ FreedOK
  BY DEF IInv
<1>2. t \in NewHere /\ t = pc /\ mapping[t] # None
  BY DEF RefsHere
<1>3. t \in Tensors /\ pc \in DOMAIN prog /\ Op(pc) # "Parameter"
  BY <1>2, NewHereFacts
<1>4. /\ mapping[t] \in [tensor : DOMAIN prog, offset : Nat]
      /\ AllocatedBy(parent, t) \/ IsParameter(parent)
      /\ parent > t \/ t \in Readers(parent)
  BY <1>1, <1>2, <1>3 DEF MappingOK
<1>5. /\ pc \in Nat /\ DOMAIN prog = 1 .. Len(prog) /\ Len(prog) \in Nat
      /\ DOMAIN prog \subseteq Tensors /\ Tensors \subseteq Nat
      /\ Passed = 1 .. pc - 1 /\ \A i \in DOMAIN prog : Inputs(i) \subseteq 1 .. i - 1
  BY <1>1, <1>3, InstructionAt, TensorFacts DEF Passed
<1>6. parent \in DOMAIN prog
  BY <1>4
<1> SUFFICES ASSUME ~ IsParameter(parent)
             PROVE  parent \in Placed \ freed
  BY <1>2, <1>4
<1>7. parent \in Placed
  <2>1. PICK j \in 1 .. t : parent \in newList[j] /\ Op(j) # "Parameter"
    BY <1>4 DEF AllocatedBy
  <2>2. CASE j < pc
    <3>1. j \in Passed
      BY <1>2, <1>5, <2>1, <2>2
    <3>2. QED
      BY <1>1, <2>1, <3>1 DEF PassedOK
  <2>3. CASE j = pc
    <3>1. parent # pc
      BY <1>2, <1>4, <1>5 DEF Readers
    <3>2. parent \in NewHere \ RefsHere
      BY <1>3, <2>1, <2>3, <3>1 DEF NewHere, RefsHere
    <3>3. place[parent] # None
      BY <3>2 DEF Unplaced
    <3>4. QED
      BY <1>5, <1>6, <3>3 DEF Placed
  <2>4. QED
    BY <1>2, <1>5, <2>1, <2>2, <2>3
<1>8. parent \notin freed
  <2>1. SUFFICES ASSUME parent \in freed PROVE FALSE
    OBVIOUS
  <2>2. PICK j \in 1 .. pc : parent \in freeList[j] /\ (j = pc => Unplaced(NewHere) = {})
    BY <1>1, <1>6, <2>1 DEF FreedOK
  <2>3. j # pc
    BY <1>2, <2>2 DEF Unplaced
  <2>4. j \in DOMAIN prog /\ j < pc
    BY <1>3, <1>5, <2>2, <2>3
  <2>5. parent \in LastSeen(j)
    BY <1>1, <2>2, <2>4, FreeListAt
  <2>6. parent <= j /\ \A k \in Readers(parent) : k <= j
    BY <1>1, <2>4, <2>5, SeenLast
  <2>7. QED
    BY <1>2, <1>4, <1>5, <1>6, <2>4, <2>6
<1>9. QED
  BY <1>7, <1>8

(* The root of a tensor that has a place has one too, or is a parameter,   *)
(* and is nobody's reference; its count is positive while the tensor is    *)
(* not freed.                                                              *)
LEMMA RootInUse ==
  ASSUME IInv, phase = "layout", NEW u \in Placed, ~ IsParameter(TopOf(u))
  PROVE  /\ TopOf(u) \in Placed /\ TopOf(u) \in Tensors /\ root[TopOf(u)] = None
         /\ place[TopOf(u)] \in [pool : Pools, offset : Nat]
         /\ refCount[TopOf(u)] = Cardinality(Users(TopOf(u)))
         /\ refCount[TopOf(u)] \in Nat
         /\ Users(TopOf(u)) \in SUBSET Tensors
         /\ u \notin freed => u \in Users(TopOf(u)) /\ refCount[TopOf(u)] > 0
<1> DEFINE r == TopOf(u)
<1>1. PlacesOK /\ CountsOK
  BY DEF IInv
<1>2. Placed \subseteq Tensors
  BY DEF Placed
<1>3. r \in Placed /\ root[r] = None
  BY <1>1, <1>2 DEF PlacesOK, TopOf
<1>4. place[r] \in [pool : Pools, offset : Nat]
  <2>1. place[r] \in Spot
    BY <1>1, <1>2, <1>3 DEF PlacesOK, Placed
  <2>2. TopOf(r) = r
    BY <1>3 DEF TopOf
  <2>3. place[r].offset \in Nat
    BY <1>1, <1>3, <2>2 DEF PlacesOK
  <2>4. QED
    BY <2>1, <2>3 DEF Spot
<1>5. refCount[r] = Cardinality(Users(r)) /\ refCount[r] \in Nat
  BY <1>1, <1>2, <1>3 DEF CountsOK
<1>6. Users(r) \in SUBSET Tensors
  BY <1>2 DEF Users
<1>7. ASSUME u \notin freed PROVE u \in Users(r) /\ refCount[r] > 0
  <2>1. u \in Users(r)
    BY <1>7 DEF Users
  <2>2. Cardinality(Users(r)) >= 1
    BY <1>6, <2>1, OneLess
  <2>3. QED
    BY <1>5, <2>1, <2>2
<1>8. QED
  BY <1>2, <1>3, <1>4, <1>5, <1>6, <1>7

LEMMA AllocateRefKeeps ==
  ASSUME IInv, phase = "layout", LayoutFrame,
         NEW t \in Unplaced(NewHere), AllocateRef(t), outcome = "ok"
  PROVE  IInv'
<1> DEFINE parent == mapping[t].tensor
           base == IF place[parent] = None THEN Unset ELSE place[parent].offset
           sum == base + mapping[t].offset
<1>r. PICK r : r = RootToShare(t)
  OBVIOUS
<1>n. PICK new : new = [pool |-> group[r], offset |-> sum]
  OBVIOUS
<1>1. /\ ProgramOK /\ AnalysisOK /\ PlacesOK /\ CountsOK /\ BlocksOK /\ PassedOK /\ FreedOK
  BY DEF IInv
<1>2. /\ t \in NewHere /\ place[t] = None /\ t \in RefsHere
      /\ Unplaced(NewHere \ RefsHere) = {}
  BY DEF AllocateRef, Unplaced
<1>3. t \in Allocatable /\ t \in Tensors /\ pc \in DOMAIN prog /\ ~ IsParameter(t)
  BY <1>2, NewHereFacts
<1>4. /\ mapping[t] \in [tensor : DOMAIN prog, offset : Nat]
      /\ IsParameter(parent) \/ parent \in Placed \ freed
      /\ t = pc
  BY <1>2, ParentInUse
<1>5. /\ Placed \subseteq Tensors /\ DOMAIN prog \subseteq Tensors
      /\ parent \in DOMAIN prog /\ mapping[t].offset \in Nat
      /\ \A u \in Tensors : place[u] # None <=> u \in Placed
  BY <1>1, <1>4, IsTensorIn, TensorFacts DEF Placed
<1>8. /\ place \in [Tensors -> Spot \cup {None}]
      /\ root \in [Tensors -> Tensors \cup {None}]
      /\ \A u \in Tensors : root[u] # None =>
           /\ u \in Placed /\ root[root[u]] = None
           /\ root[u] \in Placed \/ IsParameter(root[u])
      /\ \A u \in Placed :
           ~ IsParameter(u) /\ (IsParameter(TopOf(u)) \/ place[u].offset \in Nat)
      /\ freed \subseteq Placed /\ Placed \subseteq Allocatable
      /\ refCount \in [Tensors -> Nat]
  BY <1>1 DEF PlacesOK, CountsOK
<1>s. r = TopOf(parent)
  BY <1>r DEF RootToShare
<1>t. parent \notin Placed => r = parent /\ IsParameter(r) /\ r \in Tensors
  BY <1>4, <1>5, <1>8, <1>s DEF TopOf
<1>7. /\ r \in Tensors /\ root[r] = None /\ IsTensor(r)
      /\ refCount[r] \in Nat /\ refCount[r] > 0
      /\ IsParameter(r) \/ r \in Placed
      /\ IsParameter(r) => r \notin Placed
      /\ r \in Placed =>
           /\ parent \in Placed
           /\ refCount[r] = Cardinality(Users(r)) /\ Users(r) \in SUBSET Tensors
  <2>1. root[r] = None /\ r \in Tensors /\ (IsParameter(r) \/ r \in Placed)
    BY <1>5, <1>8, <1>s, <1>t DEF TopOf
  <2>2. IsParameter(r) => r \notin Placed
    BY <1>8
  <2>3. IsTensor(r)
    <3>1. IsParameter(r) => r \in Allocatable
      BY DEF IsParameter, Allocatable
    <3>2. QED
      BY <1>1, <1>8, <2>1, <3>1, IsTensorIn
  <2>4. ASSUME r \in Placed
        PROVE  /\ parent \in Placed /\ refCount[r] \in Nat /\ refCount[r] > 0
               /\ refCount[r] = Cardinality(Users(r)) /\ Users(r) \in SUBSET Tensors
    <3>1. ~ IsParameter(r) /\ parent \in Placed \ freed
      BY <1>4, <1>8, <1>t, <2>2, <2>4
    <3>2. QED
      BY <1>s, <3>1, RootInUse
  <2>5. r \notin Placed => refCount[r] \in Nat /\ refCount[r] > 0
    BY <1>1, <2>1 DEF CountsOK
  <2>6. QED
    BY <2>1, <2>2, <2>3, <2>4, <2>5
<1>6. /\ pc' = pc /\ phase' = phase /\ nodes' = nodes /\ peak' = peak /\ freed' = freed
      /\ outcome' = "ok"
      /\ place' = [place EXCEPT ![t] = new]
      /\ root' = [root EXCEPT ![t] = r]
      /\ refCount' = [refCount EXCEPT ![r] = @ + 1]
  <2>1. /\ pc' = pc /\ phase' = phase /\ nodes' = nodes /\ peak' = peak /\ freed' = freed
        /\ outcome' = IF root[r] # None \/ refCount[r] < 1 THEN "check"
                      ELSE IF place[parent] = None /\ Op(parent) # "Parameter" THEN "unplaced"
                      ELSE outcome
        /\ place' = [place EXCEPT ![t] = new]
        /\ root' = [root EXCEPT ![t] = r]
        /\ refCount' = [refCount EXCEPT ![r] = @ + 1]
    BY <1>r, <1>n DEF AllocateRef
  <2>2. ~ (root[r] # None \/ refCount[r] < 1)
    BY <1>7
  <2>3. ~ (place[parent] = None /\ Op(parent) # "Parameter")
    BY <1>4, <1>5 DEF IsParameter
  <2>4. QED
    BY <2>1, <2>2, <2>3
<1>9. /\ new \in Spot /\ new # None
      /\ IsParameter(r) \/ new.offset \in Nat
  <2>1. base \in Nat \cup {Unset} /\ (r \in Placed => base \in Nat)
    <3>1. parent \in Placed => place[parent] \in Spot /\ place[parent] # None
      BY <1>5, <1>8
    <3>2. parent \in Placed => place[parent].offset \in Nat \cup {Unset}
      BY <3>1 DEF Spot
    <3>3. r \in Placed => parent \in Placed /\ place[parent].offset \in Nat
      BY <1>7, <1>8, <1>s
    <3>4. QED
      BY <1>5, <3>1, <3>2, <3>3
  <2> HIDE DEF base
  <2>2. sum \in Nat \cup {Unset} /\ (r \in Placed => sum \in Nat)
    BY <1>5, <2>1 DEF Unset
  <2>3. group[r] \in Pools
    BY <1>1, <1>7 DEF AnalysisOK
  <2> HIDE DEF sum
  <2>4. new \in Spot /\ new.offset = sum
    BY <1>n, <2>2, <2>3 DEF Spot
  <2>5. group[r] \in Int /\ sum \in Int
    <3>1. group[r] \in Int
      BY <2>3, TensorFacts
    <3>2. Unset \in Int
      BY DEF Unset
    <3>3. sum \in Int
      BY <2>2, <3>2
    <3>4. QED
      BY <3>1, <3>3
  <2>6. new \in [pool : Int, offset : Int]
    BY <1>n, <2>5
  <2>7. QED
    BY <1>7, <2>2, <2>4, <2>6, PlanAssumption
<1>10. r # None
  BY <1>7, TensorFacts, PlanAssumption
<1> HIDE DEF parent
<1>11. t \notin Placed /\ t \notin freed /\ root[t] = None /\ t # r
  BY <1>2, <1>3, <1>7, <1>8 DEF Placed
<1>12. /\ place' \in [Tensors -> Spot \cup {None}]
       /\ place'[t] = new /\ \A u \in Tensors : u # t => place'[u] = place[u]
       /\ root' \in [Tensors -> Tensors \cup {None}]
       /\ root'[t] = r /\ \A u \in Tensors : u # t => root'[u] = root[u]
       /\ refCount' \in [Tensors -> Nat]
       /\ refCount'[r] = refCount[r] + 1
       /\ \A u \in Tensors : u # r => refCount'[u] = refCount[u]
  BY <1>3, <1>6, <1>7, <1>8, <1>9
<1>13. Placed' = Placed \cup {t}
  BY <1>3, <1>9, <1>12 DEF Placed
<1>14. Allocatable' = Allocatable
  BY SameProgram DEF LayoutFrame
<1>a. \A u : IsParameter(u)' <=> IsParameter(u)
  BY SameProgram DEF LayoutFrame
<1>16. /\ TopOf(t)' = r
       /\ \A u \in Tensors : u # t => TopOf(u)' = TopOf(u)
  BY <1>10, <1>12 DEF TopOf
<1>15. PlacesOK'
  <2>1. ASSUME NEW u \in Tensors, root'[u] # None
        PROVE  /\ u \in Placed' /\ root'[root'[u]] = None
               /\ root'[u] \in Placed' \/ IsParameter(root[u])'
    <3>1. CASE u = t
      BY <1>7, <1>11, <1>12, <1>13, <1>a, <3>1
    <3>2. CASE u # t
      <4>1. /\ root'[u] = root[u]
            /\ u \in Placed /\ root[root[u]] = None
            /\ root[u] \in Placed \/ IsParameter(root[u])
        BY <1>8, <1>12, <2>1, <3>2
      <4>2. root[u] # t /\ root[u] \in Tensors
        BY <1>3, <1>8, <1>11, <1>12, <2>1, <4>1
      <4>3. QED
        BY <1>12, <1>13, <1>a, <4>1, <4>2
    <3>3. QED
      BY <3>1, <3>2
  <2>2. ASSUME NEW u \in Placed'
        PROVE  ~ IsParameter(u)' /\ (IsParameter(TopOf(u))' \/ place'[u].offset \in Nat)
    <3>1. CASE u = t
      BY <1>3, <1>9, <1>12, <1>16, <1>a, <3>1 DEF IsParameter
    <3>2. CASE u # t
      <4>1. u \in Placed /\ u \in Tensors /\ place'[u] = place[u] /\ TopOf(u)' = TopOf(u)
        BY <1>5, <1>12, <1>13, <1>16, <3>2
      <4>2. QED
        BY <1>8, <1>a, <4>1 DEF IsParameter
    <3>3. QED
      BY <3>1, <3>2
  <2>3. QED
    BY <1>3, <1>6, <1>8, <1>12, <1>13, <1>14, <2>1, <2>2 DEF PlacesOK, Spot
<1>17. CountsOK'
  <2>1. Users(r)' = Users(r) \cup {t}
    BY <1>5, <1>6, <1>11, <1>13, <1>16 DEF Users
  <2>2. t \notin Users(r)
    BY <1>11 DEF Users
  <2>3. r \in Placed => Cardinality(Users(r)') = Cardinality(Users(r)) + 1
    BY <1>3, <1>7, <2>1, <2>2, OneMore
  <2>4. ASSUME NEW s \in Placed, s # r
        PROVE  Users(s)' = Users(s)
    BY <1>5, <1>6, <1>11, <1>13, <1>16, <2>4 DEF Users
  <2>5. ASSUME NEW s \in Placed', root'[s] = None
        PROVE  refCount'[s] = Cardinality(Users(s)')
    <3>1. s \in Placed /\ s # t /\ s \in Tensors
      BY <1>5, <1>10, <1>12, <1>13, <2>5
    <3>2. CASE s = r
      BY <1>7, <1>12, <2>3, <3>1, <3>2
    <3>3. CASE s # r
      BY <1>1, <1>12, <2>4, <2>5, <3>1, <3>3 DEF CountsOK
    <3>4. QED
      BY <3>2, <3>3
  <2>6. \A s \in Tensors : s \notin Placed' =>
          refCount'[s] >= 1 /\ (IsParameter(s)' \/ refCount'[s] = 1)
    <3>1. \A s \in Tensors : s \notin Placed =>
            refCount[s] >= 1 /\ (IsParameter(s) \/ refCount[s] = 1)
      BY <1>1 DEF CountsOK
    <3>2. QED
      BY <1>7, <1>12, <1>13, <1>a, <3>1
  <2>7. QED
    BY <1>12, <2>5, <2>6 DEF CountsOK
<1>18. BlocksOK'
  <2>1. ASSUME NEW q \in Pools PROVE Holders(q)' = Holders(q)
    <3>1. \A u \in Placed : place'[u] = place[u] /\ root'[u] = root[u]
      BY <1>5, <1>11, <1>12
    <3>2. \A u \in Placed : refCount'[u] > 0 <=> refCount[u] > 0
      BY <1>5, <1>7, <1>8, <1>12
    <3>3. t \notin Holders(q)'
      BY <1>10, <1>12 DEF Holders
    <3>4. QED
      BY <1>13, <3>1, <3>2, <3>3 DEF Holders
  <2>2. \A q \in Pools : \A u \in Holders(q) : place'[u] = place[u]
    BY <1>5, <1>11, <1>12 DEF Holders
  <2>3. QED
    BY <1>1, <1>6, <2>1, <2>2 DEF BlocksOK, LayoutFrame
<1>19. PassedOK'
  <2>1. Passed' = Passed /\ Passed = 1 .. pc - 1 /\ Passed \subseteq DOMAIN prog
    BY <1>1, <1>3, <1>6, InstructionAt DEF Passed, LayoutFrame
  <2>2. ASSUME NEW j \in Passed, NEW u \in freeList[j] \cup TemporariesOf(j)
        PROVE  u # t /\ u \in Tensors
    <3>1. j \in DOMAIN prog /\ j < pc /\ j \in Ins /\ pc \in Nat /\ j \in Nat /\ pc \in Ins
      BY <1>1, <1>3, <2>1, InstructionAt
    <3>2. CASE u \in freeList[j]
      <4>1. u \in DOMAIN prog /\ u <= j
        BY <1>1, <3>1, <3>2, FreeListAt, SeenLast
      <4>2. QED
        BY <1>1, <1>4, <3>1, <4>1, IsTensorIn, TensorFacts
    <3>3. CASE u \in TemporariesOf(j)
      <4>1. u = Temp(j)
        BY <3>3 DEF TemporariesOf
      <4>2. QED
        BY <1>4, <3>1, <4>1, TensorFacts
    <3>4. QED
      BY <3>2, <3>3
  <2>3. QED
    BY <1>1, <1>6, <1>13, <1>16, <2>1, <2>2, SameProgram DEF PassedOK, LayoutFrame
<1>20. FreedOK'
  <2>1. ASSUME NEW u \in freed \cap DOMAIN prog
        PROVE  \E j \in 1 .. pc : u \in freeList[j] /\ j # pc
    BY <1>1 DEF FreedOK
  <2>2. QED
    BY <1>6, <2>1 DEF FreedOK, LayoutFrame
<1>21. QED
  BY <1>3, <1>6, <1>15, <1>17, <1>18, <1>19, <1>20, FrameKeeps

(* What the pass may free at an instruction has been placed. *)
LEMMA FreeHereFacts ==
  ASSUME IInv, phase = "layout", Unplaced(NewHere) = {}, NEW t \in FreeHere
  PROVE  /\ t \in Placed \ freed /\ sharing
         /\ t \in freeList[pc] \cup TemporariesOf(pc)
         /\ TopOf(t) \notin persistent
<1>1. /\ ProgramOK /\ AnalysisOK /\ ListsOK /\ PlacesOK /\ PassedOK
      /\ pc \in DOMAIN prog /\ sharing \in BOOLEAN
  BY DEF IInv, AnalysisOK
<1>2. /\ sharing /\ Op(pc) # "Parameter" /\ t \notin freed
      /\ t \in freeList[pc] \cup TemporariesOf(pc) /\ TopOf(t) \notin persistent
  BY <1>1 DEF FreeHere
<1>3. /\ pc \in Nat /\ pc \in Ins /\ DOMAIN prog = 1 .. Len(prog) /\ Len(prog) \in Nat
      /\ Passed = 1 .. pc - 1
  BY <1>1, InstructionAt DEF Passed
<1>4. ASSUME NEW u \in NewHere PROVE u \in Placed
  BY <1>4, NewHereFacts DEF Unplaced, Placed
<1>5. CASE t \in TemporariesOf(pc)
  BY <1>2, <1>4, <1>5 DEF NewHere
<1>6. CASE t \in freeList[pc]
  <2>1. t \in LastSeen(pc)
    BY <1>1, <1>6, FreeListAt
  <2>2. t \in DOMAIN prog /\ t <= pc /\ t \notin Persistent
    BY <1>1, <2>1, SeenLast
  <2>3. Op(t) # "Parameter"
    BY <2>2 DEF Persistent
  <2>4. PICK j \in 1 .. t : t \in newList[j] /\ Op(j) # "Parameter"
    BY <1>1, <2>2, <2>3 DEF ListsOK, AllocatedBy
  <2>5. CASE j < pc
    <3>1. j \in Passed
      BY <1>3, <2>4, <2>5
    <3>2. t \in Placed
      BY <1>1, <2>4, <3>1 DEF PassedOK
    <3>3. QED
      BY <1>2, <3>2
  <2>6. CASE j = pc
    <3>1. t \in NewHere
      BY <1>2, <2>4, <2>6 DEF NewHere
    <3>2. QED
      BY <1>2, <1>4, <3>1
  <2>7. t \in Nat
    BY <1>1, <2>2, InstructionAt
  <2>8. QED
    BY <1>3, <2>2, <2>4, <2>5, <2>6, <2>7
<1>7. QED
  BY <1>2, <1>5, <1>6

LEMMA FreeKeeps ==
  ASSUME IInv, phase = "layout", LayoutFrame,
         NEW t \in FreeHere, Free(t), outcome = "ok"
  PROVE  IInv'
<1>r. PICK r : r = TopOf(t)
  OBVIOUS
<1>p. PICK p : p = place[r].pool
  OBVIOUS
<1>o. PICK o : o = place[r].offset
  OBVIOUS
<1>1. /\ ProgramOK /\ AnalysisOK /\ PlacesOK /\ CountsOK /\ BlocksOK /\ PassedOK /\ FreedOK
      /\ pc \in DOMAIN prog
  BY DEF IInv, AnalysisOK
<1>2. Unplaced(NewHere) = {}
  BY DEF Free
<1>3. /\ t \in Placed \ freed /\ sharing
      /\ t \in freeList[pc] \cup TemporariesOf(pc)
  BY <1>2, FreeHereFacts
<1>a. ~ IsParameter(r)
  <2>1. r \notin persistent
    BY <1>2, <1>r, FreeHereFacts
  <2>2. IsParameter(r) => r \in persistent
    BY <1>1 DEF IsParameter, Persistent, AnalysisOK
  <2>3. QED
    BY <2>1, <2>2
<1>4. /\ r \in Placed /\ r \in Tensors /\ root[r] = None
      /\ place[r] \in [pool : Pools, offset : Nat]
      /\ refCount[r] = Cardinality(Users(r)) /\ refCount[r] \in Nat /\ refCount[r] > 0
      /\ Users(r) \in SUBSET Tensors /\ t \in Users(r)
  BY <1>3, <1>a, <1>r, RootInUse
<1>5. p \in Pools /\ o \in Nat
  BY <1>4, <1>p, <1>o
<1>6. /\ DOMAIN nodes = Pools
      /\ peak \in [Pools -> Nat]
      /\ refCount \in [Tensors -> Nat]
      /\ \A q \in Pools :
           /\ IsNodeList(nodes[q])
           /\ \A u \in Holders(q) : place[u].offset \in Taken(nodes[q])
           /\ \A x \in Taken(nodes[q]) : \E u \in Holders(q) : place[u].offset = x
           /\ \A u, s \in Holders(q) : place[u].offset = place[s].offset => u = s
  BY <1>1, <1>3 DEF BlocksOK, CountsOK
<1>7. r \in Holders(p) /\ o \in Taken(nodes[p]) /\ o \in DOMAIN nodes[p]
  <2>1. r \in Holders(p)
    BY <1>4, <1>p DEF Holders
  <2>2. QED
    BY <1>5, <1>6, <1>o, <2>1 DEF Taken
<1>8. /\ pc' = pc /\ phase' = phase /\ peak' = peak /\ place' = place /\ root' = root
      /\ freed' = freed \cup {t} /\ outcome' = "ok"
      /\ refCount' = [refCount EXCEPT ![r] = @ - 1]
      /\ nodes' = IF refCount[r] = 1 THEN [nodes EXCEPT ![p] = Release(@, o)] ELSE nodes
  <2>1. /\ refCount' = IF refCount[r] > 0 THEN [refCount EXCEPT ![r] = @ - 1] ELSE refCount
        /\ nodes' = IF refCount[r] = 1 /\ o \in DOMAIN nodes[p]
                    THEN [nodes EXCEPT ![p] = Release(@, o)] ELSE nodes
        /\ outcome' = IF refCount[r] = 0 THEN "check"
                      ELSE IF refCount[r] = 1 /\ o \notin DOMAIN nodes[p]
                      THEN "bad_free" ELSE outcome
        /\ pc' = pc /\ phase' = phase /\ peak' = peak /\ place' = place /\ root' = root
        /\ freed' = freed \cup {t}
    BY <1>r, <1>p, <1>o DEF Free
  <2>2. refCount[r] > 0 /\ refCount[r] # 0 /\ o \in DOMAIN nodes[p]
    BY <1>4, <1>7
  <2>3. QED
    BY <2>1, <2>2
<1>9. /\ refCount' \in [Tensors -> Nat]
      /\ refCount'[r] = refCount[r] - 1
      /\ \A u \in Tensors : u # r => refCount'[u] = refCount[u]
  BY <1>4, <1>6, <1>8
<1>10. Placed' = Placed /\ Placed \subseteq Tensors
  BY <1>8 DEF Placed
<1>11. \A u : TopOf(u)' = TopOf(u)
  BY <1>8 DEF TopOf
<1>b. \A u : IsParameter(u)' <=> IsParameter(u)
  BY SameProgram DEF LayoutFrame
<1>12. PlacesOK'
  BY <1>1, <1>3, <1>8, <1>10, <1>11, <1>b, SameProgram DEF PlacesOK, LayoutFrame, Spot, IsParameter
<1>13. CountsOK'
  <2>1. Users(r)' = Users(r) \ {t}
    BY <1>8, <1>10, <1>11 DEF Users
  <2>2. Cardinality(Users(r)') = Cardinality(Users(r)) - 1
    BY <1>4, <2>1, OneLess
  <2>3. ASSUME NEW s \in Placed, s # r
        PROVE  Users(s)' = Users(s)
    BY <1>8, <1>10, <1>11, <1>r, <2>3 DEF Users
  <2>4. ASSUME NEW s \in Placed, root[s] = None
        PROVE  refCount'[s] = Cardinality(Users(s)')
    <3>1. CASE s = r
      BY <1>4, <1>9, <2>2, <3>1
    <3>2. CASE s # r
      BY <1>1, <1>9, <1>10, <2>3, <2>4, <3>2 DEF CountsOK
    <3>3. QED
      BY <3>1, <3>2
  <2>5. \A s \in Tensors : s \notin Placed =>
          refCount'[s] >= 1 /\ (IsParameter(s)' \/ refCount'[s] = 1)
    BY <1>1, <1>4, <1>9, <1>b DEF CountsOK
  <2>6. QED
    BY <1>8, <1>9, <1>10, <2>4, <2>5 DEF CountsOK
<1>14. ASSUME refCount[r] # 1 PROVE BlocksOK'
  <2>1. ASSUME NEW q \in Pools PROVE Holders(q)' = Holders(q)
    <3>1. \A u \in Placed : refCount'[u] > 0 <=> refCount[u] > 0
      BY <1>4, <1>6, <1>9, <1>10, <1>14
    <3>2. QED
      BY <1>8, <1>10, <3>1 DEF Holders
  <2>2. BlocksOK'
    BY <1>6, <1>8, <1>14, <2>1 DEF BlocksOK
  <2>3. QED
    BY <2>2
<1>15. ASSUME refCount[r] = 1 PROVE BlocksOK'
  <2> DEFINE after == Release(nodes[p], o)
  <2>1. IsNodeList(after) /\ Taken(after) = Taken(nodes[p]) \ {o}
    BY <1>5, <1>6, <1>7, ReleaseGivesBack
  <2> HIDE DEF after
  <2>2. /\ DOMAIN nodes' = Pools /\ nodes'[p] = after
        /\ \A q \in Pools : q # p => nodes'[q] = nodes[q]
    BY <1>5, <1>6, <1>8, <1>15 DEF after
  <2>3. ASSUME NEW q \in Pools
        PROVE  Holders(q)' = Holders(q) \ {r}
    <3>1. refCount'[r] = 0
      BY <1>9, <1>15
    <3>2. \A u \in Placed : u # r => refCount'[u] = refCount[u]
      BY <1>9, <1>10
    <3>3. QED
      BY <1>8, <1>10, <3>1, <3>2 DEF Holders
  <2>4. ASSUME NEW q \in Pools, q # p
        PROVE  r \notin Holders(q)
    BY <1>p, <2>4 DEF Holders
  <2>5. ASSUME NEW q \in Pools
        PROVE  /\ IsNodeList(nodes'[q])
               /\ \A u \in Holders(q)' : place'[u].offset \in Taken(nodes'[q])
               /\ \A x \in Taken(nodes'[q]) : \E u \in Holders(q)' : place'[u].offset = x
               /\ \A u, s \in Holders(q)' : place'[u].offset = place'[s].offset => u = s
    <3>1. CASE q # p
      <4>1. Holders(q)' = Holders(q) /\ nodes'[q] = nodes[q]
        BY <2>2, <2>3, <2>4, <3>1
      <4>2. QED
        BY <1>6, <1>8, <4>1
    <3>2. CASE q = p
      <4>1. /\ Holders(q)' = Holders(q) \ {r} /\ nodes'[q] = after
            /\ Taken(nodes'[q]) = Taken(nodes[q]) \ {o}
        BY <2>1, <2>2, <2>3, <3>2
      <4>2. \A u \in Holders(q) : place[u].offset = o <=> u = r
        BY <1>6, <1>7, <1>o, <3>2
      <4>3. QED
        BY <1>6, <1>8, <2>1, <4>1, <4>2
    <3>3. QED
      BY <3>1, <3>2
  <2>6. peak' \in [Pools -> Nat]
    BY <1>6, <1>8
  <2>7. BlocksOK'
    BY <2>2, <2>5, <2>6 DEF BlocksOK
  <2>8. QED
    BY <2>7
<1>16. BlocksOK'
  BY <1>14, <1>15
<1>17. PassedOK'
  <2>1. Passed' = Passed
    BY <1>8 DEF Passed, LayoutFrame
  <2>2. QED
    BY <1>1, <1>8, <1>10, <1>11, <2>1, SameProgram DEF PassedOK, LayoutFrame
<1>18. FreedOK'
  <2>1. ASSUME NEW u \in (freed \cup {t}) \cap DOMAIN prog
        PROVE  \E j \in 1 .. pc : u \in freeList[j]
    <3>1. CASE u \in freed
      BY <1>1, <3>1 DEF FreedOK
    <3>2. CASE u = t
      <4>1. pc \in Ins /\ pc \in Nat /\ u \in Ins
        BY <1>1, InstructionAt, IsTensorIn
      <4>2. t \notin TemporariesOf(pc)
        BY <3>2, <4>1, TensorFacts DEF TemporariesOf
      <4>3. pc \in 1 .. pc
        BY <4>1 DEF Ins
      <4>4. QED
        BY <1>3, <3>2, <4>2, <4>3
    <3>3. QED
      BY <3>1, <3>2
  <2>2. NewHere' = NewHere
    BY <1>8, SameProgram DEF NewHere, LayoutFrame
  <2>3. Unplaced(NewHere)' = {}
    BY <1>2, <1>8, <2>2 DEF Unplaced
  <2>4. QED
    BY <1>8, <2>1, <2>3 DEF FreedOK, LayoutFrame
<1>19. QED
  BY <1>1, <1>8, <1>12, <1>13, <1>16, <1>17, <1>18, FrameKeeps

LEMMA NextInstructionKeeps ==
  ASSUME IInv, phase = "layout", LayoutFrame, NextInstruction, outcome = "ok"
  PROVE  IInv'
<1>1. /\ ProgramOK /\ AnalysisOK /\ ListsOK /\ PlacesOK /\ CountsOK /\ BlocksOK
      /\ PassedOK /\ FreedOK /\ pc \in DOMAIN prog /\ sharing \in BOOLEAN
  BY DEF IInv, AnalysisOK
<1>2. /\ Unplaced(NewHere) = {} /\ FreeHere = {}
      /\ phase' = IF pc = Len(prog) THEN "run" ELSE phase
      /\ pc' = IF pc = Len(prog) THEN 1 ELSE pc + 1
      /\ nodes' = nodes /\ peak' = peak /\ place' = place /\ root' = root
      /\ refCount' = refCount /\ freed' = freed /\ outcome' = "ok"
  BY DEF NextInstruction, layout
<1>3. /\ pc \in Nat /\ DOMAIN prog = 1 .. Len(prog) /\ Len(prog) \in Nat
      /\ Passed = 1 .. pc - 1
  BY <1>1, InstructionAt DEF Passed
<1>4. pc' \in DOMAIN prog /\ Passed' = Passed \cup {pc}
  <2>1. 1 .. pc = (1 .. pc - 1) \cup {pc} /\ pc \in 1 .. Len(prog)
    BY <1>1, <1>3
  <2>2. CASE pc = Len(prog)
    <3>1. phase' = "run" /\ pc' = 1 /\ Passed' = 1 .. pc
      BY <1>2, <1>3, <2>2 DEF Passed, LayoutFrame
    <3>2. QED
      BY <1>3, <2>1, <3>1
  <2>3. CASE pc # Len(prog)
    <3>1. phase' = "layout" /\ pc' = pc + 1
      BY <1>2, <2>3
    <3>4. Passed' = 1 .. pc' - 1
      BY <3>1 DEF Passed
    <3>2. (pc + 1) - 1 = pc /\ pc + 1 \in 1 .. Len(prog)
      <4>1. pc \in Nat /\ Len(prog) \in Nat /\ 1 <= pc /\ pc <= Len(prog)
        BY <1>1, <1>3
      <4>2. QED
        BY <2>3, <4>1
    <3>5. QED
      BY <1>3, <2>1, <3>1, <3>4, <3>2
  <2>4. QED
    BY <2>2, <2>3
<1>5. Placed' = Placed /\ Placed \subseteq Tensors
  BY <1>2 DEF Placed
<1>6. \A u : TopOf(u)' = TopOf(u) /\ Users(u)' = Users(u) /\ Holders(u)' = Holders(u)
  BY <1>2, <1>5 DEF TopOf, Users, Holders
<1>7. PlacesOK' /\ CountsOK'
  BY <1>1, <1>2, <1>5, <1>6, SameProgram
     DEF PlacesOK, CountsOK, LayoutFrame, Spot, IsParameter
<1>8. BlocksOK'
  BY <1>1, <1>2, <1>6 DEF BlocksOK, LayoutFrame
<1>9. Op(pc) # "Parameter" =>
        /\ newList[pc] \cup TemporariesOf(pc) \subseteq Placed
        /\ sharing => \A u \in freeList[pc] \cup TemporariesOf(pc) :
             TopOf(u) \in persistent \/ u \in freed
  <2>1. SUFFICES ASSUME Op(pc) # "Parameter"
                 PROVE  /\ newList[pc] \cup TemporariesOf(pc) \subseteq Placed
                        /\ sharing => \A u \in freeList[pc] \cup TemporariesOf(pc) :
                             TopOf(u) \in persistent \/ u \in freed
    OBVIOUS
  <2>2. NewHere = TemporariesOf(pc) \cup newList[pc]
    BY <2>1 DEF NewHere
  <2>3. \A u \in NewHere : u \in Placed
    BY <1>2, NewHereFacts DEF Unplaced, Placed
  <2>4. sharing => \A u \in freeList[pc] \cup TemporariesOf(pc) :
                     TopOf(u) \in persistent \/ u \in freed
    BY <1>2, <2>1 DEF FreeHere
  <2>5. QED
    BY <2>2, <2>3, <2>4
<1>10. PassedOK'
  BY <1>1, <1>2, <1>4, <1>5, <1>6, <1>9, SameProgram DEF PassedOK, LayoutFrame
<1>11. FreedOK'
  <2>1. SUFFICES ASSUME phase' = "layout" PROVE FreedOK'
    BY DEF FreedOK
  <2>2. pc' = pc + 1
    BY <1>2, <2>1
  <2>3. \A u \in freed \cap DOMAIN prog : \E j \in 1 .. pc : u \in freeList[j]
    BY <1>1 DEF FreedOK
  <2>4. \A j \in 1 .. pc : j \in 1 .. pc + 1 /\ j # pc + 1
    BY <1>3
  <2>5. QED
    BY <1>2, <2>2, <2>3, <2>4 DEF FreedOK, LayoutFrame
<1>12. QED
  BY <1>2, <1>4, <1>7, <1>8, <1>10, <1>11, FrameKeeps

LEMMA LayoutKeeps ==
  ASSUME IInv, Layout
  PROVE  IInv'
<1>1. phase = "layout" /\ outcome = "ok"
  BY DEF Layout
<1>2. LayoutFrame
  BY DEF Layout, LayoutFrame, analysis, aliases, running
<1>3. CASE \E t \in Unplaced(NewHere) : AllocateNew(t) \/ AllocateRef(t)
  BY <1>1, <1>2, <1>3, AllocateNewKeeps, AllocateRefKeeps
<1>4. CASE \E t \in FreeHere : Free(t)
  BY <1>1, <1>2, <1>4, FreeKeeps
<1>5. CASE NextInstruction
  BY <1>1, <1>2, <1>5, NextInstructionKeeps
<1>6. QED
  BY <1>3, <1>4, <1>5 DEF Layout

-----------------------------------------------------------------------------
(***************************************************************************)
(* The invariant holds.                                                    *)
(***************************************************************************)

(* A step that only runs an instruction changes nothing the plan is about. *)
LEMMA PlanUnchanged ==
  ASSUME IInv, sharing' = sharing, prog' = prog, phase' = phase, pc' = pc,
         UNCHANGED analysis, UNCHANGED aliases, UNCHANGED layout, outcome' = outcome,
         done' \subseteq done \cup DOMAIN prog, phase # "run" => done' = done
  PROVE  IInv'
<1> USE DEF analysis, aliases, layout
<1>1. outcome' = "ok" /\ phase' \in {"visit", "inplace", "layout", "run"}
  BY DEF IInv
<1>2. ProgramOK' /\ ProgramOK
  BY SameProgram DEF IInv
<1>3. phase' = "visit" => NothingAnalysed'
  BY DEF IInv, NothingAnalysed
<1>4. phase' \in {"visit", "inplace"} => NothingPlaced'
  BY DEF IInv, NothingPlaced
<1>5. phase' # "visit" => AnalysisOK' /\ ListsOK' /\ MappingOK'
  <2>1. SUFFICES ASSUME phase # "visit" PROVE AnalysisOK' /\ ListsOK' /\ MappingOK'
    OBVIOUS
  <2>2. AnalysisOK /\ ListsOK /\ MappingOK
    BY <2>1 DEF IInv
  <2>3. freeList' = [k \in Ins |-> IF IsTensor(k)' THEN LastSeen(k)' ELSE {}]
    <3>1. freeList = [k \in Ins |-> IF IsTensor(k) THEN LastSeen(k) ELSE {}]
      BY <2>2 DEF AnalysisOK
    <3>2. /\ \A k : LastSeen(k)' = LastSeen(k)
          /\ \A k : IsTensor(k)' <=> IsTensor(k)
      BY SameProgram
    <3>3. QED
      BY <3>1, <3>2
  <2>4. AnalysisOK'
    BY <2>2, <2>3, SameProgram DEF AnalysisOK
  <2>5. ListsOK' /\ MappingOK'
    BY <2>2, SameProgram DEF ListsOK, MappingOK, AllocatedBy, IsParameter
  <2>6. QED
    BY <2>4, <2>5
<1>6. phase' = "inplace" => AliasesOK(pc)'
  BY DEF IInv, AliasesOK, InUse
<1>7. phase' \in {"layout", "run"} =>
        /\ useCount' \in [Tensors -> Nat]
        /\ sharing' \in BOOLEAN /\ done' \subseteq Ins
        /\ PlacesOK' /\ CountsOK' /\ BlocksOK' /\ PassedOK' /\ FreedOK'
  <2>1. SUFFICES ASSUME phase \in {"layout", "run"}
                 PROVE  /\ useCount' \in [Tensors -> Nat]
                        /\ sharing' \in BOOLEAN /\ done' \subseteq Ins
                        /\ PlacesOK' /\ CountsOK' /\ BlocksOK' /\ PassedOK' /\ FreedOK'
    OBVIOUS
  <2>2. /\ useCount \in [Tensors -> Nat]
        /\ sharing \in BOOLEAN /\ done \subseteq Ins
        /\ PlacesOK /\ CountsOK /\ BlocksOK /\ PassedOK /\ FreedOK
    BY <2>1 DEF IInv
  <2>3. done' \subseteq Ins
    BY <1>2, <2>2, IsTensorIn
  <2>4. Placed' = Placed
    BY DEF Placed
  <2>5. \A u : TopOf(u)' = TopOf(u) /\ Users(u)' = Users(u) /\ Holders(u)' = Holders(u)
    BY <2>4 DEF TopOf, Users, Holders
  <2>6. PlacesOK' /\ CountsOK' /\ BlocksOK'
    BY <2>2, <2>4, <2>5, SameProgram DEF PlacesOK, CountsOK, BlocksOK, Spot, IsParameter
  <2>7. Passed' = Passed
    BY DEF Passed
  <2>8. PassedOK'
    BY <2>2, <2>4, <2>5, <2>7, SameProgram DEF PassedOK
  <2>9. NewHere' = NewHere
    BY SameProgram DEF NewHere
  <2>10. Unplaced(NewHere)' = Unplaced(NewHere)
    BY <2>9 DEF Unplaced
  <2>11. FreedOK'
    BY <2>2, <2>10 DEF FreedOK
  <2>12. QED
    BY <2>2, <2>3, <2>6, <2>8, <2>11
<1>8. QED
  BY <1>1, <1>2, <1>3, <1>4, <1>5, <1>6, <1>7 DEF IInv

LEMMA InitIInv == Init => IInv
<1> SUFFICES ASSUME Init PROVE IInv
  OBVIOUS
<1>1. prog = <<>>
  BY DEF Init
<1>2. prog \in Seq(Instruction) /\ Len(prog) = 0 /\ DOMAIN prog = {}
  BY <1>1
<1>3. ProgramOK
  BY <1>2, TensorFacts DEF ProgramOK
<1>4. NothingAnalysed
  BY Zenon DEF Init, NothingAnalysed
<1>5. NothingPlaced
  BY Zenon DEF Init, NothingPlaced
<1>6. phase = "visit" /\ outcome = "ok"
  BY DEF Init
<1>7. QED
  BY <1>3, <1>4, <1>5, <1>6 DEF IInv

LEMMA NextKeeps == IInv /\ [Next]_vars => IInv'
<1> SUFFICES ASSUME IInv, [Next]_vars PROVE IInv'
  OBVIOUS
<1>1. CASE Visit
  BY <1>1, VisitKeeps
<1>2. CASE Analyse
  BY <1>2, AnalyseKeeps
<1>3. CASE Inplace
  BY <1>3, InplaceKeeps
<1>4. CASE Layout
  BY <1>4, LayoutKeeps
<1>5. ASSUME NEW i \in DOMAIN prog, Run(i) PROVE IInv'
  BY <1>5, PlanUnchanged DEF Run
<1>6. CASE UNCHANGED vars
  BY <1>6, PlanUnchanged DEF vars, running
<1>7. QED
  BY <1>1, <1>2, <1>3, <1>4, <1>5, <1>6 DEF Next

(* The passes keep the invariant, for every program and both settings of   *)
(* m_disable_memory_sharing.                                               *)
THEOREM PlanInvariant == Spec => []IInv
<1>1. Init => IInv
  BY InitIInv
<1>2. IInv /\ [Next]_vars => IInv'
  BY NextKeeps
<1>3. QED
  BY <1>1, <1>2, PTL DEF Spec

(* The state of the passes has its type: the node lists stay lists, the    *)
(* use and reference counts never drop below zero, and what has a place    *)
(* has it in a pool.                                                       *)
THEOREM PlanTypes == Spec => []TypeOK
<1>1. IInv => TypeOK
  <2> SUFFICES ASSUME IInv PROVE TypeOK
    OBVIOUS
  <2>1. ProgramOK /\ outcome = "ok" /\ phase \in {"visit", "inplace", "layout", "run"}
    BY DEF IInv
  <2>2. Len(prog) <= Length
    BY <2>1 DEF ProgramOK
  <2>3. NothingAnalysed =>
          /\ pc \in Ins
          /\ group \in [Tensors -> Pools \cup {None}]
          /\ persistent \subseteq Tensors
          /\ newList \in [Ins -> SUBSET Tensors] /\ freeList \in [Ins -> SUBSET Tensors]
          /\ useCount \in [Tensors -> Nat]
    <3>1. 1 \in Ins
      BY TensorFacts DEF Ins
    <3>2. QED
      BY <3>1 DEF NothingAnalysed
  <2>4. NothingPlaced =>
          /\ sharing \in BOOLEAN \cup {None}
          /\ freed \subseteq Tensors
          /\ refCount \in [Tensors -> Nat]
          /\ \A p \in Pools : IsNodeList(nodes[p])
          /\ \A t \in Tensors :
               place[t] # None =>
                 place[t].pool \in Pools /\ place[t].offset \in Nat \cup {Unset}
          /\ root \in [Tensors -> Tensors \cup {None}]
          /\ done \subseteq Ins
    BY EmptyPoolIsNodeList DEF NothingPlaced
  <2>5. AnalysisOK /\ ListsOK =>
          /\ pc \in Ins
          /\ group \in [Tensors -> Pools \cup {None}]
          /\ persistent \subseteq Tensors
          /\ newList \in [Ins -> SUBSET Tensors] /\ freeList \in [Ins -> SUBSET Tensors]
    <3>1. DOMAIN prog \subseteq Ins /\ Ins \subseteq Tensors
      BY <2>1, IsTensorIn, TensorFacts
    <3>2. AnalysisOK => \A k \in Ins : freeList[k] \subseteq Tensors
      BY <2>1, FreeListAt
    <3>3. AnalysisOK => freeList \in [Ins -> SUBSET Tensors]
      BY <3>2 DEF AnalysisOK
    <3>4. ListsOK => newList \in [Ins -> SUBSET Tensors]
      BY <3>1 DEF ListsOK
    <3>5. QED
      BY <3>1, <3>3, <3>4 DEF AnalysisOK
  <2>6. phase \in {"layout", "run"} =>
          /\ sharing \in BOOLEAN \cup {None}
          /\ freed \subseteq Tensors
          /\ useCount \in [Tensors -> Nat] /\ refCount \in [Tensors -> Nat]
          /\ \A p \in Pools : IsNodeList(nodes[p])
          /\ \A t \in Tensors :
               place[t] # None =>
                 place[t].pool \in Pools /\ place[t].offset \in Nat \cup {Unset}
          /\ root \in [Tensors -> Tensors \cup {None}]
          /\ done \subseteq Ins
    BY DEF IInv, PlacesOK, CountsOK, BlocksOK, Placed, Spot
  <2>7. phase = "inplace" => useCount \in [Tensors -> Nat]
    BY DEF IInv, AliasesOK
  <2>8. CASE phase = "visit"
    BY <2>1, <2>2, <2>3, <2>4, <2>8 DEF IInv, TypeOK
  <2>9. CASE phase = "inplace"
    BY <2>1, <2>2, <2>4, <2>5, <2>7, <2>9 DEF IInv, TypeOK
  <2>10. CASE phase \in {"layout", "run"}
    BY <2>1, <2>2, <2>5, <2>6, <2>10 DEF IInv, TypeOK
  <2>11. QED
    BY <2>1, <2>8, <2>9, <2>10
<1>2. QED
  BY <1>1, PlanInvariant, PTL

(* The passes fit together for every program: no check of theirs fails, no *)
(* block is freed twice, no tensor refers to a reference or to a block     *)
(* that has been given back, what a tensor refers to has its place first,  *)
(* and when the plan is made every tensor has one, with an offset unless   *)
(* it lies in a parameter.                                                 *)
THEOREM ThePassesAgree == Spec => []PassesAgree
<1>1. IInv => PassesAgree
  <2> SUFFICES ASSUME IInv PROVE PassesAgree
    OBVIOUS
  <2>1. outcome = "ok" /\ ProgramOK
    BY DEF IInv
  <2>2. ASSUME phase = "run", NEW i \in DOMAIN prog, Op(i) # "Parameter",
               NEW t \in {i} \cup TemporariesOf(i)
        PROVE  /\ place[t] # None
               /\ place[t].offset = Unset => IsParameter(TopOf(t))
    <3> SUFFICES t \in Placed
      <4>1. PlacesOK
        BY <2>2 DEF IInv
      <4>2. Unset \notin Nat
        BY DEF Unset
      <4>3. QED
        BY <4>1, <4>2 DEF PlacesOK, Placed
    <3>1. ListsOK /\ PassedOK /\ Passed = DOMAIN prog
      BY <2>2 DEF IInv, Passed
    <3>2. CASE t \in TemporariesOf(i)
      BY <2>2, <3>1, <3>2 DEF PassedOK, Placed
    <3>3. CASE t = i
      <4>1. PICK j \in 1 .. i : i \in newList[j] /\ Op(j) # "Parameter"
        BY <2>2, <3>1 DEF ListsOK, AllocatedBy
      <4>2. j \in DOMAIN prog
        <5>1. i \in 1 .. Len(prog) /\ Len(prog) \in Nat /\ DOMAIN prog = 1 .. Len(prog)
          BY <2>1, InstructionAt
        <5>2. QED
          BY <4>1, <5>1
      <4>3. QED
        BY <3>1, <3>3, <4>1, <4>2 DEF PassedOK, Placed
    <3>4. QED
      BY <3>2, <3>3
  <2>3. QED
    BY <2>1, <2>2 DEF PassesAgree, IsParameter
<1>2. QED
  BY <1>1, PlanInvariant, PTL

(* When the plan is made, a block that is still taken has a user that no   *)
(* pass may free: one whose block is persistent, or that another stream    *)
(* uses as well.                                                           *)
THEOREM AllElseIsReclaimed == Spec => []BlocksAreReclaimed
<1>1. IInv => BlocksAreReclaimed
  <2> SUFFICES ASSUME IInv, phase = "run", sharing,
                      NEW p \in Pools, NEW o \in Taken(nodes[p])
               PROVE  \E t \in Tensors \ freed :
                        /\ place[t] # None
                        /\ place[TopOf(t)] = [pool |-> p, offset |-> o]
                        /\ TopOf(t) \in persistent \/ t \in CrossStream
    BY DEF BlocksAreReclaimed
  <2>1. /\ ProgramOK /\ AnalysisOK /\ PlacesOK /\ CountsOK /\ BlocksOK /\ PassedOK
        /\ Passed = DOMAIN prog
    BY DEF IInv, Passed
  <2>2. PICK r \in Holders(p) : place[r].offset = o
    BY <2>1 DEF BlocksOK
  <2>3. /\ r \in Placed /\ r \in Tensors /\ root[r] = None /\ place[r].pool = p
        /\ refCount[r] > 0
        /\ refCount[r] = Cardinality(Users(r))
    BY <2>1, <2>2 DEF Holders, Placed, CountsOK
  <2>4. place[r] = [pool |-> p, offset |-> o]
    <3>1. place[r] \in Spot
      BY <2>1, <2>3 DEF PlacesOK, Placed
    <3>2. QED
      BY <2>2, <2>3, <3>1 DEF Spot
  <2>5. Users(r) # {}
    BY <2>3, FS_EmptySet
  <2>6. PICK t \in Users(r) : TRUE
    BY <2>5
  <2>7. /\ t \in Tensors \ freed /\ place[t] # None /\ TopOf(t) = r /\ t \in Placed
    BY <2>6 DEF Users, Placed
  <2>8. ASSUME r \notin persistent PROVE t \in CrossStream
    <3>1. t \in Allocatable
      BY <2>1, <2>7 DEF PlacesOK
    <3>2. ASSUME NEW j \in DOMAIN prog, t \in TemporariesOf(j) PROVE FALSE
      <4>1. Op(j) # "Parameter"
        BY <3>2 DEF TemporariesOf
      <4>2. QED
        BY <2>1, <2>7, <2>8, <3>2, <4>1 DEF PassedOK
    <3>3. t \in DOMAIN prog
      BY <3>1, <3>2 DEF Allocatable
    <3>4. SUFFICES ASSUME t \notin CrossStream PROVE FALSE
      OBVIOUS
    <3> DEFINE S == Readers(t) \cup {t}
    <3>5. /\ S \subseteq DOMAIN prog /\ DOMAIN prog = 1 .. Len(prog) /\ Len(prog) \in Nat
      BY <2>1, <3>3, InstructionAt DEF Readers
    <3>6. S \subseteq Nat /\ S # {} /\ \A i \in S : i <= Len(prog)
      BY <3>5
    <3>7. PICK j \in S : \A i \in S : i <= j
      <4> HIDE DEF S
      <4>1. QED
        BY <3>5, <3>6, LastOffset
    <3>8. j \in DOMAIN prog /\ t \in LastSeen(j)
      BY <3>3, <3>4, <3>5, <3>7 DEF LastSeen, Readers
    <3>9. Op(j) # "Parameter"
      <4>1. CASE j = t
        BY <3>3, <3>4, <4>1 DEF CrossStream, Persistent
      <4>2. CASE j \in Readers(t)
        <5>1. \E k \in DOMAIN prog[j].in : t = prog[j].in[k]
          BY <4>2 DEF Readers, Inputs
        <5>2. prog[j].in # <<>>
          BY <5>1
        <5>3. QED
          BY <2>1, <3>8, <5>2 DEF ProgramOK
      <4>3. QED
        BY <3>7, <4>1, <4>2
    <3>10. t \in freeList[j]
      BY <2>1, <3>8, FreeListAt
    <3>11. QED
      BY <2>1, <2>7, <2>8, <3>8, <3>9, <3>10 DEF PassedOK
  <2>9. QED
    BY <2>4, <2>7, <2>8
<1>2. QED
  BY <1>1, PlanInvariant, PTL
=============================================================================
