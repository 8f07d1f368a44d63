------------------------- MODULE BlockFusionProofs -------------------------
(***************************************************************************)
(* Theorems about BlockFusion for every number of executors, of threads of *)
(* a thread block and of thread blocks that the GPU holds, and for groups  *)
(* of any size: first what the steps and waits guarantee, then that each   *)
(* block of each kernel is executed once.                                  *)
(***************************************************************************)
EXTENDS BlockFusion, FiniteSetTheorems, SequenceTheorems,
        WellFoundedInduction, TLAPS

(***************************************************************************)
(* Numbers.                                                                *)
(***************************************************************************)

(* A set of naturals that is not empty has a least element. *)
LEMMA LeastIsLeast ==
  ASSUME NEW S \in SUBSET Nat, S # {}
  PROVE  Least(S) \in S /\ \A y \in S : Least(S) <= y
<1>1. \E x \in S : \A y \in S : ~ (<<y, x>> \in OpToRel(<, Nat))
  BY NatLessThanWellFounded, WFMin
<1>2. \A x, y \in S : <<y, x>> \in OpToRel(<, Nat) <=> y < x
  BY DEF OpToRel
<1>3. \E x \in S : \A y \in S : ~ (y < x)
  BY <1>1, <1>2, Zenon
<1>4. \E x \in S : \A y \in S : x <= y
  BY <1>3
<1>5. QED
  BY <1>4 DEF Least

(* If it is bounded it has a greatest one. *)
LEMMA GreatestIsGreatest ==
  ASSUME NEW S \in SUBSET Nat, S # {}, NEW n \in Nat, \A x \in S : x <= n
  PROVE  Greatest(S) \in S /\ \A y \in S : y <= Greatest(S)
<1> DEFINE T == {n - x : x \in S}
<1>1. T \in SUBSET Nat /\ T # {}
  <2>1. \A x \in S : n - x \in Nat
    OBVIOUS
  <2>2. QED
    BY <2>1
<1>2. Least(T) \in T /\ \A y \in T : Least(T) <= y
  BY <1>1, LeastIsLeast
<1>3. PICK x \in S : Least(T) = n - x
  BY <1>2
<1>4. \A y \in S : n - x <= n - y
  BY <1>2, <1>3
<1>5. \A y \in S : x >= y
  BY <1>4
<1>6. QED
  BY <1>5 DEF Greatest

(* The values of the executors are bounded. *)
LEMMA BesAreBounded ==
  ASSUME NEW f \in [Bes -> Nat]
  PROVE  \E n \in Nat : \A b \in Bes : f[b] <= n
<1> DEFINE Below(k) == \E n \in Nat : \A b \in Bes : b < k => f[b] <= n
           Bad == {k \in 0 .. NumBes : ~Below(k)}
<1> USE DeviceAssumption
<1>a. Below(0)
  BY DEF Bes
<1>b. ASSUME NEW k \in 1 .. NumBes, Below(k - 1) PROVE Below(k)
  <2>1. PICK n \in Nat : \A b \in Bes : b < k - 1 => f[b] <= n
    BY <1>b
  <2>2. k - 1 \in Bes /\ f[k - 1] \in Nat
    BY DEF Bes
  <2>3. \A b \in Bes : b < k => b = k - 1 \/ b < k - 1
    BY DEF Bes
  <2>4. \A b \in Bes : b < k => f[b] <= n + f[k - 1]
    BY <2>1, <2>2, <2>3
  <2>5. QED
    BY <2>2, <2>4
<1> HIDE DEF Below
<1>c. Bad = {}
  <2>1. SUFFICES ASSUME Bad # {} PROVE FALSE
    OBVIOUS
  <2>2. Bad \in SUBSET Nat
    OBVIOUS
  <2>3. Least(Bad) \in Bad /\ \A y \in Bad : Least(Bad) <= y
    BY <2>1, <2>2, LeastIsLeast
  <2>4. PICK k \in Bad : \A y \in Bad : k <= y
    BY <2>3
  <2>5. k \in 1 .. NumBes
    BY <2>4, <1>a
  <2>6. k - 1 \notin Bad /\ k - 1 \in 0 .. NumBes
    BY <2>4, <2>5
  <2>7. QED
    BY <2>4, <2>5, <2>6, <1>b
<1>d. Below(NumBes)
  BY <1>c
<1>e. QED
  BY <1>d DEF Below, Bes

(* group_sync and schedule_group_wait find the greatest of some of them. *)
LEMMA GreatestOfBes ==
  ASSUME NEW f \in [Bes -> Nat], NEW P \in SUBSET Bes
  PROVE  LET g == Greatest({0} \cup {f[b] : b \in P})
         IN  g \in Nat /\ \A b \in P : f[b] <= g
<1> DEFINE S == {0} \cup {f[b] : b \in P}
<1>1. PICK n \in Nat : \A b \in Bes : f[b] <= n
  BY BesAreBounded
<1>2. S \in SUBSET Nat /\ S # {} /\ \A x \in S : x <= n
  BY <1>1
<1>3. Greatest(S) \in S /\ \A y \in S : y <= Greatest(S)
  BY <1>2, GreatestIsGreatest
<1>4. QED
  BY <1>2, <1>3

LEMMA BesAreFinite == IsFiniteSet(Bes) /\ Cardinality(Bes) = NumBes
<1>1. /\ IsFiniteSet(0 .. NumBes - 1)
      /\ Cardinality(0 .. NumBes - 1) = IF 0 > NumBes - 1 THEN 0 ELSE NumBes - 1 - 0 + 1
  BY FS_Interval, DeviceAssumption
<1>2. QED
  BY <1>1, DeviceAssumption DEF Bes

(***************************************************************************)
(* Scheduling.                                                             *)
(***************************************************************************)

(* The schedulers find executors, at some time. *)
LEMMA ReadyAreBes ==
  ASSUME lane \in [Bes -> Nat], NEW need \in 1 .. NumBes
  PROVE  /\ ReadyBes(need) \subseteq Bes /\ ReadyBes(need) # {}
         /\ TimeStart(need) \in Nat
<1> USE DeviceAssumption
<1> DEFINE T == {t \in {lane[b] : b \in Bes} : Enough(t, need)}
           S == {lane[b] : b \in Bes}
<1>1. PICK n \in Nat : \A b \in Bes : lane[b] <= n
  BY BesAreBounded
<1>2. S \in SUBSET Nat /\ S # {} /\ \A x \in S : x <= n
  BY <1>1 DEF Bes
<1>3. Greatest(S) \in S /\ \A y \in S : y <= Greatest(S)
  BY <1>2, GreatestIsGreatest
<1>4. FreeBy(Greatest(S)) = Bes
  BY <1>3 DEF FreeBy
<1>5. Enough(Greatest(S), need)
  <2>1. 0 \in Windows(Greatest(S), need)
    <3>1. 0 \in Bes /\ 0 + need <= NumBes /\ 0 .. 0 + need - 1 \subseteq Bes
      BY DEF Bes
    <3>2. QED
      BY <3>1, <1>4 DEF Windows
  <2>2. Cardinality(FreeBy(Greatest(S))) >= need
    BY <1>4, BesAreFinite
  <2>3. QED
    BY <2>1, <2>2 DEF Enough
<1>6. T \in SUBSET Nat /\ T # {}
  BY <1>2, <1>3, <1>5
<1>7. TimeStart(need) \in T
  BY <1>6, LeastIsLeast DEF TimeStart
<1>8. TimeStart(need) \in Nat
  BY <1>6, <1>7
<1>9. ReadyBes(need) \subseteq Bes
  <2>1. CASE policy = "RANGE"
    <3> DEFINE W == Windows(TimeStart(need), need)
    <3>1. W \in SUBSET Nat /\ W # {}
      BY <1>7, <2>1 DEF Enough, Windows, Bes
    <3>2. Least(W) \in W
      BY <3>1, LeastIsLeast
    <3>3. Least(W) .. Least(W) + need - 1 \subseteq FreeBy(TimeStart(need))
      BY <3>2 DEF Windows
    <3>4. QED
      BY <2>1, <3>3 DEF ReadyBes, FreeBy
  <2>2. CASE policy # "RANGE"
    BY <2>2 DEF ReadyBes, FreeBy
  <2>3. QED
    BY <2>1, <2>2
<1>10. ReadyBes(need) # {}
  <2>1. CASE policy = "RANGE"
    <3> DEFINE W == Windows(TimeStart(need), need)
    <3>1. W \in SUBSET Nat /\ W # {}
      BY <1>7, <2>1 DEF Enough, Windows, Bes
    <3>2. Least(W) \in Nat
      BY <3>1, LeastIsLeast
    <3>3. Least(W) \in Least(W) .. Least(W) + need - 1
      BY <3>2
    <3>4. QED
      BY <2>1, <3>3 DEF ReadyBes
  <2>2. CASE policy # "RANGE"
    <3> DEFINE F == FreeBy(TimeStart(need))
               first == Least(F)
    <3>1. F \in SUBSET Nat /\ Cardinality(F) >= need
      BY <1>7, <2>2 DEF Enough, FreeBy, Bes
    <3>2. F # {}
      BY <3>1, FS_EmptySet
    <3>3. first \in F /\ \A c \in F : first <= c
      BY <3>1, <3>2, LeastIsLeast
    <3> HIDE DEF F, first
    <3>4. {c \in F : c < first} = {}
      <4>1. \A c \in F : c \in Nat /\ first \in Nat /\ ~(c < first)
        BY <3>1, <3>3
      <4>2. QED
        BY <4>1
    <3>5. Cardinality({c \in F : c < first}) < need
      BY <3>4, FS_EmptySet
    <3>6. QED
      BY <2>2, <3>3, <3>5 DEF ReadyBes, F
  <2>3. QED
    BY <2>1, <2>2
<1>11. QED
  BY <1>8, <1>9, <1>10

(***************************************************************************)
(* The instructions of an executor.                                        *)
(***************************************************************************)

LEMMA InstructionCases ==
  ASSUME NEW x \in Instruction
  PROVE  /\ x.op \in {"execute", "step", "wait"}
         /\ x.op = "execute" =>
              x.kernel \in DOMAIN group /\ x.block \in Nat /\ x = Execute(x.kernel, x.block)
         /\ x.op = "step" => x.step \in Nat \ {0} /\ x = StepTo(x.step)
         /\ x.op = "wait" =>
              x.on \in SUBSET Bes /\ x.step \in Nat \ {0} /\ x = WaitFor(x.on, x.step)
<1>1. CASE x \in [op : {"execute"}, kernel : DOMAIN group, block : Nat]
  BY <1>1 DEF Execute
<1>2. CASE x \in [op : {"step"}, step : Nat \ {0}]
  BY <1>2 DEF StepTo
<1>3. CASE x \in [op : {"wait"}, on : SUBSET Bes, step : Nat \ {0}]
  BY <1>3 DEF WaitFor
<1>4. QED
  BY <1>1, <1>2, <1>3 DEF Instruction

LEMMA GroupTyped ==
  ASSUME IsGroup(group), NEW k \in DOMAIN group
  PROVE  /\ group[k].grid \in Nat \ {0}
         /\ DOMAIN group = 1 .. Len(group) /\ Len(group) \in Nat
         /\ group[k].deps \subseteq 1 .. k - 1 /\ k \in 1 .. Len(group)
<1>1. group \in Seq([grid : Nat \ {0}, deps : SUBSET Nat])
  BY DEF IsGroup
<1>2. DOMAIN group = 1 .. Len(group) /\ Len(group) \in Nat
  BY <1>1
<1>3. group[k] \in [grid : Nat \ {0}, deps : SUBSET Nat]
  BY <1>1, <1>2, ElementOfSeq
<1>4. QED
  BY <1>2, <1>3 DEF IsGroup

(* The blocks of a kernel on one executor. *)
LEMMA BlocksOnTyped ==
  ASSUME IsGroup(group), NEW k \in DOMAIN group, NEW ready \in SUBSET Bes, NEW b \in Bes
  PROVE  /\ BlocksOn(k, b, ready) \in Seq(Instruction)
         /\ \A i \in DOMAIN BlocksOn(k, b, ready) :
              BlocksOn(k, b, ready)[i].op = "execute" /\ BlocksOn(k, b, ready)[i].kernel = k
         /\ b \notin ready => BlocksOn(k, b, ready) = <<>>
<1>1. CASE b \notin ready
  BY <1>1 DEF BlocksOn
<1>2. CASE b \in ready
  <2> DEFINE n     == Cardinality(ready)
             mine  == {i \in 0 .. group[k].grid - 1 : i % n = Place(b, ready)}
             block(i) == Place(b, ready) + (i - 1) * n
  <2>1. group[k].grid \in Nat \ {0}
    BY GroupTyped
  <2>2. n \in Nat /\ Place(b, ready) \in Nat
    <3>1. IsFiniteSet(ready) /\ IsFiniteSet({c \in ready : c < b})
      BY BesAreFinite, FS_Subset
    <3>2. QED
      BY <3>1, FS_CardinalityType DEF Place
  <2>3. Cardinality(mine) \in Nat
    <3>1. IsFiniteSet(0 .. group[k].grid - 1)
      BY <2>1, FS_Interval
    <3>2. IsFiniteSet(mine)
      BY <3>1, FS_Subset
    <3>3. QED
      BY <3>2, FS_CardinalityType
  <2>4. \A i \in 1 .. Cardinality(mine) : block(i) \in Nat
    <3>1. ASSUME NEW i \in 1 .. Cardinality(mine) PROVE block(i) \in Nat
      <4>1. i - 1 \in Nat
        BY <2>3
      <4>2. \A x, y \in Nat : x * y \in Nat
        OBVIOUS
      <4>3. (i - 1) * n \in Nat
        BY <4>1, <4>2, <2>2
      <4>4. QED
        BY <4>3, <2>2
    <3>2. QED
      BY <3>1
  <2>5. BlocksOn(k, b, ready) = [i \in 1 .. Cardinality(mine) |-> Execute(k, block(i))]
    BY <1>2 DEF BlocksOn
  <2> HIDE DEF mine, block
  <2>6. \A i \in 1 .. Cardinality(mine) : Execute(k, block(i)) \in Instruction
    BY <2>4 DEF Execute, Instruction
  <2>7. QED
    BY <1>2, <2>3, <2>5, <2>6 DEF Execute
<1>3. QED
  BY <1>1, <1>2

(* What a kernel adds: at most one step, which is new, and a wait for it   *)
(* before the blocks.                                                      *)
IsAdded(a, s, k, b, ready, preds) ==
  /\ s \in Nat \ {0}
  /\ \A p \in preds : steps[p] < s
  /\ a \in Seq(Instruction)
  /\ b \in preds => 1 \in DOMAIN a /\ a[1] = StepTo(s)
  /\ \A i \in DOMAIN a : a[i].op = "step" => i = 1 /\ b \in preds /\ a[i] = StepTo(s)
  /\ \A i \in DOMAIN a : a[i].op = "wait" => preds # {} /\ a[i] = WaitFor(preds, s)
  /\ \A i \in DOMAIN a : a[i].op = "execute" =>
       /\ a[i].kernel = k /\ b \in ready
       /\ preds # {} => \E h \in DOMAIN a : h < i /\ a[h] = WaitFor(preds, s)

LEMMA AddedInstructions ==
  ASSUME IsGroup(group), NEW k \in DOMAIN group, steps \in [Bes -> Nat],
         NEW ready \in SUBSET Bes, NEW preds \in SUBSET Bes, NEW b \in Bes
  PROVE  IsAdded(Added(k, b, ready, preds), NewStep(preds), k, b, ready, preds)
<1> DEFINE a == Added(k, b, ready, preds)
           s == NewStep(preds)
           A == IF b \in preds THEN <<StepTo(s)>> ELSE <<>>
           B == IF b \in ready /\ preds # {} THEN <<WaitFor(preds, s)>> ELSE <<>>
           C == BlocksOn(k, b, ready)
<1>1. s \in Nat \ {0} /\ \A p \in preds : steps[p] < s
  <2> DEFINE g == Greatest({0} \cup {steps[p] : p \in preds})
  <2>1. g \in Nat /\ \A p \in preds : steps[p] <= g
    BY GreatestOfBes
  <2>2. s = g + 1
    BY DEF NewStep
  <2>3. \A p \in preds : steps[p] \in Nat
    OBVIOUS
  <2> HIDE DEF g, s
  <2>4. QED
    BY <2>1, <2>2, <2>3
<1> HIDE DEF s
<1>2. A \in Seq(Instruction) /\ B \in Seq(Instruction)
  <2>1. StepTo(s) \in Instruction /\ WaitFor(preds, s) \in Instruction
    BY <1>1 DEF StepTo, WaitFor, Instruction
  <2>2. QED
    BY <2>1
<1>3. /\ C \in Seq(Instruction)
      /\ \A i \in DOMAIN C : C[i].op = "execute" /\ C[i].kernel = k
      /\ b \notin ready => C = <<>>
  BY BlocksOnTyped
<1>4. a = A \o B \o C
  BY DEF Added, s
<1>5. /\ \A i \in DOMAIN A : i = 1 /\ b \in preds /\ A[i] = StepTo(s) /\ A[i].op = "step"
      /\ b \in preds => 1 \in DOMAIN A
  BY DEF StepTo
<1>6. /\ \A i \in DOMAIN B : /\ i = 1 /\ b \in ready /\ preds # {}
                             /\ B[i] = WaitFor(preds, s) /\ B[i].op = "wait"
      /\ b \in ready /\ preds # {} => 1 \in DOMAIN B /\ Len(B) = 1
  BY DEF WaitFor
<1> HIDE DEF A, B, C, a
<1>7. /\ a \in Seq(Instruction)
      /\ \A i \in DOMAIN a :
           \/ i \in DOMAIN A /\ a[i] = A[i]
           \/ i - Len(A) \in DOMAIN B /\ a[i] = B[i - Len(A)]
           \/ /\ i - Len(A) - Len(B) \in DOMAIN C
              /\ a[i] = C[i - Len(A) - Len(B)]
      /\ \A i \in DOMAIN A : i \in DOMAIN a /\ a[i] = A[i]
      /\ \A i \in DOMAIN B : Len(A) + i \in DOMAIN a /\ a[Len(A) + i] = B[i]
  <2>1. C \in Seq(Instruction)
    BY <1>3
  <2>2. QED
    BY <1>2, <2>1, <1>4, SMTT(40)
<1>8. \A i \in DOMAIN a : a[i].op = "step" => i = 1 /\ b \in preds /\ a[i] = StepTo(s)
  BY <1>3, <1>5, <1>6, <1>7
<1>9. \A i \in DOMAIN a : a[i].op = "wait" => preds # {} /\ a[i] = WaitFor(preds, s)
  BY <1>3, <1>5, <1>6, <1>7
<1>10. ASSUME NEW i \in DOMAIN a, a[i].op = "execute"
       PROVE  /\ a[i].kernel = k /\ b \in ready
              /\ preds # {} => \E h \in DOMAIN a : h < i /\ a[h] = WaitFor(preds, s)
  <2>1. i - Len(A) - Len(B) \in DOMAIN C /\ a[i] = C[i - Len(A) - Len(B)]
    BY <1>10, <1>5, <1>6, <1>7
  <2>2. a[i].kernel = k /\ b \in ready
    BY <2>1, <1>3
  <2>3. ASSUME preds # {} PROVE \E h \in DOMAIN a : h < i /\ a[h] = WaitFor(preds, s)
    <3>1. 1 \in DOMAIN B /\ Len(B) = 1 /\ B[1] = WaitFor(preds, s)
      BY <2>2, <2>3, <1>6
    <3>2. Len(A) + 1 \in DOMAIN a /\ a[Len(A) + 1] = WaitFor(preds, s)
      BY <3>1, <1>7
    <3>3. Len(A) + 1 < i /\ i \in Int
      BY <2>1, <3>1, <1>2, <1>3, <1>7
    <3>4. QED
      BY <3>2, <3>3
  <2>4. QED
    BY <2>2, <2>3
<1>11. b \in preds => 1 \in DOMAIN a /\ a[1] = StepTo(s)
  BY <1>5, <1>7
<1>12. IsAdded(a, s, k, b, ready, preds)
  BY <1>1, <1>7, <1>8, <1>9, <1>10, <1>11 DEF IsAdded
<1>13. QED
  BY <1>12 DEF a, s

(***************************************************************************)
(* The emitted function.                                                   *)
(***************************************************************************)

Shifted(x, k) == IF x.op = "execute" THEN Execute(x.kernel, k + x.block) ELSE x

LEMMA SequentialIsShifted ==
  ASSUME NEW x \in Instruction, NEW y \in Instruction, SequentialInstructions(x, y)
  PROVE  y = Shifted(x, 1)
<1>1. CASE x.op = "execute"
  <2>1. y.op = "execute" /\ x.kernel = y.kernel /\ y.block - x.block = 1
    BY <1>1 DEF SequentialInstructions
  <2>2. y = Execute(y.kernel, y.block) /\ y.block \in Nat /\ x.block \in Nat
    BY <1>1, <2>1, InstructionCases
  <2>3. y.block = 1 + x.block
    BY <2>1, <2>2
  <2>4. QED
    BY <1>1, <2>1, <2>2, <2>3 DEF Shifted
<1>2. CASE x.op = "step"
  BY <1>2, InstructionCases DEF SequentialInstructions, Shifted
<1>3. CASE x.op = "wait"
  BY <1>3, InstructionCases DEF SequentialInstructions, Shifted
<1>4. QED
  BY <1>1, <1>2, <1>3, InstructionCases

LEMMA ShiftedTwice ==
  ASSUME NEW x \in Instruction, NEW k \in Nat
  PROVE  Shifted(Shifted(x, k), 1) = Shifted(x, k + 1) /\ Shifted(x, 0) = x
<1>1. CASE x.op = "execute"
  <2>1. x = Execute(x.kernel, x.block) /\ x.block \in Nat
    BY <1>1, InstructionCases
  <2>2. Shifted(x, k) = Execute(x.kernel, k + x.block)
    BY <1>1 DEF Shifted
  <2>3. Shifted(Shifted(x, k), 1) = Execute(x.kernel, 1 + (k + x.block))
    BY <2>2 DEF Shifted, Execute
  <2>4. 1 + (k + x.block) = (k + 1) + x.block /\ 0 + x.block = x.block
    BY <2>1
  <2>5. QED
    BY <1>1, <2>1, <2>3, <2>4 DEF Shifted
<1>2. CASE x.op # "execute"
  BY <1>2 DEF Shifted
<1>3. QED
  BY <1>1, <1>2

(* A branch for a range of executors does for each what its list says. *)
LEMMA InstructionsAreOwn ==
  ASSUME program \in [Bes -> Seq(Instruction)], NEW b \in Bes
  PROVE  Instructions(b) = program[b]
<1>1. CASE ~InRange(b)
  BY <1>1 DEF Instructions
<1>2. CASE InRange(b)
  <2> DEFINE S     == {s \in 0 .. b : \A c \in s .. b - 1 : Sequential(c)}
             first == RangeStart(b)
             Like(c) == /\ Len(program[c]) = Len(program[first])
                        /\ \A i \in 1 .. Len(program[first]) :
                             program[c][i] = Shifted(program[first][i], c - first)
             Bad   == {c \in first .. b : ~Like(c)}
  <2>1. b \in Nat /\ b < NumBes /\ NumBes \in Nat
    BY DeviceAssumption DEF Bes
  <2>2. S \in SUBSET Nat /\ b \in S
    BY <2>1
  <2>3. first \in S
    BY <2>2, LeastIsLeast DEF RangeStart
  <2>4. first \in 0 .. b /\ \A c \in first .. b - 1 : Sequential(c)
    BY <2>3
  <2> HIDE DEF first
  <2>5. \A c \in first .. b :
          /\ c \in Bes /\ program[c] \in Seq(Instruction) /\ Len(program[c]) \in Nat
          /\ DOMAIN program[c] = 1 .. Len(program[c])
          /\ \A i \in 1 .. Len(program[c]) : program[c][i] \in Instruction
    <3>1. ASSUME NEW c \in first .. b PROVE c \in Bes /\ program[c] \in Seq(Instruction)
      BY <2>1, <2>4 DEF Bes
    <3>2. QED
      BY <3>1, LenProperties, ElementOfSeq
  <2>6. Like(first)
    <3>1. first \in first .. b /\ first - first = 0
      BY <2>1, <2>4
    <3>2. \A i \in 1 .. Len(program[first]) :
            program[first][i] = Shifted(program[first][i], first - first)
      BY <3>1, <2>5, ShiftedTwice
    <3>3. QED
      BY <3>2
  <2>7. ASSUME NEW c \in first + 1 .. b, Like(c - 1) PROVE Like(c)
    <3>1. c - 1 \in first .. b /\ c \in first .. b /\ c - 1 \in first .. b - 1 /\ c - 1 + 1 = c
      BY <2>1, <2>4
    <3>2. Sequential(c - 1)
      BY <3>1, <2>4
    <3>3. /\ Len(program[c - 1]) = Len(program[c])
          /\ \A i \in 1 .. Len(program[c]) :
               SequentialInstructions(program[c - 1][i], program[c][i])
      BY <3>1, <3>2, <2>5 DEF Sequential
    <3>4. Len(program[c]) = Len(program[first])
      BY <3>3, <2>7
    <3>5. ASSUME NEW i \in 1 .. Len(program[first])
          PROVE  program[c][i] = Shifted(program[first][i], c - first)
      <4>1. program[c][i] = Shifted(program[c - 1][i], 1)
        BY <3>1, <3>3, <3>4, <2>5, SequentialIsShifted
      <4>2. program[c - 1][i] = Shifted(program[first][i], c - 1 - first)
        BY <2>7
      <4>3. first \in first .. b /\ program[first][i] \in Instruction
        BY <2>1, <2>4, <2>5
      <4>4. c - 1 - first \in Nat /\ c - 1 - first + 1 = c - first
        BY <2>1, <2>4, <3>1
      <4>5. Shifted(Shifted(program[first][i], c - 1 - first), 1)
              = Shifted(program[first][i], c - 1 - first + 1)
        BY <4>3, <4>4, ShiftedTwice
      <4>6. QED
        BY <4>1, <4>2, <4>4, <4>5
    <3>6. QED
      BY <3>4, <3>5
  <2> HIDE DEF Like
  <2>8. Bad = {}
    <3>1. SUFFICES ASSUME Bad # {} PROVE FALSE
      OBVIOUS
    <3>2. Bad \in SUBSET Nat
      BY <2>1, <2>4
    <3>3. Least(Bad) \in Bad /\ \A y \in Bad : Least(Bad) <= y
      BY <3>1, <3>2, LeastIsLeast
    <3>4. PICK c \in Bad : \A y \in Bad : c <= y
      BY <3>3
    <3>5. c \in first + 1 .. b
      BY <3>4, <2>1, <2>4, <2>6
    <3>6. c - 1 \in first .. b /\ c - 1 \notin Bad
      BY <3>4, <3>5, <2>1, <2>4
    <3>7. QED
      BY <3>4, <3>5, <3>6, <2>7
  <2>9. b \in first .. b /\ first \in first .. b
    BY <2>1, <2>4
  <2>10. Like(b)
    BY <2>8, <2>9
  <2>11. Instructions(b) =
           [i \in 1 .. Len(program[first]) |-> Shifted(program[first][i], b - first)]
    BY <1>2, <2>5, <2>9 DEF Instructions, Shifted, first
  <2>12. program[b] = [i \in 1 .. Len(program[b]) |-> program[b][i]]
    BY <2>5, <2>9, LenProperties
  <2>13. QED
    BY <2>10, <2>11, <2>12 DEF Like
<1>3. QED
  BY <1>1, <1>2

(* A wait is for all the executors that it names, whoever reads the words. *)
LEMMA AllAreAwaited ==
  ASSUME NEW on \in SUBSET Bes, on # {}
  PROVE  Awaited(on) = on
<1>1. CASE ~ByThreads(on)
  BY <1>1 DEF Awaited
<1>2. CASE ByThreads(on)
  <2> DEFINE l == Least(on)
             g == Greatest(on)
             n == Cardinality(on)
  <2>2. on \in SUBSET Nat /\ \A x \in on : x <= NumBes
    BY DeviceAssumption DEF Bes
  <2>1. l \in on /\ l \in Nat
    BY <2>2, LeastIsLeast
  <2>3. g \in on /\ g \in Nat /\ l <= g
    <3>1. g \in on /\ \A y \in on : y <= g
      BY <2>2, GreatestIsGreatest, DeviceAssumption
    <3>2. QED
      BY <3>1, <2>1, <2>2
  <2>4. on = l .. g /\ n <= NumThreads
    BY <1>2 DEF ByThreads, Consecutive
  <2>5. n = g - l + 1
    BY <2>1, <2>3, <2>4, FS_Interval
  <2> HIDE DEF l, g, n
  <2>6. {u \in Threads : u < n} = 0 .. g - l
    BY <2>1, <2>3, <2>4, <2>5, DeviceAssumption DEF Threads
  <2>7. Awaited(on) = {l + t : t \in 0 .. g - l}
    BY <1>2, <2>6 DEF Awaited, l, n
  <2>8. \A x \in l .. g : x - l \in 0 .. g - l /\ x = l + (x - l)
    BY <2>1, <2>3
  <2>9. \A t \in 0 .. g - l : l + t \in l .. g
    BY <2>1, <2>3
  <2>10. {l + t : t \in 0 .. g - l} = l .. g
    BY <2>8, <2>9
  <2>11. QED
    BY <2>4, <2>7, <2>10
<1>3. QED
  BY <1>1, <1>2

(***************************************************************************)
(* Scheduling a kernel keeps the invariant.                                *)
(***************************************************************************)

LEMMA Appended ==
  ASSUME NEW p \in Seq(Instruction), NEW a \in Seq(Instruction)
  PROVE  /\ p \o a \in Seq(Instruction)
         /\ \A i \in DOMAIN (p \o a) :
              \/ i \in DOMAIN p /\ (p \o a)[i] = p[i]
              \/ i > Len(p) /\ i - Len(p) \in DOMAIN a /\ (p \o a)[i] = a[i - Len(p)]
         /\ \A i \in DOMAIN p : i \in DOMAIN (p \o a) /\ (p \o a)[i] = p[i]
         /\ \A i \in DOMAIN a : Len(p) + i \in DOMAIN (p \o a) /\ (p \o a)[Len(p) + i] = a[i]
         /\ \A i \in DOMAIN (p \o a) : i \in Nat
         /\ \A i \in DOMAIN p : i \in Nat /\ i <= Len(p)
         /\ \A i \in DOMAIN a : i \in Nat /\ i >= 1
         /\ Len(p) \in Nat
OBVIOUS

(* The names of a scheduling step, and what its parts are like. *)
LEMMA ScheduleParts ==
  ASSUME TypeOK, NEW duration \in Nat, ScheduleKernel(duration)
  PROVE  LET ready == ReadyBes(Needed(next))
             preds == UNION {bes[d] : d \in group[next].deps}
         IN  /\ next \in DOMAIN group /\ next \in Nat
             /\ Needed(next) \in 1 .. NumBes
             /\ ready \in SUBSET Bes /\ ready # {} /\ preds \in SUBSET Bes
             /\ TimeStart(Needed(next)) \in Nat
             /\ group[next].deps \subseteq 1 .. next - 1
             /\ DOMAIN bes = 1 .. next - 1
             /\ \A d \in 1 .. next - 1 : bes[d] \in SUBSET Bes
<1> DEFINE ready == ReadyBes(Needed(next))
           preds == UNION {bes[d] : d \in group[next].deps}
<1>1. group \in Seq([grid : Nat \ {0}, deps : SUBSET Nat]) /\ IsGroup(group)
  BY DEF TypeOK, IsGroup
<1>2. next \in 1 .. Len(group) + 1 /\ next <= Len(group)
  BY DEF TypeOK, ScheduleKernel
<1>3. next \in DOMAIN group /\ next \in Nat
  BY <1>1, <1>2
<1>4. group[next].grid \in Nat \ {0} /\ group[next].deps \subseteq 1 .. next - 1
  BY <1>1, <1>3, GroupTyped
<1>5. Needed(next) \in 1 .. NumBes
  BY <1>4, DeviceAssumption DEF Needed
<1>6. ready \in SUBSET Bes /\ ready # {} /\ TimeStart(Needed(next)) \in Nat
  <2>1. lane \in [Bes -> Nat]
    BY DEF TypeOK
  <2>2. QED
    BY <1>5, <2>1, ReadyAreBes
<1>7. bes \in Seq(SUBSET Bes) /\ Len(bes) = next - 1
  BY DEF TypeOK
<1>8. DOMAIN bes = 1 .. next - 1 /\ \A d \in 1 .. next - 1 : bes[d] \in SUBSET Bes
  BY <1>7, LenProperties, ElementOfSeq
<1>9. preds \in SUBSET Bes
  BY <1>4, <1>8
<1>10. QED
  BY <1>3, <1>4, <1>5, <1>6, <1>8, <1>9

LEMMA ScheduleTypes ==
  ASSUME TypeOK, NEW duration \in Nat, ScheduleKernel(duration)
  PROVE  TypeOK'
<1> DEFINE ready == ReadyBes(Needed(next))
           preds == UNION {bes[d] : d \in group[next].deps}
           k     == next
<1>1. /\ k \in DOMAIN group /\ k \in Nat
      /\ ready \in SUBSET Bes /\ preds \in SUBSET Bes
      /\ TimeStart(Needed(k)) \in Nat
  BY ScheduleParts
<1>2. IsGroup(group) /\ steps \in [Bes -> Nat] /\ lane \in [Bes -> Nat]
  BY DEF TypeOK
<1> HIDE DEF ready, preds, k
<1>3. ASSUME NEW b \in Bes
      PROVE  Added(k, b, ready, preds) \in Seq(Instruction) /\ NewStep(preds) \in Nat
  BY <1>1, <1>2, AddedInstructions DEF IsAdded
<1>4. NewStep(preds) \in Nat
  <2>1. PICK b \in Bes : TRUE
    BY DeviceAssumption DEF Bes
  <2>2. QED
    BY <2>1, <1>3
<1>5. \A b \in Bes : BusyUntil(k, b, ready, preds, duration) \in Nat
  <2>1. SUFFICES ASSUME NEW b \in Bes PROVE BusyUntil(k, b, ready, preds, duration) \in Nat
    OBVIOUS
  <2>2. TimeSync(preds) \in Nat
    <3>1. Greatest({0} \cup {lane[p] : p \in preds}) \in Nat
      BY <1>1, <1>2, GreatestOfBes
    <3>2. QED
      BY <3>1 DEF TimeSync
  <2>3. lane[b] \in Nat
    BY <1>2
  <2>4. FreeAt(b, ready, preds) \in Nat
    BY <2>2, <2>3 DEF FreeAt, LaterOf
  <2>5. LaterOf(FreeAt(b, ready, preds), TimeStart(Needed(k))) \in Nat
    BY <2>4, <1>1 DEF LaterOf
  <2>6. BlocksOn(k, b, ready) \in Seq(Instruction)
    BY <1>1, <1>2, BlocksOnTyped
  <2>7. Len(BlocksOn(k, b, ready)) \in Nat
    BY <2>6, LenProperties
  <2>8. LaterOf(duration, 1) \in Nat
    BY DEF LaterOf
  <2>9. Len(BlocksOn(k, b, ready)) * LaterOf(duration, 1) \in Nat
    <3>1. \A x, y \in Nat : x * y \in Nat
      OBVIOUS
    <3>2. QED
      BY <2>7, <2>8, <3>1
  <2>10. QED
    BY <2>4, <2>5, <2>9 DEF BusyUntil
<1>6. program' \in [Bes -> Seq(Instruction)]
  <2>1. \A b \in Bes : program[b] \in Seq(Instruction)
    BY DEF TypeOK
  <2>2. \A b \in Bes : program[b] \o Added(k, b, ready, preds) \in Seq(Instruction)
    BY <1>3, <2>1, Appended
  <2>3. QED
    BY <2>2 DEF ScheduleKernel, ready, preds, k
<1>7. steps' \in [Bes -> Nat] /\ lane' \in [Bes -> Nat]
  BY <1>2, <1>4, <1>5 DEF ScheduleKernel, ready, preds, k
<1>8. next' \in 1 .. Len(group) + 1 /\ normal' \in Nat
  <2>1. next \in 1 .. Len(group) + 1 /\ normal \in Nat /\ next <= Len(group)
    BY DEF TypeOK, ScheduleKernel
  <2>2. next' = next + 1 /\ normal' = normal + duration
    BY DEF ScheduleKernel
  <2>3. QED
    BY <2>1, <2>2
<1>9. bes' \in Seq(SUBSET Bes) /\ Len(bes') = next' - 1
  <2>1. bes \in Seq(SUBSET Bes) /\ Len(bes) = next - 1 /\ next' = next + 1
    BY DEF TypeOK, ScheduleKernel
  <2>2. bes' = Append(bes, ready)
    BY DEF ScheduleKernel, ready
  <2>3. bes' \in Seq(SUBSET Bes) /\ Len(bes') = Len(bes) + 1
    BY <1>1, <2>1, <2>2, AppendProperties
  <2>4. QED
    BY <1>1, <2>1, <2>3 DEF k
<1>10. UNCHANGED <<fixedVars, phase, codeVars, runVars>>
  BY DEF ScheduleKernel
<1>11. Instruction' = Instruction
  BY <1>10 DEF Instruction, fixedVars, Bes
<1>12. QED
  BY <1>6, <1>7, <1>8, <1>9, <1>10, <1>11 DEF TypeOK, fixedVars, codeVars, runVars, Bes, Threads

LEMMA SchedulePrograms ==
  ASSUME TypeOK, ProgramInv, NEW duration \in Nat, ScheduleKernel(duration)
  PROVE  ProgramInv'
<1> DEFINE ready == ReadyBes(Needed(next))
           preds == UNION {bes[d] : d \in group[next].deps}
           k     == next
           s     == NewStep(preds)
           p(b)  == program[b]
           a(b)  == Added(k, b, ready, preds)
           q(b)  == program'[b]
<1>1. /\ k \in DOMAIN group /\ k \in Nat
      /\ ready \in SUBSET Bes /\ preds \in SUBSET Bes
      /\ group[k].deps \subseteq 1 .. k - 1
      /\ DOMAIN bes = 1 .. k - 1 /\ \A d \in 1 .. k - 1 : bes[d] \in SUBSET Bes
  BY ScheduleParts
<1>2. IsGroup(group) /\ steps \in [Bes -> Nat]
  BY DEF TypeOK
<1>3. ASSUME NEW b \in Bes
      PROVE  /\ s \in Nat \ {0}
             /\ \A c \in preds : steps[c] < s
             /\ a(b) \in Seq(Instruction)
             /\ b \in preds => 1 \in DOMAIN a(b) /\ a(b)[1] = StepTo(s)
             /\ \A i \in DOMAIN a(b) :
                  a(b)[i].op = "step" => i = 1 /\ b \in preds /\ a(b)[i] = StepTo(s)
             /\ \A i \in DOMAIN a(b) :
                  a(b)[i].op = "wait" => preds # {} /\ a(b)[i] = WaitFor(preds, s)
             /\ \A i \in DOMAIN a(b) : a(b)[i].op = "execute" =>
                  /\ a(b)[i].kernel = k /\ b \in ready
                  /\ preds # {} => \E h \in DOMAIN a(b) : h < i /\ a(b)[h] = WaitFor(preds, s)
  <2> HIDE DEF ready, preds, k
  <2>1. IsAdded(a(b), s, k, b, ready, preds)
    BY <1>1, <1>2, AddedInstructions
  <2> HIDE DEF a, s
  <2>2. QED
    BY <2>1 DEF IsAdded
<1>4. \A b \in Bes : p(b) \in Seq(Instruction)
  BY DEF TypeOK
<1>5. \A b \in Bes : q(b) = p(b) \o a(b)
  BY DEF ScheduleKernel
<1>6. /\ \A b \in Bes : steps'[b] = IF b \in preds THEN s ELSE steps[b]
      /\ next' = k + 1 /\ bes' = Append(bes, ready) /\ group' = group /\ phase = "schedule"
  BY DEF ScheduleKernel, fixedVars
<1>7. /\ \A d \in 1 .. k - 1 : bes'[d] = bes[d]
      /\ bes'[k] = ready
  <2>1. bes \in Seq(SUBSET Bes) /\ Len(bes) = k - 1
    BY DEF TypeOK
  <2>2. QED
    BY <1>1, <1>6, <2>1, AppendProperties
<1> HIDE DEF ready, preds, k, s, p, a, q
<1>8. ASSUME NEW b \in Bes
      PROVE  /\ \A i \in DOMAIN q(b) :
                  \/ i \in DOMAIN p(b) /\ q(b)[i] = p(b)[i]
                  \/ i > Len(p(b)) /\ i - Len(p(b)) \in DOMAIN a(b) /\ q(b)[i] = a(b)[i - Len(p(b))]
             /\ \A i \in DOMAIN p(b) : i \in DOMAIN q(b) /\ q(b)[i] = p(b)[i]
             /\ \A i \in DOMAIN a(b) :
                  Len(p(b)) + i \in DOMAIN q(b) /\ q(b)[Len(p(b)) + i] = a(b)[i]
             /\ \A i \in DOMAIN q(b) : i \in Nat
             /\ \A i \in DOMAIN p(b) : i \in Nat /\ i <= Len(p(b))
             /\ \A i \in DOMAIN a(b) : i \in Nat /\ i >= 1
             /\ Len(p(b)) \in Nat
  <2>1. p(b) \in Seq(Instruction) /\ a(b) \in Seq(Instruction)
    BY <1>3, <1>4
  <2>2. q(b) = p(b) \o a(b)
    BY <1>5
  <2>3. QED
    BY <2>1, <2>2, Appended
<1>9. StepsGrow'
  <2>1. SUFFICES ASSUME NEW b \in Bes, NEW i \in DOMAIN q(b), NEW j \in DOMAIN q(b),
                        i < j, q(b)[i].op = "step", q(b)[j].op = "step"
                 PROVE  q(b)[i].step < q(b)[j].step
    BY DEF StepsGrow, q, Bes
  <2>2. CASE j \in DOMAIN p(b) /\ q(b)[j] = p(b)[j]
    <3>1. i \in DOMAIN p(b) /\ q(b)[i] = p(b)[i]
      BY <2>1, <2>2, <1>8
    <3>2. QED
      BY <2>1, <2>2, <3>1 DEF ProgramInv, StepsGrow, p
  <2>3. CASE j > Len(p(b)) /\ j - Len(p(b)) \in DOMAIN a(b) /\ q(b)[j] = a(b)[j - Len(p(b))]
    <3>1. j - Len(p(b)) = 1 /\ b \in preds /\ q(b)[j] = StepTo(s)
      BY <2>1, <2>3, <1>3
    <3>2. i \in DOMAIN p(b) /\ q(b)[i] = p(b)[i]
      BY <2>1, <3>1, <1>8
    <3>3. q(b)[i].step <= steps[b]
      BY <2>1, <3>2, <1>6 DEF ProgramInv, StepsKnown, p
    <3>4. steps[b] < s /\ s \in Nat /\ steps[b] \in Nat
      BY <3>1, <1>2, <1>3
    <3>5. q(b)[i].step \in Nat
      <4>1. p(b)[i] \in Instruction
        BY <3>2, <1>4, ElementOfSeq
      <4>2. QED
        BY <4>1, <3>2, <2>1, InstructionCases
    <3>6. q(b)[j].step = s
      BY <3>1 DEF StepTo
    <3>7. QED
      BY <3>3, <3>4, <3>5, <3>6
  <2>4. QED
    BY <2>2, <2>3, <1>8
<1>10. StepsKnown'
  <2>1. SUFFICES ASSUME NEW b \in Bes, NEW i \in DOMAIN q(b), q(b)[i].op = "step"
                 PROVE  q(b)[i].step <= steps'[b]
    BY DEF StepsKnown, q, Bes
  <2>2. CASE i \in DOMAIN p(b) /\ q(b)[i] = p(b)[i]
    <3>1. q(b)[i].step <= steps[b]
      BY <2>1, <2>2, <1>6 DEF ProgramInv, StepsKnown, p
    <3>2. q(b)[i].step \in Nat
      <4>1. p(b)[i] \in Instruction
        BY <2>2, <1>4, ElementOfSeq
      <4>2. QED
        BY <4>1, <2>2, <2>1, InstructionCases
    <3>3. steps[b] <= steps'[b] /\ steps[b] \in Nat /\ steps'[b] \in Nat
      BY <1>2, <1>3, <1>6
    <3>4. QED
      BY <3>1, <3>2, <3>3
  <2>3. CASE i > Len(p(b)) /\ i - Len(p(b)) \in DOMAIN a(b) /\ q(b)[i] = a(b)[i - Len(p(b))]
    <3>1. b \in preds /\ q(b)[i] = StepTo(s)
      BY <2>1, <2>3, <1>3
    <3>2. q(b)[i].step = s /\ steps'[b] = s /\ s \in Nat
      BY <3>1, <1>3, <1>6 DEF StepTo
    <3>3. QED
      BY <3>2
  <2>4. QED
    BY <2>2, <2>3, <1>8
<1>11. BlocksKnown'
  <2>1. SUFFICES ASSUME NEW b \in Bes, NEW i \in DOMAIN q(b), q(b)[i].op = "execute"
                 PROVE  q(b)[i].kernel < next' /\ b \in bes'[q(b)[i].kernel]
    BY DEF BlocksKnown, q, Bes
  <2>2. CASE i \in DOMAIN p(b) /\ q(b)[i] = p(b)[i]
    <3>1. q(b)[i].kernel < k /\ b \in bes[q(b)[i].kernel]
      BY <2>1, <2>2 DEF ProgramInv, BlocksKnown, p, k
    <3>2. q(b)[i].kernel \in 1 .. k - 1
      <4>1. p(b)[i] \in Instruction
        BY <2>2, <1>4, ElementOfSeq
      <4>2. q(b)[i].kernel \in DOMAIN group
        BY <4>1, <2>2, <2>1, InstructionCases
      <4>3. QED
        BY <4>2, <3>1, <1>1, <1>2, GroupTyped
    <3>3. QED
      BY <3>1, <3>2, <1>1, <1>6, <1>7
  <2>3. CASE i > Len(p(b)) /\ i - Len(p(b)) \in DOMAIN a(b) /\ q(b)[i] = a(b)[i - Len(p(b))]
    <3>1. q(b)[i].kernel = k /\ b \in ready
      BY <2>1, <2>3, <1>3
    <3>2. QED
      BY <3>1, <1>1, <1>6, <1>7
  <2>4. QED
    BY <2>2, <2>3, <1>8
<1>12. WaitsNamed'
  <2>1. SUFFICES ASSUME NEW b \in Bes, NEW i \in DOMAIN q(b), q(b)[i].op = "wait"
                 PROVE  q(b)[i].on # {}
    BY DEF WaitsNamed, q, Bes
  <2>2. CASE i \in DOMAIN p(b) /\ q(b)[i] = p(b)[i]
    BY <2>1, <2>2 DEF ProgramInv, WaitsNamed, p
  <2>3. CASE i > Len(p(b)) /\ i - Len(p(b)) \in DOMAIN a(b) /\ q(b)[i] = a(b)[i - Len(p(b))]
    <3>1. preds # {} /\ q(b)[i] = WaitFor(preds, s)
      BY <2>1, <2>3, <1>3
    <3>2. QED
      BY <3>1 DEF WaitFor
  <2>4. QED
    BY <2>2, <2>3, <1>8
<1>13. BlocksGuarded'
  <2> DEFINE Between(b, i, c, j) ==
               \E h \in DOMAIN q(b), g \in DOMAIN q(c) :
                 /\ h < i /\ g > j
                 /\ q(b)[h].op = "wait" /\ c \in q(b)[h].on
                 /\ q(c)[g] = StepTo(q(b)[h].step)
  <2>1. SUFFICES ASSUME NEW b \in Bes, NEW c \in Bes,
                        NEW i \in DOMAIN q(b), NEW j \in DOMAIN q(c),
                        NEW n \in DOMAIN group, NEW d \in group[n].deps,
                        q(b)[i].op = "execute", q(b)[i].kernel = n,
                        q(c)[j].op = "execute", q(c)[j].kernel = d
                 PROVE  Between(b, i, c, j)
    BY <1>6 DEF BlocksGuarded, Runs, WaitBetween, q, Bes, Between
  <2>2. n \in Nat /\ d \in 1 .. n - 1
    BY <1>2, GroupTyped
  <2>3. CASE i \in DOMAIN p(b) /\ q(b)[i] = p(b)[i] /\ j \in DOMAIN p(c) /\ q(c)[j] = p(c)[j]
    <3>1. Runs(b, i, n) /\ Runs(c, j, d)
      BY <2>1, <2>3 DEF Runs, p
    <3>2. WaitBetween(b, i, c, j)
      BY <2>3, <3>1 DEF ProgramInv, BlocksGuarded, p
    <3>3. PICK h \in DOMAIN p(b), g \in DOMAIN p(c) :
            /\ h < i /\ g > j
            /\ p(b)[h].op = "wait" /\ c \in p(b)[h].on
            /\ p(c)[g] = StepTo(p(b)[h].step)
      BY <3>2 DEF WaitBetween, p
    <3>4. QED
      BY <3>3, <1>8 DEF Between
  <2>4. CASE i \in DOMAIN p(b) /\ q(b)[i] = p(b)[i] /\ ~(j \in DOMAIN p(c) /\ q(c)[j] = p(c)[j])
    <3>1. n < k
      BY <2>1, <2>4 DEF ProgramInv, BlocksKnown, p, k
    <3>2. d = k
      BY <2>1, <2>4, <1>3, <1>8
    <3>3. QED
      BY <3>1, <3>2, <2>2, <1>1
  <2>5. CASE ~(i \in DOMAIN p(b) /\ q(b)[i] = p(b)[i])
    <3>1. /\ i > Len(p(b)) /\ i - Len(p(b)) \in DOMAIN a(b) /\ q(b)[i] = a(b)[i - Len(p(b))]
          /\ n = k
      BY <2>1, <2>5, <1>3, <1>8
    <3>2. CASE j \in DOMAIN p(c) /\ q(c)[j] = p(c)[j]
      <4>1. c \in bes[d]
        BY <2>1, <3>2 DEF ProgramInv, BlocksKnown, p
      <4>2. c \in preds /\ preds # {}
        BY <4>1, <2>1, <3>1 DEF preds, k
      <4>3. PICK h \in DOMAIN a(b) : h < i - Len(p(b)) /\ a(b)[h] = WaitFor(preds, s)
        BY <4>2, <3>1, <2>1, <1>3
      <4>4. 1 \in DOMAIN a(c) /\ a(c)[1] = StepTo(s)
        BY <4>2, <1>3
      <4>5. /\ Len(p(b)) + h \in DOMAIN q(b) /\ q(b)[Len(p(b)) + h] = WaitFor(preds, s)
            /\ Len(p(c)) + 1 \in DOMAIN q(c) /\ q(c)[Len(p(c)) + 1] = StepTo(s)
        BY <4>3, <4>4, <1>8
      <4>6. Len(p(b)) + h < i /\ Len(p(c)) + 1 > j
        <5>1. h \in Nat /\ Len(p(b)) \in Nat /\ i - Len(p(b)) \in Nat
          BY <1>8, <3>1
        <5>2. j \in Nat /\ j <= Len(p(c)) /\ Len(p(c)) \in Nat
          BY <1>8, <3>2
        <5>3. i \in Int
          BY <1>3, <1>4, <1>5, <1>8
        <5>4. QED
          BY <4>3, <5>1, <5>2, <5>3
      <4>7. /\ q(b)[Len(p(b)) + h].op = "wait" /\ q(b)[Len(p(b)) + h].on = preds
            /\ q(b)[Len(p(b)) + h].step = s
        BY <4>5 DEF WaitFor
      <4>8. QED
        BY <4>2, <4>5, <4>6, <4>7 DEF Between
    <3>3. CASE ~(j \in DOMAIN p(c) /\ q(c)[j] = p(c)[j])
      <4>1. d = k
        BY <2>1, <3>3, <1>3, <1>8
      <4>2. QED
        BY <4>1, <3>1, <2>2, <1>1
    <3>4. QED
      BY <3>2, <3>3
  <2>6. QED
    BY <2>3, <2>4, <2>5
<1>14. QED
  BY <1>9, <1>10, <1>11, <1>12, <1>13 DEF ProgramInv

LEMMA ScheduleKeepsIInv ==
  ASSUME IInv, Schedule
  PROVE  IInv'
<1>1. PICK duration \in Nat : ScheduleKernel(duration)
  BY DeviceAssumption DEF Schedule, DefaultDuration
<1>2. TypeOK' /\ ProgramInv'
  BY <1>1, ScheduleTypes, SchedulePrograms DEF IInv
<1>3. UNCHANGED <<fixedVars, phase, codeVars, runVars>> /\ phase = "schedule"
  BY <1>1 DEF ScheduleKernel
<1>4. Idle' /\ EmittedIsProgram'
  BY <1>3 DEF IInv, LaunchInv, Idle, EmittedIsProgram, runVars, codeVars, Bes, Start, Cleared,
              Threads
<1>5. FlagsArePast' /\ WaitsAreOver' /\ ThreadsMeet'
  BY <1>3 DEF IInv, LaunchInv, FlagsArePast, WaitsAreOver, ThreadsMeet, Done, StepTo,
              runVars, codeVars, Bes, Threads
<1>6. QED
  BY <1>2, <1>4, <1>5 DEF IInv, LaunchInv

(***************************************************************************)
(* Compilation.                                                            *)
(***************************************************************************)

LEMMA GridDimTyped ==
  ASSUME TypeOK
  PROVE  GridDim \in 0 .. NumBes
<1> DEFINE S == {0} \cup {b + 1 : b \in {c \in Bes : program[c] # <<>>}}
<1>1. S \in SUBSET Nat /\ S # {} /\ \A x \in S : x <= NumBes
  BY DeviceAssumption DEF Bes
<1>2. Greatest(S) \in S
  BY <1>1, GreatestIsGreatest, DeviceAssumption
<1>3. GridDim = Greatest(S)
  BY DEF GridDim
<1>4. Greatest(S) \in 0 .. NumBes
  <2>1. PICK x \in S : x = Greatest(S)
    BY <1>2
  <2>2. x \in Nat /\ x <= NumBes
    BY <1>1
  <2>3. QED
    BY <2>1, <2>2, DeviceAssumption
<1>5. QED
  BY <1>3, <1>4

LEMMA BranchesTyped ==
  ASSUME TypeOK, NEW b \in Bes
  PROVE  /\ Branch(b) \in Seq([ins : Instruction, sync : BOOLEAN])
         /\ DOMAIN Branch(b) = DOMAIN program[b]
         /\ \A i \in DOMAIN program[b] :
              Branch(b)[i] = [ins |-> program[b][i], sync |-> Syncs(b, i, program[b][i].op)]
<1>1. Instructions(b) = program[b]
  BY InstructionsAreOwn DEF TypeOK
<1>2. Branch(b) = [i \in DOMAIN program[b] |->
                     [ins |-> program[b][i], sync |-> Syncs(b, i, program[b][i].op)]]
  BY <1>1 DEF Branch
<1>3. program[b] \in Seq(Instruction)
  BY DEF TypeOK
<1>4. Len(program[b]) \in Nat /\ DOMAIN program[b] = 1 .. Len(program[b])
  BY <1>3, LenProperties
<1>5. \A i \in 1 .. Len(program[b]) :
        [ins |-> program[b][i], sync |-> Syncs(b, i, program[b][i].op)]
          \in [ins : Instruction, sync : BOOLEAN]
  <2>1. SUFFICES ASSUME NEW i \in 1 .. Len(program[b])
                 PROVE  program[b][i] \in Instruction /\ Syncs(b, i, program[b][i].op) \in BOOLEAN
    OBVIOUS
  <2>2. program[b][i] \in Instruction
    BY <1>3, <1>4, ElementOfSeq
  <2>3. QED
    BY <2>2 DEF Syncs
<1>6. QED
  BY <1>2, <1>4, <1>5

LEMMA CompileKeepsIInv ==
  ASSUME IInv, Compile
  PROVE  IInv'
<1>1. TypeOK /\ phase = "schedule" /\ phase' \in {"skipped", "run"}
  BY DEF IInv, Compile
<1>2. at = Start /\ flag = Cleared /\ started = {} /\ at' = at /\ flag' = flag /\ started' = started
  BY DEF IInv, LaunchInv, Idle, Compile, runVars
<1>3. /\ group' = group /\ policy' = policy /\ opt' = opt /\ slots' = slots
      /\ next' = next /\ bes' = bes /\ program' = program
  BY DEF Compile, fixedVars
<1>4. Instruction' = Instruction
  BY <1>3 DEF Instruction, Bes
<1>5. \A b \in Bes : emitted[b] = <<>>
  BY <1>1 DEF IInv, LaunchInv, EmittedIsProgram
<1>6. emitted' \in [Bes -> Seq([ins : Instruction, sync : BOOLEAN])]
  <2>1. CASE Skipped
    BY <2>1, <1>1 DEF Compile, TypeOK
  <2>2. CASE ~Skipped
    <3>1. emitted' = [b \in Bes |-> Branch(b)]
      BY <2>2 DEF Compile
    <3>2. QED
      BY <3>1, <1>1, BranchesTyped
  <2>3. QED
    BY <2>1, <2>2
<1>7. TypeOK'
  <2>1. grid' \in 0 .. NumBes
    BY <1>1, GridDimTyped DEF Compile, TypeOK
  <2>2. lane' \in [Bes -> Nat] /\ steps' \in [Bes -> Nat] /\ normal' \in Nat
    BY DEF Compile, NoLanes
  <2>3. QED
    BY <1>1, <1>2, <1>3, <1>4, <1>6, <2>1, <2>2 DEF TypeOK, Bes, Threads
<1>8. ProgramInv'
  <2>1. StepsGrow' /\ StepsKnown' /\ BlocksKnown' /\ WaitsNamed'
    BY <1>1, <1>3 DEF IInv, ProgramInv, StepsGrow, StepsKnown, BlocksKnown, WaitsNamed, Bes
  <2>2. BlocksGuarded'
    BY <1>3 DEF IInv, ProgramInv, BlocksGuarded, Runs, WaitBetween, StepTo, Bes
  <2>3. QED
    BY <2>1, <2>2 DEF ProgramInv
<1>9. EmittedIsProgram'
  <2>1. CASE Skipped
    BY <2>1, <1>5 DEF Compile, EmittedIsProgram, Bes
  <2>2. CASE ~Skipped
    <3>1. phase' = "run" /\ emitted' = [b \in Bes |-> Branch(b)]
      BY <2>2 DEF Compile
    <3>2. ASSUME NEW b \in Bes, NEW i \in DOMAIN program[b]
          PROVE  Syncs(b, i, program[b][i].op)' = Syncs(b, i, program[b][i].op)
      BY <1>3 DEF Syncs, InRange, Sequential, SequentialInstructions, Bes
    <3>3. \A b \in Bes :
            /\ DOMAIN emitted'[b] = DOMAIN program[b]
            /\ \A i \in DOMAIN program[b] :
                 emitted'[b][i] = [ins |-> program[b][i], sync |-> Syncs(b, i, program[b][i].op)]
      BY <3>1, <1>1, BranchesTyped
    <3>4. QED
      BY <3>1, <3>2, <3>3, <1>3 DEF EmittedIsProgram, Bes
  <2>3. QED
    BY <2>1, <2>2
<1>10. Idle'
  BY <1>2 DEF Idle, Start, Cleared, Bes, Threads
<1>11. FlagsArePast'
  BY <1>2 DEF FlagsArePast, Cleared, Bes
<1>12. \A b \in Bes : \A t \in Threads : \A h \in DOMAIN emitted'[b] : ~(at'[b][t] > h)
  <2>1. SUFFICES ASSUME NEW b \in Bes, NEW t \in Threads, NEW h \in DOMAIN emitted'[b]
                 PROVE  ~(at'[b][t] > h)
    OBVIOUS
  <2>2. at'[b][t] = 1
    BY <1>2 DEF Start
  <2>3. h \in Nat \ {0}
    <3>1. emitted'[b] \in Seq([ins : Instruction, sync : BOOLEAN])
      BY <1>6
    <3>2. QED
      BY <3>1, LenProperties
  <2>4. QED
    BY <2>2, <2>3
<1>13. WaitsAreOver' /\ ThreadsMeet'
  BY <1>12 DEF WaitsAreOver, ThreadsMeet, Done, Bes, Threads
<1>14. QED
  BY <1>7, <1>8, <1>9, <1>10, <1>11, <1>13 DEF IInv, LaunchInv

(***************************************************************************)
(* The launch.                                                             *)
(***************************************************************************)

(* The branches, if there are any. *)
LEMMA EmittedBranches ==
  ASSUME IInv, NEW b \in Bes, NEW i \in DOMAIN emitted[b]
  PROVE  /\ phase = "run" /\ i \in DOMAIN program[b]
         /\ emitted[b][i].ins = program[b][i]
         /\ emitted[b][i].sync = Syncs(b, i, program[b][i].op)
<1>1. EmittedIsProgram
  BY DEF IInv, LaunchInv
<1>2. CASE phase = "run"
  <2>1. /\ DOMAIN emitted[b] = DOMAIN program[b]
        /\ \A h \in DOMAIN program[b] :
             emitted[b][h] = [ins |-> program[b][h], sync |-> Syncs(b, h, program[b][h].op)]
    BY <1>1, <1>2 DEF EmittedIsProgram
  <2>2. /\ i \in DOMAIN program[b]
        /\ emitted[b][i] = [ins |-> program[b][i], sync |-> Syncs(b, i, program[b][i].op)]
    BY <2>1
  <2>3. QED
    BY <1>2, <2>2
<1>3. CASE phase # "run"
  BY <1>1, <1>3 DEF EmittedIsProgram
<1>4. QED
  BY <1>2, <1>3

LEMMA EmittedDomains ==
  ASSUME IInv, phase = "run", NEW b \in Bes
  PROVE  DOMAIN emitted[b] = DOMAIN program[b]
BY DEF IInv, LaunchInv, EmittedIsProgram

LEMMA InitHasIInv ==
  ASSUME Init
  PROVE  IInv
<1>1. TypeOK
  <2>1. IsGroup(group)
    BY DeviceAssumption DEF Init
  <2>2. bes \in Seq(SUBSET Bes) /\ Len(bes) = next - 1 /\ next \in 1 .. Len(group) + 1
    BY <2>1 DEF Init, IsGroup
  <2>3. program \in [Bes -> Seq(Instruction)]
    BY DEF Init
  <2>4. emitted \in [Bes -> Seq([ins : Instruction, sync : BOOLEAN])]
    BY DEF Init
  <2>5. QED
    BY <2>1, <2>2, <2>3, <2>4, DeviceAssumption
       DEF Init, TypeOK, NoLanes, Start, Cleared
<1>2. /\ \A b \in Bes : program[b] = <<>> /\ emitted[b] = <<>>
      /\ phase = "schedule" /\ started = {} /\ at = Start /\ flag = Cleared
  BY DEF Init
<1>3. ProgramInv
  BY <1>2 DEF ProgramInv, StepsGrow, StepsKnown, BlocksKnown, BlocksGuarded, Runs, WaitsNamed
<1>4. Idle /\ EmittedIsProgram
  BY <1>2 DEF Idle, EmittedIsProgram
<1>5. FlagsArePast
  BY <1>2 DEF FlagsArePast, Cleared
<1>6. WaitsAreOver /\ ThreadsMeet
  BY <1>2 DEF WaitsAreOver, ThreadsMeet
<1>7. QED
  BY <1>1, <1>3, <1>4, <1>5, <1>6 DEF IInv, LaunchInv

(* What a launch leaves alone. *)
LEMMA ProgramStays ==
  ASSUME IInv, UNCHANGED <<fixedVars, phase, deviceVars, codeVars>>
  PROVE  ProgramInv' /\ EmittedIsProgram'
<1>1. /\ group' = group /\ policy' = policy /\ opt' = opt /\ slots' = slots
      /\ next' = next /\ bes' = bes /\ program' = program /\ steps' = steps
      /\ phase' = phase /\ emitted' = emitted
  BY DEF fixedVars, deviceVars, codeVars
<1>2. StepsGrow' /\ StepsKnown' /\ BlocksKnown' /\ WaitsNamed'
  BY <1>1 DEF IInv, ProgramInv, StepsGrow, StepsKnown, BlocksKnown, WaitsNamed, Bes
<1>3. BlocksGuarded'
  BY <1>1 DEF IInv, ProgramInv, BlocksGuarded, Runs, WaitBetween, StepTo, Bes
<1>4. EmittedIsProgram'
  <2>1. ASSUME NEW b \in Bes, NEW i \in DOMAIN program[b]
        PROVE  Syncs(b, i, program[b][i].op)' = Syncs(b, i, program[b][i].op)
    BY <1>1 DEF Syncs, InRange, Sequential, SequentialInstructions, Bes
  <2>2. QED
    BY <1>1, <2>1 DEF IInv, LaunchInv, EmittedIsProgram, Bes
<1>5. QED
  BY <1>2, <1>3, <1>4 DEF ProgramInv

LEMMA TypesStay ==
  ASSUME TypeOK, UNCHANGED <<fixedVars, phase, deviceVars, codeVars>>,
         started' \in SUBSET Bes, at' \in [Bes -> [Threads -> Nat \ {0}]], flag' \in [Bes -> Nat]
  PROVE  TypeOK'
<1>1. /\ group' = group /\ policy' = policy /\ opt' = opt /\ slots' = slots
      /\ next' = next /\ bes' = bes /\ program' = program /\ steps' = steps
      /\ lane' = lane /\ normal' = normal
      /\ phase' = phase /\ emitted' = emitted /\ grid' = grid
  BY DEF fixedVars, deviceVars, codeVars
<1>2. Instruction' = Instruction
  BY <1>1 DEF Instruction, Bes
<1>3. QED
  BY <1>1, <1>2 DEF TypeOK, Bes, Threads

LEMMA StutterKeepsIInv ==
  ASSUME IInv, UNCHANGED vars
  PROVE  IInv'
<1>1. UNCHANGED <<fixedVars, phase, deviceVars, codeVars>> /\ UNCHANGED <<started, at, flag>>
  BY DEF vars, runVars
<1>2. TypeOK'
  BY <1>1, TypesStay DEF IInv, TypeOK
<1>3. ProgramInv' /\ EmittedIsProgram'
  BY <1>1, ProgramStays
<1>4. Idle' /\ FlagsArePast' /\ WaitsAreOver' /\ ThreadsMeet'
  BY <1>1 DEF IInv, LaunchInv, Idle, FlagsArePast, WaitsAreOver, ThreadsMeet, Done, StepTo,
              codeVars, Start, Cleared, Bes, Threads
<1>5. QED
  BY <1>2, <1>3, <1>4 DEF IInv, LaunchInv

LEMMA BeginKeepsIInv ==
  ASSUME IInv, NEW b \in Bes, Begin(b)
  PROVE  IInv'
<1>1. /\ UNCHANGED <<fixedVars, phase, deviceVars, codeVars>> /\ UNCHANGED <<at, flag>>
      /\ phase = "run" /\ started' \in SUBSET Bes
  BY DEF Begin, IInv, TypeOK
<1>2. TypeOK'
  BY <1>1, TypesStay DEF IInv, TypeOK
<1>3. ProgramInv' /\ EmittedIsProgram'
  BY <1>1, ProgramStays
<1>4. Idle' /\ FlagsArePast' /\ WaitsAreOver' /\ ThreadsMeet'
  BY <1>1 DEF IInv, LaunchInv, Idle, FlagsArePast, WaitsAreOver, ThreadsMeet, Done, StepTo,
              codeVars, Bes, Threads
<1>5. QED
  BY <1>2, <1>3, <1>4 DEF IInv, LaunchInv

LEMMA RelaunchKeepsIInv ==
  ASSUME IInv, Relaunch
  PROVE  IInv'
<1>1. /\ UNCHANGED <<fixedVars, phase, deviceVars, codeVars>>
      /\ phase = "run" /\ started' = {} /\ at' = Start /\ flag' = Cleared
  BY DEF Relaunch, Finished
<1>2. TypeOK'
  BY <1>1, TypesStay DEF IInv, Start, Cleared
<1>3. ProgramInv' /\ EmittedIsProgram'
  BY <1>1, ProgramStays
<1>4. Idle' /\ FlagsArePast'
  BY <1>1 DEF Idle, FlagsArePast, Cleared, Bes
<1>5. ASSUME NEW b \in Bes, NEW t \in Threads, NEW h \in DOMAIN emitted'[b]
      PROVE  ~(at'[b][t] > h)
  <2>1. at'[b][t] = 1
    BY <1>1 DEF Start
  <2>2. emitted'[b] \in Seq([ins : Instruction, sync : BOOLEAN])
    BY <1>1 DEF IInv, TypeOK, codeVars
  <2>3. h \in Nat \ {0}
    BY <2>2, LenProperties
  <2>4. QED
    BY <2>1, <2>3
<1>6. WaitsAreOver' /\ ThreadsMeet'
  BY <1>5 DEF WaitsAreOver, ThreadsMeet, Done, Bes, Threads
<1>7. QED
  BY <1>2, <1>3, <1>4, <1>6 DEF IInv, LaunchInv

LEMMA PassKeepsIInv ==
  ASSUME IInv, NEW b \in Bes, NEW t \in Threads, Pass(b, t)
  PROVE  IInv'
<1> DEFINE i == at[b][t]
           x == emitted[b][i].ins
<1>1. /\ UNCHANGED <<fixedVars, phase, deviceVars, codeVars>> /\ started' = started
      /\ phase = "run" /\ i <= Len(emitted[b])
      /\ at' = [at EXCEPT ![b][t] = i + 1]
      /\ flag' = IF x.op = "step" /\ t = 0 THEN [flag EXCEPT ![b] = x.step] ELSE flag
      /\ emitted[b][i].sync => \A u \in Threads : at[b][u] >= i
      /\ x.op = "wait" => \A p \in Awaited(x.on) : flag[p] >= x.step
  BY DEF Pass
<1>2. /\ at \in [Bes -> [Threads -> Nat \ {0}]] /\ flag \in [Bes -> Nat] /\ started \in SUBSET Bes
      /\ \A c \in Bes : emitted[c] \in Seq([ins : Instruction, sync : BOOLEAN])
  BY DEF IInv, TypeOK
<1>3. \A c \in Bes : DOMAIN emitted[c] = 1 .. Len(emitted[c]) /\ Len(emitted[c]) \in Nat
  BY <1>2, LenProperties
<1>4. i \in DOMAIN emitted[b] /\ i \in Nat \ {0}
  BY <1>1, <1>2, <1>3
<1>5. \A c \in Bes : \A h \in DOMAIN emitted[c] : emitted[c][h].ins \in Instruction
  <2>1. ASSUME NEW c \in Bes, NEW h \in DOMAIN emitted[c]
        PROVE  emitted[c][h] \in [ins : Instruction, sync : BOOLEAN]
    BY <1>2, <1>3, ElementOfSeq
  <2>2. QED
    BY <2>1
<1>6. x.op = "step" => x.step \in Nat \ {0} /\ x = StepTo(x.step)
  BY <1>4, <1>5, InstructionCases
<1> HIDE DEF i, x
<1>7. /\ at' \in [Bes -> [Threads -> Nat \ {0}]]
      /\ \A c \in Bes, u \in Threads :
           at'[c][u] = IF c = b /\ u = t THEN i + 1 ELSE at[c][u]
      /\ at[b][t] = i
  BY <1>1, <1>2, <1>4 DEF i
<1>8. /\ flag' \in [Bes -> Nat]
      /\ \A c \in Bes : flag'[c] = IF c = b /\ x.op = "step" /\ t = 0 THEN x.step ELSE flag[c]
  BY <1>1, <1>2, <1>6
<1>9. TypeOK'
  BY <1>1, <1>2, <1>7, <1>8, TypesStay DEF IInv
<1>10. ProgramInv' /\ EmittedIsProgram'
  BY <1>1, ProgramStays
<1>11. Idle'
  BY <1>1 DEF Idle
<1>12. emitted' = emitted
  BY <1>1 DEF codeVars
<1>13. \A c \in Bes : \A h \in DOMAIN emitted[c] :
         emitted[c][h].ins = program[c][h] /\ DOMAIN emitted[c] = DOMAIN program[c]
  BY <1>1, EmittedBranches, EmittedDomains
<1>14. ASSUME NEW c \in Bes, NEW u \in Threads, NEW h \in DOMAIN emitted[c]
       PROVE  /\ Done(c, h, u) => at'[c][u] > h
              /\ at'[c][u] > h => Done(c, h, u) \/ (c = b /\ u = t /\ h = i)
  <2>1. h \in Nat /\ at[c][u] \in Nat
    BY <1>2, <1>3
  <2>2. CASE c = b /\ u = t
    <3>1. at'[c][u] = i + 1 /\ at[c][u] = i
      BY <2>2, <1>7
    <3>2. QED
      BY <2>1, <2>2, <3>1, <1>4 DEF Done
  <2>3. CASE ~(c = b /\ u = t)
    <3>1. at'[c][u] = at[c][u]
      BY <2>3, <1>7
    <3>2. QED
      BY <3>1 DEF Done
  <2>4. QED
    BY <2>2, <2>3
<1>15. \A c \in Bes : flag[c] <= flag'[c]
  <2>1. SUFFICES ASSUME x.op = "step", t = 0, flag[b] # 0 PROVE flag[b] <= x.step
    BY <1>2, <1>6, <1>8
  <2>2. PICK h \in DOMAIN emitted[b] : Done(b, h, 0) /\ emitted[b][h].ins = StepTo(flag[b])
    BY <2>1 DEF IInv, LaunchInv, FlagsArePast
  <2>3. h < i
    BY <2>1, <2>2, <1>7 DEF Done
  <2>4. program[b][h].op = "step" /\ program[b][i].op = "step"
    BY <2>1, <2>2, <1>4, <1>13 DEF StepTo, x
  <2>5. program[b][h].step < program[b][i].step
    BY <2>3, <2>4, <1>4, <1>13 DEF IInv, ProgramInv, StepsGrow
  <2>6. flag[b] < x.step
    BY <2>2, <2>5, <1>4, <1>13 DEF StepTo, x
  <2>7. QED
    BY <2>1, <2>6, <1>2, <1>6
<1>16. FlagsArePast'
  <2>1. SUFFICES ASSUME NEW c \in Bes, flag'[c] # 0
                 PROVE  \E h \in DOMAIN emitted[c] :
                          at'[c][0] > h /\ emitted[c][h].ins = StepTo(flag'[c])
    BY <1>12 DEF FlagsArePast, Done, StepTo, Bes
  <2>2. 0 \in Threads
    BY DeviceAssumption DEF Threads
  <2>3. CASE c = b /\ x.op = "step" /\ t = 0
    <3>1. emitted[c][i].ins = StepTo(flag'[c])
      BY <2>3, <1>6, <1>8 DEF x
    <3>2. at'[c][0] > i
      BY <2>3, <1>4, <1>7
    <3>3. QED
      BY <2>3, <3>1, <3>2, <1>4
  <2>4. CASE ~(c = b /\ x.op = "step" /\ t = 0)
    <3>1. flag'[c] = flag[c]
      BY <2>4, <1>8
    <3>2. PICK h \in DOMAIN emitted[c] : Done(c, h, 0) /\ emitted[c][h].ins = StepTo(flag[c])
      BY <2>1, <3>1 DEF IInv, LaunchInv, FlagsArePast
    <3>3. QED
      BY <2>2, <3>1, <3>2, <1>14
  <2>5. QED
    BY <2>3, <2>4
<1>17. WaitsAreOver'
  <2>1. SUFFICES ASSUME NEW c \in Bes, NEW u \in Threads, NEW h \in DOMAIN emitted[c],
                        at'[c][u] > h, emitted[c][h].ins.op = "wait",
                        NEW p \in emitted[c][h].ins.on
                 PROVE  flag'[p] >= emitted[c][h].ins.step
    BY <1>12 DEF WaitsAreOver, Done, Bes, Threads
  <2>2. /\ emitted[c][h].ins.on \in SUBSET Bes
        /\ emitted[c][h].ins.step \in Nat
    BY <2>1, <1>5, InstructionCases
  <2>3. flag[p] >= emitted[c][h].ins.step
    <3>1. CASE Done(c, h, u)
      BY <2>1, <3>1 DEF IInv, LaunchInv, WaitsAreOver
    <3>2. CASE c = b /\ u = t /\ h = i
      <4>1. x = emitted[c][h].ins
        BY <3>2 DEF x
      <4>2. x.on # {}
        BY <2>1, <4>1, <1>13 DEF IInv, ProgramInv, WaitsNamed
      <4>3. Awaited(x.on) = x.on
        BY <2>2, <4>1, <4>2, AllAreAwaited
      <4>4. QED
        BY <2>1, <4>1, <4>3, <1>1
    <3>3. QED
      BY <2>1, <3>1, <3>2, <1>14
  <2>4. p \in Bes
    BY <2>1, <2>2
  <2>5. flag[p] <= flag'[p] /\ flag[p] \in Nat /\ flag'[p] \in Nat
    BY <2>4, <1>2, <1>8, <1>15
  <2>6. QED
    BY <2>2, <2>3, <2>5
<1>18. ThreadsMeet'
  <2>1. SUFFICES ASSUME NEW c \in Bes, NEW v \in Threads, NEW u \in Threads,
                        NEW h \in DOMAIN emitted[c], at'[c][v] > h, emitted[c][h].sync
                 PROVE  at'[c][u] >= h
    BY <1>12 DEF ThreadsMeet, Done, Bes, Threads
  <2>2. at[c][u] >= h
    <3>1. CASE Done(c, h, v)
      BY <2>1, <3>1 DEF IInv, LaunchInv, ThreadsMeet
    <3>2. CASE c = b /\ v = t /\ h = i
      BY <2>1, <3>2, <1>1
    <3>3. QED
      BY <2>1, <3>1, <3>2, <1>14
  <2>3. at'[c][u] >= at[c][u]
    <3>1. at[c][u] \in Nat
      BY <1>2
    <3>2. QED
      BY <3>1, <1>4, <1>7
  <2>4. QED
    BY <2>2, <2>3, <1>2, <1>3, <1>7, SMTT(40)
<1>19. QED
  BY <1>9, <1>10, <1>11, <1>16, <1>17, <1>18 DEF IInv, LaunchInv

(***************************************************************************)
(* The theorems.                                                           *)
(***************************************************************************)

(* The inductive invariant holds of the schedulers, the emitted function   *)
(* and its launches, for every group, device and block size.               *)
THEOREM FusionInvariant == Spec => []IInv
<1>1. Init => IInv
  BY InitHasIInv
<1>2. IInv /\ [Next]_vars => IInv'
  <2>1. SUFFICES ASSUME IInv, [Next]_vars PROVE IInv'
    OBVIOUS
  <2>2. CASE Schedule
    BY <2>1, <2>2, ScheduleKeepsIInv
  <2>3. CASE Compile
    BY <2>1, <2>3, CompileKeepsIInv
  <2>4. CASE Move
    BY <2>1, <2>4, BeginKeepsIInv, PassKeepsIInv DEF Move
  <2>5. CASE Relaunch
    BY <2>1, <2>5, RelaunchKeepsIInv
  <2>6. CASE UNCHANGED vars
    BY <2>1, <2>6, StutterKeepsIInv
  <2>7. QED
    BY <2>1, <2>2, <2>3, <2>4, <2>5, <2>6 DEF Next
<1>3. QED
  BY <1>1, <1>2, PTL DEF Spec

(* The state of the devices, the emitted branches and the threads of a     *)
(* launch is always well formed.                                           *)
THEOREM FusionTypes == Spec => []TypeOK
<1>1. IInv => TypeOK
  BY DEF IInv
<1>2. QED
  BY <1>1, FusionInvariant, PTL

(* A branch that executors of consecutive ids share does for each of them  *)
(* exactly what the scheduler put on its list.                             *)
THEOREM BranchesDoTheirOwn == Spec => []RangesDoTheirOwn
<1>1. IInv => RangesDoTheirOwn
  <2>1. SUFFICES ASSUME IInv, phase = "run", NEW b \in Bes
                 PROVE  /\ DOMAIN emitted[b] = DOMAIN program[b]
                        /\ \A i \in DOMAIN program[b] : emitted[b][i].ins = program[b][i]
    BY DEF RangesDoTheirOwn
  <2>2. QED
    BY <2>1, EmittedBranches, EmittedDomains
<1>2. QED
  BY <1>1, FusionInvariant, PTL

LEMMA InvariantHasDependencies ==
  ASSUME IInv
  PROVE  DependenciesDone
<1>1. SUFFICES ASSUME NEW b \in Bes, NEW c \in Bes,
                      NEW i \in DOMAIN emitted[b], NEW j \in DOMAIN emitted[c],
                      NEW k \in DOMAIN group, NEW d \in group[k].deps,
                      Executes(b, i, k), Executes(c, j, d),
                      NEW t \in Threads, Done(b, i, t), NEW u \in Writers[c]
               PROVE  Done(c, j, u)
  BY DEF DependenciesDone, DependenciesDoneBy
<1>2. phase = "run"
  BY <1>1, EmittedBranches
<1>3. \A e \in Bes :
        /\ DOMAIN emitted[e] = DOMAIN program[e]
        /\ \A h \in DOMAIN program[e] :
             /\ emitted[e][h].ins = program[e][h]
             /\ emitted[e][h].sync = Syncs(e, h, program[e][h].op)
  BY <1>2, EmittedBranches, EmittedDomains
<1>4. /\ at \in [Bes -> [Threads -> Nat \ {0}]] /\ flag \in [Bes -> Nat]
      /\ \A e \in Bes : DOMAIN emitted[e] = 1 .. Len(emitted[e]) /\ Len(emitted[e]) \in Nat
  BY LenProperties DEF IInv, TypeOK
<1>5. Runs(b, i, k) /\ Runs(c, j, d)
  BY <1>1, <1>3 DEF Executes, Runs
<1>6. WaitBetween(b, i, c, j)
  BY <1>1, <1>3, <1>5 DEF IInv, ProgramInv, BlocksGuarded
<1>7. PICK h \in DOMAIN program[b], g \in DOMAIN program[c] :
        /\ h < i /\ g > j
        /\ program[b][h].op = "wait" /\ c \in program[b][h].on
        /\ program[c][g] = StepTo(program[b][h].step)
  BY <1>6 DEF WaitBetween
<1> DEFINE s == program[b][h].step
<1>8. s \in Nat \ {0}
  <2>1. program[b] \in Seq(Instruction)
    BY DEF IInv, TypeOK
  <2>2. program[b][h] \in Instruction
    BY <2>1, ElementOfSeq, LenProperties
  <2>3. QED
    BY <1>7, <2>2, InstructionCases
<1>9. flag[c] >= s
  <2>1. Done(b, h, t)
    BY <1>1, <1>3, <1>4, <1>7 DEF Done
  <2>2. emitted[b][h].ins = program[b][h] /\ h \in DOMAIN emitted[b]
    BY <1>3
  <2>3. QED
    BY <2>1, <2>2, <1>7 DEF IInv, LaunchInv, WaitsAreOver
<1>10. 0 \in Threads
  BY DeviceAssumption DEF Threads
<1>11. PICK l \in DOMAIN emitted[c] : Done(c, l, 0) /\ emitted[c][l].ins = StepTo(flag[c])
  BY <1>4, <1>8, <1>9 DEF IInv, LaunchInv, FlagsArePast
<1>12. l >= g
  <2>1. program[c][l] = StepTo(flag[c])
    BY <1>3, <1>11
  <2>2. l < g => flag[c] < s
    BY <2>1, <1>3, <1>7 DEF IInv, ProgramInv, StepsGrow, StepTo
  <2>3. l \in Nat /\ g \in Nat /\ flag[c] \in Nat
    BY <1>3, <1>4
  <2>4. QED
    BY <2>2, <2>3, <1>8, <1>9
<1>13. Done(c, g, 0) /\ Done(c, j, 0)
  BY <1>3, <1>4, <1>7, <1>10, <1>11, <1>12 DEF Done
<1>14. CASE InRange(c)
  BY <1>1, <1>13, <1>14 DEF Writers
<1>15. CASE ~InRange(c)
  <2>1. u \in Threads
    BY <1>1, <1>15 DEF Writers
  <2>2. g > 1
    BY <1>3, <1>4, <1>7
  <2>3. emitted[c][g].sync
    BY <2>2, <1>3, <1>15 DEF Syncs
  <2>4. at[c][u] >= g
    BY <2>1, <2>3, <1>3, <1>10, <1>13 DEF IInv, LaunchInv, ThreadsMeet
  <2>5. QED
    BY <2>1, <2>4, <1>3, <1>4, <1>7 DEF Done
<1>16. QED
  BY <1>14, <1>15

(* No block of a kernel is over before the blocks that its kernel depends  *)
(* on: the waits that the device schedules are enough, whichever thread    *)
(* blocks the GPU begins and however their threads interleave.             *)
THEOREM DependenciesAreDone == Spec => []DependenciesDone
<1>1. IInv => DependenciesDone
  BY InvariantHasDependencies
<1>2. QED
  BY <1>1, FusionInvariant, PTL

-----------------------------------------------------------------------------
(***************************************************************************)
(* Places.                                                                 *)
(***************************************************************************)

(* The place of an executor among those that are ready counts those before *)
(* it: different executors have different places, all below their number.  *)
LEMMA PlacesDiffer ==
  ASSUME NEW ready \in SUBSET Bes
  PROVE  /\ IsFiniteSet(ready) /\ Cardinality(ready) \in Nat
         /\ \A b \in ready : Place(b, ready) \in 0 .. Cardinality(ready) - 1
         /\ \A b, c \in ready : Place(b, ready) = Place(c, ready) => b = c
<1> DEFINE before(b) == {c \in ready : c < b}
<1>1. IsFiniteSet(ready) /\ Cardinality(ready) \in Nat
  BY BesAreFinite, FS_Subset, FS_CardinalityType
<1>2. ready \in SUBSET Int
  BY DEF Bes
<1>3. ASSUME NEW b \in ready
      PROVE  IsFiniteSet(before(b)) /\ Cardinality(before(b)) \in Nat
  BY <1>1, FS_Subset, FS_CardinalityType
<1>4. ASSUME NEW b \in ready
      PROVE  Cardinality(before(b)) < Cardinality(ready)
  <2>1. before(b) \in SUBSET ready /\ b \notin before(b)
    BY <1>2
  <2>2. /\ Cardinality(before(b)) <= Cardinality(ready)
        /\ Cardinality(ready) = Cardinality(before(b)) => ready = before(b)
    BY <1>1, <2>1, FS_Subset
  <2> HIDE DEF before
  <2>3. QED
    BY <1>1, <1>3, <2>1, <2>2
<1>5. ASSUME NEW b \in ready, NEW c \in ready, b < c
      PROVE  Cardinality(before(b)) < Cardinality(before(c))
  <2>1. before(b) \in SUBSET before(c) /\ b \in before(c) /\ b \notin before(b)
    <3>1. b \in Int /\ c \in Int /\ \A x \in ready : x \in Int
      BY <1>2
    <3>2. \A x \in ready : x < b => x < c
      BY <3>1, <1>5
    <3>3. ~(b < b)
      BY <3>1
    <3>4. QED
      BY <3>2, <3>3, <1>5
  <2>2. IsFiniteSet(before(c))
    BY <1>3
  <2> HIDE DEF before
  <2>3. /\ Cardinality(before(b)) <= Cardinality(before(c))
        /\ Cardinality(before(c)) = Cardinality(before(b)) => before(c) = before(b)
    BY <2>1, <2>2, FS_Subset
  <2>4. QED
    BY <1>3, <2>1, <2>3
<1>6. \A b \in ready : Place(b, ready) = Cardinality(before(b))
  BY DEF Place
<1> HIDE DEF before
<1>7. \A b \in ready : Place(b, ready) \in 0 .. Cardinality(ready) - 1
  BY <1>1, <1>3, <1>4, <1>6
<1>8. \A b, c \in ready : Place(b, ready) = Place(c, ready) => b = c
  BY <1>2, <1>3, <1>5, <1>6
<1>9. QED
  BY <1>1, <1>7, <1>8

(* Every place is somebody's. *)
LEMMA PlacesAreTaken ==
  ASSUME NEW ready \in SUBSET Bes, NEW p \in 0 .. Cardinality(ready) - 1
  PROVE  \E b \in ready : Place(b, ready) = p
<1> DEFINE n == Cardinality(ready)
           f == [b \in ready |-> Place(b, ready)]
<1>1. /\ IsFiniteSet(ready) /\ n \in Nat
      /\ \A b \in ready : Place(b, ready) \in 0 .. n - 1
      /\ \A b, c \in ready : Place(b, ready) = Place(c, ready) => b = c
  BY PlacesDiffer
<1>2. IsFiniteSet(0 .. n - 1) /\ Cardinality(0 .. n - 1) = n
  <2>1. IsFiniteSet(0 .. n - 1) /\ Cardinality(0 .. n - 1) = IF 0 > n - 1 THEN 0 ELSE n - 1 - 0 + 1
    <3>1. 0 \in Int /\ n - 1 \in Int
      BY <1>1
    <3> HIDE DEF n
    <3>2. QED
      BY <3>1, FS_Interval
  <2>2. QED
    BY <1>1, <2>1
<1>3. f \in Injection(ready, 0 .. n - 1)
  BY <1>1 DEF Injection, IsInjective
<1>4. f \in Surjection(ready, 0 .. n - 1)
  BY <1>2, <1>3, FS_Injection
<1>5. QED
  BY <1>4 DEF Surjection

(***************************************************************************)
(* Division.                                                               *)
(***************************************************************************)

LEMMA DivisionIsExact ==
  ASSUME NEW x \in Nat, NEW n \in Nat \ {0}
  PROVE  /\ x \div n \in Nat /\ x % n \in 0 .. n - 1
         /\ x = (x % n) + (x \div n) * n
OBVIOUS

LEMMA DivisionIsUnique ==
  ASSUME NEW n \in Nat \ {0}, NEW p \in 0 .. n - 1, NEW q \in 0 .. n - 1,
         NEW x \in Nat, NEW y \in Nat, p + x * n = q + y * n
  PROVE  p = q /\ x = y
<1>1. ASSUME NEW u \in Nat, NEW v \in Nat, NEW r \in 0 .. n - 1, NEW s \in 0 .. n - 1,
             u < v
      PROVE  r + u * n < s + v * n
  <2>1. PICK d \in Nat : v = u + 1 + d
    <3>1. v - u - 1 \in Nat /\ v = u + 1 + (v - u - 1)
      BY <1>1
    <3>2. QED
      BY <3>1
  <2>2. v * n = u * n + n + d * n
    BY <2>1
  <2>3. d * n \in Nat /\ u * n \in Nat
    OBVIOUS
  <2>4. QED
    BY <2>2, <2>3
<1>2. ~(x < y) /\ ~(y < x)
  BY <1>1
<1>3. x = y
  BY <1>2
<1>4. x * n \in Nat
  OBVIOUS
<1>5. QED
  BY <1>3, <1>4

LEMMA RemainderOf ==
  ASSUME NEW n \in Nat \ {0}, NEW p \in 0 .. n - 1, NEW j \in Nat
  PROVE  p + j * n \in Nat /\ (p + j * n) % n = p
<1> DEFINE x == p + j * n
<1>1. x \in Nat
  <2>1. j * n \in Nat
    OBVIOUS
  <2>2. QED
    BY <2>1
<1>2. x \div n \in Nat /\ x % n \in 0 .. n - 1 /\ (x % n) + (x \div n) * n = p + j * n
  BY <1>1, DivisionIsExact
<1> HIDE DEF x
<1>3. x % n = p
  BY <1>2, DivisionIsUnique
<1>4. QED
  BY <1>1, <1>3 DEF x

(***************************************************************************)
(* The blocks of one kernel.                                               *)
(***************************************************************************)

Mine(k, b, ready) ==
  {i \in 0 .. group[k].grid - 1 : i % Cardinality(ready) = Place(b, ready)}

LEMMA BlocksOnReady ==
  ASSUME IsGroup(group), NEW k \in DOMAIN group, NEW ready \in SUBSET Bes, NEW b \in ready
  PROVE  /\ IsFiniteSet(Mine(k, b, ready)) /\ Cardinality(Mine(k, b, ready)) \in Nat
         /\ Cardinality(ready) \in Nat \ {0}
         /\ Place(b, ready) \in 0 .. Cardinality(ready) - 1
         /\ DOMAIN BlocksOn(k, b, ready) = 1 .. Cardinality(Mine(k, b, ready))
         /\ \A i \in 1 .. Cardinality(Mine(k, b, ready)) :
              BlocksOn(k, b, ready)[i]
                = Execute(k, Place(b, ready) + (i - 1) * Cardinality(ready))
<1>1. group[k].grid \in Nat \ {0}
  BY GroupTyped
<1>2. IsFiniteSet(0 .. group[k].grid - 1)
  <2>1. 0 \in Int /\ group[k].grid - 1 \in Int
    BY <1>1
  <2>2. QED
    BY <2>1, FS_Interval
<1>3. IsFiniteSet(Mine(k, b, ready)) /\ Cardinality(Mine(k, b, ready)) \in Nat
  BY <1>2, FS_Subset, FS_CardinalityType DEF Mine
<1>4. Cardinality(ready) \in Nat /\ Place(b, ready) \in 0 .. Cardinality(ready) - 1
  BY PlacesDiffer
<1>5. BlocksOn(k, b, ready)
        = [i \in 1 .. Cardinality(Mine(k, b, ready)) |->
             Execute(k, Place(b, ready) + (i - 1) * Cardinality(ready))]
  BY DEF BlocksOn, Mine
<1>6. QED
  BY <1>3, <1>4, <1>5

(* An executor has as many blocks as it takes to reach the one that is     *)
(* number q of those at its place.                                         *)
LEMMA EnoughBlocks ==
  ASSUME IsGroup(group), NEW k \in DOMAIN group, NEW ready \in SUBSET Bes, NEW b \in ready,
         NEW q \in Nat, Place(b, ready) + q * Cardinality(ready) < group[k].grid
  PROVE  q + 1 \in DOMAIN BlocksOn(k, b, ready)
<1> DEFINE n == Cardinality(ready)
           p == Place(b, ready)
           M == Mine(k, b, ready)
           f == [j \in 0 .. q |-> p + j * n]
<1>1. /\ IsFiniteSet(M) /\ Cardinality(M) \in Nat
      /\ n \in Nat \ {0} /\ p \in 0 .. n - 1
      /\ DOMAIN BlocksOn(k, b, ready) = 1 .. Cardinality(M)
  BY BlocksOnReady
<1>2. group[k].grid \in Nat
  BY GroupTyped
<1>3. p + q * n < group[k].grid
  OBVIOUS
<1>4. M = {i \in 0 .. group[k].grid - 1 : i % n = p}
  BY DEF Mine
<1> HIDE DEF n, p, M
<1>5. ASSUME NEW j \in 0 .. q PROVE p + j * n \in M
  <2>1. p + j * n \in Nat /\ (p + j * n) % n = p
    BY <1>1, RemainderOf
  <2>2. p + j * n <= p + q * n
    <3>1. PICK d \in Nat : q = j + d
      <4>1. q - j \in Nat /\ q = j + (q - j)
        OBVIOUS
      <4>2. QED
        BY <4>1
    <3>2. q * n = j * n + d * n /\ d * n \in Nat /\ j * n \in Nat
      BY <3>1, <1>1
    <3>3. QED
      BY <3>2, <1>1
  <2>3. q * n \in Nat /\ p \in Nat
    BY <1>1
  <2>4. p + j * n < group[k].grid
    BY <2>1, <2>2, <2>3, <1>2, <1>3
  <2>5. QED
    BY <2>1, <2>4, <1>2, <1>4
<1>6. ASSUME NEW i \in 0 .. q, NEW j \in 0 .. q, p + i * n = p + j * n PROVE i = j
  BY <1>1, <1>6, DivisionIsUnique
<1>7. f \in Injection(0 .. q, M)
  BY <1>5, <1>6 DEF Injection, IsInjective
<1>8. Cardinality(0 .. q) <= Cardinality(M)
  BY <1>1, <1>7, FS_Injection
<1>9. Cardinality(0 .. q) = q + 1
  <2>1. Cardinality(0 .. q) = IF 0 > q THEN 0 ELSE q - 0 + 1
    BY FS_Interval
  <2>2. QED
    BY <2>1
<1>10. QED
  BY <1>1, <1>8, <1>9

LEMMA BlocksOnOnce ==
  ASSUME IsGroup(group), NEW k \in DOMAIN group, NEW ready \in SUBSET Bes, ready # {}
  PROVE  /\ \A block \in 0 .. group[k].grid - 1 : \E b \in ready :
              \E i \in DOMAIN BlocksOn(k, b, ready) :
                BlocksOn(k, b, ready)[i] = Execute(k, block)
         /\ \A b, c \in ready :
              \A i \in DOMAIN BlocksOn(k, b, ready), j \in DOMAIN BlocksOn(k, c, ready) :
                BlocksOn(k, b, ready)[i] = BlocksOn(k, c, ready)[j] => b = c /\ i = j
<1> DEFINE n == Cardinality(ready)
<1>1. \A b \in ready :
        /\ n \in Nat \ {0} /\ Place(b, ready) \in 0 .. n - 1
        /\ Cardinality(Mine(k, b, ready)) \in Nat
        /\ DOMAIN BlocksOn(k, b, ready) = 1 .. Cardinality(Mine(k, b, ready))
        /\ \A i \in 1 .. Cardinality(Mine(k, b, ready)) :
             BlocksOn(k, b, ready)[i] = Execute(k, Place(b, ready) + (i - 1) * n)
  BY BlocksOnReady
<1>2. n \in Nat \ {0} /\ group[k].grid \in Nat
  BY <1>1, GroupTyped
<1>3. ASSUME NEW block \in 0 .. group[k].grid - 1
      PROVE  \E b \in ready : \E i \in DOMAIN BlocksOn(k, b, ready) :
               BlocksOn(k, b, ready)[i] = Execute(k, block)
  <2> DEFINE q == block \div n
  <2>1. q \in Nat /\ block % n \in 0 .. n - 1 /\ block = (block % n) + q * n
    <3>1. block \in Nat
      BY <1>2
    <3> HIDE DEF n
    <3>2. QED
      BY <1>2, <3>1, DivisionIsExact
  <2>2. PICK b \in ready : Place(b, ready) = block % n
    BY <2>1, PlacesAreTaken
  <2> HIDE DEF n, q
  <2>3. q + 1 \in DOMAIN BlocksOn(k, b, ready)
    <3>1. Place(b, ready) + q * n < group[k].grid
      BY <1>2, <2>1, <2>2
    <3>2. QED
      BY <2>1, <3>1, EnoughBlocks DEF n
  <2>4. BlocksOn(k, b, ready)[q + 1] = Execute(k, Place(b, ready) + ((q + 1) - 1) * n)
    BY <1>1, <2>3
  <2>5. (q + 1) - 1 = q
    BY <2>1
  <2>6. BlocksOn(k, b, ready)[q + 1] = Execute(k, block)
    BY <2>1, <2>2, <2>4, <2>5
  <2>7. QED
    BY <2>3, <2>6
<1>4. ASSUME NEW b \in ready, NEW c \in ready,
             NEW i \in DOMAIN BlocksOn(k, b, ready), NEW j \in DOMAIN BlocksOn(k, c, ready),
             BlocksOn(k, b, ready)[i] = BlocksOn(k, c, ready)[j]
      PROVE  b = c /\ i = j
  <2> HIDE DEF n
  <2>1. i - 1 \in Nat /\ j - 1 \in Nat /\ i \in Int /\ j \in Int
    BY <1>1
  <2>2. Execute(k, Place(b, ready) + (i - 1) * n) = Execute(k, Place(c, ready) + (j - 1) * n)
    BY <1>1, <1>4
  <2>3. Place(b, ready) + (i - 1) * n = Place(c, ready) + (j - 1) * n
    BY <2>2 DEF Execute
  <2>4. Place(b, ready) = Place(c, ready) /\ i - 1 = j - 1
    <3>1. Place(b, ready) \in 0 .. n - 1 /\ Place(c, ready) \in 0 .. n - 1
      BY <1>1
    <3>2. QED
      BY <1>2, <2>1, <2>3, <3>1, DivisionIsUnique
  <2>5. b = c
    BY <2>4, PlacesDiffer
  <2>6. i = j
    BY <2>1, <2>4
  <2>7. QED
    BY <2>5, <2>6
<1>5. QED
  BY <1>3, <1>4

(***************************************************************************)
(* Scheduling.                                                             *)
(***************************************************************************)

(* A kernel's blocks stand together behind the step and the wait.          *)
LEMMA AddedBlocks ==
  ASSUME IsGroup(group), NEW k \in DOMAIN group, steps \in [Bes -> Nat],
         NEW ready \in SUBSET Bes, NEW preds \in SUBSET Bes, NEW b \in Bes
  PROVE  \E m \in Nat :
           /\ \A i \in DOMAIN BlocksOn(k, b, ready) :
                /\ m + i \in DOMAIN Added(k, b, ready, preds)
                /\ Added(k, b, ready, preds)[m + i] = BlocksOn(k, b, ready)[i]
           /\ \A i \in DOMAIN Added(k, b, ready, preds) :
                Added(k, b, ready, preds)[i].op = "execute" =>
                  /\ i - m \in DOMAIN BlocksOn(k, b, ready)
                  /\ Added(k, b, ready, preds)[i] = BlocksOn(k, b, ready)[i - m]
<1> DEFINE a == Added(k, b, ready, preds)
           s == NewStep(preds)
           A == IF b \in preds THEN <<StepTo(s)>> ELSE <<>>
           B == IF b \in ready /\ preds # {} THEN <<WaitFor(preds, s)>> ELSE <<>>
           C == BlocksOn(k, b, ready)
<1>1. s \in Nat \ {0}
  BY AddedInstructions DEF IsAdded
<1> HIDE DEF s
<1>2. A \in Seq(Instruction) /\ B \in Seq(Instruction) /\ C \in Seq(Instruction)
  <2>1. StepTo(s) \in Instruction /\ WaitFor(preds, s) \in Instruction
    BY <1>1 DEF StepTo, WaitFor, Instruction
  <2>2. A \in Seq(Instruction) /\ B \in Seq(Instruction)
    BY <2>1
  <2>3. C \in Seq(Instruction)
    BY BlocksOnTyped
  <2>4. QED
    BY <2>2, <2>3
<1>3. /\ \A i \in DOMAIN A : A[i].op # "execute"
      /\ \A i \in DOMAIN B : B[i].op # "execute"
  BY DEF StepTo, WaitFor
<1>4. a = A \o B \o C
  BY DEF Added, s
<1> HIDE DEF a, A, B, C
<1>5. /\ Len(A) + Len(B) \in Nat
      /\ \A i \in DOMAIN C :
           /\ Len(A) + Len(B) + i \in DOMAIN a
           /\ a[Len(A) + Len(B) + i] = C[i]
      /\ \A i \in DOMAIN a :
           \/ i \in DOMAIN A /\ a[i] = A[i]
           \/ i - Len(A) \in DOMAIN B /\ a[i] = B[i - Len(A)]
           \/ /\ i - (Len(A) + Len(B)) \in DOMAIN C
              /\ a[i] = C[i - (Len(A) + Len(B))]
  BY <1>2, <1>4, SMTT(40)
<1>6. \A i \in DOMAIN a : a[i].op = "execute" =>
        /\ i - (Len(A) + Len(B)) \in DOMAIN C
        /\ a[i] = C[i - (Len(A) + Len(B))]
  BY <1>3, <1>5
<1>7. QED
  BY <1>5, <1>6 DEF a, C

LEMMA ScheduleKeepsPlaces ==
  ASSUME TypeOK, BlocksKnown, BlocksPlaced, NEW duration \in Nat, ScheduleKernel(duration)
  PROVE  BlocksPlaced'
<1> DEFINE ready == ReadyBes(Needed(next))
           preds == UNION {bes[d] : d \in group[next].deps}
           k     == next
           p(b)  == program[b]
           a(b)  == Added(k, b, ready, preds)
           q(b)  == program'[b]
           C(b)  == BlocksOn(k, b, ready)
<1>1. /\ k \in DOMAIN group /\ k \in Nat
      /\ ready \in SUBSET Bes /\ ready # {} /\ preds \in SUBSET Bes
  BY ScheduleParts
<1>2. IsGroup(group) /\ steps \in [Bes -> Nat]
  BY DEF TypeOK
<1>3. \A b \in Bes : p(b) \in Seq(Instruction)
  BY DEF TypeOK
<1>4. \A b \in Bes : q(b) = p(b) \o a(b)
  BY DEF ScheduleKernel
<1>5. next' = k + 1 /\ group' = group
  BY DEF ScheduleKernel, fixedVars
<1>6. \A b \in Bes : \A i \in DOMAIN p(b) : p(b)[i].op = "execute" => p(b)[i].kernel < k
  BY DEF BlocksKnown
<1> HIDE DEF ready, preds, k
<1>7. ASSUME NEW b \in Bes
      PROVE  /\ a(b) \in Seq(Instruction)
             /\ \A i \in DOMAIN a(b) : a(b)[i].op = "execute" => a(b)[i].kernel = k /\ b \in ready
  <2>1. IsAdded(a(b), NewStep(preds), k, b, ready, preds)
    BY <1>1, <1>2, AddedInstructions
  <2> HIDE DEF a
  <2>2. QED
    BY <2>1 DEF IsAdded
<1>8. ASSUME NEW b \in Bes
      PROVE  \E m \in Nat :
               /\ \A i \in DOMAIN C(b) : m + i \in DOMAIN a(b) /\ a(b)[m + i] = C(b)[i]
               /\ \A i \in DOMAIN a(b) : a(b)[i].op = "execute" =>
                    i - m \in DOMAIN C(b) /\ a(b)[i] = C(b)[i - m]
  BY <1>1, <1>2, AddedBlocks
<1>9. /\ \A block \in 0 .. group[k].grid - 1 : \E b \in ready :
           \E i \in DOMAIN C(b) : C(b)[i] = Execute(k, block)
      /\ \A b, c \in ready : \A i \in DOMAIN C(b), j \in DOMAIN C(c) :
           C(b)[i] = C(c)[j] => b = c /\ i = j
  BY <1>1, <1>2, BlocksOnOnce
<1> HIDE DEF p, a, q, C
<1>10. ASSUME NEW b \in Bes
       PROVE  /\ \A i \in DOMAIN q(b) :
                   \/ i \in DOMAIN p(b) /\ q(b)[i] = p(b)[i]
                   \/ i - Len(p(b)) \in DOMAIN a(b) /\ q(b)[i] = a(b)[i - Len(p(b))]
              /\ \A i \in DOMAIN p(b) : i \in DOMAIN q(b) /\ q(b)[i] = p(b)[i]
              /\ \A i \in DOMAIN a(b) :
                   Len(p(b)) + i \in DOMAIN q(b) /\ q(b)[Len(p(b)) + i] = a(b)[i]
              /\ \A i \in DOMAIN q(b) : i \in Nat
              /\ Len(p(b)) \in Nat
  <2>1. p(b) \in Seq(Instruction) /\ a(b) \in Seq(Instruction) /\ q(b) = p(b) \o a(b)
    BY <1>3, <1>4, <1>7
  <2>2. QED
    BY <2>1, Appended
(* What was scheduled before stays where it is. *)
<1>11. ASSUME NEW b \in Bes, NEW i \in DOMAIN q(b), NEW l \in 1 .. k - 1, NEW block \in Nat,
              q(b)[i] = Execute(l, block)
       PROVE  i \in DOMAIN p(b) /\ p(b)[i] = Execute(l, block)
  <2>1. Execute(l, block).op = "execute" /\ Execute(l, block).kernel = l /\ l # k
    BY <1>1 DEF Execute
  <2>2. QED
    BY <1>7, <1>10, <1>11, <2>1
(* Blocks of k are in what is appended. *)
<1>12. ASSUME NEW b \in Bes, NEW i \in DOMAIN q(b), NEW block \in Nat,
              q(b)[i] = Execute(k, block)
       PROVE  /\ b \in ready /\ i - Len(p(b)) \in DOMAIN a(b)
              /\ a(b)[i - Len(p(b))] = Execute(k, block)
  <2>1. Execute(k, block).op = "execute" /\ Execute(k, block).kernel = k /\ ~(k < k)
    BY <1>1 DEF Execute
  <2>2. QED
    BY <1>6, <1>7, <1>10, <1>12, <2>1
<1>13. ASSUME NEW l \in 1 .. k, NEW block \in 0 .. group[l].grid - 1
       PROVE  /\ \E b \in Bes : \E i \in DOMAIN q(b) : q(b)[i] = Execute(l, block)
              /\ \A b, c \in Bes : \A i \in DOMAIN q(b), j \in DOMAIN q(c) :
                   q(b)[i] = Execute(l, block) /\ q(c)[j] = Execute(l, block) =>
                     b = c /\ i = j
  <2>1. CASE l \in 1 .. k - 1
    <3>1. /\ \E b \in Bes : \E i \in DOMAIN p(b) : p(b)[i] = Execute(l, block)
          /\ \A b, c \in Bes : \A i \in DOMAIN p(b), j \in DOMAIN p(c) :
               p(b)[i] = Execute(l, block) /\ p(c)[j] = Execute(l, block) => b = c /\ i = j
      BY <2>1 DEF BlocksPlaced, p, k
    <3>2. block \in Nat
      OBVIOUS
    <3>3. QED
      BY <3>1, <3>2, <2>1, <1>10, <1>11
  <2>2. CASE l = k
    <3>1. block \in Nat
      OBVIOUS
    <3>2. \E b \in Bes : \E i \in DOMAIN q(b) : q(b)[i] = Execute(k, block)
      <4>1. PICK b \in ready : \E i \in DOMAIN C(b) : C(b)[i] = Execute(k, block)
        BY <1>9, <2>2
      <4>2. PICK i \in DOMAIN C(b) : C(b)[i] = Execute(k, block)
        BY <4>1
      <4>3. b \in Bes
        BY <1>1
      <4>4. PICK m \in Nat : m + i \in DOMAIN a(b) /\ a(b)[m + i] = C(b)[i]
        BY <1>8, <4>3
      <4>5. QED
        BY <1>10, <4>2, <4>3, <4>4
    <3>3. ASSUME NEW b \in Bes, NEW c \in Bes, NEW i \in DOMAIN q(b), NEW j \in DOMAIN q(c),
                 q(b)[i] = Execute(k, block), q(c)[j] = Execute(k, block)
          PROVE  b = c /\ i = j
      <4>1. /\ b \in ready /\ i - Len(p(b)) \in DOMAIN a(b)
            /\ a(b)[i - Len(p(b))] = Execute(k, block)
        BY <1>12, <3>1, <3>3
      <4>2. /\ c \in ready /\ j - Len(p(c)) \in DOMAIN a(c)
            /\ a(c)[j - Len(p(c))] = Execute(k, block)
        BY <1>12, <3>1, <3>3
      <4>3. Execute(k, block).op = "execute"
        BY DEF Execute
      <4>4. PICK m \in Nat : \A h \in DOMAIN a(b) : a(b)[h].op = "execute" =>
                               h - m \in DOMAIN C(b) /\ a(b)[h] = C(b)[h - m]
        BY <1>8
      <4>5. PICK n \in Nat : \A h \in DOMAIN a(c) : a(c)[h].op = "execute" =>
                               h - n \in DOMAIN C(c) /\ a(c)[h] = C(c)[h - n]
        BY <1>8
      <4>6. /\ i - Len(p(b)) - m \in DOMAIN C(b)
            /\ C(b)[i - Len(p(b)) - m] = Execute(k, block)
        BY <4>1, <4>3, <4>4
      <4>7. /\ j - Len(p(c)) - n \in DOMAIN C(c)
            /\ C(c)[j - Len(p(c)) - n] = Execute(k, block)
        BY <4>2, <4>3, <4>5
      <4>8. b = c
        BY <1>9, <4>1, <4>2, <4>6, <4>7
      <4>9. /\ j - Len(p(b)) - m \in DOMAIN C(b)
            /\ C(b)[j - Len(p(b)) - m] = Execute(k, block)
        BY <4>2, <4>3, <4>4, <4>8
      <4>10. i - Len(p(b)) - m = j - Len(p(b)) - m
        BY <1>9, <4>1, <4>6, <4>9
      <4>11. i \in Nat /\ j \in Nat /\ Len(p(b)) \in Nat
        BY <1>10, <4>8
      <4>12. QED
        BY <4>8, <4>10, <4>11
    <3>4. QED
      BY <2>2, <3>2, <3>3
  <2>3. QED
    BY <1>1, <2>1, <2>2
<1>14. QED
  BY <1>1, <1>5, <1>13 DEF BlocksPlaced, Bes, Execute, q

(***************************************************************************)
(* Each step keeps the placement.                                          *)
(***************************************************************************)

LEMMA InitPlaces ==
  ASSUME Init
  PROVE  PlacementInv
BY DEF Init, PlacementInv, BlocksPlaced, LaunchCovers

LEMMA CompileKeepsPlaces ==
  ASSUME TypeOK, PlacementInv, Compile
  PROVE  PlacementInv'
<1>1. /\ next' = next /\ program' = program /\ group' = group
      /\ next > Len(group) /\ phase = "schedule"
  BY DEF Compile, fixedVars
<1>2. BlocksPlaced'
  BY <1>1 DEF PlacementInv, BlocksPlaced, Bes, Execute
<1>3. LaunchCovers'
  <2>1. next = Len(group) + 1
    <3>1. group \in Seq([grid : Nat \ {0}, deps : SUBSET Nat]) /\ next \in 1 .. Len(group) + 1
      BY DEF TypeOK, IsGroup
    <3>2. Len(group) \in Nat
      BY <3>1
    <3>3. QED
      BY <1>1, <3>1, <3>2
  <2>2. GridDim' = GridDim
    BY <1>1 DEF GridDim, Greatest, Bes
  <2>3. phase' = "run" => grid' = GridDim
    BY DEF Compile
  <2>4. QED
    BY <1>1, <2>1, <2>2, <2>3 DEF LaunchCovers
<1>4. QED
  BY <1>2, <1>3 DEF PlacementInv

(* Nothing else touches the lists or the emitted function. *)
LEMMA OthersKeepPlaces ==
  ASSUME PlacementInv, Move \/ Relaunch \/ UNCHANGED vars
  PROVE  PlacementInv'
<1>1. UNCHANGED <<fixedVars, phase, deviceVars, codeVars>>
  BY DEF Move, Begin, Pass, Relaunch, vars
<1>2. /\ next' = next /\ program' = program /\ group' = group
      /\ phase' = phase /\ grid' = grid
  BY <1>1 DEF fixedVars, deviceVars, codeVars
<1>3. BlocksPlaced'
  BY <1>2 DEF PlacementInv, BlocksPlaced, Bes, Execute
<1>4. GridDim' = GridDim
  BY <1>2 DEF GridDim, Greatest, Bes
<1>5. LaunchCovers'
  BY <1>2, <1>4 DEF PlacementInv, LaunchCovers
<1>6. QED
  BY <1>3, <1>5 DEF PlacementInv

LEMMA ScheduleKeepsPlacement ==
  ASSUME IInv, PlacementInv, Schedule
  PROVE  PlacementInv'
<1>1. PICK duration \in Nat : ScheduleKernel(duration)
  BY DeviceAssumption DEF Schedule, DefaultDuration
<1>2. BlocksPlaced'
  BY <1>1, ScheduleKeepsPlaces DEF IInv, ProgramInv, PlacementInv
<1>3. LaunchCovers'
  BY <1>1 DEF ScheduleKernel, LaunchCovers
<1>4. QED
  BY <1>2, <1>3 DEF PlacementInv

(* The blocks are placed and the launch covers them, in every state.       *)
THEOREM PlacementInvariant == Spec => []PlacementInv
<1>1. Init => PlacementInv
  BY InitPlaces
<1>2. IInv /\ PlacementInv /\ [Next]_vars => PlacementInv'
  <2>1. SUFFICES ASSUME IInv, PlacementInv, [Next]_vars PROVE PlacementInv'
    OBVIOUS
  <2>2. CASE Schedule
    BY <2>1, <2>2, ScheduleKeepsPlacement
  <2>3. CASE Compile
    BY <2>1, <2>3, CompileKeepsPlaces DEF IInv
  <2>4. CASE Move \/ Relaunch \/ UNCHANGED vars
    BY <2>1, <2>4, OthersKeepPlaces
  <2>5. QED
    BY <2>1, <2>2, <2>3, <2>4 DEF Next
<1>3. QED
  BY <1>1, <1>2, FusionInvariant, PTL DEF Spec

(***************************************************************************)
(* The launch has each block once.                                         *)
(***************************************************************************)

(* Every executor with instructions is launched. *)
LEMMA GridHasThem ==
  ASSUME TypeOK, NEW b \in Bes, program[b] # <<>>
  PROVE  b \in 0 .. GridDim - 1
<1> DEFINE S == {0} \cup {c + 1 : c \in {d \in Bes : program[d] # <<>>}}
<1>1. S \in SUBSET Nat /\ S # {} /\ \A x \in S : x <= NumBes
  BY DeviceAssumption DEF Bes
<1>2. Greatest(S) \in S /\ \A x \in S : x <= Greatest(S)
  BY <1>1, GreatestIsGreatest, DeviceAssumption
<1>3. b + 1 \in S /\ b \in Nat
  BY DEF Bes
<1>4. GridDim = Greatest(S)
  BY DEF GridDim
<1> HIDE DEF S
<1>5. Greatest(S) \in Nat /\ b + 1 <= Greatest(S)
  BY <1>1, <1>2, <1>3
<1>6. QED
  BY <1>3, <1>4, <1>5

LEMMA PlacedBlocksAreOnce ==
  ASSUME IInv, PlacementInv
  PROVE  EveryBlockOnce
<1>1. SUFFICES ASSUME phase = "run", NEW k \in DOMAIN group,
                      NEW block \in 0 .. group[k].grid - 1
               PROVE  Cardinality(Places(k, block)) = 1
  BY DEF EveryBlockOnce
<1>2. TypeOK /\ IsGroup(group)
  BY DEF IInv, TypeOK
<1>3. k \in 1 .. next - 1 /\ grid = GridDim /\ GridDim \in 0 .. NumBes
  <2>1. k \in 1 .. Len(group) /\ Len(group) \in Nat
    BY <1>2, GroupTyped
  <2>2. next = Len(group) + 1 /\ grid = GridDim
    BY <1>1 DEF PlacementInv, LaunchCovers
  <2>3. QED
    BY <1>2, <2>1, <2>2, GridDimTyped
<1>4. /\ \E b \in Bes : \E i \in DOMAIN program[b] : program[b][i] = Execute(k, block)
      /\ \A b, c \in Bes : \A i \in DOMAIN program[b], j \in DOMAIN program[c] :
           program[b][i] = Execute(k, block) /\ program[c][j] = Execute(k, block) =>
             b = c /\ i = j
  BY <1>3 DEF PlacementInv, BlocksPlaced
<1>5. PICK b \in Bes : \E i \in DOMAIN program[b] : program[b][i] = Execute(k, block)
  BY <1>4
<1>6. PICK i \in DOMAIN program[b] : program[b][i] = Execute(k, block)
  BY <1>5
<1>7. \A c \in Bes : /\ DOMAIN emitted[c] = DOMAIN program[c]
                     /\ \A j \in DOMAIN emitted[c] : emitted[c][j].ins = program[c][j]
  BY <1>1, EmittedDomains, EmittedBranches
<1>8. b \in Grid
  <2>1. program[b] # <<>>
    BY <1>6
  <2>2. QED
    BY <1>2, <1>3, <2>1, GridHasThem DEF Grid
<1>9. Grid \in SUBSET Bes
  BY <1>3, DeviceAssumption DEF Grid, Bes
<1>10. <<b, i>> \in Places(k, block)
  BY <1>6, <1>7, <1>8 DEF Places
<1>11. ASSUME NEW x \in Places(k, block) PROVE x = <<b, i>>
  <2>1. PICK c \in Grid : x \in {<<c, j>> : j \in {h \in DOMAIN emitted[c] :
                                                     emitted[c][h].ins = Execute(k, block)}}
    BY <1>11 DEF Places
  <2>2. PICK j \in DOMAIN emitted[c] : x = <<c, j>> /\ emitted[c][j].ins = Execute(k, block)
    BY <2>1
  <2>3. c \in Bes /\ j \in DOMAIN program[c] /\ program[c][j] = Execute(k, block)
    BY <1>7, <1>9, <2>2
  <2>4. c = b /\ j = i
    BY <1>4, <1>6, <2>3
  <2>5. QED
    BY <2>2, <2>4
<1>12. Places(k, block) = {<<b, i>>}
  BY <1>10, <1>11
<1>13. QED
  BY <1>12, FS_Singleton

(* A launch of the fused kernel executes every block of every kernel of    *)
(* the group exactly once: schedule_kernel_sync gives away each block of a *)
(* kernel, also of one with more blocks than executors, ranges of          *)
(* executors keep them apart, and compute_launch_config launches enough.   *)
THEOREM BlocksAreExecutedOnce == Spec => []EveryBlockOnce
<1>1. IInv /\ PlacementInv => EveryBlockOnce
  BY PlacedBlocksAreOnce
<1>2. QED
  BY <1>1, FusionInvariant, PlacementInvariant, PTL
=============================================================================
