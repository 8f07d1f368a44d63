---------------------------- MODULE MCTensorPlan ----------------------------
(***************************************************************************)
(* Instances of TensorPlan for TLC.  The programs a run enumerates are all *)
(* those of its length, operators and streams that satisfy a predicate; a  *)
(* predicate that is more than OneSource leaves out the programs another   *)
(* run shows the plan to be wrong for.                                     *)
(***************************************************************************)
EXTENDS TensorPlan

OneStream  == {0}
TwoStreams == {0, 1}

AliasOps  == {"Parameter", "Kernel", "Elementwise", "Reshape", "Result"}
ConcatOps == {"Parameter", "Kernel", "Elementwise", "Concat", "Result"}
RaceOps   == {"Parameter", "Kernel", "Scratch", "Concat", "Result"}
SumOps    == {"Parameter", "Kernel", "Elementwise", "Reshape", "AllReduce", "Result"}
UpdateOps == {"Parameter", "Constant", "Kernel", "Elementwise", "Reshape", "Update", "Result"}
StreamOps == {"Constant", "Scratch", "Elementwise", "Reshape", "Concat", "Result"}

ReadersIn(p, t) == {i \in DOMAIN p : \E k \in DOMAIN p[i].in : p[i].in[k] = t}

(* An instruction reads two tensors at most and outputs one, so each of    *)
(* those that are left takes one tensor off the number of those that       *)
(* nothing reads: a prefix with more of them is the prefix of no program   *)
(* of `most` instructions.                                                 *)
Completable(p, most) ==
  LET read   == UNION {{p[i].in[k] : k \in DOMAIN p[i].in} : i \in DOMAIN p}
      unread == {i \in DOMAIN p : p[i].op # "Result"} \ read
  IN  /\ Len(p) <= most
      /\ Len(p) = most => p[most].op = "Result"
      /\ Cardinality(unread) <= most - Len(p)

(* Only the first instruction has no operand. *)
OneSourceIn(p, most) ==
  /\ Completable(p, most)
  /\ \A i \in DOMAIN p : p[i].in = <<>> <=> i = 1

OneSource(p) == OneSourceIn(p, Length)

Handed(p, t)    == \E j \in ReadersIn(p, t) : p[j].op = "Result"

(* An Elementwise never reads a tensor that others may lie in (else the    *)
(* finding of MCDestroyedResult).                                          *)
OwnsOperand(p) ==
  \A i \in DOMAIN p : p[i].op = "Elementwise" =>
    LET t == p[i].in[1]
    IN  /\ \A j \in ReadersIn(p, t) : p[j].op # "Reshape"
        /\ p[t].op = "Concat" =>
             \A k \in DOMAIN p[t].in :
               ReadersIn(p, p[t].in[k]) = {t} /\ p[p[t].in[k]].op # "Reshape"

(* The operands of a Concat have blocks of their own and it is the only    *)
(* Concat that reads them: the in-place analysis is sure to take it.       *)
SureToFold(p, i) ==
  /\ p[i].in[1] # p[i].in[2]
  /\ \A k \in DOMAIN p[i].in :
       LET t == p[i].in[k]
       IN  /\ p[t].op \in {"Kernel", "Scratch", "Elementwise"}
           /\ \A j \in ReadersIn(p, t) : p[j].op = "Concat" => j = i

(* The operands of a Concat are on its stream (else the finding of         *)
(* MCCrossThreadConcat), and either every Concat is sure to fold or none   *)
(* is persistent and their operands lie in the pool of their own stream    *)
(* (else the finding of MCUnwrittenConcat).                                *)
InOwnPool(p, i, t) ==
  /\ p[t].op # "Constant" /\ ~Handed(p, t)
  /\ p[t].op = "Reshape" =>
       LET u == p[t].in[1]
       IN  p[u].op \notin {"Constant", "Reshape"} /\ p[u].stream = p[i].stream

OperandsFold(p) ==
  LET concats == {i \in DOMAIN p : p[i].op = "Concat"}
  IN  /\ \A i \in concats, k \in {1, 2} : p[p[i].in[k]].stream = p[i].stream
      /\ \/ \A i \in concats : SureToFold(p, i)
         \/ \A i \in concats :
              ~Handed(p, i) /\ \A k \in {1, 2} : InOwnPool(p, i, p[i].in[k])

(* An AllReduce reads a gradient after all others, and nobody holds on to  *)
(* its bytes: it has a block and no alias, and is not handed out.          *)
SummedLast(p) ==
  \A i \in DOMAIN p : p[i].op = "AllReduce" =>
    LET t == p[i].in[1]
    IN  /\ p[t].op \in {"Kernel", "Elementwise"}
        /\ \A j \in ReadersIn(p, t) : j <= i /\ p[j].op \notin {"Reshape", "Result"}

(* An Update reads a weight or an intermediate result after all others, as *)
(* control edges make it, and nobody holds on to the old bytes.  What lies *)
(* in a Parameter is read by kernels or handed out: an alias of it has no  *)
(* address.                                                                *)
UpdatedLast(p) ==
  \A i \in DOMAIN p : p[i].op = "Update" =>
    LET t == p[i].in[1]
    IN  /\ p[t].op # "Reshape"
        /\ \A j \in ReadersIn(p, t) :
             j <= i /\ (j = i \/ p[j].op \in {"Kernel", "Elementwise", "Update"})
        /\ p[1].op = "Parameter" => \A j \in ReadersIn(p, i) : p[j].op # "Reshape"

(* Only a Concat and an Update have two operands. *)
Unary(p) == \A i \in DOMAIN p : Len(p[i].in) = 2 => p[i].op \in {"Concat", "Update"}

(* On one stream programs of Length instructions whose kernels have one    *)
(* operand; programs that are one instruction shorter with in-place        *)
(* operators and any kernels, or on two streams.                           *)
(*                                                                         *)
(* Of two streams the first kernel is on 0, and so are the Results, which  *)
(* write nothing, and hand out what is never freed, wherever they run.     *)
OpsIn(p, ops) == \A i \in DOMAIN p : p[i].op \in ops
OnOneStream(p) == \A i \in DOMAIN p : p[i].stream = 0
NamedApart(p) == \A i \in DOMAIN p : p[i].op = "Result" \/ i = 2 => p[i].stream = 0

Most(p) ==
  IF Unary(p) /\ (OpsIn(p, AliasOps) \/ OpsIn(p, ConcatOps \ {"Elementwise"}))
  THEN Length ELSE Length - 1

PlannedWell(p) ==
  /\ OneSourceIn(p, Most(p))
  /\ \/ OnOneStream(p) /\ OpsIn(p, AliasOps)
     \/ OnOneStream(p) /\ OpsIn(p, ConcatOps) /\ Unary(p)
     \/ OnOneStream(p) /\ OpsIn(p, SumOps) /\ Unary(p) /\ SummedLast(p)
     \/ OnOneStream(p) /\ OpsIn(p, UpdateOps) /\ Unary(p) /\ UpdatedLast(p)
     \/ OpsIn(p, StreamOps) /\ Unary(p) /\ NamedApart(p)
  /\ OwnsOperand(p) /\ OperandsFold(p)

AllOps == AliasOps \cup ConcatOps \cup SumOps \cup UpdateOps \cup StreamOps

(* The programs of a CPU share memory, those of CUDA do not.               *)
Shared(p) == {TRUE}

SharedOrNot(p) ==
  IF OpsIn(p, StreamOps) \/ Len(p) = Length THEN {TRUE} ELSE {TRUE, FALSE}

(* Chains of kernels on any streams, and at the end one Concat of two of   *)
(* them that is sure to fold, a kernel that reads it, and a Result.        *)
OneConcat(p) ==
  /\ OneSource(p)
  /\ \A i \in DOMAIN p :
       CASE i < Length - 2 -> p[i].op # "Result" /\ Len(p[i].in) <= 1
         [] i = Length - 2 -> p[i].op = "Concat" /\ SureToFold(p, i)
         [] i = Length - 1 -> p[i].op = "Kernel" /\ p[i].in = <<i - 1>>
         [] i = Length -> p[i].op = "Result"
=============================================================================
