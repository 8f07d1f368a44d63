----------------------------- MODULE MemoryPool -----------------------------
(***************************************************************************)
(* What a memory pool promises to the layout pass, without its node list   *)
(* and reference counts: a tensor either gets a block of its own, disjoint *)
(* from every block in use, or shares the block of a tensor that is in     *)
(* use, and a block stays reserved until the last tensor that uses it is   *)
(* dropped.                                                                *)
(***************************************************************************)
EXTENDS Integers

CONSTANTS Tensors

VARIABLES
  base,   (* for each tensor in use, the tensor whose block it uses *)
  block   (* for each base in use, its block [lo, hi)               *)

poolVars == <<base, block>>

Bases(users) == {users[t] : t \in DOMAIN users}

Disjoint(a, b) == a.hi <= b.lo \/ b.hi <= a.lo

Init ==
  /\ base  = [t \in {} |-> t]
  /\ block = [t \in {} |-> [lo |-> 0, hi |-> 0]]

(* A new block is clear of all the blocks in use, and moves none of them. *)
Reserve(t) ==
  /\ t \notin DOMAIN base
  /\ base' = [x \in DOMAIN base \cup {t} |-> IF x = t THEN t ELSE base[x]]
  /\ DOMAIN block' = DOMAIN block \cup {t}
  /\ block'[t].lo < block'[t].hi
  /\ \A b \in DOMAIN block :
       block'[b] = block[b] /\ Disjoint(block'[t], block[b])

Share(t, b) ==
  /\ t \notin DOMAIN base
  /\ b \in DOMAIN block
  /\ base' = [x \in DOMAIN base \cup {t} |-> IF x = t THEN b ELSE base[x]]
  /\ UNCHANGED block

(* The last user of a block gives it back. *)
Drop(t) ==
  /\ t \in DOMAIN base
  /\ base'  = [x \in DOMAIN base \ {t} |-> base[x]]
  /\ block' = [b \in Bases(base') |-> block[b]]

Next ==
  \E t \in Tensors :
    \/ Reserve(t)
    \/ \E b \in Tensors : Share(t, b)
    \/ Drop(t)

Spec == Init /\ [][Next]_poolVars
=============================================================================
