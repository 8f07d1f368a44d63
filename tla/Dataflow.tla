------------------------------ MODULE Dataflow ------------------------------
(***************************************************************************)
(* What the calls of kernel_entry promise, without threads, barriers and   *)
(* streams: in each iteration every operator runs once, after all those    *)
(* it depends on, and no iteration starts before the last one is over.     *)
(***************************************************************************)
VARIABLES
  needs,    (* for each operator, those that have to be done before it *)
  running,  (* the operators at work                                   *)
  done      (* those that are done in this iteration                   *)

dataVars == <<needs, running, done>>

Init == running = {} /\ done = {}

Begin(n) ==
  /\ n \notin running \cup done
  /\ needs[n] \subseteq done
  /\ running' = running \cup {n}
  /\ UNCHANGED <<needs, done>>

End(n) ==
  /\ n \in running
  /\ running' = running \ {n}
  /\ done' = done \cup {n}
  /\ UNCHANGED needs

NextIteration ==
  /\ done = DOMAIN needs
  /\ done' = {}
  /\ UNCHANGED <<needs, running>>

Next ==
  \/ \E n \in DOMAIN needs : Begin(n) \/ End(n)
  \/ NextIteration

Spec == Init /\ [][Next]_dataVars
=============================================================================
