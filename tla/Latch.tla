------------------------------- MODULE Latch -------------------------------
(***************************************************************************)
(* What a Barrier promises its users: "an object that allows one or more   *)
(* threads to wait until Notify has been called a specified number of      *)
(* times" (core/kernels/cpu/barrier.cpp).  Every notifier calls once in a  *)
(* round, every waiter returns once, and none before the last call.        *)
(***************************************************************************)
CONSTANTS Notifiers, Waiters

VARIABLES
  expected,  (* the notifiers that have not called in this round *)
  released   (* the waiters that have returned in this round     *)

vars == <<expected, released>>

Init == expected = Notifiers /\ released = {}

Call(n) ==
  /\ n \in expected
  /\ expected' = expected \ {n}
  /\ UNCHANGED released

Return(w) ==
  /\ expected = {} /\ w \notin released
  /\ released' = released \cup {w}
  /\ UNCHANGED expected

NextRound ==
  /\ expected = {} /\ released = Waiters
  /\ expected' = Notifiers /\ released' = {}

Next ==
  \/ \E n \in Notifiers : Call(n)
  \/ \E w \in Waiters : Return(w)
  \/ NextRound

Spec == Init /\ [][Next]_vars
=============================================================================
