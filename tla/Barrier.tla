------------------------------ MODULE Barrier ------------------------------
(***************************************************************************)
(* The Barrier of generated CPU code (core/kernels/cpu/barrier.cpp): a     *)
(* counter whose low bit says that somebody waits, and a mutex, condition  *)
(* variable and flag that are only used when somebody does.  A Notification*)
(* is a Barrier with one notifier.                                         *)
(*                                                                         *)
(* The steps are the atomic operations: each access to the counter, and    *)
(* what happens between taking the mutex and letting go of it.             *)
(*                                                                         *)
(* The client is kernel_entry: in each iteration every notifier calls      *)
(* Notify once and every waiter calls Wait once, in any order; Reset comes *)
(* before the next iteration, when every Wait has returned.  It does not   *)
(* wait for the notifiers to leave Notify.                                 *)
(***************************************************************************)
EXTENDS Integers, FiniteSets

CONSTANTS
  Notifiers,  (* the threads that call Notify, count_ of them *)
  Waiters,    (* the calls of Wait, on threads of their own   *)
  Free        (* the mutex has no owner                       *)

ASSUME BarrierAssumption ==
  /\ IsFiniteSet(Notifiers) /\ Notifiers # {}
  /\ IsFiniteSet(Waiters) /\ Waiters # {}
  /\ Notifiers \cap Waiters = {}
  /\ Free \notin Notifiers \cup Waiters

Threads == Notifiers \cup Waiters
Count   == Cardinality(Notifiers)

VARIABLES
  state,     (* state_: twice the calls that are missing, plus the flag     *)
  notified,  (* notified_                                                   *)
  mu,        (* the owner of mu_                                            *)
  pc,        (* where each thread is                                        *)
  asserted   (* FALSE once an assert has failed                             *)

vars == <<state, notified, mu, pc, asserted>>

Init ==
  /\ state = 2 * Count
  /\ notified = FALSE
  /\ mu = Free
  /\ pc = [t \in Threads |-> "call"]
  /\ asserted = TRUE

Goto(t, where) == pc' = [pc EXCEPT ![t] = where]

(* What is left of an unsigned shift by one. *)
Missing == state \div 2
Waiting == (state % 2) = 1

-----------------------------------------------------------------------------
(* Mutant: whoever finds the flag set wakes the waiters. *)
FetchSubWakes(n) ==
  /\ pc[n] = "call"
  /\ state' = state - 2
  /\ Goto(n, IF Waiting THEN "wake" ELSE "out")
  /\ UNCHANGED <<notified, mu, asserted>>

(* Notify: fetch_sub(2).  Only the call that takes the counter to nothing  *)
(* but the flag has somebody to wake.                                      *)
FetchSub(n) ==
  /\ pc[n] = "call"
  /\ state' = state - 2
  /\ IF state - 2 = 1
     THEN Goto(n, "wake") /\ UNCHANGED asserted
     ELSE Goto(n, "out") /\ asserted' = (asserted /\ Missing # 0)
  /\ UNCHANGED <<notified, mu>>

NotifyLock(n) ==
  /\ pc[n] = "wake" /\ mu = Free
  /\ mu' = n /\ Goto(n, "locked")
  /\ UNCHANGED <<state, notified, asserted>>

(* notify_all puts every sleeper on its way back to the mutex. *)
NotifyAll(n) ==
  /\ pc[n] = "locked"
  /\ asserted' = (asserted /\ ~notified)
  /\ notified' = TRUE
  /\ pc' = [t \in Threads |->
              IF t = n THEN "out" ELSE IF pc[t] = "asleep" THEN "lock" ELSE pc[t]]
  /\ mu' = Free
  /\ UNCHANGED state

(* Mutant: the flag is read, not set. *)
FetchNoFlag(w) ==
  /\ pc[w] = "call"
  /\ Goto(w, IF Missing = 0 THEN "out" ELSE "lock")
  /\ UNCHANGED <<state, notified, mu, asserted>>

(* Mutant: one call too few is enough. *)
FetchOneShort(w) ==
  /\ pc[w] = "call"
  /\ state' = IF Waiting THEN state ELSE state + 1
  /\ Goto(w, IF Missing <= 1 THEN "out" ELSE "lock")
  /\ UNCHANGED <<notified, mu, asserted>>

(* Wait: fetch_or(1). *)
FetchOr(w) ==
  /\ pc[w] = "call"
  /\ state' = IF Waiting THEN state ELSE state + 1
  /\ Goto(w, IF Missing = 0 THEN "out" ELSE "lock")
  /\ UNCHANGED <<notified, mu, asserted>>

WaitLock(w) ==
  /\ pc[w] = "lock" /\ mu = Free
  /\ mu' = w /\ Goto(w, "locked")
  /\ UNCHANGED <<state, notified, asserted>>

(* The test of the loop; cv_.wait gives the mutex back and sleeps. *)
WaitTest(w) ==
  /\ pc[w] = "locked"
  /\ Goto(w, IF notified THEN "out" ELSE "asleep")
  /\ mu' = Free
  /\ UNCHANGED <<state, notified, asserted>>

(* A condition variable may wake a thread for no reason. *)
SpuriousWakeup(w) ==
  /\ pc[w] = "asleep"
  /\ Goto(w, "lock")
  /\ UNCHANGED <<state, notified, mu, asserted>>

Returned(ts) == \A t \in ts : pc[t] = "out"

(* Mutant: the counter is not set up again. *)
ResetFlagOnly ==
  /\ Returned(Waiters)
  /\ notified' = FALSE
  /\ pc' = [t \in Threads |-> IF pc[t] = "out" THEN "call" ELSE pc[t]]
  /\ UNCHANGED <<state, mu, asserted>>

(* Mutant: notified_ stays. *)
ResetCounterOnly ==
  /\ Returned(Waiters)
  /\ state' = 2 * Count
  /\ pc' = [t \in Threads |-> IF pc[t] = "out" THEN "call" ELSE pc[t]]
  /\ UNCHANGED <<notified, mu, asserted>>

(* Reset, and the calls of the next iteration. *)
Reset ==
  /\ Returned(Waiters)
  /\ state' = 2 * Count
  /\ notified' = FALSE
  /\ pc' = [t \in Threads |-> IF pc[t] = "out" THEN "call" ELSE pc[t]]
  /\ UNCHANGED <<mu, asserted>>

Next ==
  \/ \E n \in Notifiers : FetchSub(n) \/ NotifyLock(n) \/ NotifyAll(n)
  \/ \E w \in Waiters :
       FetchOr(w) \/ WaitLock(w) \/ WaitTest(w) \/ SpuriousWakeup(w)
  \/ Reset

Spec == Init /\ [][Next]_vars

(***************************************************************************)
(* Fairness: a thread that can go on does (the threads of the pool are     *)
(* preempted, not stopped), and a thread that keeps finding the mutex free *)
(* gets it in the end.  Nothing wakes a sleeper but notify_all.            *)
(***************************************************************************)
Fairness ==
  /\ \A n \in Notifiers :
       WF_vars(FetchSub(n)) /\ SF_vars(NotifyLock(n)) /\ WF_vars(NotifyAll(n))
  /\ \A w \in Waiters :
       WF_vars(FetchOr(w)) /\ SF_vars(WaitLock(w)) /\ WF_vars(WaitTest(w))

FairSpec == Spec /\ Fairness

-----------------------------------------------------------------------------
TypeOK ==
  /\ state \in Nat
  /\ notified \in BOOLEAN /\ asserted \in BOOLEAN
  /\ mu \in Threads \cup {Free}
  /\ pc \in [Threads -> {"call", "wake", "lock", "locked", "asleep", "out"}]

(* No assert of Notify fails: no call too many, and one wake-up a round.   *)
AssertsHold == asserted

(* No Wait returns before the last Notify has been called.                 *)
NoEarlyReturn ==
  (\E w \in Waiters : pc[w] = "out") => \A n \in Notifiers : pc[n] # "call"

(* When every Wait has returned, no Notify is still at work: the Reset     *)
(* that follows cannot meet a late write of notified_, and the destructor  *)
(* finds the counter at zero.                                              *)
ResetIsSafe ==
  Returned(Waiters) => Returned(Notifiers) /\ mu = Free /\ Missing = 0

(* No wake-up is lost: each Wait returns in every iteration, however the   *)
(* steps of Notify and Wait fall and whatever thread comes last.           *)
EveryWaitReturns == \A w \in Waiters : []<>(pc[w] = "out")

(* The barrier implements the latch. *)
Abstract == INSTANCE Latch WITH
  expected <- {n \in Notifiers : pc[n] = "call"},
  released <- {w \in Waiters : pc[w] = "out"}

ImplementsLatch == Abstract!Spec

-----------------------------------------------------------------------------
(***************************************************************************)
(* Why: the counter counts the calls that are missing, the flag is set by  *)
(* the first waiter, and whoever has to sleep or to wake has seen it.      *)
(***************************************************************************)
Callers == {n \in Notifiers : pc[n] = "call"}
Wakers  == {n \in Notifiers : pc[n] \in {"wake", "locked"}}
Inside  == {w \in Waiters : pc[w] \in {"lock", "locked", "asleep"}}

CounterCounts ==
  state = 2 * Cardinality(Callers)
          + (IF \A w \in Waiters : pc[w] = "call" THEN 0 ELSE 1)

MutexOwned == \A t \in Threads : pc[t] = "locked" <=> mu = t

OneWaker == \A m, n \in Wakers : m = n

PlacesFit ==
  /\ \A n \in Notifiers : pc[n] \notin {"lock", "asleep"}
  /\ \A w \in Waiters : pc[w] # "wake"

(* A waker is there only when all have called, before it has woken anyone. *)
WakeInOrder ==
  /\ Wakers # {} => Callers = {} /\ ~notified /\ Inside # {}
  /\ notified => Callers = {}
  /\ (\E w \in Waiters : pc[w] = "out") => Callers = {}
  /\ Inside # {} => Callers # {} \/ Wakers # {} \/ notified
  /\ (\E w \in Waiters : pc[w] = "asleep") => Callers # {} \/ Wakers # {}
=============================================================================
