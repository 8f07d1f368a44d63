---------------------------- MODULE BarrierProofs ----------------------------
(***************************************************************************)
(* The safety of Barrier for any number of notifiers and waiters.          *)
(***************************************************************************)
EXTENDS Barrier, FiniteSetTheorems, TLAPS

IInv ==
  /\ TypeOK /\ AssertsHold
  /\ CounterCounts /\ MutexOwned /\ OneWaker /\ PlacesFit /\ WakeInOrder

(* What the shift and the mask of the code read off the counter. *)
LEMMA Halves ==
  ASSUME NEW s, NEW c \in Nat, NEW b \in {0, 1}, s = 2 * c + b
  PROVE  s \div 2 = c /\ s % 2 = b
  OBVIOUS

(* The callers are finitely many, and one fewer when one of them has called. *)
LEMMA CallersCounted ==
  /\ IsFiniteSet(Callers) /\ Cardinality(Callers) \in Nat
  /\ Cardinality(Callers) = 0 <=> Callers = {}
  /\ \A n \in Callers : Cardinality(Callers \ {n}) = Cardinality(Callers) - 1
<1>1. IsFiniteSet(Callers)
  BY BarrierAssumption, FS_Subset DEF Callers
<1>2. Cardinality(Callers) \in Nat /\ (Cardinality(Callers) = 0 <=> Callers = {})
  BY <1>1, FS_CardinalityType, FS_EmptySet
<1>3. \A n \in Callers : Cardinality(Callers \ {n}) = Cardinality(Callers) - 1
  BY <1>1, FS_RemoveElement
<1> QED BY <1>1, <1>2, <1>3

(* What the counter says in a state of the invariant. *)
LEMMA CounterSays ==
  ASSUME CounterCounts
  PROVE  /\ Missing = 0 <=> Callers = {}
         /\ Waiting <=> \E w \in Waiters : pc[w] # "call"
         /\ state = 3 => Cardinality(Callers) = 1 /\ Waiting
<1> DEFINE c == Cardinality(Callers)
           b == IF \A w \in Waiters : pc[w] = "call" THEN 0 ELSE 1
<1>1. c \in Nat /\ (c = 0 <=> Callers = {})
  BY CallersCounted
<1>2. b \in {0, 1} /\ state = 2 * c + b
  BY DEF CounterCounts
<1>3. (b = 1) <=> \E w \in Waiters : pc[w] # "call"
  OBVIOUS
<1> HIDE DEF c, b
<1>4. state \div 2 = c /\ state % 2 = b
  BY <1>1, <1>2, Halves
<1>5. state = 3 => c = 1 /\ b = 1
  BY <1>1, <1>2
<1> QED BY <1>1, <1>3, <1>4, <1>5 DEF Missing, Waiting, c

LEMMA InitIInv == Init => IInv
<1> SUFFICES ASSUME Init PROVE IInv
  OBVIOUS
<1> USE BarrierAssumption DEF Init
<1>1. Callers = Notifiers
  BY DEF Callers, Threads
<1>2. CounterCounts
  BY <1>1 DEF CounterCounts, Count, Threads
<1>3. TypeOK
  <2>1. Cardinality(Notifiers) \in Nat
    BY FS_CardinalityType
  <2>2. state \in Nat
    BY <2>1 DEF Count
  <2> QED BY <2>2 DEF TypeOK
<1>4. AssertsHold /\ MutexOwned /\ OneWaker /\ PlacesFit /\ WakeInOrder
  BY DEF AssertsHold, MutexOwned, OneWaker, PlacesFit, WakeInOrder, Wakers,
         Inside, Callers, Threads
<1> QED BY <1>2, <1>3, <1>4 DEF IInv

(* When every Wait has returned, nobody is left inside. *)
LEMMA AllOut ==
  ASSUME IInv, Returned(Waiters)
  PROVE  ResetIsSafe /\ \A t \in Threads : pc[t] = "out"
<1>1. Callers = {} /\ Inside = {}
  BY BarrierAssumption DEF IInv, WakeInOrder, Returned, Inside
<1>2. Wakers = {}
  BY <1>1 DEF IInv, WakeInOrder
<1>3. \A n \in Notifiers : pc[n] = "out"
  BY <1>1, <1>2 DEF IInv, TypeOK, PlacesFit, Callers, Wakers, Threads
<1>4. \A t \in Threads : pc[t] = "out"
  BY <1>3 DEF Returned, Threads
<1>5. mu = Free
  BY <1>4 DEF IInv, TypeOK, MutexOwned
<1>6. Missing = 0
  BY <1>1, CounterSays DEF IInv
<1> QED BY <1>3, <1>4, <1>5, <1>6 DEF ResetIsSafe, Returned

LEMMA NextIInv == IInv /\ [Next]_vars => IInv'
<1> SUFFICES ASSUME IInv, [Next]_vars PROVE IInv'
  OBVIOUS
<1> USE BarrierAssumption
<1>1. ASSUME NEW n \in Notifiers, FetchSub(n) PROVE IInv'
  <2> DEFINE c == Cardinality(Callers)
  <2>1. n \in Callers /\ Callers' = Callers \ {n}
    BY <1>1 DEF FetchSub, Goto, Callers, IInv, TypeOK, Threads
  <2>2. /\ c \in Nat /\ c # 0 /\ Cardinality(Callers') = c - 1
        /\ Callers' = {} <=> c = 1
    <3>1. Cardinality(Callers \ {n}) = c - 1 /\ c \in Nat /\ (c = 0 <=> Callers = {})
      BY <2>1, CallersCounted
    <3>2. IsFiniteSet(Callers \ {n})
      BY CallersCounted, FS_Subset
    <3>3. Cardinality(Callers \ {n}) = 0 <=> Callers \ {n} = {}
      BY <3>2, FS_EmptySet
    <3> QED BY <2>1, <3>1, <3>3
  <2>3. \A w \in Waiters : pc'[w] = pc[w]
    BY <1>1 DEF FetchSub, Goto, IInv, TypeOK, Threads
  <2>4. CounterCounts' /\ state' \in Nat
    BY <1>1, <2>2, <2>3 DEF FetchSub, CounterCounts, IInv, TypeOK
  <2>5. Wakers = {} /\ ~notified /\ \A w \in Waiters : pc[w] # "out"
    BY <2>1 DEF IInv, WakeInOrder
  <2>6. Inside' = Inside
    BY <2>3 DEF Inside
  <2>7. Missing # 0
    BY <2>1, CounterSays DEF IInv
  <2>8. TypeOK' /\ AssertsHold' /\ MutexOwned' /\ PlacesFit'
    BY <1>1, <2>4, <2>7 DEF FetchSub, Goto, IInv, TypeOK, AssertsHold, MutexOwned,
                            PlacesFit, Threads
  <2>9. CASE state - 2 = 1
    <3>1. Wakers' = {n} /\ notified' = notified
      BY <1>1, <2>5, <2>9 DEF FetchSub, Goto, Wakers, IInv, TypeOK, Threads
    <3>2. c = 1 /\ \E w \in Waiters : pc[w] # "call"
      BY <2>9, CounterSays DEF IInv, TypeOK
    <3>3. Inside # {}
      BY <3>2, <2>5 DEF Inside, IInv, TypeOK, PlacesFit, Threads
    <3>4. OneWaker' /\ WakeInOrder'
      BY <3>1, <3>2, <3>3, <2>2, <2>3, <2>5, <2>6 DEF OneWaker, WakeInOrder
    <3> QED BY <3>4, <2>4, <2>8 DEF IInv
  <2>10. CASE state - 2 # 1
    <3>1. Wakers' = {} /\ notified' = notified
      BY <1>1, <2>5, <2>10 DEF FetchSub, Goto, Wakers, IInv, TypeOK, Threads
    <3>2. Callers' # {} \/ \A w \in Waiters : pc[w] = "call"
      BY <2>2, <2>10 DEF IInv, CounterCounts
    <3>3. Inside # {} => Callers' # {}
      BY <3>2 DEF Inside
    <3>4. OneWaker' /\ WakeInOrder'
      BY <3>1, <3>2, <3>3, <2>3, <2>5, <2>6 DEF OneWaker, WakeInOrder
    <3> QED BY <3>4, <2>4, <2>8 DEF IInv
  <2> QED BY <2>9, <2>10
<1>2. ASSUME NEW n \in Notifiers, NotifyLock(n) PROVE IInv'
  <2>1. Callers' = Callers /\ Wakers' = Wakers /\ Inside' = Inside
    BY <1>2 DEF NotifyLock, Goto, Callers, Wakers, Inside, IInv, TypeOK, Threads
  <2>2. \A w \in Waiters : pc'[w] = pc[w]
    BY <1>2 DEF NotifyLock, Goto, IInv, TypeOK, Threads
  <2>3. CounterCounts'
    BY <1>2, <2>1, <2>2 DEF NotifyLock, CounterCounts, IInv
  <2>4. TypeOK' /\ AssertsHold' /\ MutexOwned' /\ PlacesFit'
    BY <1>2 DEF NotifyLock, Goto, IInv, TypeOK, AssertsHold, MutexOwned, PlacesFit, Threads
  <2>5. OneWaker' /\ WakeInOrder'
    BY <1>2, <2>1, <2>2 DEF NotifyLock, IInv, OneWaker, WakeInOrder
  <2> QED BY <2>3, <2>4, <2>5 DEF IInv
<1>3. ASSUME NEW n \in Notifiers, NotifyAll(n) PROVE IInv'
  <2>1. n \in Wakers /\ Callers = {} /\ ~notified /\ Inside # {}
    BY <1>3 DEF NotifyAll, Wakers, IInv, WakeInOrder
  <2>2. Callers' = {} /\ Wakers' = {}
    BY <1>3, <2>1 DEF NotifyAll, Callers, Wakers, IInv, TypeOK, OneWaker, PlacesFit, Threads
  <2>3. \A w \in Waiters : (pc'[w] = "call" <=> pc[w] = "call") /\ pc'[w] # "asleep"
    BY <1>3 DEF NotifyAll, Threads
  <2>4. CounterCounts'
    BY <1>3, <2>1, <2>2, <2>3 DEF NotifyAll, CounterCounts, IInv
  <2>5. TypeOK' /\ AssertsHold'
    BY <1>3, <2>1 DEF NotifyAll, IInv, TypeOK, AssertsHold, Threads
  <2>6. MutexOwned' /\ PlacesFit'
    BY <1>3 DEF NotifyAll, IInv, TypeOK, MutexOwned, PlacesFit, Threads
  <2>7. OneWaker' /\ WakeInOrder'
    BY <1>3, <2>2, <2>3 DEF NotifyAll, OneWaker, WakeInOrder
  <2> QED BY <2>4, <2>5, <2>6, <2>7 DEF IInv
<1>4. ASSUME NEW w \in Waiters, FetchOr(w) PROVE IInv'
  <2>1. Callers' = Callers /\ Wakers' = Wakers
    BY <1>4 DEF FetchOr, Goto, Callers, Wakers, IInv, TypeOK, Threads
  <2>2. pc'[w] # "call" /\ \A v \in Waiters \ {w} : pc'[v] = pc[v]
    BY <1>4 DEF FetchOr, Goto, IInv, TypeOK, Threads
  <2>3. Cardinality(Callers) \in Nat
    BY CallersCounted
  <2>4. CounterCounts' /\ state' \in Nat
    BY <1>4, <2>1, <2>2, <2>3, CounterSays DEF FetchOr, CounterCounts, IInv, TypeOK
  <2>5. TypeOK' /\ AssertsHold' /\ MutexOwned' /\ PlacesFit'
    BY <1>4, <2>4 DEF FetchOr, Goto, IInv, TypeOK, AssertsHold, MutexOwned, PlacesFit, Threads
  <2>6. IF Callers = {} THEN pc'[w] = "out" /\ Inside' = Inside
        ELSE pc'[w] = "lock" /\ Inside' = Inside \cup {w}
    BY <1>4, CounterSays DEF FetchOr, Goto, Inside, IInv, TypeOK, Threads
  <2>7. OneWaker' /\ WakeInOrder'
    BY <1>4, <2>1, <2>2, <2>6 DEF FetchOr, IInv, OneWaker, WakeInOrder
  <2> QED BY <2>4, <2>5, <2>7 DEF IInv
<1>5. ASSUME NEW w \in Waiters, WaitLock(w) \/ SpuriousWakeup(w) PROVE IInv'
  <2>1. Callers' = Callers /\ Wakers' = Wakers /\ Inside' = Inside
    BY <1>5 DEF WaitLock, SpuriousWakeup, Goto, Callers, Wakers, Inside, IInv, TypeOK, Threads
  <2>2. /\ pc[w] \in {"lock", "asleep"} /\ pc'[w] \in {"locked", "lock"}
        /\ \A v \in Waiters \ {w} : pc'[v] = pc[v]
    BY <1>5 DEF WaitLock, SpuriousWakeup, Goto, IInv, TypeOK, Threads
  <2>3. CounterCounts'
    BY <1>5, <2>1, <2>2 DEF WaitLock, SpuriousWakeup, CounterCounts, IInv
  <2>4. TypeOK' /\ AssertsHold' /\ MutexOwned' /\ PlacesFit'
    BY <1>5 DEF WaitLock, SpuriousWakeup, Goto, IInv, TypeOK, AssertsHold, MutexOwned,
                PlacesFit, Threads
  <2>5. OneWaker' /\ WakeInOrder'
    BY <1>5, <2>1, <2>2 DEF WaitLock, SpuriousWakeup, IInv, OneWaker, WakeInOrder
  <2> QED BY <2>3, <2>4, <2>5 DEF IInv
<1>6. ASSUME NEW w \in Waiters, WaitTest(w) PROVE IInv'
  <2>1. Callers' = Callers /\ Wakers' = Wakers /\ Inside' \subseteq Inside
    BY <1>6 DEF WaitTest, Goto, Callers, Wakers, Inside, IInv, TypeOK, Threads
  <2>2. /\ w \in Inside /\ pc[w] = "locked"
        /\ IF notified THEN pc'[w] = "out" ELSE pc'[w] = "asleep" /\ Inside' = Inside
        /\ \A v \in Waiters \ {w} : pc'[v] = pc[v]
    BY <1>6 DEF WaitTest, Goto, Inside, IInv, TypeOK, Threads
  <2>3. CounterCounts'
    BY <1>6, <2>1, <2>2 DEF WaitTest, CounterCounts, IInv
  <2>4. TypeOK' /\ AssertsHold' /\ MutexOwned' /\ PlacesFit'
    BY <1>6 DEF WaitTest, Goto, IInv, TypeOK, AssertsHold, MutexOwned, PlacesFit, Threads
  <2>5. OneWaker' /\ WakeInOrder'
    BY <1>6, <2>1, <2>2 DEF WaitTest, IInv, OneWaker, WakeInOrder
  <2> QED BY <2>3, <2>4, <2>5 DEF IInv
<1>7. ASSUME Reset PROVE IInv'
  <2>1. \A t \in Threads : pc'[t] = "call"
    BY <1>7, AllOut DEF Reset
  <2>2. mu' = Free
    BY <1>7, AllOut DEF Reset, ResetIsSafe
  <2>3. Callers' = Notifiers /\ Wakers' = {} /\ Inside' = {}
    BY <2>1 DEF Callers, Wakers, Inside, Threads
  <2>4. CounterCounts'
    BY <1>7, <2>1, <2>3 DEF Reset, CounterCounts, Count, Threads
  <2>5. state' \in Nat
    <3>1. Cardinality(Notifiers) \in Nat
      BY FS_CardinalityType
    <3> QED BY <1>7, <3>1 DEF Reset, Count
  <2>6. TypeOK' /\ AssertsHold'
    BY <1>7, <2>1, <2>5 DEF Reset, IInv, TypeOK, AssertsHold
  <2>7. MutexOwned' /\ PlacesFit'
    BY <2>1, <2>2 DEF MutexOwned, PlacesFit, Threads
  <2>8. OneWaker' /\ WakeInOrder'
    BY <1>7, <2>1, <2>3 DEF Reset, OneWaker, WakeInOrder, Threads
  <2> QED BY <2>4, <2>6, <2>7, <2>8 DEF IInv
<1>8. CASE UNCHANGED vars
  BY <1>8 DEF vars, IInv, TypeOK, AssertsHold, CounterCounts, MutexOwned, OneWaker,
              PlacesFit, WakeInOrder, Callers, Wakers, Inside
<1> QED BY <1>1, <1>2, <1>3, <1>4, <1>5, <1>6, <1>7, <1>8 DEF Next

(* The counter, the flag and the mutex stay as the comments of the module  *)
(* say, from Reset to Reset.                                               *)
THEOREM BarrierInvariant == Spec => []IInv
  BY InitIInv, NextIInv, PTL DEF Spec

(* No assert of Notify ever fails. *)
THEOREM NoAssertFails == Spec => []AssertsHold
<1>1. IInv => AssertsHold
  BY DEF IInv
<1> QED BY <1>1, BarrierInvariant, PTL

(* A Wait returns only when every Notify of the iteration has been called, *)
(* by the fast path of the counter or by the slow one of the flag.         *)
THEOREM WaitsForAll == Spec => []NoEarlyReturn
<1>1. IInv => NoEarlyReturn
  BY DEF IInv, WakeInOrder, NoEarlyReturn, Callers
<1> QED BY <1>1, BarrierInvariant, PTL

(* Once every Wait has returned, Reset meets no Notify at work. *)
THEOREM ResetMeetsNobody == Spec => []ResetIsSafe
<1>1. IInv => ResetIsSafe
  BY AllOut DEF ResetIsSafe
<1> QED BY <1>1, BarrierInvariant, PTL

-----------------------------------------------------------------------------
(* Who has called and who has returned move as the latch says: a call is   *)
(* the latch's call, a return its return, Reset its next round, and the    *)
(* rest of the protocol is invisible.                                      *)
THEOREM BarrierIsALatch == Spec => ImplementsLatch
<1> DEFINE E == {n \in Notifiers : pc[n] = "call"}
           R == {w \in Waiters : pc[w] = "out"}
<1>1. Init => Abstract!Init
  <2> SUFFICES ASSUME Init PROVE E = Notifiers /\ R = {}
    BY DEF Abstract!Init
  <2> QED BY DEF Init, Threads
<1>2. IInv /\ [Next]_vars => [Abstract!Next]_(Abstract!vars)
  <2> SUFFICES ASSUME IInv, [Next]_vars
               PROVE  Abstract!Next \/ (E' = E /\ R' = R)
    BY DEF Abstract!vars
  <2> USE BarrierAssumption
  <2>0. pc \in [Threads -> {"call", "wake", "lock", "locked", "asleep", "out"}]
    BY DEF IInv, TypeOK
  <2>1. ASSUME NEW n \in Notifiers, FetchSub(n)
        PROVE  n \in E /\ E' = E \ {n} /\ R' = R
    BY <2>0, <2>1 DEF FetchSub, Goto, Threads
  <2>2. ASSUME NEW n \in Notifiers, NotifyLock(n) \/ NotifyAll(n)
        PROVE  E' = E /\ R' = R
    <3>1. pc' \in [Threads -> {"call", "wake", "lock", "locked", "asleep", "out"}]
      BY <2>0, <2>2 DEF NotifyLock, NotifyAll, Goto
    <3> QED BY <2>0, <2>2 DEF NotifyLock, NotifyAll, Goto, Threads
  <2>3. ASSUME NEW w \in Waiters,
               WaitLock(w) \/ SpuriousWakeup(w)
        PROVE  E' = E /\ R' = R
    BY <2>0, <2>3 DEF WaitLock, SpuriousWakeup, Goto, Threads
  <2>4. ASSUME NEW w \in Waiters, FetchOr(w)
        PROVE  \/ E' = E /\ R' = R
               \/ E = {} /\ w \notin R /\ R' = R \cup {w} /\ E' = E
    <3>1. Missing = 0 <=> E = {}
      BY CounterSays DEF IInv, Callers
    <3> QED BY <2>0, <2>4, <3>1 DEF FetchOr, Goto, Threads
  <2>5. ASSUME NEW w \in Waiters, WaitTest(w)
        PROVE  \/ E' = E /\ R' = R
               \/ E = {} /\ w \notin R /\ R' = R \cup {w} /\ E' = E
    <3>1. notified => E = {}
      BY DEF IInv, WakeInOrder, Callers
    <3> QED BY <2>0, <2>5, <3>1 DEF WaitTest, Goto, Threads
  <2>6. ASSUME Reset
        PROVE  E = {} /\ R = Waiters /\ E' = Notifiers /\ R' = {}
    <3>1. \A t \in Threads : pc[t] = "out" /\ pc'[t] = "call"
      BY <2>6, AllOut DEF Reset
    <3> QED BY <3>1 DEF Threads
  <2>7. CASE UNCHANGED vars
    BY <2>7 DEF vars
  <2> HIDE DEF E, R
  <2> QED
    BY <2>1, <2>2, <2>3, <2>4, <2>5, <2>6, <2>7
    DEF Next, Abstract!Next, Abstract!Call, Abstract!Return, Abstract!NextRound, E, R
<1> QED BY <1>1, <1>2, BarrierInvariant, PTL DEF Spec, ImplementsLatch, Abstract!Spec

-----------------------------------------------------------------------------
(* The counter, the flags and the places of the threads keep their types.  *)
THEOREM BarrierTypes == Spec => []TypeOK
BY BarrierInvariant, PTL DEF IInv
=============================================================================
