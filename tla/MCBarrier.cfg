CONSTANTS
  Notifiers = {n1, n2, n3}
  Waiters = {w1, w2, w3}
  Free = Free
SPECIFICATION FairSpec
INVARIANTS
  TypeOK
  AssertsHold
  NoEarlyReturn
  ResetIsSafe
PROPERTIES
  EveryWaitReturns
  ImplementsLatch
