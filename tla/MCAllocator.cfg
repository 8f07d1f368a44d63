CONSTANTS
  t1 = t1
  t2 = t2
  t3 = t3
  t4 = t4
  t5 = t5
  None = None
  Tensors <- FiveTensors
  Size <- FiveSizes
  PoolSize = 14
  Alignment = 2
  Schemes = {"FIRST_FIT", "BEST_FIT", "NO_REUSE"}
SPECIFICATION Spec
CHECK_DEADLOCK FALSE
INVARIANTS
  TypeOK
  NoCheckFails
  NodesTile
  HolesAreJoined
  NoOverlap
  NoLeak
  PoolCoversTensors
  BlocksAreAligned
PROPERTIES
  PeakGrowsOnlyWhenNeeded
  FailsOnlyWhenFull
  ImplementsPool
