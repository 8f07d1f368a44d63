CONSTANTS
  None = None
  Length = 7
  Ops <- AllOps
  Streams <- TwoStreams
  Sharing <- SharedOrNot
  Allowed <- PlannedWell
  PoolSize = 12
  Alignment = 1
SPECIFICATION Spec
CHECK_DEADLOCK FALSE
INVARIANTS
  TypeOK
  PassesAgree
  LiveDataIntact
  BlocksAreReclaimed
