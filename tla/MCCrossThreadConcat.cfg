CONSTANTS
  None = None
  Length = 7
  Ops <- RaceOps
  Streams <- TwoStreams
  Sharing <- Shared
  Allowed <- OneConcat
  PoolSize = 12
  Alignment = 1
SPECIFICATION Spec
CHECK_DEADLOCK FALSE
INVARIANTS
  LiveDataIntact
