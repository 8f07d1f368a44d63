CONSTANTS
  None = None
  Length = 5
  Ops <- ConcatOps
  Streams <- OneStream
  Sharing <- Shared
  Allowed <- OneSource
  PoolSize = 12
  Alignment = 1
SPECIFICATION Spec
CHECK_DEADLOCK FALSE
INVARIANTS
  ConcatsAreWritten
