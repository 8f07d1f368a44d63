CONSTANTS
  None = None
  Length = 6
  Ops <- AliasOps
  Streams <- OneStream
  Sharing <- Shared
  Allowed <- OneSource
  PoolSize = 12
  Alignment = 1
SPECIFICATION Spec
CHECK_DEADLOCK FALSE
INVARIANTS
  PersistentDataIntact
