CONSTANTS
  NumBes = 3
  NumThreads = 2
  MaxKernels = 3
  Grids = {1, 2, 3, 4}
  Groups <- AllGroups
  Policies = {"DEFAULT", "RANGE"}
  OptLevels = {0, 2}
  Durations = {1}
  Slots = {2, 3}
SPECIFICATION FairSpec
INVARIANTS
  TypeOK
  EveryBlockOnce
  RangesDoTheirOwn
  DependenciesDone
PROPERTIES
  EveryLaunchFinishes
CHECK_DEADLOCK FALSE
