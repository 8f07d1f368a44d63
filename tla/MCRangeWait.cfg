CONSTANTS
  NumBes = 3
  NumThreads = 2
  MaxKernels = 3
  Grids = {1, 2, 3, 4}
  Groups <- AllGroups
  Policies = {"RANGE"}
  OptLevels = {2}
  Durations = {1}
  Slots = {3}
SPECIFICATION Spec
CHECK_DEADLOCK FALSE
INVARIANTS
  DependenciesComplete
