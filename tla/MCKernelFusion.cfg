CONSTANTS
  NumNodes = 5
  Graphs <- AllGraphs
  Levels = {1, 2, 3}
  Limited = {2}
  MaxArgs = 3
SPECIFICATION Spec
INVARIANTS
  GroupsApart
  FusedAlike
  OperandsKept
  RunsTheGraph
CHECK_DEADLOCK FALSE
