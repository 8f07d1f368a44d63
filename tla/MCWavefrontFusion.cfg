CONSTANTS
  NumNodes = 5
  NumMixed = 4
  Nodes <- NodeIds
  Graphs <- AllGraphs
  Levels = {1, 2}
  MaxGroup = 2
SPECIFICATION Spec
INVARIANTS
  TypeOK
  GroupsInOrder
  OperandsKept
  RunsTheGraph
CHECK_DEADLOCK FALSE
