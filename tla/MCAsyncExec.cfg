CONSTANTS
  None = None
  Size = 5
  Graphs <- Programs
  Devices = {"CPU", "CUDA"}
  NumStreams = {0,1,2}
  Workers = 5
  MaxTensors = 1
  Controls = 1
SPECIFICATION FairSpec
INVARIANTS
  TypeOK
  OperandsReady
  DefaultRunsAlone
  ResetIsQuiet
PROPERTIES
  EveryCallReturns
  ImplementsDataflow
