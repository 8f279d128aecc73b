CONSTANTS
  Peers = {"p", "q"}
  Master = "p"
  Kinds = {"body"}
  LastHeader = 2
  Parts <- MCParts
  CacheSize = 2
  MaxTake = 1
  MaxQueued = 2
  MinFails = 1
  Threshold = 1
  MaxJoins = 2
SPECIFICATION Spec
INVARIANTS
  TasksExact
  CompleteRemembered
  NeverStalls
  SyncComplete
CHECK_DEADLOCK FALSE
