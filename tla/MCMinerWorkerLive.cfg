CONSTANTS
  HeadCap = 1
  ResultCap = 1
  AdjustCap = 1
  StaleThreshold = 1
  Stamps = {1}
  EngineUnset = TRUE
  TTD = 1
  Closes = TRUE
  MaxHeads = 2
  MaxStarts = 1
  MaxTxEvents = 0
SPECIFICATION Spec
PROPERTIES
  CloseUnlessStuck
  HeadWorked
CHECK_DEADLOCK FALSE
