CONSTANTS
  HeadCap = 1
  ResultCap = 1
  AdjustCap = 1
  StaleThreshold = 1
  Stamps = {1}
  EngineUnset = TRUE
  TTD = 1
  Closes = FALSE
  MaxHeads = 2
  MaxStarts = 1
  MaxTxEvents = 1
SPECIFICATION Spec
INVARIANTS
  ResultHasTask
  OneSealing
CHECK_DEADLOCK FALSE
