CONSTANTS
  Order <- MCOrder
  Size <- MCSize
  MaxFileSize = 3
  BufferLimit = 1
  Threshold = 1
  BatchLimit = 1
  MaxFile = 4
  MaxHead = 4
  MaxCrashes = 1
  MaxFailures = 1
  MaxCloses = 1
SPECIFICATION Spec
INVARIANTS
  NothingLost
  TablesAgree
PROPERTIES
  CatchesUp
