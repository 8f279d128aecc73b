CONSTANTS
  Subs = {"a", "b", "c"}
  Sends = {"v", "w"}
  Cap = 1
SPECIFICATION Spec
INVARIANTS
  CasesExact
PROPERTIES
  UnsubscribeReturns
  SendReturns
  Implements
CHECK_DEADLOCK FALSE
