CONSTANTS
  Callers = {"local", "remote"}
  Sync = {"local"}
  Accounts = {"a"}
  Txs = {"mined", "t1", "t2"}
  From <- MCFrom
  Nonce <- MCNonce
  Price <- MCPrice
  TxOf <- MCTxOf
  Mined = {"mined"}
  MaxHead = 2
SPECIFICATION Spec
INVARIANTS
  
  ResetContinues
PROPERTIES
  EventsKept
  CallersReturn
  StopCompletes
  HeadFollowed
CHECK_DEADLOCK FALSE
