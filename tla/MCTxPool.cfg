CONSTANTS
  alice = alice
  bob = bob
  Accounts <- MCAccounts
  Txs = {"a0", "a0x", "a1", "a2", "b0", "b1"}
  Sender <- MCSender
  Nonce <- MCNonce
  MaxNonce = 2
  Price <- MCPrice
  Cost <- MCCost
  Gas <- MCGas
  States <- MCStates
  GasPrices = {10, 11}
  PriceBump = 20
  AccountSlots = 1
  GlobalSlots = 3
  AccountQueue = 1
  GlobalQueue = 2
SPECIFICATION Spec
INVARIANTS
  LookupExact
  FrontExecutable
PROPERTIES
  LocalsKept
  LimitsRestored
