CONSTANTS
  Addresses = {"a", "b"}
  Users = {"a"}
  Keys = {"k"}
  Values = {0, 1, 2}
  Codes = {"c", "d"}
  Nil = Nil
  NoCode = "none"
  Grant = 1
  Coinbase = "b"
  Reward = 1
  EIP158 = TRUE
  Genesis <- MCGenesis
  Amounts <- MCAmounts
  MaxBalance = 3
  MaxNonce = 1
  MaxOps = 4
  MaxTasks = 1
  MaxBlocks = 2
SPECIFICATION Spec
INVARIANTS
  RootsComplete
PROPERTIES
  ImplementsWorldState
