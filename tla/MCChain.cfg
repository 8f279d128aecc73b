CONSTANTS
  Blocks = {"g", "a1", "a2", "b1", "c1"}
  Genesis = "g"
  Parent <- MCParent
  Number <- MCNumber
  Difficulty <- MCDifficulty
  Invalid = {"a1"}
  TTD = 5
  Miners = {"miner"}
  Importers = {"importer"}
  Batches <- MCBatches
  FullFake = TRUE
  MaxRestarts = 1
  MaxFaults = 1
SPECIFICATION Spec
INVARIANTS
  DifficultyAddsUp
  HeadHasState
  HeadSettled
PROPERTIES
  HeadAdvances
CHECK_DEADLOCK FALSE
