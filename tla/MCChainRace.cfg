CONSTANTS
  Blocks = {"g", "a1", "a2", "b1", "b2"}
  Genesis = "g"
  Parent <- MCParent
  Number <- MCNumber
  Difficulty <- MCDifficulty
  Invalid = {}
  TTD = 0
  Miners = {"miner"}
  Importers = {"importer"}
  Batches <- MCSingles
  FullFake = TRUE
  MaxRestarts = 0
  MaxFaults = 0
SPECIFICATION Spec
INVARIANTS
  MarkersAgree
CHECK_DEADLOCK FALSE
