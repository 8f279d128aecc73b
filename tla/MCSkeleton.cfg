CONSTANTS
  Blocks = {"g", "a1", "a2", "a3", "a4", "a5", "b3", "b4"}
  Parent <- MCParent
  Number <- MCNumber
  Genesis = "g"
  Stored = {"g"}
  Peers = {"p", "q"}
  Nil = Nil
  RequestHeaders = 1
  Batches = 2
  MaxAnnounces = 2
  MaxFaults = 1
  MaxImports = 1
  MaxCrashes = 1
SPECIFICATION Spec
INVARIANTS
  BackedUnlessStained
  OwnersExact
  BackfillSupplied
PROPERTIES
  LinksUp
CHECK_DEADLOCK FALSE
