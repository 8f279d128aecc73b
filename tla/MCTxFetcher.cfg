CONSTANTS
  p1 = p1
  p2 = p2
  h1 = h1
  h2 = h2
  None = None
  Peers = {p1, p2}
  Hashes = {h1, h2}
  MaxAnnounces = 2
  MaxRetrievals = 2
SYMMETRY Symmetry
SPECIFICATION Spec
INVARIANTS
  NeverPanics
  OneStage
  IndexesAgree
  TimersArmed
  NeverIdleWithWork
