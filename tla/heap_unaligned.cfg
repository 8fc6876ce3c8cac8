CONSTANTS
  ArenaSize = 17
  NodeSz = 2
  MinBlockSpace = 1
  Sizes = {1, 2, 3, 5}
  Debug = TRUE
SPECIFICATION Spec
INVARIANT SignaturesIntact
CHECK_DEADLOCK FALSE
