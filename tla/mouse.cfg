CONSTANTS
  Kinds = {"none", "ps2", "five"}
  Cols = 2
  Rows = 1
  VelX = 2
  Moves <- MCMoves
  KeyCodes = {3}
SPECIFICATION FairSpec
INVARIANTS OnePointer InStep
PROPERTY InputReachesHandler
CHECK_DEADLOCK FALSE
