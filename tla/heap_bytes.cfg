CONSTANTS
  ArenaSize = 17
  NodeSz = 2
  MinBlockSpace = 1
  Sizes = {1, 2, 3, 5}
  Debug = FALSE
SPECIFICATION Spec
INVARIANTS TypeOK ListWellFormed NoNeighbouringFree LiveOwnBlocks FreeUndoesAllocate EmptyIsInitial
PROPERTY AllocatorSpec
CHECK_DEADLOCK FALSE
