CONSTANTS
  N = 3
  Debug = TRUE
  Prompt = TRUE
SPECIFICATION FairSpec
INVARIANTS NoSharedStack ConfigIsForAp ReturnIsTruth
PROPERTY AllBroughtUp
CHECK_DEADLOCK FALSE
