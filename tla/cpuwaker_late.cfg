CONSTANTS
  N = 2
  Debug = TRUE
  Prompt = FALSE
SPECIFICATION Spec
INVARIANT IdAsserted
CHECK_DEADLOCK FALSE
