CONSTANTS
  Codes = {30, 80}
  MaxWaiting = 2
SPECIFICATION Spec
INVARIANT KeysWhereCommented
CHECK_DEADLOCK FALSE
