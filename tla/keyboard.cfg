CONSTANTS
  PhysicalKeys = {"LSHIFT", "RSHIFT", "RCTRL", "LALT", "CAPSLOCK", "BACKSPACE"}
  Behind = {"KEY_UNKNOWN", "KEY_LSHIFT"}
  Rejects = TRUE
  MaxWire = 3
SPECIFICATION Spec
INVARIANT NoModifierStuck
PROPERTIES RepliesPushNothing LedsShowLocks
CHECK_DEADLOCK FALSE
