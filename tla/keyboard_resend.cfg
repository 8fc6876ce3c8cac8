CONSTANTS
  PhysicalKeys = {"CAPSLOCK", "A"}
  Behind = {"KEY_UNKNOWN"}
  Rejects = TRUE
  MaxWire = 2
SPECIFICATION Spec
PROPERTY ResendNoticed
CHECK_DEADLOCK FALSE
