CONSTANTS
  W = 4
  H = 2
  TabWidth = 2
  Chars = {x, y}
  Blank = Blank
  MaxSaved = 1
SPECIFICATION Spec
INVARIANTS BlankAhead BackspaceUndoesChar
PROPERTY PrintedTextKept
CHECK_DEADLOCK FALSE
