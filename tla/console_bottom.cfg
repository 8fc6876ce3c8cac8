CONSTANTS
  W = 4
  H = 2
  TabWidth = 2
  Chars = {x, y}
  Blank = Blank
  MaxSaved = 1
SPECIFICATION Spec
PROPERTY CharShown
CHECK_DEADLOCK FALSE
