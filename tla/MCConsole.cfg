SPECIFICATION ConsoleSpec
CONSTANTS
  i1 = i1
  i2 = i2
  c1 = c1
  c2 = c2
  Item = {i1, i2}
  Command = {c1, c2}
  MaxCalls = 2
  MaxLost = 1
SYMMETRY Symmetry
INVARIANTS
  ConsoleInv
  OwnChangesShow
\* Commands end.
CHECK_DEADLOCK FALSE
