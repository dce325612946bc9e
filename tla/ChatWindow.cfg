SPECIFICATION WindowSpec
CONSTANTS
  Convs = {a, b}
  Mine = {k1}
  Theirs = {p1}
  MaxSteps = 2
  MaxFails = 1
  MaxMarks = 1
  MaxChanges = 1
  MaxMoves = 5
  None = None
SYMMETRY Symmetry
INVARIANTS OneRowPerMessage  ShownSentIsStored 
CHECK_DEADLOCK FALSE
