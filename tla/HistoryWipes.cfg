SPECIFICATION Spec
CONSTANTS
  Parts = {a, b}
  Values = {x, y}
  Empty = Empty
  Throws = Throws
  CheckpointInterval = 3
  MaxHistory = 3
  MaxRare = 1
SYMMETRY Symmetry
INVARIANT UndoNeverWipes
CHECK_DEADLOCK FALSE
