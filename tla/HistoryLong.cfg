SPECIFICATION Spec
CONSTANTS
  Parts = {a, b}
  Values = {x, y}
  Empty = Empty
  Throws = Throws
  CheckpointInterval = 3
  MaxHistory = 3
  MaxRare = 0
SYMMETRY Symmetry
INVARIANTS
  StackIsFaithful
PROPERTIES
  UndoIsReversible
  ToastUndoesItsOwn
CHECK_DEADLOCK FALSE
