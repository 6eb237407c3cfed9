SPECIFICATION Spec
CONSTANTS
  Parts = {a, b}
  Values = {x, y}
  Empty = Empty
  Throws = Throws
  CheckpointInterval = 2
  MaxHistory = 2
  MaxRare = 3
SYMMETRY Symmetry
INVARIANTS
  TypeOK
  StackIsFaithful
  EditsAreRecorded
PROPERTIES
  UndoIsReversible
  ToastUndoesItsOwn
CHECK_DEADLOCK FALSE
