SPECIFICATION Spec
CONSTANTS
  Users = {u, v, w}
  Transfers = {t1}
  Requests = {r1, r2}
  Gone = Gone
  MaxLeavers = 1
SYMMETRY Symmetry
PROPERTIES
  OnlySoloDeleted
CHECK_DEADLOCK FALSE
