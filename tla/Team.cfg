SPECIFICATION Spec
CONSTANTS
  Users = {u, v, w}
  Transfers = {t1}
  Requests = {r1, r2}
  Gone = Gone
  MaxLeavers = 1
SYMMETRY Symmetry
PROPERTIES
  OwnerIsKept
  OwnerStaysInCharge
  SettledTransferStays
CHECK_DEADLOCK FALSE
