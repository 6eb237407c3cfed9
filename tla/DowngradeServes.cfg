SPECIFICATION Spec
CONSTANTS
  Sites = {a}
  Deployments = {d1}
  Subs = {p}
  None = None
  MaxFaults = 0
INVARIANTS
  LiveIsSeen
CHECK_DEADLOCK FALSE
