SPECIFICATION Spec
CONSTANTS
  Sites = {a}
  Deployments = {d1, d2}
  Subs = {p}
  None = None
  MaxFaults = 2
SYMMETRY Symmetry
INVARIANTS
  RunOrphansNothing
  LostWasMissed
  DraftIsDown
CHECK_DEADLOCK FALSE
