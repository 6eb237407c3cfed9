SPECIFICATION FairSpec
CONSTANTS
  Sites = {a}
  Deployments = {d1}
  Subs = {p, q}
  None = None
  MaxFaults = 1
INVARIANTS
  RunOrphansNothing
  LostWasMissed
  DraftIsDown
  NobodyPaysForNothing
PROPERTIES
  DueIsDeleted
CHECK_DEADLOCK FALSE
