SPECIFICATION Spec
CONSTANTS
  Jobs = {j1, j2}
  Sites = {s1}
  NoSite = NoSite
  Limit = 1
  Hourly = 1
SYMMETRY Symmetry
INVARIANTS
  SitesAreBilled
  ClaimedIsTheWorkers
  LimitsHold
PROPERTIES
  EndedStaysEnded
CHECK_DEADLOCK FALSE
