SPECIFICATION FairSpec
CONSTANTS
  Jobs = {j1, j2}
  Workers = {w1}
  NoJob = NoJob
  MaxAttempts = 1
  Retained = 1
  SiteOps = {}
PROPERTIES
  ActiveJobEnds
  ImplementsSlot
CHECK_DEADLOCK FALSE
