SPECIFICATION FairSpec
CONSTANTS
  Jobs = {j1, j2}
  Workers = {w1}
  NoJob = NoJob
  MaxAttempts = 2
  Retained = 1
  SiteOps = {}
PROPERTY
  PublishingEnds
CHECK_DEADLOCK FALSE
