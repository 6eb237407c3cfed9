SPECIFICATION FairSpec
CONSTANTS
  Jobs = {j1}
  Sites = {s1, s2}
  NoSite = NoSite
  Limit = 1
  Hourly = 1
PROPERTIES
  HandsOverItsOwn
  EveryJobEnds
CHECK_DEADLOCK FALSE
