SPECIFICATION Spec
CONSTANTS
  Tabs = {t1, t2}
  Browsers = {b1}
  Edits = {e1, e2}
  BrowserOf <- OneBrowser
  Limit <- RaceBound
  MaxKinds = 6
SYMMETRY Symmetry
INVARIANTS
  SavesCover
  SavesDoNotRace
PROPERTIES
  NoUnaccountedLoss
CHECK_DEADLOCK FALSE
