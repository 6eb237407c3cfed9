SPECIFICATION FairSpec
CONSTANTS
  Tabs = {t1}
  Browsers = {b1}
  Edits = {e1, e2}
  BrowserOf <- OneBrowser
  Limit <- EachOnce
  MaxKinds = 3
INVARIANTS
  NothingForgotten
PROPERTIES
  KeptUntilSaved
  SavedOrTold
CHECK_DEADLOCK FALSE
