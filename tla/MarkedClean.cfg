SPECIFICATION Spec
CONSTANTS
  Tabs = {t1}
  Browsers = {b1}
  Edits = {e1, e2}
  BrowserOf <- OneBrowser
  Limit <- ManualBound
  MaxKinds = 6
INVARIANTS
  CleanMeansSaved
CHECK_DEADLOCK FALSE
