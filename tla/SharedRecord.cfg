SPECIFICATION Spec
CONSTANTS
  Tabs = {t1, t2}
  Browsers = {b1}
  Edits = {e1, e2}
  BrowserOf <- OneBrowser
  Limit <- FaultBound
  MaxKinds = 6
PROPERTIES
  KeptCopyIsWork
CHECK_DEADLOCK FALSE
