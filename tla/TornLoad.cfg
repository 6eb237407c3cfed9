SPECIFICATION Spec
CONSTANTS
  Tabs = {t1, t2}
  Browsers = {b1, b2}
  Edits = {e1, e2}
  BrowserOf <- OwnBrowser
  Limit <- NoneBound
  MaxKinds = 6
PROPERTIES
  BehindCopyIsDetected
CHECK_DEADLOCK FALSE
