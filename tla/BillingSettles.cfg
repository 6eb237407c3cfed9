SPECIFICATION FairSpec
CONSTANTS
  Subs = {s1, s2}
  Handlers = {h1, h2}
  Paid = {pro, team}
  NoRow = NoRow
  MaxEvents = 2
  MaxFaults = 2
PROPERTIES
  EventsSettle
CHECK_DEADLOCK FALSE
