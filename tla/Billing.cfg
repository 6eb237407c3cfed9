SPECIFICATION Spec
CONSTANTS
  Subs = {s1, s2}
  Handlers = {h1, h2}
  Paid = {pro, team}
  NoRow = NoRow
  MaxEvents = 3
  MaxFaults = 1
SYMMETRY Symmetry
INVARIANTS
  EntitlementIsBacked
  HandledOnce
  SettledIsHandled
  RowFollowsStripe
  FreeIsWithinCap
CHECK_DEADLOCK FALSE
