SPECIFICATION Spec
CONSTANTS
  Users = {u, o}
  Exempt = {o}
  Clients = {c}
  Requests = {r1, r2}
  None = None
  MaxRounds = 2
  MaxVersion = 2
  MaxLinks = 2
  MaxRequests = 4
SYMMETRY Symmetry
PROPERTIES
  SoundnessKept
  WithdrawalIsFresh
  NewestKeepsPages
  ClearedStaysCovered
CHECK_DEADLOCK FALSE
