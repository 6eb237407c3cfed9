SPECIFICATION Spec
CONSTANTS
  Users = {u, o}
  Exempt = {o}
  Clients = {c, d}
  Requests = {r1, r2}
  None = None
  MaxRounds = 2
  MaxVersion = 2
  MaxLinks = 2
  MaxRequests = 4
SYMMETRY Symmetry
CHECK_DEADLOCK FALSE
PROPERTY PublishedWasShown
