SPECIFICATION Spec
CONSTANTS
  Jobs = {j1, j2}
  Workers = {w1, w2}
  NoJob = NoJob
  MaxAttempts = 2
  Retained = 1
  SiteOps = {"unpublish", "archive"}
SYMMETRY Symmetry
CONSTRAINT FewAtOnce
INVARIANTS
  OneActiveJob
  ExclusiveClaim
  SweptStaysDead
  PublishedWasCompleted
CHECK_DEADLOCK FALSE
