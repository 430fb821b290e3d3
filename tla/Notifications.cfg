\* Two workers, with one failure anywhere and one retry.
SPECIFICATION Spec
CONSTANTS
  Workers = {w1, w2}
  MaxRetries = 1
  MaxFaults = 1
INVARIANTS
  TypeOK
  SentOnceUnlessExcused
  CancelledIsSilent
PROPERTIES
  ClaimedJobSettles
  BookedIsReminded
CHECK_DEADLOCK FALSE
