\* Two syncs look for the event before either inserts one.
SPECIFICATION Spec
CONSTANTS
  Publishers = {p1}
  Workers = {w1, w2}
  Reconciler = reconciler
  MaxRetries = 0
  MaxEvents = 1
  MaxFaults = 1
  MaxIds = 2
  MaxWaiting = 1
INVARIANTS
  NoDuplicateEvents
CHECK_DEADLOCK FALSE
