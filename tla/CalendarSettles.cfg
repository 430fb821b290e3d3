\* One publisher and one worker, fair, with a retry and two faults.
SPECIFICATION ReconciledSpec
CONSTANTS
  Publishers = {p1}
  Workers = {w1}
  Reconciler = reconciler
  MaxRetries = 1
  MaxEvents = 2
  MaxFaults = 2
  MaxIds = 4
  MaxWaiting = 1
PROPERTIES
  EveryEventSettles
  StandingIsShown
CHECK_DEADLOCK FALSE
