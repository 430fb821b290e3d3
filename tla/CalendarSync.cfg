\* Two publishers and two workers in every interleaving, and one fault.
SPECIFICATION Spec
CONSTANTS
  Publishers = {p1, p2}
  Workers = {w1, w2}
  Reconciler = reconciler
  MaxRetries = 0
  MaxEvents = 2
  MaxFaults = 1
  MaxIds = 2
  MaxWaiting = 1
SYMMETRY Symmetry
INVARIANTS
  TypeOK
  ProcessedWasHandedOver
  ProcessingIsOwned
CHECK_DEADLOCK FALSE
