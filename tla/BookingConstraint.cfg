\* With the constraint: a finalizer and two approvers run concurrently.
SPECIFICATION FairSpec
CONSTANTS
  Finalizers = {f1}
  Approvers = {a1, a2}
  Requests = {r1, r2}
  Technicians = {t1}
  Windows <- TwoWindows
  Exclusion = TRUE
INVARIANTS
  TypeOK
  FinalizerNeverRefused
PROPERTIES
  ImplementsCalendar
  EveryAttemptEnds
