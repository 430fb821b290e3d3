\* One request through long histories: three appointments, two reschedules
\* and a reassignment of the second one.
SPECIFICATION Spec
CONSTANTS
  Requests = {r1}
  Technicians = {t1, t2}
  Windows <- OneWindow
  MaxAppointments = 3
  MaxReschedules = 2
  Reassignable = {2}
  MaxReassigns = 1
SYMMETRY Symmetry
CHECK_DEADLOCK FALSE
INVARIANTS
  TypeOK
  RequestStatusIsBacked
  ReplacementChain
  OutboxTellsTheStory
PROPERTIES
  TellsStories
  ImplementsCalendar
