\* Two operators approve one request at once.
SPECIFICATION Spec
CONSTANTS
  Finalizers = {}
  Approvers = {a1, a2}
  Requests = {r1}
  Technicians = {t1, t2}
  Windows <- OneWindow
  Exclusion = TRUE
INVARIANT
  OneAppointmentPerRequest
