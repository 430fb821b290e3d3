CONSTANTS
  m1 = m1
  a1 = a1
  x = x
  Messages <- MessageOrThird
  Approvals <- ApprovalOrThird
  Technicians <- TwoTechnicians
  Hours <- DayAndEvening
  Reviewers <- StaffRoles
  Extractions <- FourExtractions
  Matches <- TwoMatches
  Calendars <- TwoCalendars
SPECIFICATION Spec
INVARIANTS
  TypeOK
  GuardsNeverFire
  PausedIsReviewable
  BookedByAuthority
  OneStandingAppointment
  EscalationReachesItsQueue
PROPERTIES
  DecisionIsCarriedOut
CHECK_DEADLOCK FALSE
