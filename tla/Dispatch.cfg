\* Two technicians created and changed while two orders are served.
SPECIFICATION Spec
CONSTANTS
  o1 = o1
  o2 = o2
  Technicians <- TwoTechnicians
  Orders <- TwoOrders
  Requests <- TwoRequests
  Profiles <- TwoProfiles
  Policies <- TwoPolicies
  Hours <- SomeHours
  Duration = 2
  Step = 1
  MaxChoices = 2
  MaxUpdates = 3
INVARIANTS
  TypeOK
  InactiveIsIdle
  ProposalIsBest
  RankingIsMonotone
CHECK_DEADLOCK FALSE
