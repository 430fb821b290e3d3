----------------------------- MODULE MCWorkflow ------------------------------
(* Workflow with two technicians, one slot by day and one in the evening.   *)
EXTENDS Workflow

CONSTANTS m1, a1, x

\* The third call is a second decision, or the message again.
MessageOrThird == {m1, x}
ApprovalOrThird == {a1, x}

TwoTechnicians == {1, 2}
DayAndEvening == {9, 18}
StaffRoles == {"operator", "admin"}

Slot(technician, hour) == [technician |-> technician, hour |-> hour]

Extraction(missing, urgency) == [missing |-> missing, urgency |-> urgency]

\* Too little, a request, an emergency, and a request from nowhere.
FourExtractions ==
  {Extraction({"information"}, "missing"), Extraction({}, "standard"),
   Extraction({}, "emergency"), Extraction({"location"}, "standard")}

\* Only the second has the skill, or both do.
TwoMatches == {{2}, {1, 2}}

\* The first is free by day, or the second is in the evening.
TwoCalendars == {{Slot(1, 9)}, {Slot(2, 18)}}
=============================================================================
