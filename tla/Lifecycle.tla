------------------------------ MODULE Lifecycle ------------------------------
(****************************************************************************)
(* The business state of FieldOps: service requests, the appointments that  *)
(* serve them and the reschedule requests between the two, with the outbox  *)
(* rows that every change of an appointment stages.                         *)
(*                                                                          *)
(* Every action is one committed database transaction of an endpoint or of  *)
(* a node of the agent graph, run alone.  (Module Booking splits            *)
(* transactions into their reads and writes.)  An HTTP error answer leaves  *)
(* the database as it was and is not a step.                                *)
(*                                                                          *)
(* Abstractions.  A time window is a pair of numbers and all windows lie in *)
(* the future; dispatch ranking and skill matching are a free choice among  *)
(* the technicians the code may pick; audit rows, notes and metrics are     *)
(* left out.  The appointment status "confirmed" is tested by the code but  *)
(* written by none of it, and so is not a state here.                       *)
(****************************************************************************)
EXTENDS Integers, Sequences, FiniteSets

CONSTANTS
  Requests,          \* ids of service requests
  Technicians,       \* ids of technicians
  Windows,           \* the time windows that may be proposed or asked for
  MaxAppointments,   \* bound: appointments ever created
  MaxReschedules,    \* bound: reschedule requests ever created
  Reassignable,      \* bound: appointments that may be reassigned
  MaxReassigns       \* bound: how many of them ever are

ASSUME WindowsAssumption ==
  /\ Windows \subseteq [start : Nat, end : Nat]
  /\ \A w \in Windows : w.start < w.end

ASSUME BoundsAssumption ==
  /\ MaxAppointments \in Nat
  /\ MaxReschedules \in Nat
  /\ Reassignable \subseteq Nat
  /\ MaxReassigns \in Nat

VARIABLES
  requestStatus,     \* service_requests.status; "none" before the row exists
  thread,            \* the LangGraph thread that works on the request
  proposal,          \* the proposal its checkpoint holds: empty or a singleton
  appointments,      \* the appointments table, in order of primary key
  reschedules,       \* the reschedule_requests table, in order of primary key
  outbox,            \* per appointment, its outbox events in order of id
  active             \* the technicians whose status is "active"

vars == <<requestStatus, thread, proposal, appointments, reschedules,
          outbox, active>>

------------------------------------------------------------------------------
RequestStatuses ==
  {"none", "created", "needs_information", "waiting_for_approval",
   "scheduled", "in_progress", "completed", "cancelled", "rejected",
   "conflict", "needs_rescheduling"}

AppointmentStatuses == {"scheduled", "in_progress", "completed", "cancelled"}

BlockingStatuses == {"scheduled", "in_progress"}

ThreadStatuses == {"none", "dispatching", "waiting_for_approval", "ended"}

RescheduleStatuses == {"pending", "approved", "rejected", "cancelled"}

EventTypes ==
  {"appointment.created", "appointment.started", "appointment.completed",
   "appointment.cancelled", "appointment.reassigned"}

Offers == [technician : Technicians, window : Windows]

Nil == 0             \* a NULL foreign key: primary keys start at 1

Appointment ==
  [request : Requests, technician : Technicians, window : Windows,
   status : AppointmentStatuses, replacedBy : Nat, rescheduledFrom : Nat]

RescheduleRequest ==
  [request : Requests, appointment : Nat, status : RescheduleStatuses,
   replacement : Nat]

(* Half-open windows [start, end) share an instant.                         *)
Overlaps(v, w) == v.start < w.end /\ v.end > w.start

Blocking(row) == row.status \in BlockingStatuses

(* Some row of the table other than those in except blocks technician t     *)
(* during window w.                                                         *)
Taken(table, except, t, w) ==
  \E b \in DOMAIN table \ except :
    /\ Blocking(table[b])
    /\ table[b].technician = t
    /\ Overlaps(table[b].window, w)

AppointmentsOf(r) == {a \in DOMAIN appointments : appointments[a].request = r}

(* The latest of a set of primary keys, as the empty set or a singleton:    *)
(* ORDER BY id DESC LIMIT 1.                                                *)
LatestOf(ids) == {a \in ids : \A b \in ids : b <= a}

LatestLive(r) ==
  LatestOf({a \in AppointmentsOf(r) : appointments[a].status # "cancelled"})

Pending(r) ==
  {q \in DOMAIN reschedules :
     reschedules[q].request = r /\ reschedules[q].status = "pending"}

NewAppointment(r, t, w, from) ==
  [request |-> r, technician |-> t, window |-> w, status |-> "scheduled",
   replacedBy |-> Nil, rescheduledFrom |-> from]

SetRequest(r, s) == requestStatus' = [requestStatus EXCEPT ![r] = s]

SetAppointment(a, s) ==
  appointments' = [appointments EXCEPT ![a].status = s]

Emit(a, e) == outbox' = [outbox EXCEPT ![a] = Append(@, e)]

(* The appointments in ids become cancelled and each stages its event.      *)
CancelRows(ids) ==
  [a \in DOMAIN appointments |->
     IF a \in ids THEN [appointments[a] EXCEPT !.status = "cancelled"]
                  ELSE appointments[a]]

CancelEvents(ids) ==
  [a \in DOMAIN outbox |->
     IF a \in ids THEN Append(outbox[a], "appointment.cancelled")
                  ELSE outbox[a]]

------------------------------------------------------------------------------
Init ==
  /\ requestStatus = [r \in Requests |-> "none"]
  /\ thread = [r \in Requests |-> "none"]
  /\ proposal = [r \in Requests |-> {}]
  /\ appointments = <<>>
  /\ reschedules = <<>>
  /\ outbox = <<>>
  /\ active = Technicians

------------------------------------------------------------------------------
(* Intake and the agent graph                                               *)

(* The graph's intake stores the request and goes on to dispatch.           *)
SubmitByWorkflow(r) ==
  /\ requestStatus[r] = "none"
  /\ SetRequest(r, "created")
  /\ thread' = [thread EXCEPT ![r] = "dispatching"]
  /\ UNCHANGED <<proposal, appointments, reschedules, outbox, active>>

(* Dispatch found an active technician that is free, and the graph stops at *)
(* the human review with that proposal in its checkpoint.                   *)
Propose(r, t, w) ==
  /\ thread[r] = "dispatching"
  /\ t \in active
  /\ ~ Taken(appointments, {}, t, w)
  /\ thread' = [thread EXCEPT ![r] = "waiting_for_approval"]
  /\ proposal' = [proposal EXCEPT ![r] = {[technician |-> t, window |-> w]}]
  /\ UNCHANGED <<requestStatus, appointments, reschedules, outbox, active>>

(* Dispatch ended without a proposal (no technician or no slot).            *)
EndWithoutProposal(r) ==
  /\ thread[r] = "dispatching"
  /\ thread' = [thread EXCEPT ![r] = "ended"]
  /\ UNCHANGED <<requestStatus, proposal, appointments, reschedules, outbox,
                 active>>

(* The customer portal stores a request without running the graph.          *)
SubmitByPortal(r) ==
  /\ requestStatus[r] = "none"
  /\ \E s \in {"waiting_for_approval", "needs_information"} : SetRequest(r, s)
  /\ UNCHANGED <<thread, proposal, appointments, reschedules, outbox, active>>

(* Mutant of Supplement: the request gets a status of its own.              *)
SupplementedStatus(r) ==
  /\ requestStatus[r] = "needs_information"
  /\ SetRequest(r, "supplemented")
  /\ UNCHANGED <<thread, proposal, appointments, reschedules, outbox, active>>

(* The customer adds what was missing.                                      *)
Supplement(r) ==
  /\ requestStatus[r] = "needs_information"
  /\ SetRequest(r, "waiting_for_approval")
  /\ UNCHANGED <<thread, proposal, appointments, reschedules, outbox, active>>

(* The paused graph is resumed.  Reading the snapshot and running the graph *)
(* are not one step: a second resume may have read the waiting snapshot too,*)
(* and a node commits before its checkpoint is written.  So the thread      *)
(* either ends or is resumed once more.                                     *)
Resume(r) ==
  /\ thread[r] = "waiting_for_approval"
  /\ \/ /\ thread' = [thread EXCEPT ![r] = "ended"]
        /\ proposal' = [proposal EXCEPT ![r] = {}]
     \/ UNCHANGED <<thread, proposal>>
  /\ UNCHANGED <<reschedules, active>>

HasBlockingLatest(r) ==
  \E a \in LatestOf(AppointmentsOf(r)) : Blocking(appointments[a])

(* Approval resumes the graph: finalize_appointment finds that the latest   *)
(* appointment of the request still blocks and returns it.                  *)
FinalizeExisting(r) ==
  /\ Resume(r)
  /\ HasBlockingLatest(r)
  /\ UNCHANGED <<requestStatus, appointments, outbox>>

(* ... or the proposed slot was taken meanwhile.                            *)
FinalizeConflict(r) ==
  /\ Resume(r)
  /\ ~ HasBlockingLatest(r)
  /\ \E p \in proposal[r] : Taken(appointments, {}, p.technician, p.window)
  /\ SetRequest(r, "needs_rescheduling")
  /\ UNCHANGED <<appointments, outbox>>

(* ... or the appointment is created.  The request's own status is not      *)
(* looked at.                                                               *)
FinalizeCreate(r) ==
  /\ Resume(r)
  /\ ~ HasBlockingLatest(r)
  /\ Len(appointments) < MaxAppointments
  /\ \E p \in proposal[r] :
       /\ ~ Taken(appointments, {}, p.technician, p.window)
       /\ appointments' = Append(appointments,
                            NewAppointment(r, p.technician, p.window, Nil))
  /\ outbox' = Append(outbox, <<"appointment.created">>)
  /\ SetRequest(r, "scheduled")

(* Rejection resumes the graph and marks the request rejected.              *)
HandleRejection(r) ==
  /\ Resume(r)
  /\ SetRequest(r, "rejected")
  /\ UNCHANGED <<appointments, outbox>>

(* The process dies between the checkpoint of the decision and the          *)
(* transaction: nothing is booked and the thread cannot be resumed again.   *)
LoseDecision(r) ==
  /\ thread[r] = "waiting_for_approval"
  /\ thread' = [thread EXCEPT ![r] = "ended"]
  /\ proposal' = [proposal EXCEPT ![r] = {}]
  /\ UNCHANGED <<requestStatus, appointments, reschedules, outbox, active>>

------------------------------------------------------------------------------
(* Operator decisions on a request that is addressed by its database id and *)
(* so has no graph thread under that name                                   *)

ApprovableStatuses ==
  {"created", "waiting_for_approval", "needs_rescheduling"}

TakenByOthers(r, t, w) == Taken(appointments, AppointmentsOf(r), t, w)

BlockingOf(r) == {a \in AppointmentsOf(r) : Blocking(appointments[a])}

DirectReject(r) ==
  /\ requestStatus[r] \in ApprovableStatuses
  /\ SetRequest(r, "rejected")
  /\ UNCHANGED <<thread, proposal, appointments, reschedules, outbox, active>>

(* No active technician, or the best ranked one is taken.                   *)
DirectConflict(r) ==
  /\ requestStatus[r] \in ApprovableStatuses
  /\ \/ active = {}
     \/ \E t \in active, w \in Windows : TakenByOthers(r, t, w)
  /\ SetRequest(r, "conflict")
  /\ UNCHANGED <<thread, proposal, appointments, reschedules, outbox, active>>

(* Mutant of DirectApprove: superseded appointments stage no event.         *)
SupersedeSilently(r, t, w) ==
  /\ requestStatus[r] \in ApprovableStatuses
  /\ t \in active
  /\ ~ TakenByOthers(r, t, w)
  /\ Len(appointments) < MaxAppointments
  /\ appointments' = Append(CancelRows(BlockingOf(r)),
                            NewAppointment(r, t, w, Nil))
  /\ outbox' = Append(outbox, <<"appointment.created">>)
  /\ SetRequest(r, "scheduled")
  /\ UNCHANGED <<thread, proposal, reschedules, active>>

(* Every appointment of the request that still blocks is superseded.        *)
DirectApprove(r, t, w) ==
  /\ requestStatus[r] \in ApprovableStatuses
  /\ t \in active
  /\ ~ TakenByOthers(r, t, w)
  /\ Len(appointments) < MaxAppointments
  /\ appointments' = Append(CancelRows(BlockingOf(r)),
                            NewAppointment(r, t, w, Nil))
  /\ outbox' = Append(CancelEvents(BlockingOf(r)), <<"appointment.created">>)
  /\ SetRequest(r, "scheduled")
  /\ UNCHANGED <<thread, proposal, reschedules, active>>

------------------------------------------------------------------------------
(* The lifecycle of an appointment                                          *)

(* Mutant of StartService: only a completed visit is refused.               *)
StartUnlessCompleted(a) ==
  /\ appointments[a].status # "completed"
  /\ SetAppointment(a, "in_progress")
  /\ SetRequest(appointments[a].request, "in_progress")
  /\ Emit(a, "appointment.started")
  /\ UNCHANGED <<thread, proposal, reschedules, active>>

StartService(a) ==
  /\ appointments[a].status = "scheduled"
  /\ SetAppointment(a, "in_progress")
  /\ SetRequest(appointments[a].request, "in_progress")
  /\ Emit(a, "appointment.started")
  /\ UNCHANGED <<thread, proposal, reschedules, active>>

CompleteService(a) ==
  /\ appointments[a].status \in {"in_progress", "scheduled"}
  /\ SetAppointment(a, "completed")
  /\ SetRequest(appointments[a].request, "completed")
  /\ Emit(a, "appointment.completed")
  /\ UNCHANGED <<thread, proposal, reschedules, active>>

(* What cancel_request writes once its checks have passed: the request, the *)
(* chosen appointment and the pending reschedule requests all end.          *)
CancelAll(r, chosen) ==
  LET ids == {a \in chosen : appointments[a].status # "cancelled"} IN
  /\ appointments' = CancelRows(ids)
  /\ outbox' = CancelEvents(ids)
  /\ SetRequest(r, "cancelled")
  /\ reschedules' = [q \in DOMAIN reschedules |->
                       IF q \in Pending(r)
                       THEN [reschedules[q] EXCEPT !.status = "cancelled"]
                       ELSE reschedules[q]]
  /\ UNCHANGED <<thread, proposal, active>>

(* The operator cancels by the appointment's id.                            *)
CancelAppointment(a) ==
  LET r == appointments[a].request IN
  /\ appointments[a].status # "completed"
  /\ requestStatus[r] # "completed"
  /\ appointments[a].status # "cancelled" \/ requestStatus[r] # "cancelled"
  /\ CancelAll(r, {a})

(* The customer cancels by the request's id; the appointment is the latest  *)
(* that is not cancelled, if any.                                           *)
CancelRequest(r) ==
  /\ requestStatus[r] \notin {"none", "completed", "in_progress"}
  /\ \A a \in LatestLive(r) :
       appointments[a].status \notin {"completed", "in_progress"}
  /\ LatestLive(r) # {} \/ requestStatus[r] # "cancelled"
  /\ CancelAll(r, LatestLive(r))

(* The customer portal cancels an appointment by itself, without            *)
(* cancel_request.                                                          *)
CancelCustomerAppointment(a) ==
  /\ appointments[a].status \notin {"completed", "cancelled", "in_progress"}
  /\ SetAppointment(a, "cancelled")
  /\ SetRequest(appointments[a].request, "cancelled")
  /\ Emit(a, "appointment.cancelled")
  /\ UNCHANGED <<thread, proposal, reschedules, active>>

(* The customer asks for another time.  A pending reschedule request keeps  *)
(* the appointment it was made for.                                         *)
RequestReschedule(r) ==
  /\ requestStatus[r] \notin {"none", "completed", "cancelled", "in_progress"}
  /\ \E a \in LatestLive(r) :
       /\ appointments[a].status \notin {"completed", "in_progress"}
       /\ \/ /\ Pending(r) # {}
             /\ UNCHANGED reschedules
          \/ /\ Pending(r) = {}
             /\ Len(reschedules) < MaxReschedules
             /\ reschedules' = Append(reschedules,
                  [request |-> r, appointment |-> a, status |-> "pending",
                   replacement |-> Nil])
  /\ SetRequest(r, "needs_rescheduling")
  /\ UNCHANGED <<thread, proposal, appointments, outbox, active>>

(* Mutant of ApproveReschedule: the request stays pending.                  *)
ApproveKeepsPending(q, t, w) ==
  LET r   == reschedules[q].request
      old == reschedules[q].appointment
      new == Len(appointments) + 1
  IN
  /\ reschedules[q].status = "pending"
  /\ Len(appointments) < MaxAppointments
  /\ ~ Taken(appointments, {}, t, w)
  /\ appointments' =
       Append([appointments EXCEPT ![old] =
                 [@ EXCEPT !.status = "cancelled", !.replacedBy = new]],
              NewAppointment(r, t, w, old))
  /\ outbox' = Append(CancelEvents({old}), <<"appointment.created">>)
  /\ reschedules' = [reschedules EXCEPT ![q].replacement = new]
  /\ SetRequest(r, "scheduled")
  /\ UNCHANGED <<thread, proposal, active>>

(* Mutant of ApproveReschedule: the new slot is not checked.                *)
ApproveUnchecked(q, t, w) ==
  LET r   == reschedules[q].request
      old == reschedules[q].appointment
      new == Len(appointments) + 1
  IN
  /\ reschedules[q].status = "pending"
  /\ Len(appointments) < MaxAppointments
  /\ appointments' =
       Append([appointments EXCEPT ![old] =
                 [@ EXCEPT !.status = "cancelled", !.replacedBy = new]],
              NewAppointment(r, t, w, old))
  /\ outbox' = Append(CancelEvents({old}), <<"appointment.created">>)
  /\ reschedules' = [reschedules EXCEPT ![q] =
                       [@ EXCEPT !.status = "approved", !.replacement = new]]
  /\ SetRequest(r, "scheduled")
  /\ UNCHANGED <<thread, proposal, active>>

(* The replacement is inserted while the old appointment still stands, then *)
(* the old one is cancelled, whatever its status.                           *)
ApproveReschedule(q, t, w) ==
  LET r   == reschedules[q].request
      old == reschedules[q].appointment
      new == Len(appointments) + 1
  IN
  /\ reschedules[q].status = "pending"
  /\ Len(appointments) < MaxAppointments
  /\ ~ Taken(appointments, {}, t, w)
  /\ appointments' =
       Append([appointments EXCEPT ![old] =
                 [@ EXCEPT !.status = "cancelled", !.replacedBy = new]],
              NewAppointment(r, t, w, old))
  /\ outbox' = Append(CancelEvents({old}), <<"appointment.created">>)
  /\ reschedules' = [reschedules EXCEPT ![q] =
                       [@ EXCEPT !.status = "approved", !.replacement = new]]
  /\ SetRequest(r, "scheduled")
  /\ UNCHANGED <<thread, proposal, active>>

(* Mutant of RejectReschedule: the request always goes back to scheduled.   *)
RejectToScheduled(q) ==
  /\ reschedules[q].status = "pending"
  /\ reschedules' = [reschedules EXCEPT ![q].status = "rejected"]
  /\ SetRequest(reschedules[q].request, "scheduled")
  /\ UNCHANGED <<thread, proposal, appointments, outbox, active>>

RejectReschedule(q) ==
  LET r == reschedules[q].request IN
  /\ reschedules[q].status = "pending"
  /\ reschedules' = [reschedules EXCEPT ![q].status = "rejected"]
  /\ IF \E a \in AppointmentsOf(r) : appointments[a].status = "scheduled"
     THEN SetRequest(r, "scheduled")
     ELSE UNCHANGED requestStatus
  /\ UNCHANGED <<thread, proposal, appointments, outbox, active>>

Reassigned ==
  {a \in DOMAIN outbox :
     \E i \in DOMAIN outbox[a] : outbox[a][i] = "appointment.reassigned"}

(* Only the exclusion constraint of the table stands against a clash.       *)
ReassignTechnician(a, t) ==
  /\ appointments[a].status = "scheduled"
  /\ t \in active
  /\ ~ Taken(appointments, {a}, t, appointments[a].window)
  /\ a \in Reassignable
  /\ Cardinality(Reassigned) < MaxReassigns
  /\ appointments' = [appointments EXCEPT ![a].technician = t]
  /\ Emit(a, "appointment.reassigned")
  /\ UNCHANGED <<requestStatus, thread, proposal, reschedules, active>>

------------------------------------------------------------------------------
(* Administration of technicians                                            *)

DeactivateTechnician(t) ==
  /\ t \in active
  /\ \A a \in DOMAIN appointments :
       ~ (appointments[a].technician = t /\ appointments[a].status = "scheduled")
  /\ active' = active \ {t}
  /\ UNCHANGED <<requestStatus, thread, proposal, appointments, reschedules,
                 outbox>>

ActivateTechnician(t) ==
  /\ active' = active \cup {t}
  /\ UNCHANGED <<requestStatus, thread, proposal, appointments, reschedules,
                 outbox>>

------------------------------------------------------------------------------
Next ==
  \/ \E r \in Requests :
       \/ SubmitByWorkflow(r)
       \/ SubmitByPortal(r)
       \/ Supplement(r)
       \/ EndWithoutProposal(r)
       \/ FinalizeExisting(r)
       \/ FinalizeConflict(r)
       \/ FinalizeCreate(r)
       \/ HandleRejection(r)
       \/ LoseDecision(r)
       \/ DirectReject(r)
       \/ DirectConflict(r)
       \/ CancelRequest(r)
       \/ RequestReschedule(r)
  \/ \E r \in Requests, t \in Technicians, w \in Windows :
       \/ Propose(r, t, w)
       \/ DirectApprove(r, t, w)
  \/ \E a \in DOMAIN appointments :
       \/ StartService(a)
       \/ CompleteService(a)
       \/ CancelAppointment(a)
       \/ CancelCustomerAppointment(a)
  \/ \E a \in DOMAIN appointments, t \in Technicians : ReassignTechnician(a, t)
  \/ \E q \in DOMAIN reschedules : RejectReschedule(q)
  \/ \E q \in DOMAIN reschedules, t \in Technicians, w \in Windows :
       ApproveReschedule(q, t, w)
  \/ \E t \in Technicians : DeactivateTechnician(t) \/ ActivateTechnician(t)

Spec == Init /\ [][Next]_vars

------------------------------------------------------------------------------
(* Properties                                                               *)

TypeOK ==
  /\ requestStatus \in [Requests -> RequestStatuses]
  /\ thread \in [Requests -> ThreadStatuses]
  /\ proposal \in [Requests -> SUBSET Offers]
  /\ appointments \in Seq(Appointment)
  /\ reschedules \in Seq(RescheduleRequest)
  /\ outbox \in Seq(Seq(EventTypes))
  /\ active \subseteq Technicians

(* No technician is expected at two visits at one instant, whichever of the *)
(* five ways an appointment gets its technician and window was taken:       *)
(* finalize, direct approval, reschedule approval, reassignment, start.     *)
Instants(w) == w.start .. (w.end - 1)

NoDoubleBooking ==
  \A a, b \in DOMAIN appointments :
    /\ a # b
    /\ Blocking(appointments[a])
    /\ Blocking(appointments[b])
    /\ appointments[a].technician = appointments[b].technician
    => Instants(appointments[a].window) \cap Instants(appointments[b].window)
         = {}

(* The status a request shows is backed by one of its appointments: a       *)
(* scheduled request has a visit ahead or under way, one in progress has a  *)
(* visit under way, a completed one has a completed visit, and a cancelled  *)
(* one with visits has a cancelled one.  The status is written by nine      *)
(* transactions that look at different rows.                                *)
RequestStatusIsBacked ==
  \A r \in Requests :
    LET statuses == {appointments[a].status : a \in AppointmentsOf(r)} IN
    /\ requestStatus[r] = "scheduled" => statuses \cap BlockingStatuses # {}
    /\ requestStatus[r] = "in_progress" => "in_progress" \in statuses
    /\ requestStatus[r] = "completed" => "completed" \in statuses
    /\ requestStatus[r] = "cancelled" => statuses = {} \/ "cancelled" \in statuses

\* A request has at most one reschedule request awaiting an operator, and it
\* is for the end of one of the request's chains.
PendingIsAtAnEnd ==
  \A q \in DOMAIN reschedules :
    LET row == reschedules[q] IN
    row.status = "pending" =>
      /\ Pending(row.request) = {q}
      /\ row.appointment \in AppointmentsOf(row.request)
      /\ appointments[row.appointment].replacedBy = Nil

\* The two links between an appointment and its replacement agree, stay
\* inside one request, lead forward, and only a cancelled appointment has been
\* replaced.
LinksAgree ==
  \A a \in DOMAIN appointments :
    LET b == appointments[a].replacedBy
        o == appointments[a].rescheduledFrom
    IN
    /\ b # Nil =>
         /\ b \in DOMAIN appointments /\ a < b
         /\ appointments[b].rescheduledFrom = a
         /\ appointments[b].request = appointments[a].request
         /\ appointments[a].status = "cancelled"
    /\ o # Nil =>
         /\ o \in DOMAIN appointments
         /\ appointments[o].replacedBy = a

(* Rescheduling keeps the appointments of a request in chains, and what     *)
(* awaits an operator is one reschedule at an end of them.                  *)
ReplacementChain == LinksAgree /\ PendingIsAtAnEnd

(* The status an appointment has after the event was staged.                *)
StatusAfter(e) ==
  CASE e \in {"appointment.created", "appointment.reassigned"} -> "scheduled"
    [] e = "appointment.started" -> "in_progress"
    [] e = "appointment.completed" -> "completed"
    [] e = "appointment.cancelled" -> "cancelled"

(* The outbox tells the whole story of every appointment: its events start  *)
(* with the creation, which is staged once, and replaying them ends in the  *)
(* status of the row, so no transaction changes a row without its event.    *)
OutboxTellsTheStory ==
  /\ DOMAIN outbox = DOMAIN appointments
  /\ \A a \in DOMAIN outbox :
       LET events == outbox[a] IN
       /\ \A i \in DOMAIN events :
            events[i] = "appointment.created" <=> i = 1
       /\ Len(events) > 0
       /\ appointments[a].status = StatusAfter(events[Len(events)])

(* A cancelled appointment is never taken up again: its slot may have been  *)
(* given away and its calendar entry removed.                               *)
CancelledIsFinal ==
  [][\A a \in DOMAIN appointments :
       appointments[a].status = "cancelled" =>
         appointments'[a].status = "cancelled"]_vars

(* What dispatch promises of the technicians' time, whatever happens to     *)
(* requests: see module TechnicianCalendar.                                 *)
Bookings ==
  {[appointment |-> a, technician |-> appointments[a].technician,
    window |-> appointments[a].window] :
     a \in {b \in DOMAIN appointments : Blocking(appointments[b])}}

Calendar == INSTANCE TechnicianCalendar
              WITH bookings <- Bookings, used <- DOMAIN appointments

ImplementsCalendar == Calendar!Spec

(* What the outbox tells of each appointment, whichever transaction tells   *)
(* it, is a story that CalendarSync and Notifications are ready for: see    *)
(* module AppointmentStories.                                               *)
Stories ==
  [a \in 1 .. MaxAppointments |->
     IF a \in DOMAIN appointments
     THEN [status |-> appointments[a].status, staged |-> outbox[a]]
     ELSE [status |-> "none", staged |-> <<>>]]

Story == INSTANCE AppointmentStories
           WITH Ids <- 1 .. MaxAppointments, stories <- Stories

TellsStories == Story!Spec
==============================================================================
