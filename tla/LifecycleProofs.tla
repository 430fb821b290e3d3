--------------------------- MODULE LifecycleProofs ---------------------------
(****************************************************************************)
(* Type correctness of Lifecycle, the safety of its tables, and what it     *)
(* keeps true of the histories of its rows, for any number of requests,     *)
(* technicians, windows and rows: the outbox tells them, the links of       *)
(* rescheduling are chains, the status of a request is backed, the steps    *)
(* are those of the technicians' calendar, and what the outbox tells of     *)
(* each appointment is a story of AppointmentStories.                       *)
(****************************************************************************)
EXTENDS Lifecycle, SequenceTheorems, WellFoundedInduction, TLAPS

------------------------------------------------------------------------------
(* Tables are sequences                                                     *)

(* A function on 1..n is a sequence of length n.                            *)
LEMMA FunctionIsSeq ==
  ASSUME NEW S, NEW n \in Nat, NEW f \in [1 .. n -> S]
  PROVE  f \in Seq(S) /\ Len(f) = n
<1>1. f \in Seq(S)
  BY SeqDef
<1>2. 1 .. Len(f) = 1 .. n /\ Len(f) \in Nat
  BY <1>1, LenProperties
<1> QED
  BY <1>1, <1>2

(* What the keys and the rows of a table are.                               *)
LEMMA TableFacts ==
  ASSUME NEW S, NEW table \in Seq(S)
  PROVE  /\ Len(table) \in Nat
         /\ DOMAIN table = 1 .. Len(table)
         /\ \A a \in DOMAIN table : a \in Nat \ {0} /\ table[a] \in S
         /\ table \in [DOMAIN table -> S]
  BY LenProperties

(* Overwriting one row, if it exists.                                       *)
LEMMA UpdateRow ==
  ASSUME NEW S, NEW table \in Seq(S), NEW a, NEW v,
         a \in DOMAIN table => v \in S
  PROVE  [table EXCEPT ![a] = v] \in Seq(S)
<1>1. [table EXCEPT ![a] = v] \in [1 .. Len(table) -> S]
  BY TableFacts
<1> QED
  BY <1>1, TableFacts, FunctionIsSeq

(* Appending a row leaves the others alone.                                 *)
LEMMA AppendRow ==
  ASSUME NEW S, NEW table \in Seq(S), NEW v \in S
  PROVE  /\ Append(table, v) \in Seq(S)
         /\ DOMAIN Append(table, v) = DOMAIN table \cup {Len(table) + 1}
         /\ \A a \in DOMAIN table : Append(table, v)[a] = table[a]
         /\ Append(table, v)[Len(table) + 1] = v
         /\ Len(table) + 1 \notin DOMAIN table
<1>1. Len(table) \in Nat /\ DOMAIN table = 1 .. Len(table)
  BY TableFacts
<1>2. /\ Append(table, v) \in Seq(S)
      /\ Len(Append(table, v)) = Len(table) + 1
      /\ \A i \in 1 .. Len(table) : Append(table, v)[i] = table[i]
      /\ Append(table, v)[Len(table) + 1] = v
  BY AppendProperties
<1>3. DOMAIN Append(table, v) = 1 .. Len(table) + 1
  BY <1>2, TableFacts
<1> QED
  BY <1>1, <1>2, <1>3

(* Every row of the appointments table is an appointment.                   *)
LEMMA AppointmentRow ==
  ASSUME TypeOK, NEW a \in DOMAIN appointments
  PROVE  appointments[a] \in Appointment
  BY TableFacts DEF TypeOK

(* CancelRows changes nothing but the status of the chosen rows.            *)
LEMMA CancelRowsFacts ==
  ASSUME TypeOK, NEW ids
  PROVE  /\ CancelRows(ids) \in Seq(Appointment)
         /\ Len(CancelRows(ids)) = Len(appointments)
         /\ DOMAIN CancelRows(ids) = DOMAIN appointments
         /\ \A a \in DOMAIN appointments :
              CancelRows(ids)[a] =
                IF a \in ids THEN [appointments[a] EXCEPT !.status = "cancelled"]
                             ELSE appointments[a]
<1>1. /\ Len(appointments) \in Nat
      /\ DOMAIN appointments = 1 .. Len(appointments)
      /\ \A a \in DOMAIN appointments : appointments[a] \in Appointment
  BY TableFacts DEF TypeOK
<1>2. CancelRows(ids) \in [1 .. Len(appointments) -> Appointment]
  BY <1>1 DEF CancelRows, Appointment, AppointmentStatuses
<1>3. CancelRows(ids) \in Seq(Appointment) /\ Len(CancelRows(ids)) = Len(appointments)
  BY <1>1, <1>2, FunctionIsSeq
<1> QED
  BY <1>1, <1>3 DEF CancelRows

(* CancelEvents appends one event to the chosen histories.                  *)
LEMMA CancelEventsFacts ==
  ASSUME TypeOK, NEW ids
  PROVE  /\ CancelEvents(ids) \in Seq(Seq(EventTypes))
         /\ Len(CancelEvents(ids)) = Len(outbox)
         /\ DOMAIN CancelEvents(ids) = DOMAIN outbox
<1>1. /\ Len(outbox) \in Nat
      /\ DOMAIN outbox = 1 .. Len(outbox)
      /\ \A a \in DOMAIN outbox : outbox[a] \in Seq(EventTypes)
  BY TableFacts DEF TypeOK
<1>2. ASSUME NEW a \in DOMAIN outbox
      PROVE  Append(outbox[a], "appointment.cancelled") \in Seq(EventTypes)
  BY <1>1, AppendProperties DEF EventTypes
<1>3. CancelEvents(ids) \in [1 .. Len(outbox) -> Seq(EventTypes)]
  BY <1>1, <1>2 DEF CancelEvents
<1> QED
  BY <1>1, <1>3, FunctionIsSeq DEF CancelEvents

(* Emit appends one event to one history.                                   *)
LEMMA EmitType ==
  ASSUME TypeOK, NEW a, NEW e \in EventTypes, Emit(a, e)
  PROVE  outbox' \in Seq(Seq(EventTypes))
<1>1. outbox \in Seq(Seq(EventTypes))
  BY DEF TypeOK
<1>2. a \in DOMAIN outbox => Append(outbox[a], e) \in Seq(EventTypes)
  BY <1>1, TableFacts, AppendProperties
<1>3. outbox' = [outbox EXCEPT ![a] = Append(outbox[a], e)]
  BY DEF Emit
<1> QED
  BY <1>1, <1>2, <1>3, UpdateRow

(* SetAppointment gives one row another status.                             *)
LEMMA SetAppointmentType ==
  ASSUME TypeOK, NEW a \in DOMAIN appointments, NEW s \in AppointmentStatuses,
         SetAppointment(a, s)
  PROVE  appointments' \in Seq(Appointment)
<1>1. appointments \in Seq(Appointment) /\ appointments[a] \in Appointment
  BY TableFacts DEF TypeOK
<1>2. [appointments[a] EXCEPT !.status = s] \in Appointment
  BY <1>1 DEF Appointment
<1>3. appointments' = [appointments EXCEPT ![a] = [appointments[a] EXCEPT !.status = s]]
  BY DEF SetAppointment
<1> QED
  BY <1>1, <1>2, <1>3, UpdateRow

(* A new appointment is one.                                                *)
LEMMA NewAppointmentType ==
  ASSUME NEW r \in Requests, NEW t \in Technicians, NEW w \in Windows,
         NEW from \in Nat
  PROVE  NewAppointment(r, t, w, from) \in Appointment
  BY DEF NewAppointment, Appointment, AppointmentStatuses, Nil

------------------------------------------------------------------------------
(* Type correctness                                                         *)

(* The initial state has the types of TypeOK.                               *)
LEMMA InitTypeOK == Init => TypeOK
  BY EmptySeq DEF Init, TypeOK, RequestStatuses, ThreadStatuses

(* The steps that touch neither table.                                      *)
LEMMA RequestStepTypeOK ==
  ASSUME TypeOK, NEW r \in Requests,
         UNCHANGED <<appointments, reschedules, outbox>>,
         requestStatus' = requestStatus
           \/ \E s \in RequestStatuses : SetRequest(r, s),
         thread' = thread
           \/ \E s \in ThreadStatuses : thread' = [thread EXCEPT ![r] = s],
         proposal' = proposal
           \/ \E o \in SUBSET Offers : proposal' = [proposal EXCEPT ![r] = o],
         active' \subseteq Technicians
  PROVE  TypeOK'
  BY DEF TypeOK, SetRequest

(* The appointment that LatestLive chooses is a row of the table.           *)
LEMMA LatestLiveFacts ==
  ASSUME NEW r, NEW a \in LatestLive(r)
  PROVE  /\ a \in DOMAIN appointments
         /\ appointments[a].request = r
         /\ appointments[a].status # "cancelled"
  BY DEF LatestLive, LatestOf, AppointmentsOf

(* finalize_appointment inserts at most one row.                            *)
LEMMA FinalizeCreateTypeOK ==
  ASSUME TypeOK, NEW r \in Requests, FinalizeCreate(r)
  PROVE  TypeOK'
<1>1. PICK p \in proposal[r] :
        appointments' = Append(appointments,
                          NewAppointment(r, p.technician, p.window, Nil))
  BY DEF FinalizeCreate
<1>2. p.technician \in Technicians /\ p.window \in Windows
  BY DEF TypeOK, Offers
<1>3. appointments' \in Seq(Appointment)
  BY <1>1, <1>2, AppendRow, NewAppointmentType DEF TypeOK, Nil
<1>4. outbox' \in Seq(Seq(EventTypes))
  <2>1. <<"appointment.created">> \in Seq(EventTypes)
    BY DEF EventTypes
  <2> QED
    BY <2>1, AppendRow DEF TypeOK, FinalizeCreate
<1>5. /\ requestStatus' \in [Requests -> RequestStatuses]
      /\ thread' \in [Requests -> ThreadStatuses]
      /\ proposal' \in [Requests -> SUBSET Offers]
      /\ UNCHANGED <<reschedules, active>>
  BY DEF TypeOK, FinalizeCreate, Resume, SetRequest, RequestStatuses,
         ThreadStatuses
<1> QED
  BY <1>3, <1>4, <1>5 DEF TypeOK

(* The direct approval supersedes and inserts.                              *)
LEMMA DirectApproveTypeOK ==
  ASSUME TypeOK, NEW r \in Requests, NEW t \in Technicians, NEW w \in Windows,
         DirectApprove(r, t, w)
  PROVE  TypeOK'
<1>1. appointments' \in Seq(Appointment)
  BY CancelRowsFacts, AppendRow, NewAppointmentType DEF DirectApprove, Nil
<1>2. outbox' \in Seq(Seq(EventTypes))
  <2>1. <<"appointment.created">> \in Seq(EventTypes)
    BY DEF EventTypes
  <2> QED
    BY <2>1, AppendRow, CancelEventsFacts DEF DirectApprove
<1>3. /\ requestStatus' \in [Requests -> RequestStatuses]
      /\ UNCHANGED <<thread, proposal, reschedules, active>>
  BY DEF TypeOK, DirectApprove, SetRequest, RequestStatuses
<1> QED
  BY <1>1, <1>2, <1>3 DEF TypeOK

(* The three writes that change one row and the status of its request.      *)
LEMMA VisitStepTypeOK ==
  ASSUME TypeOK, NEW a \in DOMAIN appointments,
         NEW s \in AppointmentStatuses, SetAppointment(a, s),
         NEW rs \in RequestStatuses, SetRequest(appointments[a].request, rs),
         NEW e \in EventTypes, Emit(a, e),
         UNCHANGED <<thread, proposal, reschedules, active>>
  PROVE  TypeOK'
<1>1. appointments' \in Seq(Appointment) /\ outbox' \in Seq(Seq(EventTypes))
  BY SetAppointmentType, EmitType
<1>2. requestStatus' \in [Requests -> RequestStatuses]
  BY DEF TypeOK, SetRequest
<1> QED
  BY <1>1, <1>2 DEF TypeOK

(* cancel_request.                                                          *)
LEMMA CancelAllTypeOK ==
  ASSUME TypeOK, NEW r \in Requests, NEW chosen, CancelAll(r, chosen)
  PROVE  TypeOK'
<1>1. PICK ids : /\ appointments' = CancelRows(ids)
                 /\ outbox' = CancelEvents(ids)
  BY DEF CancelAll
<1>2. appointments' \in Seq(Appointment) /\ outbox' \in Seq(Seq(EventTypes))
  BY <1>1, CancelRowsFacts, CancelEventsFacts
<1>3. reschedules' \in Seq(RescheduleRequest)
  <2>1. /\ Len(reschedules) \in Nat
        /\ DOMAIN reschedules = 1 .. Len(reschedules)
        /\ \A q \in DOMAIN reschedules : reschedules[q] \in RescheduleRequest
    BY TableFacts DEF TypeOK
  <2>2. reschedules' = [q \in DOMAIN reschedules |->
                         IF q \in Pending(r)
                         THEN [reschedules[q] EXCEPT !.status = "cancelled"]
                         ELSE reschedules[q]]
    BY DEF CancelAll
  <2>3. reschedules' \in [1 .. Len(reschedules) -> RescheduleRequest]
    BY <2>1, <2>2 DEF RescheduleRequest, RescheduleStatuses
  <2> QED
    BY <2>1, <2>3, FunctionIsSeq
<1>4. /\ requestStatus' \in [Requests -> RequestStatuses]
      /\ UNCHANGED <<thread, proposal, active>>
  BY DEF TypeOK, CancelAll, SetRequest, RequestStatuses
<1> QED
  BY <1>2, <1>3, <1>4 DEF TypeOK

(* request_reschedule.                                                      *)
LEMMA RequestRescheduleTypeOK ==
  ASSUME TypeOK, NEW r \in Requests, RequestReschedule(r)
  PROVE  TypeOK'
<1>1. reschedules' \in Seq(RescheduleRequest)
  <2>1. PICK a \in LatestLive(r) :
          \/ UNCHANGED reschedules
          \/ reschedules' = Append(reschedules,
               [request |-> r, appointment |-> a, status |-> "pending",
                replacement |-> Nil])
    BY DEF RequestReschedule
  <2>2. a \in Nat
    BY LatestLiveFacts, TableFacts DEF TypeOK
  <2>3. [request |-> r, appointment |-> a, status |-> "pending",
         replacement |-> Nil] \in RescheduleRequest
    BY <2>2 DEF RescheduleRequest, RescheduleStatuses, Nil
  <2>4. reschedules \in Seq(RescheduleRequest)
    BY DEF TypeOK
  <2>5. Append(reschedules, [request |-> r, appointment |-> a,
                             status |-> "pending", replacement |-> Nil])
          \in Seq(RescheduleRequest)
    BY <2>3, <2>4, AppendRow
  <2> QED
    BY <2>1, <2>4, <2>5
<1>2. /\ requestStatus' \in [Requests -> RequestStatuses]
      /\ UNCHANGED <<thread, proposal, appointments, outbox, active>>
  BY DEF TypeOK, RequestReschedule, SetRequest, RequestStatuses
<1> QED
  BY <1>1, <1>2 DEF TypeOK

(* What approve_reschedule leaves of the table before it appends: the old   *)
(* row, cancelled and linked to the new one.                                *)
Replaced(old, new) ==
  [appointments EXCEPT ![old] =
     [@ EXCEPT !.status = "cancelled", !.replacedBy = new]]

LEMMA ReplacedFacts ==
  ASSUME TypeOK, NEW old, NEW new \in Nat
  PROVE  /\ Replaced(old, new) \in Seq(Appointment)
         /\ Len(Replaced(old, new)) = Len(appointments)
         /\ DOMAIN Replaced(old, new) = DOMAIN appointments
         /\ \A a \in DOMAIN appointments :
              Replaced(old, new)[a] =
                IF a = old
                THEN [appointments[a] EXCEPT !.status = "cancelled",
                                             !.replacedBy = new]
                ELSE appointments[a]
<1>1. /\ Len(appointments) \in Nat
      /\ DOMAIN appointments = 1 .. Len(appointments)
      /\ appointments \in Seq(Appointment)
      /\ \A a \in DOMAIN appointments : appointments[a] \in Appointment
  BY TableFacts DEF TypeOK
<1>2. old \in DOMAIN appointments =>
        [appointments[old] EXCEPT !.status = "cancelled", !.replacedBy = new]
          \in Appointment
  BY <1>1 DEF Appointment, AppointmentStatuses
<1>3. Replaced(old, new) \in Seq(Appointment)
  BY <1>1, <1>2, UpdateRow DEF Replaced
<1>4. DOMAIN Replaced(old, new) = DOMAIN appointments
  BY DEF Replaced
<1>5. Len(Replaced(old, new)) = Len(appointments)
  BY <1>1, <1>3, <1>4, TableFacts
<1> QED
  BY <1>1, <1>3, <1>4, <1>5 DEF Replaced

(* approve_reschedule.                                                      *)
LEMMA ApproveRescheduleTypeOK ==
  ASSUME TypeOK, NEW q \in DOMAIN reschedules, NEW t \in Technicians,
         NEW w \in Windows, ApproveReschedule(q, t, w)
  PROVE  TypeOK'
<1> DEFINE r == reschedules[q].request
           old == reschedules[q].appointment
           new == Len(appointments) + 1
<1>1. reschedules[q] \in RescheduleRequest /\ new \in Nat
  BY TableFacts DEF TypeOK
<1>2. r \in Requests /\ old \in Nat
  BY <1>1 DEF RescheduleRequest
<1>3. appointments' = Append(Replaced(old, new), NewAppointment(r, t, w, old))
  BY DEF ApproveReschedule, Replaced
<1>4. appointments' \in Seq(Appointment)
  BY <1>1, <1>2, <1>3, ReplacedFacts, NewAppointmentType, AppendRow
<1>5. outbox' \in Seq(Seq(EventTypes))
  <2>1. <<"appointment.created">> \in Seq(EventTypes)
    BY DEF EventTypes
  <2> QED
    BY <2>1, AppendRow, CancelEventsFacts DEF ApproveReschedule
<1>6. reschedules' \in Seq(RescheduleRequest)
  <2>1. reschedules' = [reschedules EXCEPT ![q] =
           [reschedules[q] EXCEPT !.status = "approved", !.replacement = new]]
    BY DEF ApproveReschedule
  <2>2. [reschedules[q] EXCEPT !.status = "approved", !.replacement = new]
          \in RescheduleRequest
    BY <1>1 DEF RescheduleRequest, RescheduleStatuses
  <2> QED
    BY <2>1, <2>2, UpdateRow DEF TypeOK
<1>7. /\ requestStatus' \in [Requests -> RequestStatuses]
      /\ UNCHANGED <<thread, proposal, active>>
  BY <1>2 DEF TypeOK, ApproveReschedule, SetRequest, RequestStatuses
<1> QED
  BY <1>4, <1>5, <1>6, <1>7 DEF TypeOK

(* reject_reschedule.                                                       *)
LEMMA RejectRescheduleTypeOK ==
  ASSUME TypeOK, NEW q \in DOMAIN reschedules, RejectReschedule(q)
  PROVE  TypeOK'
<1>1. reschedules[q] \in RescheduleRequest
  BY TableFacts DEF TypeOK
<1>2. reschedules' \in Seq(RescheduleRequest)
  <2>1. reschedules' =
          [reschedules EXCEPT ![q] = [reschedules[q] EXCEPT !.status = "rejected"]]
    BY DEF RejectReschedule
  <2>2. [reschedules[q] EXCEPT !.status = "rejected"] \in RescheduleRequest
    BY <1>1 DEF RescheduleRequest, RescheduleStatuses
  <2> QED
    BY <2>1, <2>2, UpdateRow DEF TypeOK
<1>3. /\ requestStatus' \in [Requests -> RequestStatuses]
      /\ UNCHANGED <<thread, proposal, appointments, outbox, active>>
  BY DEF TypeOK, RejectReschedule, SetRequest, RequestStatuses
<1> QED
  BY <1>2, <1>3 DEF TypeOK

(* reassign_technician.                                                     *)
LEMMA ReassignTypeOK ==
  ASSUME TypeOK, NEW a \in DOMAIN appointments, NEW t \in Technicians,
         ReassignTechnician(a, t)
  PROVE  TypeOK'
<1>1. appointments[a] \in Appointment
  BY TableFacts DEF TypeOK
<1>2. appointments' = [appointments EXCEPT ![a] =
                         [appointments[a] EXCEPT !.technician = t]]
  BY DEF ReassignTechnician
<1>3. [appointments[a] EXCEPT !.technician = t] \in Appointment
  BY <1>1 DEF Appointment
<1>4. appointments' \in Seq(Appointment)
  BY <1>2, <1>3, UpdateRow DEF TypeOK
<1>5. outbox' \in Seq(Seq(EventTypes))
  BY EmitType DEF ReassignTechnician, EventTypes
<1>6. UNCHANGED <<requestStatus, thread, proposal, reschedules, active>>
  BY DEF ReassignTechnician
<1> QED
  BY <1>4, <1>5, <1>6 DEF TypeOK

(* Every step keeps the types of TypeOK.                                    *)
LEMMA StepTypeOK == TypeOK /\ [Next]_vars => TypeOK'
<1> SUFFICES ASSUME TypeOK, [Next]_vars PROVE TypeOK'
  OBVIOUS
<1>1. ASSUME NEW r \in Requests,
             \/ SubmitByWorkflow(r) \/ SubmitByPortal(r) \/ Supplement(r)
             \/ EndWithoutProposal(r) \/ FinalizeExisting(r)
             \/ FinalizeConflict(r) \/ HandleRejection(r) \/ LoseDecision(r)
             \/ DirectReject(r) \/ DirectConflict(r)
      PROVE  TypeOK'
  <2>1. /\ UNCHANGED <<appointments, reschedules, outbox, active>>
        /\ requestStatus' = requestStatus
             \/ \E s \in RequestStatuses : SetRequest(r, s)
        /\ thread' = thread
             \/ \E s \in ThreadStatuses : thread' = [thread EXCEPT ![r] = s]
        /\ proposal' = proposal \/ proposal' = [proposal EXCEPT ![r] = {}]
    BY <1>1
    DEF SubmitByWorkflow, SubmitByPortal, Supplement, EndWithoutProposal,
        FinalizeExisting, FinalizeConflict, HandleRejection, LoseDecision,
        DirectReject, DirectConflict, Resume, RequestStatuses, ThreadStatuses
  <2>2. active' \subseteq Technicians /\ {} \in SUBSET Offers
    BY <2>1 DEF TypeOK
  <2> QED
    BY <2>1, <2>2, RequestStepTypeOK
<1>2. ASSUME NEW r \in Requests, NEW t \in Technicians, NEW w \in Windows,
             Propose(r, t, w)
      PROVE  TypeOK'
  <2>1. {[technician |-> t, window |-> w]} \in SUBSET Offers
    BY DEF Offers
  <2>2. active' \subseteq Technicians
    BY <1>2 DEF TypeOK, Propose
  <2>3. "waiting_for_approval" \in ThreadStatuses
    BY DEF ThreadStatuses
  <2> QED
    BY <1>2, <2>1, <2>2, <2>3, RequestStepTypeOK DEF Propose
<1>3. ASSUME NEW a \in DOMAIN appointments,
             \/ StartService(a) \/ CompleteService(a)
             \/ CancelCustomerAppointment(a)
      PROVE  TypeOK'
  BY <1>3, VisitStepTypeOK
  DEF StartService, CompleteService, CancelCustomerAppointment,
      AppointmentStatuses, RequestStatuses, EventTypes
<1>4. ASSUME NEW a \in DOMAIN appointments, CancelAppointment(a)
      PROVE  TypeOK'
  <2>1. appointments[a].request \in Requests
    BY AppointmentRow DEF Appointment
  <2> QED
    BY <1>4, <2>1, CancelAllTypeOK DEF CancelAppointment
<1>5. ASSUME NEW r \in Requests, CancelRequest(r)
      PROVE  TypeOK'
  BY <1>5, CancelAllTypeOK DEF CancelRequest
<1>6. ASSUME NEW t \in Technicians,
             DeactivateTechnician(t) \/ ActivateTechnician(t)
      PROVE  TypeOK'
  BY <1>6 DEF TypeOK, DeactivateTechnician, ActivateTechnician
<1>7. CASE UNCHANGED vars
  BY <1>7 DEF TypeOK, vars
<1> QED
  BY <1>1, <1>2, <1>3, <1>4, <1>5, <1>6, <1>7, FinalizeCreateTypeOK,
     DirectApproveTypeOK, RequestRescheduleTypeOK, ApproveRescheduleTypeOK,
     RejectRescheduleTypeOK, ReassignTypeOK
  DEF Next

(* Type correctness: every reachable state of the tables, the threads and   *)
(* the outbox has the types that TypeOK gives.                              *)
THEOREM TypeCorrect == Spec => []TypeOK
  BY InitTypeOK, StepTypeOK, PTL DEF Spec

------------------------------------------------------------------------------
(* No technician is booked twice                                            *)

(* No two blocking rows of a table compete for a technician.                *)
Apart(table) ==
  \A a, b \in DOMAIN table :
    /\ a # b
    /\ Blocking(table[a])
    /\ Blocking(table[b])
    /\ table[a].technician = table[b].technician
    => ~ Overlaps(table[a].window, table[b].window)

(* The rows of new claim no more than those of old.                         *)
ClaimsNoMore(new, old) ==
  /\ DOMAIN new = DOMAIN old
  /\ \A a \in DOMAIN old :
       /\ new[a].technician = old[a].technician
       /\ new[a].window = old[a].window
       /\ Blocking(new[a]) => Blocking(old[a])

LEMMA ClaimsNoMoreApart ==
  ASSUME NEW old, NEW new, Apart(old), ClaimsNoMore(new, old)
  PROVE  Apart(new)
  BY DEF Apart, ClaimsNoMore

(* Overlapping is mutual.                                                   *)
LEMMA OverlapsSymmetric ==
  ASSUME NEW v \in Windows, NEW w \in Windows
  PROVE  Overlaps(v, w) <=> Overlaps(w, v)
  BY WindowsAssumption DEF Overlaps

(* A row may be appended where no blocking row takes its slot.              *)
LEMMA AppendApart ==
  ASSUME NEW table \in Seq(Appointment), NEW x \in Appointment, Apart(table),
         ~ Taken(table, {}, x.technician, x.window)
  PROVE  Apart(Append(table, x))
<1> DEFINE n == Len(table) + 1
           new == Append(table, x)
<1>1. /\ DOMAIN new = DOMAIN table \cup {n}
      /\ \A a \in DOMAIN table : new[a] = table[a]
      /\ new[n] = x
      /\ n \notin DOMAIN table
  BY AppendRow
<1>2. \A a \in DOMAIN table : table[a].window \in Windows
  <2>1. \A a \in DOMAIN table : table[a] \in Appointment
    BY TableFacts
  <2> QED
    BY <2>1 DEF Appointment
<1>3. x.window \in Windows
  BY DEF Appointment
<1> HIDE DEF n, new
<1>4. SUFFICES ASSUME NEW a \in DOMAIN new, NEW b \in DOMAIN new, a # b,
                      Blocking(new[a]), Blocking(new[b]),
                      new[a].technician = new[b].technician
               PROVE  ~ Overlaps(new[a].window, new[b].window)
  BY DEF Apart, new
<1>5. CASE a \in DOMAIN table /\ b \in DOMAIN table
  BY <1>1, <1>4, <1>5 DEF Apart
<1>6. CASE a = n
  <2>1. b \in DOMAIN table
    BY <1>1, <1>4, <1>6
  <2>2. ~ Overlaps(table[b].window, x.window)
    BY <1>1, <1>4, <1>6, <2>1 DEF Taken
  <2> QED
    BY <1>1, <1>2, <1>3, <1>6, <2>1, <2>2, OverlapsSymmetric
<1>7. CASE b = n
  <2>1. a \in DOMAIN table
    BY <1>1, <1>4, <1>7
  <2> QED
    BY <1>1, <1>4, <1>7, <2>1 DEF Taken
<1> QED
  BY <1>1, <1>5, <1>6, <1>7

(* SetAppointment claims no more unless it makes a row block again.         *)
LEMMA SetAppointmentClaims ==
  ASSUME TypeOK, NEW a \in DOMAIN appointments, NEW s, SetAppointment(a, s),
         s \in BlockingStatuses => Blocking(appointments[a])
  PROVE  ClaimsNoMore(appointments', appointments)
<1>1. \A b \in DOMAIN appointments : appointments[b] \in Appointment
  BY AppointmentRow
<1>2. appointments' =
        [appointments EXCEPT ![a] = [appointments[a] EXCEPT !.status = s]]
  BY DEF SetAppointment
<1>3. \A b \in DOMAIN appointments :
        appointments'[b] = IF b = a
                           THEN [appointments[b] EXCEPT !.status = s]
                           ELSE appointments[b]
  BY <1>2
<1>4. ASSUME NEW b \in DOMAIN appointments
      PROVE  /\ appointments'[b].technician = appointments[b].technician
             /\ appointments'[b].window = appointments[b].window
             /\ b # a => appointments'[b].status = appointments[b].status
             /\ b = a => appointments'[b].status = s
  BY <1>1, <1>3 DEF Appointment
<1> QED
  BY <1>2, <1>4 DEF ClaimsNoMore, Blocking

(* CancelRows claims no more.                                               *)
LEMMA CancelRowsClaims ==
  ASSUME TypeOK, NEW ids
  PROVE  ClaimsNoMore(CancelRows(ids), appointments)
<1> DEFINE new == CancelRows(ids)
<1>1. /\ DOMAIN new = DOMAIN appointments
      /\ \A a \in DOMAIN appointments :
           new[a] =
             IF a \in ids THEN [appointments[a] EXCEPT !.status = "cancelled"]
                          ELSE appointments[a]
  BY CancelRowsFacts
<1>2. \A a \in DOMAIN appointments : appointments[a] \in Appointment
  BY AppointmentRow
<1> HIDE DEF new
<1>3. ASSUME NEW a \in DOMAIN appointments
      PROVE  /\ new[a].technician = appointments[a].technician
             /\ new[a].window = appointments[a].window
             /\ new[a].status \in {appointments[a].status, "cancelled"}
  BY <1>1, <1>2 DEF Appointment
<1> QED
  BY <1>1, <1>3 DEF ClaimsNoMore, Blocking, BlockingStatuses, new

(* Neither does cancelling and linking the row that is replaced.            *)
LEMMA ReplacedClaims ==
  ASSUME TypeOK, NEW old, NEW new \in Nat
  PROVE  ClaimsNoMore(Replaced(old, new), appointments)
<1>1. DOMAIN Replaced(old, new) = DOMAIN appointments
  BY DEF Replaced
<1>2. ASSUME NEW a \in DOMAIN appointments
      PROVE  /\ Replaced(old, new)[a].technician = appointments[a].technician
             /\ Replaced(old, new)[a].window = appointments[a].window
             /\ Replaced(old, new)[a].status
                  \in {appointments[a].status, "cancelled"}
  <2>1. appointments[a] \in Appointment
    BY AppointmentRow
  <2> QED
    BY <2>1 DEF Replaced, Appointment
<1> QED
  BY <1>1, <1>2 DEF ClaimsNoMore, Blocking, BlockingStatuses

(* Every step keeps the blocking rows apart.                                *)
LEMMA StepApart ==
  ASSUME TypeOK, Apart(appointments), [Next]_vars
  PROVE  Apart(appointments')
<1>1. ASSUME ClaimsNoMore(appointments', appointments)
      PROVE  Apart(appointments')
  BY <1>1, ClaimsNoMoreApart
<1>2. ASSUME UNCHANGED appointments
      PROVE  Apart(appointments')
  BY <1>2
<1>3. ASSUME NEW r \in Requests, FinalizeCreate(r)
      PROVE  Apart(appointments')
  <2>1. PICK p \in proposal[r] :
          /\ ~ Taken(appointments, {}, p.technician, p.window)
          /\ appointments' = Append(appointments,
                            NewAppointment(r, p.technician, p.window, Nil))
    BY <1>3 DEF FinalizeCreate
  <2>2. p.technician \in Technicians /\ p.window \in Windows
    BY DEF TypeOK, Offers
  <2>3. NewAppointment(r, p.technician, p.window, Nil) \in Appointment
    BY <2>2, NewAppointmentType DEF Nil
  <2>4. /\ NewAppointment(r, p.technician, p.window, Nil).technician
             = p.technician
        /\ NewAppointment(r, p.technician, p.window, Nil).window = p.window
    BY DEF NewAppointment
  <2> QED
    BY <2>1, <2>3, <2>4, AppendApart DEF TypeOK
<1>4. ASSUME NEW r \in Requests, NEW t \in Technicians, NEW w \in Windows,
             DirectApprove(r, t, w)
      PROVE  Apart(appointments')
  <2> DEFINE table == CancelRows(BlockingOf(r))
             x == NewAppointment(r, t, w, Nil)
  <2>1. appointments' = Append(table, x)
    BY <1>4 DEF DirectApprove
  <2>2. table \in Seq(Appointment) /\ Apart(table)
    BY CancelRowsFacts, CancelRowsClaims, ClaimsNoMoreApart
  <2>3. x \in Appointment /\ x.technician = t /\ x.window = w
    BY NewAppointmentType DEF Nil, NewAppointment
  <2>4. ~ Taken(table, {}, t, w)
    <3> SUFFICES ASSUME NEW b \in DOMAIN appointments, Blocking(table[b]),
                        table[b].technician = t, Overlaps(table[b].window, w)
                 PROVE  FALSE
      BY CancelRowsFacts DEF Taken
    <3>1. /\ appointments[b] \in Appointment
          /\ table[b] =
               IF b \in BlockingOf(r)
               THEN [appointments[b] EXCEPT !.status = "cancelled"]
               ELSE appointments[b]
      BY CancelRowsFacts, AppointmentRow
    <3>2. b \notin BlockingOf(r)
      BY <3>1 DEF Blocking, BlockingStatuses, Appointment
    <3>3. b \notin AppointmentsOf(r)
      BY <3>1, <3>2 DEF BlockingOf
    <3>4. ~ Taken(appointments, AppointmentsOf(r), t, w)
      BY <1>4 DEF DirectApprove, TakenByOthers
    <3> QED
      BY <3>1, <3>2, <3>3, <3>4 DEF Taken
  <2> HIDE DEF table, x
  <2> QED
    BY <2>1, <2>2, <2>3, <2>4, AppendApart
<1>5. ASSUME NEW q \in DOMAIN reschedules, NEW t \in Technicians,
             NEW w \in Windows, ApproveReschedule(q, t, w)
      PROVE  Apart(appointments')
  <2> DEFINE r == reschedules[q].request
             old == reschedules[q].appointment
             new == Len(appointments) + 1
             table == Replaced(old, new)
             x == NewAppointment(r, t, w, old)
  <2>1. appointments' = Append(table, x)
    BY <1>5 DEF ApproveReschedule, Replaced
  <2>2. reschedules[q] \in RescheduleRequest /\ new \in Nat
    BY TableFacts DEF TypeOK
  <2>3. table \in Seq(Appointment) /\ Apart(table)
    BY <2>2, ReplacedFacts, ReplacedClaims, ClaimsNoMoreApart
  <2>4. x \in Appointment /\ x.technician = t /\ x.window = w
    BY <2>2, NewAppointmentType DEF NewAppointment, RescheduleRequest
  <2>5. ~ Taken(table, {}, t, w)
    <3>1. ~ Taken(appointments, {}, t, w)
      BY <1>5 DEF ApproveReschedule
    <3>2. ClaimsNoMore(table, appointments)
      BY <2>2, ReplacedClaims
    <3> HIDE DEF table
    <3> QED
      BY <3>1, <3>2 DEF ClaimsNoMore, Taken
  <2> HIDE DEF table, x
  <2> QED
    BY <2>1, <2>3, <2>4, <2>5, AppendApart
<1>6. ASSUME NEW a \in DOMAIN appointments, NEW t \in Technicians,
             ReassignTechnician(a, t)
      PROVE  Apart(appointments')
  <2>1. \A b \in DOMAIN appointments : appointments[b] \in Appointment
    BY AppointmentRow
  <2>2. /\ appointments' = [appointments EXCEPT ![a] =
                              [appointments[a] EXCEPT !.technician = t]]
        /\ ~ Taken(appointments, {a}, t, appointments[a].window)
    BY <1>6 DEF ReassignTechnician
  <2>3. DOMAIN appointments' = DOMAIN appointments
    BY <2>2
  <2>4. \A b \in DOMAIN appointments :
          /\ b # a => appointments'[b] = appointments[b]
          /\ appointments'[b].window = appointments[b].window
          /\ appointments[b].window \in Windows
    BY <2>1, <2>2 DEF Appointment
  <2>5. appointments'[a].technician = t
    BY <2>1, <2>2 DEF Appointment
  <2>6. SUFFICES ASSUME NEW b \in DOMAIN appointments,
                        NEW c \in DOMAIN appointments, b # c,
                        Blocking(appointments'[b]), Blocking(appointments'[c]),
                        appointments'[b].technician = appointments'[c].technician
                 PROVE  ~ Overlaps(appointments'[b].window,
                                   appointments'[c].window)
    BY <2>3 DEF Apart
  <2>7. CASE b # a /\ c # a
    BY <2>4, <2>6, <2>7 DEF Apart
  <2>8. CASE b = a
    <3>1. ~ Overlaps(appointments[c].window, appointments[a].window)
      BY <2>2, <2>4, <2>5, <2>6, <2>8 DEF Taken
    <3> QED
      BY <2>4, <2>8, <3>1, OverlapsSymmetric
  <2>9. CASE c = a
    BY <2>2, <2>4, <2>5, <2>6, <2>9 DEF Taken
  <2> QED
    BY <2>7, <2>8, <2>9
<1>7. ASSUME NEW a \in DOMAIN appointments,
             \/ StartService(a) \/ CompleteService(a)
             \/ CancelCustomerAppointment(a)
      PROVE  ClaimsNoMore(appointments', appointments)
  BY <1>7, SetAppointmentClaims
  DEF StartService, CompleteService, CancelCustomerAppointment, Blocking,
      BlockingStatuses
<1>8. ASSUME NEW r, NEW chosen, CancelAll(r, chosen)
      PROVE  ClaimsNoMore(appointments', appointments)
  BY <1>8, CancelRowsClaims DEF CancelAll
<1>9. ASSUME NEW a, CancelAppointment(a)
      PROVE  ClaimsNoMore(appointments', appointments)
  BY <1>8, <1>9 DEF CancelAppointment
<1>10. ASSUME NEW r, CancelRequest(r)
       PROVE  ClaimsNoMore(appointments', appointments)
  BY <1>8, <1>10 DEF CancelRequest
<1> QED
  BY <1>1, <1>2, <1>3, <1>4, <1>5, <1>6, <1>7, <1>9, <1>10
  DEF Next, vars, SubmitByWorkflow, SubmitByPortal, Supplement, Propose,
      EndWithoutProposal, FinalizeExisting, FinalizeConflict, HandleRejection,
      LoseDecision, DirectReject, DirectConflict, RequestReschedule,
      RejectReschedule, DeactivateTechnician, ActivateTechnician

(* Rows that are apart share no instant.                                    *)
LEMMA ApartShareNoInstant ==
  ASSUME TypeOK, Apart(appointments)
  PROVE  NoDoubleBooking
<1> SUFFICES ASSUME NEW a \in DOMAIN appointments,
                    NEW b \in DOMAIN appointments, a # b,
                    Blocking(appointments[a]), Blocking(appointments[b]),
                    appointments[a].technician = appointments[b].technician
             PROVE  Instants(appointments[a].window)
                      \cap Instants(appointments[b].window) = {}
  BY DEF NoDoubleBooking
<1>1. ~ Overlaps(appointments[a].window, appointments[b].window)
  BY DEF Apart
<1>2. /\ appointments[a].window \in [start : Nat, end : Nat]
      /\ appointments[b].window \in [start : Nat, end : Nat]
  BY AppointmentRow, WindowsAssumption DEF Appointment
<1> QED
  BY <1>1, <1>2 DEF Overlaps, Instants

(* No technician is expected at two visits at one instant, after any        *)
(* history of bookings, approvals, reschedules, reassignments, starts,      *)
(* completions and cancellations.                                           *)
THEOREM NeverDoubleBooked == Spec => []NoDoubleBooking
<1> DEFINE IInv == TypeOK /\ Apart(appointments)
<1>1. Init => IInv
  BY InitTypeOK DEF Init, Apart
<1>2. IInv /\ [Next]_vars => IInv'
  BY StepTypeOK, StepApart
<1>3. IInv => NoDoubleBooking
  BY ApartShareNoInstant
<1> QED
  BY <1>1, <1>2, <1>3, PTL DEF Spec

------------------------------------------------------------------------------

------------------------------------------------------------------------------
(* Rows                                                                     *)

(* Setting a status leaves everything else as it was.                       *)
LEMMA SetAppointmentRows ==
  ASSUME TypeOK, NEW a \in DOMAIN appointments, NEW s, SetAppointment(a, s)
  PROVE  /\ DOMAIN appointments' = DOMAIN appointments
         /\ \A b \in DOMAIN appointments :
              /\ appointments'[b].request = appointments[b].request
              /\ appointments'[b].replacedBy = appointments[b].replacedBy
              /\ appointments'[b].rescheduledFrom = appointments[b].rescheduledFrom
              /\ appointments'[b].status = IF b = a THEN s ELSE appointments[b].status
<1>1. \A b \in DOMAIN appointments : appointments[b] \in Appointment
  BY AppointmentRow
<1>2. appointments' = [appointments EXCEPT ![a] = [appointments[a] EXCEPT !.status = s]]
  BY DEF SetAppointment
<1> QED
  BY <1>1, <1>2 DEF Appointment

LEMMA CancelledRows ==
  ASSUME TypeOK, NEW ids
  PROVE  /\ DOMAIN CancelRows(ids) = DOMAIN appointments
         /\ \A b \in DOMAIN appointments :
              /\ CancelRows(ids)[b].request = appointments[b].request
              /\ CancelRows(ids)[b].replacedBy = appointments[b].replacedBy
              /\ CancelRows(ids)[b].rescheduledFrom = appointments[b].rescheduledFrom
              /\ CancelRows(ids)[b].status = IF b \in ids THEN "cancelled" ELSE appointments[b].status
<1> DEFINE table == CancelRows(ids)
<1>1. /\ DOMAIN table = DOMAIN appointments
      /\ \A b \in DOMAIN appointments :
           table[b] = IF b \in ids THEN [appointments[b] EXCEPT !.status = "cancelled"]
                                  ELSE appointments[b]
  BY CancelRowsFacts
<1>2. \A b \in DOMAIN appointments : appointments[b] \in Appointment
  BY AppointmentRow
<1> HIDE DEF table
<1>3. ASSUME NEW b \in DOMAIN appointments
      PROVE  /\ table[b].request = appointments[b].request
             /\ table[b].replacedBy = appointments[b].replacedBy
             /\ table[b].rescheduledFrom = appointments[b].rescheduledFrom
             /\ table[b].status = IF b \in ids THEN "cancelled" ELSE appointments[b].status
  BY <1>1, <1>2 DEF Appointment
<1> QED
  BY <1>1, <1>3 DEF table

LEMMA ReplacedRows ==
  ASSUME TypeOK, NEW old, NEW new \in Nat
  PROVE  /\ DOMAIN Replaced(old, new) = DOMAIN appointments
         /\ \A b \in DOMAIN appointments :
              /\ Replaced(old, new)[b].request = appointments[b].request
              /\ Replaced(old, new)[b].replacedBy = IF b = old THEN new ELSE appointments[b].replacedBy
              /\ Replaced(old, new)[b].rescheduledFrom = appointments[b].rescheduledFrom
              /\ Replaced(old, new)[b].status = IF b = old THEN "cancelled" ELSE appointments[b].status
<1>1. DOMAIN Replaced(old, new) = DOMAIN appointments
  BY DEF Replaced
<1>2. ASSUME NEW b \in DOMAIN appointments
      PROVE  LET row == Replaced(old, new)[b] IN
             /\ row.request = appointments[b].request
             /\ row.replacedBy = IF b = old THEN new ELSE appointments[b].replacedBy
             /\ row.rescheduledFrom = appointments[b].rescheduledFrom
             /\ row.status = IF b = old THEN "cancelled" ELSE appointments[b].status
  <2>1. appointments[b] \in Appointment
    BY AppointmentRow
  <2> QED
    BY <2>1 DEF Replaced, Appointment
<1> QED
  BY <1>1, <1>2

LEMMA NewRow ==
  ASSUME NEW r, NEW t, NEW w, NEW from
  PROVE  LET x == NewAppointment(r, t, w, from) IN
         /\ x.request = r /\ x.technician = t /\ x.window = w
         /\ x.status = "scheduled" /\ x.replacedBy = Nil /\ x.rescheduledFrom = from
  BY DEF NewAppointment

LEMMA ReassignedRows ==
  ASSUME TypeOK, NEW a \in DOMAIN appointments, NEW t, ReassignTechnician(a, t)
  PROVE  /\ DOMAIN appointments' = DOMAIN appointments
         /\ \A b \in DOMAIN appointments :
              /\ appointments'[b].request = appointments[b].request
              /\ appointments'[b].replacedBy = appointments[b].replacedBy
              /\ appointments'[b].rescheduledFrom = appointments[b].rescheduledFrom
              /\ appointments'[b].status = appointments[b].status
<1>1. \A b \in DOMAIN appointments : appointments[b] \in Appointment
  BY AppointmentRow
<1>2. appointments' = [appointments EXCEPT ![a] = [appointments[a] EXCEPT !.technician = t]]
  BY DEF ReassignTechnician
<1> QED
  BY <1>1, <1>2 DEF Appointment

------------------------------------------------------------------------------
(* The outbox                                                               *)

\* The events of one appointment tell its status.
Told(events, status) ==
  /\ \A i \in DOMAIN events : events[i] = "appointment.created" <=> i = 1
  /\ Len(events) > 0
  /\ status = StatusAfter(events[Len(events)])

Tells(table, box) ==
  /\ DOMAIN box = DOMAIN table
  /\ \A a \in DOMAIN table : Told(box[a], table[a].status)

LEMMA StoryIsTold == OutboxTellsTheStory <=> Tells(appointments, outbox)
  BY DEF OutboxTellsTheStory, Tells, Told

LEMMA ToldAppend ==
  ASSUME NEW events \in Seq(EventTypes), NEW status, Told(events, status),
         NEW e \in EventTypes \ {"appointment.created"}
  PROVE  Told(Append(events, e), StatusAfter(e))
<1> DEFINE more == Append(events, e)
           n == Len(events)
<1>1. n \in Nat /\ n > 0 /\ DOMAIN events = 1 .. n
  BY TableFacts DEF Told
<1>2. /\ Len(more) = n + 1 /\ DOMAIN more = 1 .. n + 1
      /\ \A i \in 1 .. n : more[i] = events[i]
      /\ more[n + 1] = e
  BY <1>1, AppendProperties
<1> HIDE DEF more, n
<1>3. \A i \in DOMAIN more : more[i] = "appointment.created" <=> i = 1
  BY <1>1, <1>2 DEF Told
<1> QED
  BY <1>1, <1>2, <1>3 DEF Told, more

LEMMA ToldNew == Told(<<"appointment.created">>, "scheduled")
  BY DEF Told, StatusAfter

(* One row gets another status and one event that says so.                  *)
LEMMA VisitTells ==
  ASSUME TypeOK, Tells(appointments, outbox), NEW a \in DOMAIN appointments,
         NEW e \in EventTypes \ {"appointment.created"}, Emit(a, e),
         DOMAIN appointments' = DOMAIN appointments,
         \A b \in DOMAIN appointments :
           appointments'[b].status =
             IF b = a THEN StatusAfter(e) ELSE appointments[b].status
  PROVE  Tells(appointments', outbox')
<1>1. /\ DOMAIN outbox = DOMAIN appointments
      /\ \A b \in DOMAIN outbox : outbox[b] \in Seq(EventTypes)
  BY TableFacts DEF TypeOK, Tells
<1>2. outbox' = [outbox EXCEPT ![a] = Append(outbox[a], e)]
  BY DEF Emit
<1>3. Told(Append(outbox[a], e), StatusAfter(e))
  BY <1>1, ToldAppend DEF Tells
<1> QED
  BY <1>1, <1>2, <1>3 DEF Tells

LEMMA CancelTells ==
  ASSUME TypeOK, Tells(appointments, outbox), NEW ids
  PROVE  Tells(CancelRows(ids), CancelEvents(ids))
<1>1. /\ DOMAIN outbox = DOMAIN appointments
      /\ \A b \in DOMAIN outbox : outbox[b] \in Seq(EventTypes)
      /\ \A b \in DOMAIN appointments : appointments[b] \in Appointment
  BY TableFacts DEF TypeOK, Tells
<1>2. DOMAIN CancelEvents(ids) = DOMAIN CancelRows(ids)
  BY <1>1, CancelRowsFacts, CancelEventsFacts
<1>3. ASSUME NEW a \in DOMAIN appointments
      PROVE  Told(CancelEvents(ids)[a], CancelRows(ids)[a].status)
  <2>1. CASE a \in ids
    <3>1. CancelRows(ids)[a].status = "cancelled"
      BY <2>1, CancelledRows
    <3>2. CancelEvents(ids)[a] = Append(outbox[a], "appointment.cancelled")
      BY <1>1, <2>1 DEF CancelEvents
    <3>3. Told(Append(outbox[a], "appointment.cancelled"), StatusAfter("appointment.cancelled"))
      BY <1>1, ToldAppend DEF Tells, EventTypes
    <3> QED
      BY <3>1, <3>2, <3>3 DEF StatusAfter
  <2>2. CASE a \notin ids
    BY <1>1, <2>2, CancelRowsFacts DEF CancelEvents, Tells
  <2> QED
    BY <2>1, <2>2
<1> QED
  BY <1>2, <1>3, CancelRowsFacts DEF Tells

LEMMA AppendTells ==
  ASSUME NEW table \in Seq(Appointment), NEW box \in Seq(Seq(EventTypes)),
         Tells(table, box), NEW x \in Appointment, x.status = "scheduled"
  PROVE  Tells(Append(table, x), Append(box, <<"appointment.created">>))
<1> DEFINE c == <<"appointment.created">>
<1>1. c \in Seq(EventTypes)
  BY DEF EventTypes
<1> HIDE DEF c
<1>2. /\ DOMAIN Append(table, x) = DOMAIN table \cup {Len(table) + 1}
      /\ \A a \in DOMAIN table : Append(table, x)[a] = table[a]
      /\ Append(table, x)[Len(table) + 1] = x
  BY AppendRow
<1>3. /\ DOMAIN Append(box, c) = DOMAIN box \cup {Len(box) + 1}
      /\ \A a \in DOMAIN box : Append(box, c)[a] = box[a]
      /\ Append(box, c)[Len(box) + 1] = c
  BY <1>1, AppendRow
<1>4. Len(table) = Len(box)
  BY TableFacts DEF Tells
<1>5. Told(c, x.status)
  BY ToldNew DEF c
<1>6. Tells(Append(table, x), Append(box, c))
  BY <1>2, <1>3, <1>4, <1>5 DEF Tells
<1> QED
  BY <1>6 DEF c

------------------------------------------------------------------------------
(* The steps by what they do to appointments                                *)

\* A status that no appointment has to back.
Unbacked ==
  RequestStatuses \ {"scheduled", "in_progress", "completed", "cancelled"}

Quiet ==
  /\ UNCHANGED <<appointments, outbox, reschedules>>
  /\ \/ UNCHANGED requestStatus
     \/ \E r \in Requests, s \in Unbacked : SetRequest(r, s)

Visit(a, s, e) ==
  /\ appointments[a].status # "cancelled"
  /\ SetAppointment(a, s)
  /\ Emit(a, e)
  /\ SetRequest(appointments[a].request, s)
  /\ s = StatusAfter(e)
  /\ s \in BlockingStatuses => Blocking(appointments[a])
  /\ s = "in_progress" => appointments[a].status = "scheduled"
  /\ s = "completed" => Blocking(appointments[a])
  /\ UNCHANGED reschedules

Visits(a) ==
  \/ Visit(a, "in_progress", "appointment.started")
  \/ Visit(a, "completed", "appointment.completed")
  \/ Visit(a, "cancelled", "appointment.cancelled")

LEMMA VisitSteps ==
  ASSUME NEW a \in DOMAIN appointments,
         StartService(a) \/ CompleteService(a) \/ CancelCustomerAppointment(a)
  PROVE  Visits(a)
  BY DEF StartService, CompleteService, CancelCustomerAppointment, Visits, Visit, StatusAfter,
      Blocking, BlockingStatuses

Cancel(r) ==
  \E ids \in SUBSET AppointmentsOf(r) :
    /\ AppointmentsOf(r) # {} =>
         \E a \in AppointmentsOf(r) : a \in ids \/ appointments[a].status = "cancelled"
    /\ appointments' = CancelRows(ids)
    /\ outbox' = CancelEvents(ids)
    /\ SetRequest(r, "cancelled")
    /\ reschedules' = [q \in DOMAIN reschedules |->
                         IF q \in Pending(r)
                         THEN [reschedules[q] EXCEPT !.status = "cancelled"]
                         ELSE reschedules[q]]

(* Some rows have a latest one.                                             *)
LEMMA LatestExists ==
  ASSUME TypeOK, NEW ids \in SUBSET DOMAIN appointments, ids # {}
  PROVE  LatestOf(ids) # {}
<1> DEFINE n == Len(appointments)
           T == {n - a : a \in ids}
<1>1. n \in Nat /\ DOMAIN appointments = 1 .. n
  BY DEF TypeOK
<1> HIDE DEF n
<1>2. T \subseteq Nat /\ T # {}
  BY <1>1
<1>3. \A b \in ids : n - b \in T
  OBVIOUS
<1>4. \A k \in T : \E a \in ids : k = n - a
  OBVIOUS
<1> HIDE DEF T
<1>5. PICK m \in T : \A k \in T : ~ (<<k, m>> \in OpToRel(<, Nat))
  BY <1>2, NatLessThanWellFounded, WFMin
<1>6. \A k \in T : ~ (k < m)
  BY <1>2, <1>5 DEF OpToRel
<1>7. PICK a \in ids : m = n - a
  BY <1>4
<1>8. \A b \in ids : b <= a
  BY <1>1, <1>3, <1>6, <1>7
<1> QED
  BY <1>8 DEF LatestOf

LEMMA CancelSteps ==
  ASSUME TypeOK
  PROVE  /\ \A r \in Requests : CancelRequest(r) => Cancel(r)
         /\ \A a \in DOMAIN appointments :
              CancelAppointment(a) => Cancel(appointments[a].request)
<1>1. ASSUME NEW r, NEW chosen \in SUBSET AppointmentsOf(r), CancelAll(r, chosen),
             chosen = {} =>
               \A a \in AppointmentsOf(r) : appointments[a].status = "cancelled"
      PROVE  Cancel(r)
  <2> DEFINE ids == {a \in chosen : appointments[a].status # "cancelled"}
  <2>1. AppointmentsOf(r) # {} =>
          \E a \in AppointmentsOf(r) : a \in ids \/ appointments[a].status = "cancelled"
    BY <1>1
  <2>2. ids \in SUBSET AppointmentsOf(r)
    OBVIOUS
  <2> QED
    BY <1>1, <2>1, <2>2 DEF CancelAll, Cancel
<1>2. ASSUME NEW r \in Requests, CancelRequest(r) PROVE Cancel(r)
  <2>1. LatestLive(r) \in SUBSET AppointmentsOf(r)
    BY DEF LatestLive, LatestOf
  <2>2. LatestLive(r) = {} =>
          \A a \in AppointmentsOf(r) : appointments[a].status = "cancelled"
    BY LatestExists DEF LatestLive, AppointmentsOf
  <2> QED
    BY <1>1, <1>2, <2>1, <2>2 DEF CancelRequest
<1>3. ASSUME NEW a \in DOMAIN appointments, CancelAppointment(a)
      PROVE  Cancel(appointments[a].request)
  <2>1. {a} \in SUBSET AppointmentsOf(appointments[a].request)
    BY DEF AppointmentsOf
  <2> QED
    BY <1>1, <1>3, <2>1 DEF CancelAppointment
<1> QED
  BY <1>2, <1>3

Insert(r) ==
  \E ids \in SUBSET AppointmentsOf(r), t \in Technicians, w \in Windows :
    /\ appointments' = Append(CancelRows(ids), NewAppointment(r, t, w, Nil))
    /\ outbox' = Append(CancelEvents(ids), <<"appointment.created">>)
    /\ ~ Taken(CancelRows(ids), {}, t, w)
    /\ SetRequest(r, "scheduled")
    /\ UNCHANGED reschedules

LEMMA NoneCancelled ==
  ASSUME TypeOK
  PROVE  CancelRows({}) = appointments /\ CancelEvents({}) = outbox
<1>1. appointments = [a \in DOMAIN appointments |-> appointments[a]]
  BY TableFacts DEF TypeOK
<1>2. outbox = [a \in DOMAIN outbox |-> outbox[a]]
  BY TableFacts DEF TypeOK
<1> QED
  BY <1>1, <1>2 DEF CancelRows, CancelEvents

LEMMA InsertSteps ==
  ASSUME TypeOK, NEW r \in Requests,
         \/ FinalizeCreate(r)
         \/ \E t \in Technicians, w \in Windows : DirectApprove(r, t, w)
  PROVE  Insert(r)
<1>1. CASE FinalizeCreate(r)
  <2>1. PICK p \in proposal[r] :
          /\ ~ Taken(appointments, {}, p.technician, p.window)
          /\ appointments' = Append(appointments,
                               NewAppointment(r, p.technician, p.window, Nil))
    BY <1>1 DEF FinalizeCreate
  <2>2. p.technician \in Technicians /\ p.window \in Windows
    BY DEF TypeOK, Offers
  <2>3. /\ outbox' = Append(outbox, <<"appointment.created">>)
        /\ SetRequest(r, "scheduled") /\ UNCHANGED reschedules
    BY <1>1 DEF FinalizeCreate, Resume
  <2>4. {} \in SUBSET AppointmentsOf(r)
    OBVIOUS
  <2> QED
    BY <2>1, <2>2, <2>3, <2>4, NoneCancelled DEF Insert
<1>2. ASSUME NEW t \in Technicians, NEW w \in Windows, DirectApprove(r, t, w)
      PROVE  Insert(r)
  <2>1. BlockingOf(r) \in SUBSET AppointmentsOf(r)
    BY DEF BlockingOf
  <2>2. ~ Taken(CancelRows(BlockingOf(r)), {}, t, w)
    <3> SUFFICES ASSUME NEW b \in DOMAIN appointments,
                        Blocking(CancelRows(BlockingOf(r))[b]),
                        CancelRows(BlockingOf(r))[b].technician = t,
                        Overlaps(CancelRows(BlockingOf(r))[b].window, w)
                 PROVE  FALSE
      BY CancelRowsFacts DEF Taken
    <3>1. b \notin BlockingOf(r)
      BY CancelledRows DEF Blocking, BlockingStatuses
    <3>2. CancelRows(BlockingOf(r))[b] = appointments[b]
      BY <3>1, CancelRowsFacts
    <3>3. b \notin AppointmentsOf(r)
      BY <3>1, <3>2 DEF BlockingOf
    <3>4. ~ Taken(appointments, AppointmentsOf(r), t, w)
      BY <1>2 DEF DirectApprove, TakenByOthers
    <3> QED
      BY <3>2, <3>3, <3>4 DEF Taken
  <2> QED
    BY <1>2, <2>1, <2>2 DEF DirectApprove, Insert
<1> QED
  BY <1>1, <1>2

(* Every step is of one of the kinds above, or reassigns, or is about a     *)
(* reschedule request.                                                      *)
LEMMA StepKinds ==
  ASSUME TypeOK, [Next]_vars
  PROVE  \/ Quiet
         \/ \E a \in DOMAIN appointments : Visits(a)
         \/ \E r \in Requests : Cancel(r) \/ Insert(r) \/ RequestReschedule(r)
         \/ \E q \in DOMAIN reschedules : RejectReschedule(q)
         \/ \E q \in DOMAIN reschedules, t \in Technicians, w \in Windows :
              ApproveReschedule(q, t, w)
         \/ \E a \in DOMAIN appointments, t \in Technicians : ReassignTechnician(a, t)
<1>1. \A a \in DOMAIN appointments : appointments[a].request \in Requests
  BY AppointmentRow DEF Appointment
<1>2. ASSUME NEW r \in Requests,
             \/ SubmitByWorkflow(r) \/ SubmitByPortal(r) \/ Supplement(r)
             \/ EndWithoutProposal(r) \/ FinalizeExisting(r)
             \/ FinalizeConflict(r) \/ HandleRejection(r) \/ LoseDecision(r)
             \/ DirectReject(r) \/ DirectConflict(r)
             \/ \E t \in Technicians, w \in Windows : Propose(r, t, w)
      PROVE  Quiet
  BY <1>2 DEF SubmitByWorkflow, SubmitByPortal, Supplement, Propose,
      EndWithoutProposal, FinalizeExisting, FinalizeConflict, HandleRejection,
      LoseDecision, DirectReject, DirectConflict, Resume, Quiet, Unbacked, RequestStatuses
<1>3. ASSUME \/ \E t \in Technicians : DeactivateTechnician(t) \/ ActivateTechnician(t)
             \/ UNCHANGED vars
      PROVE  Quiet
  BY <1>3 DEF DeactivateTechnician, ActivateTechnician, vars, Quiet
<1> QED
  BY <1>1, <1>2, <1>3, VisitSteps, CancelSteps, InsertSteps DEF Next

(* What approve_reschedule does, for the rows it is about.                  *)
LEMMA ApproveFacts ==
  ASSUME TypeOK, NEW q \in DOMAIN reschedules, NEW t \in Technicians, NEW w \in Windows,
         ApproveReschedule(q, t, w)
  PROVE  LET r == reschedules[q].request
             old == reschedules[q].appointment
             new == Len(appointments) + 1
         IN /\ r \in Requests /\ old \in Nat
            /\ new \in Nat /\ new > 0 /\ new \notin DOMAIN appointments
            /\ appointments' = Append(Replaced(old, new), NewAppointment(r, t, w, old))
            /\ NewAppointment(r, t, w, old) \in Appointment
            /\ Replaced(old, new) \in Seq(Appointment)
            /\ Len(Replaced(old, new)) = Len(appointments)
            /\ outbox' = Append(CancelEvents({old}), <<"appointment.created">>)
            /\ SetRequest(r, "scheduled")
<1>1. reschedules[q] \in RescheduleRequest /\ Len(appointments) \in Nat
  BY TableFacts DEF TypeOK
<1>2. reschedules[q].request \in Requests /\ reschedules[q].appointment \in Nat
  BY <1>1 DEF RescheduleRequest
<1>3. Len(appointments) + 1 \notin DOMAIN appointments
  BY <1>1, TableFacts DEF TypeOK
<1>4. Len(appointments) + 1 \in Nat /\ Len(appointments) + 1 > 0
  BY <1>1
<1> QED
  BY <1>2, <1>3, <1>4, ReplacedFacts, NewAppointmentType DEF ApproveReschedule, Replaced

------------------------------------------------------------------------------
(* The outbox tells the story                                               *)

LEMMA StepTells ==
  ASSUME TypeOK, Tells(appointments, outbox), [Next]_vars
  PROVE  Tells(appointments', outbox')
<1>1. CASE \/ Quiet
           \/ \E r \in Requests : RequestReschedule(r)
           \/ \E q \in DOMAIN reschedules : RejectReschedule(q)
  BY <1>1 DEF Quiet, RequestReschedule, RejectReschedule
<1>2. ASSUME NEW a \in DOMAIN appointments, Visits(a)
      PROVE  Tells(appointments', outbox')
  <2>1. PICK e \in EventTypes \ {"appointment.created"} :
          SetAppointment(a, StatusAfter(e)) /\ Emit(a, e)
    BY <1>2 DEF Visits, Visit, EventTypes
  <2> QED
    BY <2>1, VisitTells, SetAppointmentRows
<1>3. ASSUME NEW r \in Requests, Cancel(r)
      PROVE  Tells(appointments', outbox')
  BY <1>3, CancelTells DEF Cancel
<1>4. ASSUME NEW r \in Requests, Insert(r)
      PROVE  Tells(appointments', outbox')
  <2>1. PICK ids \in SUBSET AppointmentsOf(r), t \in Technicians, w \in Windows :
          /\ appointments' = Append(CancelRows(ids), NewAppointment(r, t, w, Nil))
          /\ outbox' = Append(CancelEvents(ids), <<"appointment.created">>)
    BY <1>4 DEF Insert
  <2>2. /\ NewAppointment(r, t, w, Nil) \in Appointment
        /\ NewAppointment(r, t, w, Nil).status = "scheduled"
    BY NewAppointmentType, NewRow DEF Nil
  <2>3. CancelRows(ids) \in Seq(Appointment) /\ CancelEvents(ids) \in Seq(Seq(EventTypes))
    BY CancelRowsFacts, CancelEventsFacts
  <2> QED
    BY <2>1, <2>2, <2>3, CancelTells, AppendTells
<1>5. ASSUME NEW q \in DOMAIN reschedules, NEW t \in Technicians, NEW w \in Windows,
             ApproveReschedule(q, t, w)
      PROVE  Tells(appointments', outbox')
  <2> DEFINE r == reschedules[q].request
             old == reschedules[q].appointment
             new == Len(appointments) + 1
             x == NewAppointment(r, t, w, old)
  <2>1. /\ new \in Nat
        /\ appointments' = Append(Replaced(old, new), x)
        /\ x \in Appointment /\ Replaced(old, new) \in Seq(Appointment)
        /\ outbox' = Append(CancelEvents({old}), <<"appointment.created">>)
    BY <1>5, ApproveFacts
  <2>2. x.status = "scheduled"
    BY NewRow
  <2> HIDE DEF r, old, new, x
  <2>3. CancelEvents({old}) \in Seq(Seq(EventTypes))
    BY CancelEventsFacts
  <2>4. Tells(CancelRows({old}), CancelEvents({old}))
    BY CancelTells
  <2>5. /\ DOMAIN Replaced(old, new) = DOMAIN CancelRows({old})
        /\ \A b \in DOMAIN CancelRows({old}) :
             Replaced(old, new)[b].status = CancelRows({old})[b].status
    BY <2>1, ReplacedRows, CancelledRows
  <2>6. Tells(Replaced(old, new), CancelEvents({old}))
    BY <2>4, <2>5 DEF Tells
  <2> QED
    BY <2>1, <2>2, <2>3, <2>6, AppendTells
<1>6. ASSUME NEW a \in DOMAIN appointments, NEW t \in Technicians, ReassignTechnician(a, t)
      PROVE  Tells(appointments', outbox')
  <2>1. Emit(a, "appointment.reassigned") /\ appointments[a].status = "scheduled"
    BY <1>6 DEF ReassignTechnician
  <2>2. StatusAfter("appointment.reassigned") = "scheduled"
    BY DEF StatusAfter
  <2>3. "appointment.reassigned" \in EventTypes \ {"appointment.created"}
    BY DEF EventTypes
  <2> QED
    BY <1>6, <2>1, <2>2, <2>3, ReassignedRows, VisitTells
<1> QED
  BY <1>1, <1>2, <1>3, <1>4, <1>5, <1>6, StepKinds

(* No transaction changes the status of an appointment without the event    *)
(* that says so, and none stages an event that does not.                    *)
THEOREM OutboxTells == Spec => []OutboxTellsTheStory
<1> DEFINE IInv == TypeOK /\ Tells(appointments, outbox)
<1>1. Init => IInv
  BY InitTypeOK DEF Init, Tells
<1>2. IInv /\ [Next]_vars => IInv'
  BY StepTypeOK, StepTells
<1>3. IInv => OutboxTellsTheStory
  BY StoryIsTold
<1> QED
  BY <1>1, <1>2, <1>3, PTL DEF Spec

------------------------------------------------------------------------------
(* What is cancelled stays so                                               *)

LEMMA StepKeepsCancelled ==
  ASSUME TypeOK, [Next]_vars
  PROVE  \A a \in DOMAIN appointments :
           /\ a \in DOMAIN appointments'
           /\ appointments[a].status = "cancelled" => appointments'[a].status = "cancelled"
<1> DEFINE Kept(table) ==
             \A a \in DOMAIN appointments :
               /\ a \in DOMAIN table
               /\ appointments[a].status = "cancelled" => table[a].status = "cancelled"
<1>1. CASE \/ Quiet
           \/ \E r \in Requests : RequestReschedule(r)
           \/ \E q \in DOMAIN reschedules : RejectReschedule(q)
  BY <1>1 DEF Quiet, RequestReschedule, RejectReschedule
<1>2. ASSUME NEW a \in DOMAIN appointments, Visits(a)
      PROVE  Kept(appointments')
  BY <1>2, SetAppointmentRows DEF Visits, Visit
<1>3. ASSUME NEW r \in Requests, Cancel(r)
      PROVE  Kept(appointments')
  BY <1>3, CancelledRows DEF Cancel
<1>4. ASSUME NEW table \in Seq(Appointment), NEW x \in Appointment, Kept(table)
      PROVE  Kept(Append(table, x))
  BY <1>4, AppendRow
<1>5. ASSUME NEW r \in Requests, Insert(r)
      PROVE  Kept(appointments')
  <2>1. PICK ids \in SUBSET AppointmentsOf(r), t \in Technicians, w \in Windows :
          appointments' = Append(CancelRows(ids), NewAppointment(r, t, w, Nil))
    BY <1>5 DEF Insert
  <2>2. CancelRows(ids) \in Seq(Appointment) /\ NewAppointment(r, t, w, Nil) \in Appointment
    BY CancelRowsFacts, NewAppointmentType DEF Nil
  <2>3. Kept(CancelRows(ids))
    BY CancelledRows
  <2> HIDE DEF Kept
  <2> QED
    BY <1>4, <2>1, <2>2, <2>3
<1>6. ASSUME NEW q \in DOMAIN reschedules, NEW t \in Technicians, NEW w \in Windows,
             ApproveReschedule(q, t, w)
      PROVE  Kept(appointments')
  <2> DEFINE old == reschedules[q].appointment
             new == Len(appointments) + 1
             x == NewAppointment(reschedules[q].request, t, w, old)
  <2>1. /\ new \in Nat
        /\ appointments' = Append(Replaced(old, new), x)
        /\ x \in Appointment /\ Replaced(old, new) \in Seq(Appointment)
    BY <1>6, ApproveFacts
  <2> HIDE DEF old, new, x
  <2>2. Kept(Replaced(old, new))
    BY <2>1, ReplacedRows
  <2> HIDE DEF Kept
  <2> QED
    BY <1>4, <2>1, <2>2
<1>7. ASSUME NEW a \in DOMAIN appointments, NEW t \in Technicians, ReassignTechnician(a, t)
      PROVE  Kept(appointments')
  BY <1>7, ReassignedRows
<1> QED
  BY <1>1, <1>2, <1>3, <1>5, <1>6, <1>7, StepKinds

(* No sequence of transactions takes a cancelled appointment up again.      *)
THEOREM CancelledStays == Spec => CancelledIsFinal
<1>1. TypeOK /\ [Next]_vars =>
        [\A a \in DOMAIN appointments :
           appointments[a].status = "cancelled" =>
             appointments'[a].status = "cancelled"]_vars
  BY StepKeepsCancelled
<1> QED
  BY <1>1, TypeCorrect, PTL DEF Spec, CancelledIsFinal

------------------------------------------------------------------------------
(* The chains of rescheduling                                               *)

LinksIn(table) ==
  \A a \in DOMAIN table :
    /\ table[a].replacedBy # Nil =>
         /\ table[a].replacedBy \in DOMAIN table /\ a < table[a].replacedBy
         /\ table[table[a].replacedBy].rescheduledFrom = a
         /\ table[table[a].replacedBy].request = table[a].request
         /\ table[a].status = "cancelled"
    /\ table[a].rescheduledFrom # Nil =>
         /\ table[a].rescheduledFrom \in DOMAIN table
         /\ table[table[a].rescheduledFrom].replacedBy = a

PendingIn(queue, table) ==
  \A q \in DOMAIN queue :
    queue[q].status = "pending" =>
      /\ \A p \in DOMAIN queue :
           queue[p].request = queue[q].request /\ queue[p].status = "pending" => p = q
      /\ queue[q].appointment \in DOMAIN table
      /\ table[queue[q].appointment].request = queue[q].request
      /\ table[queue[q].appointment].replacedBy = Nil

LEMMA ChainIsLinked ==
  ReplacementChain <=> LinksIn(appointments) /\ PendingIn(reschedules, appointments)
<1>1. LinksAgree <=> LinksIn(appointments)
  BY DEF LinksAgree, LinksIn
<1>2. PendingIsAtAnEnd <=> PendingIn(reschedules, appointments)
  BY DEF PendingIsAtAnEnd, PendingIn, Pending, AppointmentsOf
<1> QED
  BY <1>1, <1>2 DEF ReplacementChain

(* The rows of new are linked as those of old, and none is revived.         *)
SameLinks(new, old) ==
  /\ DOMAIN new = DOMAIN old
  /\ \A a \in DOMAIN old :
       /\ new[a].request = old[a].request
       /\ new[a].replacedBy = old[a].replacedBy
       /\ new[a].rescheduledFrom = old[a].rescheduledFrom
       /\ old[a].status = "cancelled" => new[a].status = "cancelled"

LEMMA SameLinksIn ==
  ASSUME NEW old, NEW new, SameLinks(new, old), LinksIn(old), NEW queue, PendingIn(queue, old)
  PROVE  LinksIn(new) /\ PendingIn(queue, new)
<1>1. LinksIn(new)
  BY DEF SameLinks, LinksIn
<1>2. PendingIn(queue, new)
  BY DEF SameLinks, PendingIn
<1> QED
  BY <1>1, <1>2

LEMMA AppendLinksIn ==
  ASSUME NEW table \in Seq(Appointment), LinksIn(table), NEW x \in Appointment,
         x.replacedBy = Nil, x.rescheduledFrom = Nil,
         NEW queue, PendingIn(queue, table)
  PROVE  LinksIn(Append(table, x)) /\ PendingIn(queue, Append(table, x))
<1> DEFINE new == Append(table, x)
           n == Len(table) + 1
<1>1. /\ DOMAIN new = DOMAIN table \cup {n}
      /\ \A a \in DOMAIN table : new[a] = table[a]
      /\ new[n] = x
      /\ n \notin DOMAIN table
  BY AppendRow
<1> HIDE DEF new, n
<1>2. LinksIn(new)
  BY <1>1 DEF LinksIn
<1>3. PendingIn(queue, new)
  BY <1>1 DEF PendingIn
<1> QED
  BY <1>2, <1>3 DEF new

\* The requests of new are those of old, and none but those still await.
FewerPending(new, old) ==
  /\ DOMAIN new = DOMAIN old
  /\ \A q \in DOMAIN old :
       /\ new[q].request = old[q].request
       /\ new[q].appointment = old[q].appointment
       /\ new[q].status = "pending" => old[q].status = "pending"

LEMMA FewerPendingIn ==
  ASSUME NEW old, NEW new, FewerPending(new, old), NEW table, PendingIn(old, table)
  PROVE  PendingIn(new, table)
  BY DEF FewerPending, PendingIn

LEMMA RescheduleRow ==
  ASSUME TypeOK, NEW q \in DOMAIN reschedules
  PROVE  reschedules[q] \in RescheduleRequest
  BY TableFacts DEF TypeOK

(* A chain is made longer at its end, by the request that awaited it.       *)
LEMMA ApproveLinks ==
  ASSUME TypeOK, LinksIn(appointments), PendingIn(reschedules, appointments),
         NEW q \in DOMAIN reschedules, NEW t \in Technicians, NEW w \in Windows,
         ApproveReschedule(q, t, w)
  PROVE  LinksIn(appointments') /\ PendingIn(reschedules', appointments')
<1> DEFINE r == reschedules[q].request
           old == reschedules[q].appointment
           new == Len(appointments) + 1
           x == NewAppointment(r, t, w, old)
           mid == Replaced(old, new)
<1>1. /\ old \in Nat /\ new \in Nat /\ new > 0 /\ new \notin DOMAIN appointments
      /\ appointments' = Append(mid, x)
      /\ x \in Appointment /\ mid \in Seq(Appointment)
      /\ Len(mid) = Len(appointments)
  BY ApproveFacts
<1>2. /\ old \in DOMAIN appointments
      /\ appointments[old].request = r /\ appointments[old].replacedBy = Nil
      /\ \A p \in DOMAIN reschedules :
           reschedules[p].request = r /\ reschedules[p].status = "pending" => p = q
  BY DEF PendingIn, ApproveReschedule
<1>3. old < new
  BY <1>1, <1>2, TableFacts DEF TypeOK
<1>4. x.request = r /\ x.replacedBy = Nil /\ x.rescheduledFrom = old
  BY NewRow
<1>5. /\ DOMAIN mid = DOMAIN appointments
      /\ \A a \in DOMAIN appointments :
           /\ mid[a].request = appointments[a].request
           /\ mid[a].replacedBy = IF a = old THEN new ELSE appointments[a].replacedBy
           /\ mid[a].rescheduledFrom = appointments[a].rescheduledFrom
           /\ mid[a].status = IF a = old THEN "cancelled" ELSE appointments[a].status
  BY <1>1, ReplacedRows
<1>6. /\ DOMAIN appointments' = DOMAIN appointments \cup {new}
      /\ \A a \in DOMAIN appointments : appointments'[a] = mid[a]
      /\ appointments'[new] = x
  <2> HIDE DEF x, mid, r, old
  <2> QED
    BY <1>1, <1>5, AppendRow
<1>7. /\ FewerPending(reschedules', reschedules)
      /\ reschedules'[q].status # "pending"
  <2>1. reschedules[q] \in RescheduleRequest
    BY RescheduleRow
  <2>2. reschedules' = [reschedules EXCEPT ![q] =
                          [reschedules[q] EXCEPT !.status = "approved", !.replacement = new]]
    BY DEF ApproveReschedule
  <2>3. reschedules'[q] = [reschedules[q] EXCEPT !.status = "approved", !.replacement = new]
    BY <2>2
  <2>4. /\ reschedules'[q].request = reschedules[q].request
        /\ reschedules'[q].appointment = reschedules[q].appointment
        /\ reschedules'[q].status = "approved"
    BY <2>1, <2>3 DEF RescheduleRequest
  <2> QED
    BY <2>2, <2>4 DEF FewerPending
<1> HIDE DEF r, old, new, x, mid
<1>8. LinksIn(appointments')
  <2>1. \A a \in DOMAIN appointments : appointments[a].rescheduledFrom = old => FALSE
    BY <1>1, <1>2 DEF LinksIn, Nil
  <2>2. \A a \in DOMAIN appointments' :
          appointments'[a].replacedBy # Nil =>
            /\ appointments'[a].replacedBy \in DOMAIN appointments'
            /\ a < appointments'[a].replacedBy
            /\ appointments'[appointments'[a].replacedBy].rescheduledFrom = a
            /\ appointments'[appointments'[a].replacedBy].request = appointments'[a].request
            /\ appointments'[a].status = "cancelled"
    <3> SUFFICES ASSUME NEW a \in DOMAIN appointments, mid[a].replacedBy # Nil
                 PROVE  /\ mid[a].replacedBy \in DOMAIN appointments'
                        /\ a < mid[a].replacedBy
                        /\ appointments'[mid[a].replacedBy].rescheduledFrom = a
                        /\ appointments'[mid[a].replacedBy].request = mid[a].request
                        /\ mid[a].status = "cancelled"
      BY <1>4, <1>6
    <3>1. CASE a = old
      BY <3>1, <1>2, <1>3, <1>4, <1>5, <1>6
    <3>2. CASE a # old
      <4>1. /\ mid[a].replacedBy = appointments[a].replacedBy
            /\ mid[a].replacedBy \in DOMAIN appointments
        BY <3>2, <1>5 DEF LinksIn
      <4> QED
        BY <3>2, <4>1, <1>5, <1>6 DEF LinksIn
    <3> QED
      BY <3>1, <3>2
  <2>3. \A a \in DOMAIN appointments' :
          appointments'[a].rescheduledFrom # Nil =>
            /\ appointments'[a].rescheduledFrom \in DOMAIN appointments'
            /\ appointments'[appointments'[a].rescheduledFrom].replacedBy = a
    <3> SUFFICES ASSUME NEW a \in DOMAIN appointments', appointments'[a].rescheduledFrom # Nil
                 PROVE  /\ appointments'[a].rescheduledFrom \in DOMAIN appointments'
                        /\ appointments'[appointments'[a].rescheduledFrom].replacedBy = a
      OBVIOUS
    <3>1. CASE a = new
      BY <3>1, <1>2, <1>4, <1>5, <1>6
    <3>2. CASE a # new
      <4>1. a \in DOMAIN appointments
        BY <3>2, <1>6
      <4>2. appointments'[a].rescheduledFrom = appointments[a].rescheduledFrom
        BY <4>1, <1>5, <1>6
      <4>3. /\ appointments[a].rescheduledFrom \in DOMAIN appointments \ {old}
            /\ appointments[appointments[a].rescheduledFrom].replacedBy = a
        BY <4>1, <4>2, <2>1 DEF LinksIn
      <4> QED
        BY <4>2, <4>3, <1>5, <1>6
    <3> QED
      BY <3>1, <3>2
  <2> QED
    BY <2>2, <2>3 DEF LinksIn
<1>9. PendingIn(reschedules', appointments')
  <2> SUFFICES ASSUME NEW p \in DOMAIN reschedules, reschedules'[p].status = "pending"
               PROVE  /\ \A o \in DOMAIN reschedules :
                           reschedules'[o].request = reschedules'[p].request
                             /\ reschedules'[o].status = "pending" => o = p
                      /\ reschedules'[p].appointment \in DOMAIN appointments'
                      /\ appointments'[reschedules'[p].appointment].request
                           = reschedules'[p].request
                      /\ appointments'[reschedules'[p].appointment].replacedBy = Nil
    BY <1>7 DEF PendingIn, FewerPending
  <2> DEFINE a == reschedules[p].appointment
  <2>1. /\ reschedules[p].status = "pending" /\ p # q
        /\ reschedules'[p].appointment = a
        /\ reschedules'[p].request = reschedules[p].request
    BY <1>7 DEF FewerPending
  <2>2. reschedules[p].request # r
    BY <1>2, <2>1
  <2>3. a \in DOMAIN appointments /\ appointments[a].request = reschedules[p].request
          /\ appointments[a].replacedBy = Nil
    BY <2>1 DEF PendingIn
  <2>4. a # old
    BY <1>2, <2>2, <2>3
  <2>5. /\ appointments'[a].request = appointments[a].request
        /\ appointments'[a].replacedBy = Nil /\ a \in DOMAIN appointments'
    BY <2>3, <2>4, <1>5, <1>6
  <2>6. \A o \in DOMAIN reschedules :
          reschedules'[o].request = reschedules'[p].request
            /\ reschedules'[o].status = "pending" => o = p
    BY <1>7, <2>1 DEF PendingIn, FewerPending
  <2> QED
    BY <2>1, <2>3, <2>5, <2>6
<1> QED
  BY <1>8, <1>9

LEMMA RequestLinks ==
  ASSUME TypeOK, LinksIn(appointments), PendingIn(reschedules, appointments),
         NEW r \in Requests, RequestReschedule(r)
  PROVE  PendingIn(reschedules', appointments)
<1>1. CASE UNCHANGED reschedules
  BY <1>1
<1>2. CASE ~ UNCHANGED reschedules
  <2>1. PICK a \in LatestLive(r) :
          /\ Pending(r) = {}
          /\ reschedules' = Append(reschedules,
               [request |-> r, appointment |-> a, status |-> "pending",
                replacement |-> Nil])
    BY <1>2 DEF RequestReschedule
  <2> DEFINE x == [request |-> r, appointment |-> a, status |-> "pending",
                   replacement |-> Nil]
             n == Len(reschedules) + 1
  <2>2. /\ a \in DOMAIN appointments /\ appointments[a].request = r
        /\ appointments[a].status # "cancelled"
    BY LatestLiveFacts
  <2>3. appointments[a].replacedBy = Nil
    BY <2>2 DEF LinksIn
  <2>4. a \in Nat
    BY <2>2, TableFacts DEF TypeOK
  <2>5. x \in RescheduleRequest
    BY <2>4 DEF RescheduleRequest, RescheduleStatuses, Nil
  <2>6. x.request = r /\ x.appointment = a /\ x.status = "pending"
    OBVIOUS
  <2> HIDE DEF x, n
  <2>7. /\ DOMAIN reschedules' = DOMAIN reschedules \cup {n}
        /\ \A q \in DOMAIN reschedules : reschedules'[q] = reschedules[q]
        /\ reschedules'[n] = x
        /\ n \notin DOMAIN reschedules
    BY <2>1, <2>5, AppendRow DEF TypeOK, x, n
  <2>8. \A q \in DOMAIN reschedules :
          ~ (reschedules[q].request = r /\ reschedules[q].status = "pending")
    BY <2>1 DEF Pending
  <2> QED
    BY <2>2, <2>3, <2>6, <2>7, <2>8 DEF PendingIn
<1> QED
  BY <1>1, <1>2

LEMMA StepLinks ==
  ASSUME TypeOK, LinksIn(appointments), PendingIn(reschedules, appointments), [Next]_vars
  PROVE  LinksIn(appointments') /\ PendingIn(reschedules', appointments')
<1>1. CASE Quiet
  BY <1>1 DEF Quiet
<1>2. ASSUME NEW a \in DOMAIN appointments, Visits(a)
      PROVE  LinksIn(appointments') /\ PendingIn(reschedules', appointments')
  <2>1. PICK s : SetAppointment(a, s) /\ appointments[a].status # "cancelled"
    BY <1>2 DEF Visits, Visit
  <2>2. UNCHANGED reschedules
    BY <1>2 DEF Visits, Visit
  <2>3. SameLinks(appointments', appointments)
    BY <2>1, SetAppointmentRows DEF SameLinks
  <2> QED
    BY <2>2, <2>3, SameLinksIn
<1>3. ASSUME NEW r \in Requests, Cancel(r)
      PROVE  LinksIn(appointments') /\ PendingIn(reschedules', appointments')
  <2>1. SameLinks(appointments', appointments)
    BY <1>3, CancelledRows DEF Cancel, SameLinks
  <2>2. reschedules' = [q \in DOMAIN reschedules |->
                          IF q \in Pending(r)
                          THEN [reschedules[q] EXCEPT !.status = "cancelled"]
                          ELSE reschedules[q]]
    BY <1>3 DEF Cancel
  <2>3. FewerPending(reschedules', reschedules)
    BY <2>2, RescheduleRow DEF FewerPending, RescheduleRequest
  <2> QED
    BY <2>1, <2>3, SameLinksIn, FewerPendingIn
<1>4. ASSUME NEW r \in Requests, Insert(r)
      PROVE  LinksIn(appointments') /\ PendingIn(reschedules', appointments')
  <2>1. PICK ids \in SUBSET AppointmentsOf(r), t \in Technicians, w \in Windows :
          /\ appointments' = Append(CancelRows(ids), NewAppointment(r, t, w, Nil))
          /\ UNCHANGED reschedules
    BY <1>4 DEF Insert
  <2> DEFINE x == NewAppointment(r, t, w, Nil)
  <2>2. CancelRows(ids) \in Seq(Appointment) /\ x \in Appointment
    BY CancelRowsFacts, NewAppointmentType DEF Nil
  <2>3. x.replacedBy = Nil /\ x.rescheduledFrom = Nil
    BY NewRow
  <2>4. SameLinks(CancelRows(ids), appointments)
    BY CancelledRows DEF SameLinks
  <2>5. LinksIn(CancelRows(ids)) /\ PendingIn(reschedules, CancelRows(ids))
    BY <2>4, SameLinksIn
  <2> HIDE DEF x
  <2> QED
    BY <2>1, <2>2, <2>3, <2>5, AppendLinksIn DEF x
<1>5. ASSUME NEW r \in Requests, RequestReschedule(r)
      PROVE  LinksIn(appointments') /\ PendingIn(reschedules', appointments')
  BY <1>5, RequestLinks DEF RequestReschedule
<1>6. ASSUME NEW q \in DOMAIN reschedules, RejectReschedule(q)
      PROVE  LinksIn(appointments') /\ PendingIn(reschedules', appointments')
  <2>1. /\ UNCHANGED appointments
        /\ reschedules' = [reschedules EXCEPT ![q] = [reschedules[q] EXCEPT !.status = "rejected"]]
    BY <1>6 DEF RejectReschedule
  <2>2. FewerPending(reschedules', reschedules)
    BY <2>1, RescheduleRow DEF FewerPending, RescheduleRequest
  <2> QED
    BY <2>1, <2>2, FewerPendingIn
<1>7. ASSUME NEW a \in DOMAIN appointments, NEW t \in Technicians, ReassignTechnician(a, t)
      PROVE  LinksIn(appointments') /\ PendingIn(reschedules', appointments')
  <2>1. SameLinks(appointments', appointments) /\ UNCHANGED reschedules
    BY <1>7, ReassignedRows DEF SameLinks, ReassignTechnician
  <2> QED
    BY <2>1, SameLinksIn
<1> QED
  BY <1>1, <1>2, <1>3, <1>4, <1>5, <1>6, <1>7, ApproveLinks, StepKinds

(* Rescheduling, by any operators and however often, keeps a request's      *)
(* appointments in chains, and what awaits an operator is at an end.        *)
THEOREM ChainsKept == Spec => []ReplacementChain
<1> DEFINE IInv == TypeOK /\ LinksIn(appointments) /\ PendingIn(reschedules, appointments)
<1>1. Init => IInv
  BY InitTypeOK DEF Init, LinksIn, PendingIn
<1>2. IInv /\ [Next]_vars => IInv'
  BY StepTypeOK, StepLinks
<1>3. IInv => ReplacementChain
  BY ChainIsLinked
<1> QED
  BY <1>1, <1>2, <1>3, PTL DEF Spec

------------------------------------------------------------------------------
(* The status of a request is backed                                        *)

Backed(p, status, table) ==
  /\ status = "scheduled" =>
       \E a \in DOMAIN table : table[a].request = p /\ Blocking(table[a])
  /\ status \in {"in_progress", "completed"} =>
       \E a \in DOMAIN table : table[a].request = p /\ table[a].status = status
  /\ status = "cancelled" =>
       \/ \A a \in DOMAIN table : table[a].request # p
       \/ \E a \in DOMAIN table : table[a].request = p /\ table[a].status = "cancelled"

AllBacked == \A p \in Requests : Backed(p, requestStatus[p], appointments)

LEMMA BackedIs == RequestStatusIsBacked <=> AllBacked
  BY DEF RequestStatusIsBacked, AllBacked, Backed, Blocking, AppointmentsOf

\* The rows of old are in new, and only those of r may have another status
\* or be new.
ChangesOnly(r, new, old) ==
  /\ \A a \in DOMAIN old :
       /\ a \in DOMAIN new
       /\ new[a].request = old[a].request
       /\ old[a].request # r => new[a].status = old[a].status
  /\ \A a \in DOMAIN new \ DOMAIN old : new[a].request = r

LEMMA OthersBacked ==
  ASSUME TypeOK, AllBacked, NEW r, NEW status, SetRequest(r, status),
         ChangesOnly(r, appointments', appointments),
         r \in Requests => Backed(r, status, appointments')
  PROVE  AllBacked'
<1> SUFFICES ASSUME NEW p \in Requests PROVE Backed(p, requestStatus'[p], appointments')
  BY DEF AllBacked
<1>1. requestStatus'[p] = IF p = r THEN status ELSE requestStatus[p]
  BY DEF TypeOK, SetRequest
<1>2. CASE p = r
  BY <1>1, <1>2
<1>3. CASE p # r
  <2>1. Backed(p, requestStatus[p], appointments)
    BY DEF AllBacked
  <2> QED
    BY <1>1, <1>3, <2>1 DEF Backed, Blocking, ChangesOnly
<1> QED
  BY <1>2, <1>3

LEMMA StepBacked ==
  ASSUME TypeOK, AllBacked, PendingIn(reschedules, appointments), [Next]_vars
  PROVE  AllBacked'
<1> USE DEF Blocking, BlockingStatuses
<1>1. CASE Quiet
  <2>1. CASE UNCHANGED requestStatus
    BY <1>1, <2>1 DEF Quiet, AllBacked, Backed
  <2>2. ASSUME NEW r \in Requests, NEW s \in Unbacked, SetRequest(r, s)
        PROVE  AllBacked'
    <3>1. Backed(r, s, appointments')
      BY DEF Backed, Unbacked
    <3>2. ChangesOnly(r, appointments', appointments)
      BY <1>1 DEF Quiet, ChangesOnly
    <3> QED
      BY <2>2, <3>1, <3>2, OthersBacked
  <2> QED
    BY <1>1, <2>1, <2>2 DEF Quiet
<1>2. ASSUME NEW a \in DOMAIN appointments, Visits(a)
      PROVE  AllBacked'
  <2>1. PICK s \in {"in_progress", "completed", "cancelled"} :
          SetAppointment(a, s) /\ SetRequest(appointments[a].request, s)
    BY <1>2 DEF Visits, Visit
  <2>2. Backed(appointments[a].request, s, appointments')
    BY <2>1, SetAppointmentRows DEF Backed
  <2>3. ChangesOnly(appointments[a].request, appointments', appointments)
    BY <2>1, SetAppointmentRows DEF ChangesOnly
  <2> QED
    BY <2>1, <2>2, <2>3, OthersBacked
<1>3. ASSUME NEW r \in Requests, Cancel(r)
      PROVE  AllBacked'
  <2>1. SetRequest(r, "cancelled")
    BY <1>3 DEF Cancel
  <2>2. ChangesOnly(r, appointments', appointments)
    BY <1>3, CancelledRows DEF Cancel, ChangesOnly, AppointmentsOf
  <2>3. Backed(r, "cancelled", appointments')
    BY <1>3, CancelledRows DEF Cancel, Backed, AppointmentsOf
  <2> QED
    BY <2>1, <2>2, <2>3, OthersBacked
<1>4. ASSUME NEW r \in Requests, NEW table \in Seq(Appointment), NEW x \in Appointment,
             ChangesOnly(r, table, appointments), x.request = r, x.status = "scheduled",
             appointments' = Append(table, x), SetRequest(r, "scheduled")
      PROVE  AllBacked'
  <2>1. /\ DOMAIN appointments' = DOMAIN table \cup {Len(table) + 1}
        /\ \A a \in DOMAIN table : appointments'[a] = table[a]
        /\ appointments'[Len(table) + 1] = x
    BY <1>4, AppendRow
  <2>2. ChangesOnly(r, appointments', appointments)
    BY <1>4, <2>1 DEF ChangesOnly
  <2>3. Backed(r, "scheduled", appointments')
    BY <1>4, <2>1 DEF Backed
  <2> QED
    BY <1>4, <2>2, <2>3, OthersBacked
<1>5. ASSUME NEW r \in Requests, Insert(r)
      PROVE  AllBacked'
  <2>1. PICK ids \in SUBSET AppointmentsOf(r), t \in Technicians, w \in Windows :
          appointments' = Append(CancelRows(ids), NewAppointment(r, t, w, Nil))
    BY <1>5 DEF Insert
  <2> DEFINE x == NewAppointment(r, t, w, Nil)
  <2>2. /\ CancelRows(ids) \in Seq(Appointment) /\ x \in Appointment
        /\ x.request = r /\ x.status = "scheduled"
    BY CancelRowsFacts, NewAppointmentType, NewRow DEF Nil
  <2>3. ChangesOnly(r, CancelRows(ids), appointments)
    BY CancelledRows DEF ChangesOnly, AppointmentsOf
  <2>4. SetRequest(r, "scheduled")
    BY <1>5 DEF Insert
  <2> HIDE DEF x
  <2> QED
    BY <1>4, <2>1, <2>2, <2>3, <2>4 DEF x
<1>6. ASSUME NEW q \in DOMAIN reschedules, NEW t \in Technicians, NEW w \in Windows,
             ApproveReschedule(q, t, w)
      PROVE  AllBacked'
  <2> DEFINE r == reschedules[q].request
             old == reschedules[q].appointment
             new == Len(appointments) + 1
             x == NewAppointment(r, t, w, old)
  <2>1. /\ r \in Requests /\ new \in Nat
        /\ appointments' = Append(Replaced(old, new), x)
        /\ x \in Appointment /\ Replaced(old, new) \in Seq(Appointment)
        /\ SetRequest(r, "scheduled")
    BY <1>6, ApproveFacts
  <2>2. x.request = r /\ x.status = "scheduled"
    BY NewRow
  <2>3. old \in DOMAIN appointments /\ appointments[old].request = r
    BY <1>6 DEF ApproveReschedule, PendingIn
  <2> HIDE DEF r, old, new, x
  <2>4. ChangesOnly(r, Replaced(old, new), appointments)
    BY <2>1, <2>3, ReplacedRows DEF ChangesOnly
  <2> QED
    BY <1>4, <2>1, <2>2, <2>4
<1>7. ASSUME NEW r \in Requests, RequestReschedule(r)
      PROVE  AllBacked'
  <2>1. SetRequest(r, "needs_rescheduling") /\ UNCHANGED appointments
    BY <1>7 DEF RequestReschedule
  <2>2. /\ ChangesOnly(r, appointments', appointments)
        /\ Backed(r, "needs_rescheduling", appointments')
    BY <2>1 DEF ChangesOnly, Backed
  <2> QED
    BY <2>1, <2>2, OthersBacked
<1>8. ASSUME NEW q \in DOMAIN reschedules, RejectReschedule(q)
      PROVE  AllBacked'
  <2> DEFINE r == reschedules[q].request
  <2>1. UNCHANGED appointments
    BY <1>8 DEF RejectReschedule
  <2>2. CASE UNCHANGED requestStatus
    BY <2>1, <2>2 DEF AllBacked
  <2>3. CASE /\ SetRequest(r, "scheduled")
             /\ \E a \in AppointmentsOf(r) : appointments[a].status = "scheduled"
    <3>1. /\ ChangesOnly(r, appointments', appointments)
          /\ Backed(r, "scheduled", appointments')
      BY <2>1, <2>3 DEF ChangesOnly, Backed, AppointmentsOf
    <3> HIDE DEF r
    <3> QED
      BY <2>3, <3>1, OthersBacked
  <2> QED
    BY <1>8, <2>2, <2>3 DEF RejectReschedule
<1>9. ASSUME NEW a \in DOMAIN appointments, NEW t \in Technicians, ReassignTechnician(a, t)
      PROVE  AllBacked'
  <2>1. UNCHANGED requestStatus
    BY <1>9 DEF ReassignTechnician
  <2> QED
    BY <1>9, <2>1, ReassignedRows DEF AllBacked, Backed
<1> QED
  BY <1>1, <1>2, <1>3, <1>5, <1>6, <1>7, <1>8, <1>9, StepKinds

(* Whichever of the transactions wrote a request's status, an appointment   *)
(* of the request backs it.                                                 *)
THEOREM StatusBacked == Spec => []RequestStatusIsBacked
<1> DEFINE IInv == /\ TypeOK
                   /\ LinksIn(appointments) /\ PendingIn(reschedules, appointments)
                   /\ AllBacked
<1>1. Init => IInv
  <2>1. Init => LinksIn(appointments) /\ PendingIn(reschedules, appointments)
    BY DEF Init, LinksIn, PendingIn
  <2>2. Init => AllBacked
    BY DEF Init, AllBacked, Backed
  <2> QED
    BY <2>1, <2>2, InitTypeOK
<1>2. IInv /\ [Next]_vars => IInv'
  BY StepTypeOK, StepLinks, StepBacked
<1>3. IInv => RequestStatusIsBacked
  BY BackedIs
<1> QED
  BY <1>1, <1>2, <1>3, PTL DEF Spec

------------------------------------------------------------------------------
(* The technicians' calendar                                                *)

Booking(table, a) ==
  [appointment |-> a, technician |-> table[a].technician, window |-> table[a].window]

BookingsIn(table) == {Booking(table, a) : a \in {b \in DOMAIN table : Blocking(table[b])}}

LEMMA BookingsAre ==
  /\ Bookings = BookingsIn(appointments)
  /\ Bookings' = BookingsIn(appointments')
  BY DEF Bookings, BookingsIn, Booking

LEMMA Releases ==
  ASSUME ClaimsNoMore(appointments', appointments)
  PROVE  Calendar!Next
<1>1. BookingsIn(appointments') \in SUBSET BookingsIn(appointments)
  BY DEF ClaimsNoMore, BookingsIn, Booking
<1>2. UNCHANGED DOMAIN appointments
  BY DEF ClaimsNoMore
<1> QED
  BY <1>1, <1>2, BookingsAre DEF Calendar!Next, Calendar!Release

(* A row appended to a table that claims no more than before is a booking.  *)
LEMMA Books ==
  ASSUME TypeOK, NEW table \in Seq(Appointment), ClaimsNoMore(table, appointments),
         NEW x \in Appointment, x.status = "scheduled",
         ~ Taken(table, {}, x.technician, x.window),
         appointments' = Append(table, x)
  PROVE  Calendar!Next
<1> DEFINE n == Len(table) + 1
           b == [appointment |-> n, technician |-> x.technician, window |-> x.window]
           kept == BookingsIn(table)
<1>1. /\ DOMAIN appointments' = DOMAIN table \cup {n}
      /\ \A a \in DOMAIN table : appointments'[a] = table[a]
      /\ appointments'[n] = x
      /\ n \notin DOMAIN table
  BY AppendRow
<1>2. x.technician \in Technicians /\ x.window \in Windows
  BY DEF Appointment
<1>3. \A a \in DOMAIN table : table[a].window \in Windows
  <2>1. \A a \in DOMAIN table : table[a] \in Appointment
    BY TableFacts
  <2> QED
    BY <2>1 DEF Appointment
<1> HIDE DEF n
<1>4. DOMAIN table = DOMAIN appointments
  BY DEF ClaimsNoMore
<1>5. kept \in SUBSET BookingsIn(appointments)
  BY DEF ClaimsNoMore, BookingsIn, Booking
<1>6. BookingsIn(appointments') = kept \cup {b}
  <2>1. {a \in DOMAIN appointments' : Blocking(appointments'[a])}
          = {a \in DOMAIN table : Blocking(table[a])} \cup {n}
    BY <1>1 DEF Blocking, BlockingStatuses
  <2>2. Booking(appointments', n) = b
    BY <1>1 DEF Booking
  <2>3. \A a \in DOMAIN table : Booking(appointments', a) = Booking(table, a)
    BY <1>1 DEF Booking
  <2> HIDE DEF b
  <2> QED
    BY <2>1, <2>2, <2>3 DEF BookingsIn
<1>7. ASSUME NEW c \in kept PROVE ~ Calendar!Clash(b, c)
  <2>1. PICK a \in DOMAIN table : Blocking(table[a]) /\ c = Booking(table, a)
    BY DEF BookingsIn
  <2>2. c.technician = table[a].technician /\ c.window = table[a].window
    BY <2>1 DEF Booking
  <2>3. table[a].technician = x.technician => ~ Overlaps(table[a].window, x.window)
    BY <2>1 DEF Taken
  <2>4. table[a].technician = x.technician => ~ Overlaps(x.window, table[a].window)
    BY <1>2, <1>3, <2>3, OverlapsSymmetric
  <2> QED
    BY <2>2, <2>4 DEF Calendar!Clash, Calendar!Overlaps, Overlaps
<1>8. n \in (DOMAIN appointments)' \ DOMAIN appointments
  BY <1>1, <1>4
<1>9. (DOMAIN appointments)' = DOMAIN appointments \cup {n}
  BY <1>1, <1>4
<1> HIDE DEF kept
<1>10. Calendar!Book(b, kept)
  BY <1>1, <1>4, <1>6, <1>7, <1>9, BookingsAre DEF Calendar!Book
<1> QED
  BY <1>2, <1>5, <1>8, <1>10, BookingsAre DEF Calendar!Next

LEMMA Moves ==
  ASSUME TypeOK, NEW a \in DOMAIN appointments, NEW t \in Technicians,
         ReassignTechnician(a, t)
  PROVE  Calendar!Next
<1> DEFINE b == Booking(appointments, a)
           moved == [b EXCEPT !.technician = t]
           kept == BookingsIn(appointments) \ {b}
<1>1. \A c \in DOMAIN appointments : /\ appointments[c] \in Appointment
                                     /\ appointments[c].window \in Windows
  BY AppointmentRow DEF Appointment
<1>2. /\ appointments[a].status = "scheduled"
      /\ ~ Taken(appointments, {a}, t, appointments[a].window)
      /\ appointments' = [appointments EXCEPT ![a] = [appointments[a] EXCEPT !.technician = t]]
  BY DEF ReassignTechnician
<1>3. /\ DOMAIN appointments' = DOMAIN appointments
      /\ \A c \in DOMAIN appointments \ {a} : appointments'[c] = appointments[c]
      /\ appointments'[a] = [appointments[a] EXCEPT !.technician = t]
  BY <1>2
<1>4. /\ appointments'[a].technician = t
      /\ appointments'[a].window = appointments[a].window
      /\ appointments'[a].status = appointments[a].status
  BY <1>1, <1>3 DEF Appointment
<1>5. b \in BookingsIn(appointments)
  BY <1>2 DEF BookingsIn, Blocking, BlockingStatuses
<1>6. moved = Booking(appointments', a)
  BY <1>4 DEF Booking
<1>7. kept = {Booking(appointments, c) :
                c \in {d \in DOMAIN appointments : Blocking(appointments[d])} \ {a}}
  <2>1. \A c \in DOMAIN appointments : Booking(appointments, c) = b => c = a
    BY DEF Booking
  <2> HIDE DEF b
  <2> QED
    BY <2>1 DEF BookingsIn, b
<1>8. BookingsIn(appointments') = kept \cup {moved}
  <2>1. {c \in DOMAIN appointments' : Blocking(appointments'[c])}
          = ({d \in DOMAIN appointments : Blocking(appointments[d])} \ {a}) \cup {a}
    BY <1>2, <1>3, <1>4 DEF Blocking, BlockingStatuses
  <2>2. \A c \in DOMAIN appointments \ {a} :
          Booking(appointments', c) = Booking(appointments, c)
    BY <1>3 DEF Booking
  <2> HIDE DEF moved, kept, b
  <2> QED
    BY <1>6, <1>7, <2>1, <2>2 DEF BookingsIn
<1>9. ASSUME NEW c \in kept PROVE ~ Calendar!Clash(moved, c)
  <2>1. PICK d \in DOMAIN appointments \ {a} :
          Blocking(appointments[d]) /\ c = Booking(appointments, d)
    BY <1>7
  <2>2. c.technician = appointments[d].technician /\ c.window = appointments[d].window
    BY <2>1 DEF Booking
  <2>3. moved.technician = t /\ moved.window = appointments[a].window
    BY DEF Booking
  <2>4. appointments[d].technician = t =>
          ~ Overlaps(appointments[d].window, appointments[a].window)
    BY <1>2, <2>1 DEF Taken
  <2>5. appointments[d].technician = t =>
          ~ Overlaps(appointments[a].window, appointments[d].window)
    BY <1>1, <2>4, OverlapsSymmetric
  <2> HIDE DEF moved
  <2> QED
    BY <2>2, <2>3, <2>5 DEF Calendar!Clash, Calendar!Overlaps, Overlaps
<1>10. Calendar!Move(b, t)
  <2> HIDE DEF b
  <2> QED
    BY <1>3, <1>8, <1>9, BookingsAre DEF Calendar!Move
<1> QED
  BY <1>5, <1>10, BookingsAre DEF Calendar!Next

LEMMA StepCalendar ==
  ASSUME TypeOK, [Next]_vars
  PROVE  [Calendar!Next]_<<Bookings, DOMAIN appointments>>
<1>1. CASE \/ Quiet
           \/ \E r \in Requests : RequestReschedule(r)
           \/ \E q \in DOMAIN reschedules : RejectReschedule(q)
  BY <1>1, BookingsAre DEF Quiet, RequestReschedule, RejectReschedule
<1>2. ASSUME NEW a \in DOMAIN appointments, Visits(a)
      PROVE  Calendar!Next
  <2>1. PICK s : /\ SetAppointment(a, s)
                 /\ s \in BlockingStatuses => Blocking(appointments[a])
    BY <1>2 DEF Visits, Visit
  <2> QED
    BY <2>1, SetAppointmentClaims, Releases
<1>3. ASSUME NEW r \in Requests, Cancel(r)
      PROVE  Calendar!Next
  BY <1>3, CancelRowsClaims, Releases DEF Cancel
<1>4. ASSUME NEW r \in Requests, Insert(r)
      PROVE  Calendar!Next
  <2>1. PICK ids \in SUBSET AppointmentsOf(r), t \in Technicians, w \in Windows :
          /\ appointments' = Append(CancelRows(ids), NewAppointment(r, t, w, Nil))
          /\ ~ Taken(CancelRows(ids), {}, t, w)
    BY <1>4 DEF Insert
  <2> DEFINE x == NewAppointment(r, t, w, Nil)
  <2>2. /\ CancelRows(ids) \in Seq(Appointment) /\ x \in Appointment
        /\ x.status = "scheduled" /\ x.technician = t /\ x.window = w
    BY CancelRowsFacts, NewAppointmentType, NewRow DEF Nil
  <2>3. ClaimsNoMore(CancelRows(ids), appointments)
    BY CancelRowsClaims
  <2> HIDE DEF x
  <2> QED
    BY <2>1, <2>2, <2>3, Books DEF x
<1>5. ASSUME NEW q \in DOMAIN reschedules, NEW t \in Technicians, NEW w \in Windows,
             ApproveReschedule(q, t, w)
      PROVE  Calendar!Next
  <2> DEFINE old == reschedules[q].appointment
             new == Len(appointments) + 1
             x == NewAppointment(reschedules[q].request, t, w, old)
  <2>1. /\ new \in Nat
        /\ appointments' = Append(Replaced(old, new), x)
        /\ x \in Appointment /\ Replaced(old, new) \in Seq(Appointment)
    BY <1>5, ApproveFacts
  <2>2. x.status = "scheduled" /\ x.technician = t /\ x.window = w
    BY NewRow
  <2>3. ClaimsNoMore(Replaced(old, new), appointments)
    BY <2>1, ReplacedClaims
  <2>4. ~ Taken(appointments, {}, t, w)
    BY <1>5 DEF ApproveReschedule
  <2> HIDE DEF old, new, x
  <2>5. ~ Taken(Replaced(old, new), {}, t, w)
    BY <2>3, <2>4 DEF ClaimsNoMore, Taken
  <2> QED
    BY <2>1, <2>2, <2>3, <2>5, Books
<1> QED
  BY <1>1, <1>2, <1>3, <1>4, <1>5, Moves, StepKinds

(* Whatever happens to requests, the appointments are a ledger in which a   *)
(* slot is taken only where its technician is free.                         *)
THEOREM LifecycleImplementsCalendar == Spec => ImplementsCalendar
<1>1. Init => Calendar!Init
  BY DEF Init, Calendar!Init, Bookings
<1>2. TypeOK /\ [Next]_vars => [Calendar!Next]_<<Bookings, DOMAIN appointments>>
  BY StepCalendar
<1> QED
  BY <1>1, <1>2, TypeCorrect, PTL DEF Spec, ImplementsCalendar, Calendar!Spec

------------------------------------------------------------------------------
(* The stories of the appointments                                          *)

StoryIn(table, box, a) ==
  IF a \in DOMAIN table
  THEN [status |-> table[a].status, staged |-> box[a]]
  ELSE [status |-> "none", staged |-> <<>>]

(* Against the present tables, every story stands still or goes on.         *)
Carries(table, box) ==
  /\ DOMAIN table = DOMAIN appointments
  /\ DOMAIN box = DOMAIN outbox
  /\ \A a \in DOMAIN appointments :
       \/ StoryIn(table, box, a) = StoryIn(appointments, outbox, a)
       \/ Story!GoesOn(StoryIn(appointments, outbox, a), StoryIn(table, box, a))

(* ... or begins.                                                           *)
CarriesOrBegins(table, box) ==
  \A a :
    \/ StoryIn(table, box, a) = StoryIn(appointments, outbox, a)
    \/ Story!Follows(StoryIn(appointments, outbox, a), StoryIn(table, box, a))

LEMMA CarriesIsEnough ==
  ASSUME NEW table, NEW box, Carries(table, box)
  PROVE  CarriesOrBegins(table, box)
  BY DEF Carries, CarriesOrBegins, StoryIn, Story!Follows

(* A row is appended with its first event.                                  *)
LEMMA AppendCarries ==
  ASSUME TypeOK, DOMAIN outbox = DOMAIN appointments,
         NEW table \in Seq(Appointment), NEW box \in Seq(Seq(EventTypes)),
         Carries(table, box), NEW x \in Appointment, x.status = "scheduled"
  PROVE  CarriesOrBegins(Append(table, x), Append(box, <<"appointment.created">>))
<1> DEFINE c == <<"appointment.created">>
           n == Len(table) + 1
<1>1. c \in Seq(EventTypes)
  BY DEF EventTypes
<1>2. c = Append(<<>>, "appointment.created")
  OBVIOUS
<1> HIDE DEF c
<1>3. /\ DOMAIN Append(table, x) = DOMAIN table \cup {n}
      /\ \A a \in DOMAIN table : Append(table, x)[a] = table[a]
      /\ Append(table, x)[n] = x
      /\ n \notin DOMAIN table
  BY AppendRow
<1>4. Len(table) = Len(box)
  BY TableFacts DEF Carries
<1>5. /\ \A a \in DOMAIN box : Append(box, c)[a] = box[a]
      /\ Append(box, c)[n] = c
  BY <1>1, <1>4, AppendRow
<1>6. \A a : a # n => StoryIn(Append(table, x), Append(box, c), a) = StoryIn(table, box, a)
  BY <1>3, <1>5 DEF StoryIn, Carries
<1>7. Story!Created(StoryIn(appointments, outbox, n), StoryIn(Append(table, x), Append(box, c), n))
  BY <1>2, <1>3, <1>5 DEF StoryIn, Carries, Story!Created, Story!Untold, Story!Begun, Story!Tell
<1>8. CarriesOrBegins(table, box)
  BY CarriesIsEnough
<1>9. CarriesOrBegins(Append(table, x), Append(box, c))
  BY <1>6, <1>7, <1>8 DEF CarriesOrBegins, Story!Follows
<1> QED
  BY <1>9 DEF c

(* Any appointments of a table may be cancelled.                            *)
LEMMA CancelCarries ==
  ASSUME TypeOK, DOMAIN outbox = DOMAIN appointments, NEW ids
  PROVE  Carries(CancelRows(ids), CancelEvents(ids))
<1>1. DOMAIN CancelRows(ids) = DOMAIN appointments /\ DOMAIN CancelEvents(ids) = DOMAIN outbox
  BY CancelRowsFacts, CancelEventsFacts
<1>2. ASSUME NEW a \in DOMAIN appointments, a \notin ids
      PROVE  StoryIn(CancelRows(ids), CancelEvents(ids), a) = StoryIn(appointments, outbox, a)
  BY <1>1, <1>2, CancelRowsFacts DEF StoryIn, CancelEvents
<1>3. ASSUME NEW a \in DOMAIN appointments, a \in ids
      PROVE  Story!Cancelled(StoryIn(appointments, outbox, a),
                             StoryIn(CancelRows(ids), CancelEvents(ids), a))
  <2>1. appointments[a].status # "none"
    BY AppointmentRow DEF Appointment, AppointmentStatuses
  <2>2. CancelRows(ids)[a].status = "cancelled"
    BY <1>3, CancelledRows
  <2>3. CancelEvents(ids)[a] = Append(outbox[a], "appointment.cancelled")
    BY <1>3 DEF CancelEvents
  <2> QED
    BY <1>1, <2>1, <2>2, <2>3 DEF StoryIn, Story!Cancelled, Story!Tell
<1> QED
  BY <1>1, <1>2, <1>3 DEF Carries, Story!GoesOn

(* One row changes and stages one event.                                    *)
LEMMA EmitCarries ==
  ASSUME TypeOK, DOMAIN outbox = DOMAIN appointments, NEW a \in DOMAIN appointments,
         NEW e, NEW s, Emit(a, e), DOMAIN appointments' = DOMAIN appointments,
         \A b \in DOMAIN appointments :
           appointments'[b].status = IF b = a THEN s ELSE appointments[b].status,
         LET now == StoryIn(appointments, outbox, a) IN
         Story!GoesOn(now, Story!Tell(now, s, e))
  PROVE  Carries(appointments', outbox')
<1>1. outbox' = [outbox EXCEPT ![a] = Append(outbox[a], e)]
  BY DEF Emit
<1>2. StoryIn(appointments', outbox', a) = Story!Tell(StoryIn(appointments, outbox, a), s, e)
  BY <1>1 DEF StoryIn, Story!Tell
<1>3. \A b \in DOMAIN appointments \ {a} :
        StoryIn(appointments', outbox', b) = StoryIn(appointments, outbox, b)
  BY <1>1 DEF StoryIn
<1> QED
  BY <1>1, <1>2, <1>3 DEF Carries

(* Whatever the transaction, each appointment's story stands still or goes  *)
(* on by one event.                                                         *)
LEMMA StepCarries ==
  ASSUME TypeOK, DOMAIN outbox = DOMAIN appointments, [Next]_vars
  PROVE  CarriesOrBegins(appointments', outbox')
<1>1. CASE \/ Quiet
           \/ \E r \in Requests : RequestReschedule(r)
           \/ \E q \in DOMAIN reschedules : RejectReschedule(q)
  BY <1>1 DEF Quiet, RequestReschedule, RejectReschedule, CarriesOrBegins
<1>2. ASSUME NEW a \in DOMAIN appointments, Visits(a)
      PROVE  CarriesOrBegins(appointments', outbox')
  <2> DEFINE now == StoryIn(appointments, outbox, a)
  <2>1. now.status = appointments[a].status
    BY DEF StoryIn
  <2>2. PICK s, e : Visit(a, s, e) /\ Story!GoesOn(now, Story!Tell(now, s, e))
    <3>1. CASE Visit(a, "in_progress", "appointment.started")
      BY <2>1, <3>1 DEF Visit, Story!GoesOn, Story!Started
    <3>2. CASE Visit(a, "completed", "appointment.completed")
      BY <2>1, <3>2 DEF Visit, Blocking, BlockingStatuses, Story!GoesOn, Story!Completed
    <3>3. CASE Visit(a, "cancelled", "appointment.cancelled")
      <4>1. appointments[a].status # "none"
        BY AppointmentRow DEF Appointment, AppointmentStatuses
      <4> QED
        BY <2>1, <3>3, <4>1 DEF Story!GoesOn, Story!Cancelled
    <3> QED
      BY <1>2, <3>1, <3>2, <3>3 DEF Visits
  <2>3. SetAppointment(a, s) /\ Emit(a, e)
    BY <2>2 DEF Visit
  <2> QED
    BY <2>2, <2>3, SetAppointmentRows, EmitCarries, CarriesIsEnough
<1>3. ASSUME NEW r \in Requests, Cancel(r)
      PROVE  CarriesOrBegins(appointments', outbox')
  <2>1. PICK ids : appointments' = CancelRows(ids) /\ outbox' = CancelEvents(ids)
    BY <1>3 DEF Cancel
  <2> QED
    BY <2>1, CancelCarries, CarriesIsEnough
<1>4. ASSUME NEW r \in Requests, Insert(r)
      PROVE  CarriesOrBegins(appointments', outbox')
  <2>1. PICK ids \in SUBSET AppointmentsOf(r), t \in Technicians, w \in Windows :
          /\ appointments' = Append(CancelRows(ids), NewAppointment(r, t, w, Nil))
          /\ outbox' = Append(CancelEvents(ids), <<"appointment.created">>)
    BY <1>4 DEF Insert
  <2>2. /\ NewAppointment(r, t, w, Nil) \in Appointment
        /\ NewAppointment(r, t, w, Nil).status = "scheduled"
    BY NewAppointmentType, NewRow DEF Nil
  <2>3. CancelRows(ids) \in Seq(Appointment) /\ CancelEvents(ids) \in Seq(Seq(EventTypes))
    BY CancelRowsFacts, CancelEventsFacts
  <2> QED
    BY <2>1, <2>2, <2>3, CancelCarries, AppendCarries
<1>5. ASSUME NEW q \in DOMAIN reschedules, NEW t \in Technicians, NEW w \in Windows,
             ApproveReschedule(q, t, w)
      PROVE  CarriesOrBegins(appointments', outbox')
  <2> DEFINE r == reschedules[q].request
             old == reschedules[q].appointment
             new == Len(appointments) + 1
             x == NewAppointment(r, t, w, old)
  <2>1. /\ new \in Nat
        /\ appointments' = Append(Replaced(old, new), x)
        /\ x \in Appointment /\ Replaced(old, new) \in Seq(Appointment)
        /\ outbox' = Append(CancelEvents({old}), <<"appointment.created">>)
    BY <1>5, ApproveFacts
  <2>2. x.status = "scheduled"
    BY NewRow
  <2> HIDE DEF r, old, new, x
  <2>3. CancelEvents({old}) \in Seq(Seq(EventTypes))
    BY CancelEventsFacts
  <2>4. Carries(CancelRows({old}), CancelEvents({old}))
    BY CancelCarries
  <2>5. /\ DOMAIN Replaced(old, new) = DOMAIN CancelRows({old})
        /\ \A b \in DOMAIN CancelRows({old}) :
             Replaced(old, new)[b].status = CancelRows({old})[b].status
    BY <2>1, ReplacedRows, CancelledRows
  <2>6. \A b : StoryIn(Replaced(old, new), CancelEvents({old}), b)
                 = StoryIn(CancelRows({old}), CancelEvents({old}), b)
    BY <2>5 DEF StoryIn
  <2>7. Carries(Replaced(old, new), CancelEvents({old}))
    BY <2>4, <2>5, <2>6 DEF Carries
  <2> QED
    BY <2>1, <2>2, <2>3, <2>7, AppendCarries
<1>6. ASSUME NEW a \in DOMAIN appointments, NEW t \in Technicians, ReassignTechnician(a, t)
      PROVE  CarriesOrBegins(appointments', outbox')
  <2> DEFINE now == StoryIn(appointments, outbox, a)
  <2>1. Emit(a, "appointment.reassigned") /\ appointments[a].status = "scheduled"
    BY <1>6 DEF ReassignTechnician
  <2>2. Story!GoesOn(now, Story!Tell(now, "scheduled", "appointment.reassigned"))
    BY <2>1 DEF StoryIn, Story!GoesOn, Story!Reassigned
  <2> QED
    BY <1>6, <2>1, <2>2, ReassignedRows, EmitCarries, CarriesIsEnough
<1> QED
  BY <1>1, <1>2, <1>3, <1>4, <1>5, <1>6, StepKinds

(* The business side keeps its promise to the calendar and the              *)
(* notifications: whatever transactions run, what the outbox tells of an    *)
(* appointment is a story as AppointmentStories has them.                   *)
THEOREM LifecycleTellsStories == Spec => TellsStories
<1> DEFINE IInv == TypeOK /\ Tells(appointments, outbox)
<1>1. \A a \in 1 .. MaxAppointments : Stories[a] = StoryIn(appointments, outbox, a)
  BY DEF Stories, StoryIn
<1>2. Init => IInv /\ Story!Init
  <2> SUFFICES ASSUME Init
               PROVE  IInv /\ Story!Init
    OBVIOUS
  <2>1. IInv
    BY InitTypeOK DEF Init, Tells
  <2>2. \A a \in 1 .. MaxAppointments : Stories[a] = Story!Untold
    BY DEF Init, Stories, Story!Untold
  <2> QED
    BY <2>1, <2>2 DEF Stories, Story!Init
<1>3. IInv /\ [Next]_vars => IInv' /\ [Story!Next]_Stories
  <2> SUFFICES ASSUME IInv, [Next]_vars
               PROVE  IInv' /\ Story!Next
    OBVIOUS
  <2>1. IInv'
    BY StepTypeOK, StepTells
  <2>2. CarriesOrBegins(appointments', outbox')
    BY StepCarries DEF Tells
  <2>3. \A a \in 1 .. MaxAppointments : Stories'[a] = StoryIn(appointments', outbox', a)
    BY DEF Stories, StoryIn
  <2> QED
    BY <1>1, <2>1, <2>2, <2>3 DEF CarriesOrBegins, Story!Next
<1> QED
  BY <1>2, <1>3, PTL DEF Spec, TellsStories, Story!Spec

(* A story that has ended: nothing but cancellations is told after an       *)
(* appointment was completed or cancelled, and one that is to come or in    *)
(* progress was neither.                                                    *)
Endings == {"appointment.completed", "appointment.cancelled"}

EndsWell(s) ==
  /\ \A i, j \in DOMAIN s.staged :
       i < j /\ s.staged[i] \in Endings => s.staged[j] = "appointment.cancelled"
  /\ \A i \in DOMAIN s.staged :
       s.staged[i] \in Endings => s.status \in {"completed", "cancelled"}

LEMMA TellEndsWell ==
  ASSUME NEW s, s.staged \in Seq(EventTypes), EndsWell(s),
         NEW e \in EventTypes, NEW status,
         e = "appointment.cancelled" \/ s.status \notin {"completed", "cancelled"},
         e \in Endings => status \in {"completed", "cancelled"},
         s.status \in {"completed", "cancelled"} => status \in {"completed", "cancelled"}
  PROVE  EndsWell(Story!Tell(s, status, e))
<1> DEFINE more == Append(s.staged, e)
           n == Len(s.staged)
<1>1. n \in Nat /\ DOMAIN s.staged = 1 .. n
  BY TableFacts
<1>2. /\ DOMAIN more = 1 .. n + 1
      /\ \A i \in 1 .. n : more[i] = s.staged[i]
      /\ more[n + 1] = e
  BY <1>1, AppendProperties
<1>3. Story!Tell(s, status, e).staged = more /\ Story!Tell(s, status, e).status = status
  BY DEF Story!Tell
<1> HIDE DEF more, n
<1>4. ASSUME NEW i \in 1 .. n + 1, more[i] \in Endings PROVE status \in {"completed", "cancelled"}
  BY <1>1, <1>2, <1>4 DEF EndsWell
<1>5. ASSUME NEW i \in 1 .. n + 1, NEW j \in 1 .. n + 1, i < j, more[i] \in Endings
      PROVE  more[j] = "appointment.cancelled"
  <2>1. i \in 1 .. n /\ s.staged[i] \in Endings
    BY <1>1, <1>2, <1>5
  <2>2. CASE j = n + 1
    BY <1>1, <1>2, <2>1, <2>2 DEF EndsWell
  <2>3. CASE j \in 1 .. n
    BY <1>1, <1>2, <1>5, <2>1, <2>3 DEF EndsWell
  <2> QED
    BY <1>1, <2>2, <2>3
<1> QED
  BY <1>2, <1>3, <1>4, <1>5 DEF EndsWell

LEMMA FollowsEndsWell ==
  ASSUME NEW s, s.staged \in Seq(EventTypes), EndsWell(s), NEW t, Story!Follows(s, t)
  PROVE  EndsWell(t)
<1> USE DEF EventTypes, Endings
<1>1. CASE Story!Created(s, t)
  <2>1. s = Story!Untold /\ t = Story!Tell(s, "scheduled", "appointment.created")
    BY <1>1 DEF Story!Created, Story!Begun
  <2>2. s.status \notin {"completed", "cancelled"}
    BY <2>1 DEF Story!Untold
  <2> QED
    BY <2>1, <2>2, TellEndsWell
<1>2. CASE Story!Reassigned(s, t)
  BY <1>2, TellEndsWell DEF Story!Reassigned
<1>3. CASE Story!Started(s, t)
  BY <1>3, TellEndsWell DEF Story!Started
<1>4. CASE Story!Completed(s, t)
  BY <1>4, TellEndsWell DEF Story!Completed
<1>5. CASE Story!Cancelled(s, t)
  BY <1>5, TellEndsWell DEF Story!Cancelled
<1> QED
  BY <1>1, <1>2, <1>3, <1>4, <1>5 DEF Story!Follows, Story!GoesOn

(* What the outbox tells of an appointment once it is over: it is completed *)
(* at most once, and after it was completed or cancelled nothing but        *)
(* cancellations is staged.  So there is one follow-up event at most, and   *)
(* the calendar is never asked to show again what it was told to remove.    *)
THEOREM OverIsOver ==
  Spec => [](\A a \in DOMAIN appointments :
               \A i, j \in DOMAIN outbox[a] :
                 i < j /\ outbox[a][i] \in {"appointment.completed", "appointment.cancelled"}
                   => outbox[a][j] = "appointment.cancelled")
<1> DEFINE Over == \A a \in DOMAIN appointments :
                     \A i, j \in DOMAIN outbox[a] :
                       i < j /\ outbox[a][i] \in {"appointment.completed", "appointment.cancelled"}
                         => outbox[a][j] = "appointment.cancelled"
           Well == \A a : EndsWell(StoryIn(appointments, outbox, a))
           IInv == TypeOK /\ Tells(appointments, outbox) /\ Well
<1>1. Init => IInv
  <2> SUFFICES ASSUME Init PROVE IInv
    OBVIOUS
  <2>1. TypeOK /\ Tells(appointments, outbox)
    BY InitTypeOK DEF Init, Tells
  <2>2. \A a : StoryIn(appointments, outbox, a).staged = <<>>
    BY DEF Init, StoryIn
  <2> QED
    BY <2>1, <2>2 DEF EndsWell
<1>2. IInv /\ [Next]_vars => IInv'
  <2> SUFFICES ASSUME IInv, [Next]_vars PROVE IInv'
    OBVIOUS
  <2>1. (TypeOK /\ Tells(appointments, outbox))'
    BY StepTypeOK, StepTells
  <2>2. CarriesOrBegins(appointments', outbox')
    BY StepCarries DEF Tells
  <2>3. ASSUME NEW a
        PROVE  StoryIn(appointments, outbox, a).staged \in Seq(EventTypes)
    <3>1. a \in DOMAIN appointments => outbox[a] \in Seq(EventTypes)
      BY TableFacts DEF TypeOK, Tells
    <3> QED
      BY <3>1 DEF StoryIn
  <2>4. ASSUME NEW a PROVE EndsWell(StoryIn(appointments', outbox', a))
    BY <2>2, <2>3, FollowsEndsWell DEF CarriesOrBegins
  <2>5. Well'
    BY <2>4 DEF StoryIn
  <2> QED
    BY <2>1, <2>5
<1>3. IInv => Over
  BY DEF EndsWell, StoryIn, Endings
<1> QED
  BY <1>1, <1>2, <1>3, PTL DEF Spec

==============================================================================
