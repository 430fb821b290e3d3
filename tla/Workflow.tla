------------------------------ MODULE Workflow -------------------------------
(****************************************************************************)
(* One thread of the agent's graph: the runs that start it with a message,  *)
(* the pause in which a proposal waits for a reviewer, and the runs that    *)
(* resume it with a decision.                                               *)
(*                                                                          *)
(* A thread is what its latest checkpoint says; a run works on a copy of    *)
(* its own, which it saves after every node of the main graph.  Several     *)
(* runs may work on one thread: a message is handled again after a failure, *)
(* and two operators may decide at the same time.  The subgraphs are their  *)
(* nodes, the database is the service requests and appointments as far as   *)
(* the graph writes them (Booking has the transactions), and the language   *)
(* model, the technicians and the calendar answer as they like.             *)
(****************************************************************************)
EXTENDS Decisions, Sequences

CONSTANTS
  Messages,      \* calls that may be of run_field_service_workflow
  Approvals,     \* calls that may be of resume_field_service_workflow
  Technicians,   \* ids of technicians
  Hours,         \* start times of slots, as hours of the day
  Extractions,   \* what the language model may extract from a message
  Matches,       \* the sets of technicians that may match
  Calendars,     \* the sets of free slots that may be found
  Reviewers      \* roles the approval endpoint lets in

\* What the language model did not find in a message: something the request
\* cannot do without, or only its location.
Missing == SUBSET {"information", "location"}

ASSUME WorkflowAssumption ==
  /\ Technicians \subseteq Nat \ {0}
  /\ Hours \subseteq Nat
  /\ Reviewers \subseteq Levels
  /\ Extractions \subseteq [missing : Missing, urgency : Urgencies]
  /\ \A x \in Extractions : x.urgency = "missing" => "information" \in x.missing
  /\ Matches \subseteq (SUBSET Technicians) \ {{}}
  /\ Calendars \subseteq SUBSET [technician : Technicians, hour : Hours]

Runs == Messages \cup Approvals

VARIABLES
  thread,        \* the latest checkpoint: a state and the node that is next
  orders,        \* service_requests made by the runs: their audit logs
  appointments,  \* appointments made by the runs
  node,          \* the node of the main graph each run is at
  pc,            \* the step each run takes next
  local,         \* the state each run works on
  verdict,       \* the decision and role a resuming run was called with
  outcome        \* how each run ended

vars == <<thread, orders, appointments, node, pc, local, verdict, outcome>>

------------------------------------------------------------------------------
Options == [technician : Technicians, hour : Hours]

FieldServiceState ==
  [status : Statuses, missing : Missing, urgency : Urgencies, asked : Nat,
   candidates : SUBSET Technicians, options : SUBSET Options, proposal : Options \cup {NoProposal},
   level : Levels, approval : {"none", "pending", "approved", "rejected"},
   order : Nat, appointment : Nat, decision : DecisionSet,
   reviewer : Levels, steps : Nat]

create_initial_state ==
  [status |-> "pending", missing |-> {"information", "location"},
   urgency |-> "missing", asked |-> 0, candidates |-> {}, options |-> {},
   proposal |-> NoProposal, level |-> "none", approval |-> "none",
   order |-> 0, appointment |-> 0, decision |-> NoDecision,
   reviewer |-> "none", steps |-> 0]

Nodes ==
  {"intake_subgraph", "dispatch_subgraph", "build_appointment_proposal",
   "human_review", "appointment_subgraph", "escalation_subgraph",
   "handle_rejection"}

FirstStep ==
  [intake_subgraph |-> "parse", dispatch_subgraph |-> "match",
   build_appointment_proposal |-> "propose", human_review |-> "review",
   appointment_subgraph |-> "finalize", escalation_subgraph |-> "escalate",
   handle_rejection |-> "reject"]

Steps ==
  {"idle", "parse", "validate", "decideIntake", "persist", "match",
   "schedule", "decideDispatch", "propose", "review", "finalize",
   "book", "escalate", "reject", "invoke", "save", "done"}

Verdicts == [decision : {"none", "approve", "reject"}, role : Levels]

NoVerdict == [decision |-> "none", role |-> "none"]

\* The roles a request was escalated to, as its audit log has them.
AuditLog == SUBSET (Levels \cup {"lost"})

Appointment ==
  [order : Nat, technician : Technicians, hour : Hours, urgency : Urgencies,
   reviewer : Levels, status : {"scheduled", "cancelled"}]

Init ==
  /\ thread = [state |-> create_initial_state, next |-> "none"]
  /\ orders = <<>>
  /\ appointments = <<>>
  /\ node = [r \in Runs |-> "end"]
  /\ pc = [r \in Runs |-> "idle"]
  /\ local = [r \in Runs |-> create_initial_state]
  /\ verdict = [r \in Runs |-> NoVerdict]
  /\ outcome = [r \in Runs |-> "none"]

------------------------------------------------------------------------------
Stop(r, o) ==
  /\ pc' = [pc EXCEPT ![r] = "done"]
  /\ node' = [node EXCEPT ![r] = "end"]
  /\ local' = [local EXCEPT ![r] = create_initial_state]
  /\ verdict' = [verdict EXCEPT ![r] = NoVerdict]
  /\ outcome' = [outcome EXCEPT ![r] = o]

(* A step of a node gives the run's state new values, if the guard of the   *)
(* transitions lets it.  The guard raises and ends the run otherwise.       *)
Update(r, s, step) ==
  IF ValidTransition(local[r].status, s.status)
  THEN /\ local' = [local EXCEPT ![r] = [s EXCEPT !.steps = @ + 1]]
       /\ pc' = [pc EXCEPT ![r] = step]
       /\ UNCHANGED <<node, verdict, outcome>>
  ELSE Stop(r, "halted")

NoRows == UNCHANGED <<orders, appointments>>

------------------------------------------------------------------------------
(* intake_subgraph                                                          *)

(* run_field_service_workflow: the graph is invoked with a new state, and   *)
(* checkpoints it before the first node.  A message is handled again, with  *)
(* the same thread, when its first handling has failed.                     *)
Start(r) ==
  /\ pc[r] = "idle"
  /\ \A m \in Messages : pc[m] \in {"idle", "done"}
  /\ thread' = [state |-> create_initial_state, next |-> "intake_subgraph"]
  /\ local' = [local EXCEPT ![r] = create_initial_state]
  /\ node' = [node EXCEPT ![r] = "intake_subgraph"]
  /\ pc' = [pc EXCEPT ![r] = "parse"]
  /\ UNCHANGED <<orders, appointments, verdict, outcome>>

(* The language model extracts what it can, or fails.                       *)
Parse(r) ==
  /\ pc[r] = "parse"
  /\ \/ Update(r, [local[r] EXCEPT !.status = "llm_failed"], "save")
     \/ \E x \in Extractions :
          Update(r, [local[r] EXCEPT !.status = "parsed",
                                     !.missing = x.missing,
                                     !.urgency = x.urgency],
                 "validate")
  /\ UNCHANGED thread
  /\ NoRows

Validate(r) ==
  /\ pc[r] = "validate"
  /\ Update(r, [local[r] EXCEPT
                  !.status = IF "information" \in local[r].missing
                             THEN "needs_information" ELSE "validated"],
            "decideIntake")
  /\ UNCHANGED thread
  /\ NoRows

DecideIntake(r) ==
  LET s == local[r]
      d == IntakeDecision(s)
  IN /\ pc[r] = "decideIntake"
     /\ CASE d.action = "escalate" ->
               Update(r, [s EXCEPT !.status = "escalated", !.decision = d],
                      "save")
          [] d.action = "ask_for_information" ->
               Update(r, [s EXCEPT !.status = "needs_information",
                                   !.asked = @ + 1, !.decision = d],
                      "save")
          [] OTHER -> Update(r, [s EXCEPT !.decision = d], "persist")
     /\ UNCHANGED thread
     /\ NoRows

WithOrder(r) == [local[r] EXCEPT !.status = "service_request_created",
                                 !.order = Len(orders) + 1]

(* Mutant of Persist: the transaction is not committed.                     *)
PersistUncommitted(r) ==
  /\ pc[r] = "persist"
  /\ Update(r, WithOrder(r), "save")
  /\ UNCHANGED thread
  /\ NoRows

Persist(r) ==
  /\ pc[r] = "persist"
  /\ orders' = IF ValidTransition(local[r].status, WithOrder(r).status)
               THEN Append(orders, {}) ELSE orders
  /\ Update(r, WithOrder(r), "save")
  /\ UNCHANGED <<thread, appointments>>

------------------------------------------------------------------------------
(* dispatch_subgraph                                                        *)

Match(r) ==
  LET s == local[r] IN
  /\ pc[r] = "match"
  /\ \/ /\ "location" \in s.missing
        /\ Update(r, [s EXCEPT !.status = "needs_location"],
                  "decideDispatch")
     \/ /\ "location" \notin s.missing
        /\ \/ \E status \in {"needs_skill_information",
                             "no_technician_available"} :
                Update(r, [s EXCEPT !.status = status], "decideDispatch")
           \/ \E matched \in Matches :
                Update(r, [s EXCEPT !.status = "ready_for_scheduling",
                                    !.candidates = matched],
                       "schedule")
  /\ UNCHANGED thread
  /\ NoRows

Schedule(r) ==
  LET s == local[r] IN
  /\ pc[r] = "schedule"
  /\ \/ Update(r, [s EXCEPT !.status = "needs_time_clarification"],
               "decideDispatch")
     \/ \E calendar \in Calendars :
          LET free == {o \in calendar : o.technician \in s.candidates} IN
          Update(r, [s EXCEPT !.status = IF free = {} THEN "no_available_slots"
                                         ELSE "schedule_options_ready",
                              !.options = free],
                 "decideDispatch")
  /\ UNCHANGED thread
  /\ NoRows

DecideDispatch(r) ==
  LET s == local[r]
      d == DispatchDecision(s)
      named == {"no_technician_available", "no_available_slots",
                "needs_location", "needs_skill_information"}
  IN /\ pc[r] = "decideDispatch"
     /\ Update(r, [s EXCEPT !.decision = d,
                            !.status = IF d.action = "escalate" /\ @ \notin named
                                       THEN "escalated" ELSE @],
               "save")
     /\ UNCHANGED thread
     /\ NoRows

------------------------------------------------------------------------------
(* The proposal and its review                                              *)

(* The earliest option, and of these the technician with the lowest id.     *)
select_proposal(options) ==
  CHOOSE o \in options : \A p \in options :
    \/ o.hour < p.hour
    \/ o.hour = p.hour /\ o.technician <= p.technician

Propose(r) ==
  LET s == local[r]
      o == select_proposal(s.options)
  IN /\ pc[r] = "propose"
     /\ IF s.options = {}
        THEN Update(r, [s EXCEPT !.status = "no_available_slots",
                                 !.approval = "none", !.level = "none",
                                 !.proposal = NoProposal],
                    "save")
        ELSE Update(r, [s EXCEPT !.status = "waiting_for_approval",
                                 !.approval = "pending", !.proposal = o,
                                 !.level = ApprovalLevel(s.urgency, o.hour),
                                 !.decision =
                                   Decision("wait_for_approval",
                                            ApprovalLevel(s.urgency, o.hour))],
                    "save")
     /\ UNCHANGED thread
     /\ NoRows

(* interrupt(): without a decision the run ends here, and the thread waits. *)
Pause(r) ==
  /\ pc[r] = "review"
  /\ verdict[r] = NoVerdict
  /\ Stop(r, "ended")
  /\ UNCHANGED thread
  /\ NoRows

(* Mutant of Review: the role was checked before the graph was invoked.     *)
ReviewUnchecked(r) ==
  LET s == local[r] IN
  /\ pc[r] = "review"
  /\ verdict[r] # NoVerdict
  /\ Update(r, [s EXCEPT
                  !.approval = IF verdict[r].decision = "approve"
                               THEN "approved" ELSE "rejected",
                  !.status = IF verdict[r].decision = "approve"
                             THEN "approval_completed" ELSE "rejected",
                  !.reviewer = verdict[r].role],
            "save")
  /\ UNCHANGED thread
  /\ NoRows

(* The node runs again with the decision, and checks the role itself.       *)
Review(r) ==
  LET s == local[r]
      d == ResumeDecision(verdict[r].decision, verdict[r].role, s.level)
      chosen == [s EXCEPT !.decision = d, !.reviewer = verdict[r].role]
  IN /\ pc[r] = "review"
     /\ verdict[r] # NoVerdict
     /\ CASE d.action = "require_human" -> Stop(r, "refused")
          [] d.action = "finalize" ->
               Update(r, [chosen EXCEPT !.approval = "approved",
                                        !.status = "approval_completed"],
                      "save")
          [] OTHER ->
               Update(r, [chosen EXCEPT !.approval = "rejected",
                                        !.status = "rejected"],
                      "save")
     /\ UNCHANGED thread
     /\ NoRows

------------------------------------------------------------------------------
(* appointment_subgraph, handle_rejection, escalation_subgraph              *)

(* The standing appointments of a request.                                  *)
IsLive(a) == appointments[a].status = "scheduled"

Live(k) ==
  {a \in DOMAIN appointments : IsLive(a) /\ appointments[a].order = k}

(* After the transaction: the state with the appointment, this step counted *)
(* already, must meet the invariants, or the run ends with its appointment  *)
(* made.                                                                    *)
Booked(r, id) ==
  LET s == [local[r] EXCEPT !.status = "appointment_created",
                            !.appointment = id]
  IN IF WorkflowInvariants([s EXCEPT !.steps = @ + 1])
     THEN Update(r, s, "save")
     ELSE Stop(r, "halted")

(* finalize_appointment: the appointment that stands is returned.           *)
Finalize(r) ==
  LET s == local[r] IN
  /\ pc[r] = "finalize"
  /\ IF s.proposal = NoProposal \/ s.order = 0
     THEN Update(r, [s EXCEPT !.status = "needs_rescheduling"], "save")
     ELSE \/ \E a \in Live(s.order) : Booked(r, a)
          \/ /\ Live(s.order) = {}
             /\ pc' = [pc EXCEPT ![r] = "book"]
             /\ UNCHANGED <<node, local, verdict, outcome>>
  /\ UNCHANGED thread
  /\ NoRows

(* Mutant of Taken: what this thread booked does not block it.              *)
TakenByOthers(technician, hour) == FALSE

Taken(technician, hour) ==
  \E a \in DOMAIN appointments :
    /\ IsLive(a)
    /\ appointments[a].technician = technician
    /\ appointments[a].hour = hour

(* It is made, or the slot is found taken: by another run of this thread,   *)
(* or by somebody else.  The technician's lock makes this one step.         *)
Book(r) ==
  LET s == local[r]
      o == s.proposal
  IN /\ pc[r] = "book"
     /\ UNCHANGED thread
     /\ \/ /\ ~ Taken(o.technician, o.hour)
           /\ appointments' =
                Append(appointments,
                       [order |-> s.order, technician |-> o.technician,
                        hour |-> o.hour, urgency |-> s.urgency,
                        reviewer |-> s.reviewer, status |-> "scheduled"])
           /\ Booked(r, Len(appointments) + 1)
           /\ UNCHANGED orders
        \/ /\ Update(r, [s EXCEPT !.status = "needs_rescheduling"], "save")
           /\ NoRows

HandleRejection(r) ==
  LET s == local[r] IN
  /\ pc[r] = "reject"
  /\ Update(r, [s EXCEPT !.status = "rejected", !.appointment = 0], "save")
  /\ UNCHANGED thread
  /\ NoRows

(* The audit row that tells the operators is written, or its failure is     *)
(* logged and forgotten.                                                    *)
Escalate(r) ==
  LET s == local[r]
      status == IF s.status \in {"no_technician_available",
                                 "no_available_slots", "needs_location",
                                 "needs_skill_information"}
                THEN s.status ELSE "escalated"
  IN /\ pc[r] = "escalate"
     /\ \E written \in BOOLEAN :
          orders' = IF s.order = 0 THEN orders
                    ELSE [orders EXCEPT ![s.order] =
                            @ \cup {IF written THEN s.decision.role ELSE "lost"}]
     /\ Update(r, [s EXCEPT !.status = status], "save")
     /\ UNCHANGED <<thread, appointments>>

------------------------------------------------------------------------------
(* The graph between two nodes                                              *)

(* Mutant of Save: the graph also interrupts before it books.               *)
SaveInterrupting(r) ==
  LET next == NextNode(node[r], local[r]) IN
  /\ pc[r] = "save"
  /\ thread' = [state |-> local[r], next |-> next]
  /\ IF next \in {"end", "appointment_subgraph"}
     THEN Stop(r, "ended")
     ELSE /\ node' = [node EXCEPT ![r] = next]
          /\ pc' = [pc EXCEPT ![r] = FirstStep[next]]
          /\ UNCHANGED <<local, verdict, outcome>>
  /\ NoRows

(* The checkpoint is written and the next node begins.                      *)
Save(r) ==
  LET next == NextNode(node[r], local[r]) IN
  /\ pc[r] = "save"
  /\ thread' = [state |-> local[r], next |-> next]
  /\ IF next = "end"
     THEN Stop(r, "ended")
     ELSE /\ node' = [node EXCEPT ![r] = next]
          /\ pc' = [pc EXCEPT ![r] = FirstStep[next]]
          /\ UNCHANGED <<local, verdict, outcome>>
  /\ NoRows

(* resume_field_service_workflow: the thread is read and checked ...        *)
Look(r) ==
  /\ pc[r] = "idle"
  /\ thread.next # "none"
  /\ \E decision \in {"approve", "reject"}, role \in Reviewers :
       IF /\ thread.state.status = "waiting_for_approval"
          /\ thread.state.approval \notin {"approved", "rejected"}
          /\ thread.next # "end"
          /\ CanApprove(role, thread.state.level)
       THEN /\ verdict' = [verdict EXCEPT
                             ![r] = [decision |-> decision, role |-> role]]
            /\ pc' = [pc EXCEPT ![r] = "invoke"]
            /\ UNCHANGED <<node, local, outcome>>
       ELSE Stop(r, "refused")
  /\ UNCHANGED thread
  /\ NoRows

(* ... and invoked.  The graph goes on from what is then the latest         *)
(* checkpoint; a decision is for the review only and lost elsewhere.        *)
Invoke(r) ==
  /\ pc[r] = "invoke"
  /\ IF thread.next = "end"
     THEN Stop(r, "ended")
     ELSE /\ local' = [local EXCEPT ![r] = thread.state]
          /\ node' = [node EXCEPT ![r] = thread.next]
          /\ pc' = [pc EXCEPT ![r] = FirstStep[thread.next]]
          /\ verdict' = [verdict EXCEPT
                           ![r] = IF thread.next = "human_review" THEN @
                                  ELSE NoVerdict]
          /\ UNCHANGED outcome
  /\ UNCHANGED thread
  /\ NoRows

(* An exception ends the run, or the process dies.                          *)
Fail(r) ==
  /\ pc[r] \notin {"idle", "done"}
  /\ Stop(r, "failed")
  /\ UNCHANGED thread
  /\ NoRows

(* A request is cancelled elsewhere, with its appointments.                 *)
CancelOrder ==
  /\ \E k \in DOMAIN orders :
       /\ Live(k) # {}
       /\ appointments' = [a \in DOMAIN appointments |->
                             IF a \in Live(k)
                             THEN [appointments[a] EXCEPT !.status = "cancelled"]
                             ELSE appointments[a]]
  /\ UNCHANGED <<thread, orders, node, pc, local, verdict, outcome>>

------------------------------------------------------------------------------
Step(r) ==
  \/ Parse(r) \/ Validate(r) \/ DecideIntake(r) \/ Persist(r)
  \/ Match(r) \/ Schedule(r) \/ DecideDispatch(r)
  \/ Propose(r) \/ Pause(r) \/ Review(r)
  \/ Finalize(r) \/ Book(r) \/ HandleRejection(r) \/ Escalate(r)
  \/ Save(r) \/ Invoke(r)

Next ==
  \/ \E r \in Messages : Start(r)
  \/ \E r \in Approvals : Look(r)
  \/ \E r \in Runs : Step(r) \/ Fail(r)
  \/ CancelOrder

(* A thread of the API process executes a run until it ends.                *)
Fairness == \A r \in Runs : WF_vars(Step(r))

Spec == Init /\ [][Next]_vars /\ Fairness

------------------------------------------------------------------------------
(* Every variable has its type, and the ids a state names are of rows.      *)
TypeOK ==
  /\ thread \in [state : FieldServiceState, next : Nodes \cup {"none", "end"}]
  /\ orders \in Seq(AuditLog)
  /\ appointments \in Seq(Appointment)
  /\ node \in [Runs -> Nodes \cup {"end"}]
  /\ pc \in [Runs -> Steps]
  /\ local \in [Runs -> FieldServiceState]
  /\ verdict \in [Runs -> Verdicts]
  /\ outcome \in [Runs -> {"none", "ended", "refused", "halted", "failed"}]
  /\ \A s \in {thread.state} \cup {local[r] : r \in Runs} :
       s.order <= Len(orders) /\ s.appointment <= Len(appointments)

(* The transition table and the invariants of invariants.py never refuse    *)
(* what the nodes do, in any order of runs: no run is ended by them.        *)
GuardsNeverFire == \A r \in Runs : outcome[r] # "halted"

(* A thread at the review has all that its reviewer and the booking need:   *)
(* the request, a technician who matched, a slot that was free, the level   *)
(* the policy asks for, and no decision yet.                                *)
PausedIsReviewable ==
  LET s == thread.state IN
  thread.next = "human_review" =>
    /\ s.status = "waiting_for_approval" /\ s.approval = "pending"
    /\ s.order \in DOMAIN orders
    /\ s.proposal \in s.options
    /\ s.proposal.technician \in s.candidates
    /\ s.level = ApprovalLevel(s.urgency, s.proposal.hour)

(* Whoever approved an appointment had the role the policy asks for this    *)
(* request and this slot, though the thread may have changed between the    *)
(* check of the role and the review.                                        *)
BookedByAuthority ==
  \A a \in DOMAIN appointments :
    CanApprove(appointments[a].reviewer,
               ApprovalLevel(appointments[a].urgency, appointments[a].hour))

(* Approvals that overlap give a request one standing appointment: the      *)
(* check for one is stale, but both would book the same slot.  A thread     *)
(* that was started again may hold other proposals, and is not meant.       *)
OneStandingAppointment ==
  Len(orders) = 1 => \A a, b \in Live(1) : a = b

(* A request that ends without technician or slot was put in the queue of   *)
(* the role the policy names, unless the write of the audit row failed.     *)
EscalationReachesItsQueue ==
  LET s == thread.state
      trigger == IF s.status = "no_technician_available"
                 THEN "no_candidates" ELSE "no_slots"
  IN thread.next = "end"
       /\ s.status \in {"no_technician_available", "no_available_slots"} =>
     orders[s.order] \cap
       {EscalationRole(trigger, s.urgency), "lost"} # {}

Decided == thread.next \in {"appointment_subgraph", "handle_rejection"}

(* A decision that was checkpointed is carried out, unless a run fails      *)
(* between the two: nothing takes up a thread left there.                   *)
DecisionIsCarriedOut ==
  Decided ~> \/ ~ Decided
             \/ \E r \in Runs : outcome[r] = "failed"
=============================================================================
