------------------------------ MODULE Decisions ------------------------------
(****************************************************************************)
(* What the agent's workflow decides with: the table of legal transitions,  *)
(* the invariants a workflow state must meet, the policies that route a     *)
(* request and choose who reviews it.  Nothing here has a state; Workflow   *)
(* runs the graph with it.                                                  *)
(****************************************************************************)
EXTENDS Naturals

MAX_WORKFLOW_STEPS == 25
MAX_CLARIFICATION_ROUNDS == 3

------------------------------------------------------------------------------
(* Transitions of workflow_status.                                          *)

(* The statuses the graph's nodes give, and where each may go from there.   *)
(* The table of the source has more rows, for statuses no node gives.       *)
Allowed ==
  [pending |->
     {"parsed", "llm_failed", "needs_information", "service_request_created",
      "ready_for_scheduling", "schedule_options_ready",
      "waiting_for_approval", "no_available_slots", "approval_completed",
      "escalated", "no_technician_available", "failed"},
   parsed |-> {"validated", "needs_information", "failed"},
   validated |-> {"service_request_created", "needs_information", "failed"},
   needs_information |-> {"parsed", "escalated", "failed"},
   service_request_created |->
     {"ready_for_scheduling", "needs_location", "needs_skill_information",
      "no_technician_available", "escalated", "failed"},
   needs_location |->
     {"ready_for_scheduling", "needs_information", "escalated", "failed"},
   needs_skill_information |->
     {"ready_for_scheduling", "needs_information", "escalated", "failed"},
   no_technician_available |->
     {"ready_for_scheduling", "needs_information", "escalated", "failed"},
   ready_for_scheduling |->
     {"schedule_options_ready", "no_available_slots",
      "needs_time_clarification", "escalated", "failed"},
   needs_time_clarification |->
     {"ready_for_scheduling", "needs_information", "escalated", "failed"},
   no_available_slots |->
     {"ready_for_scheduling", "needs_rescheduling", "escalated", "failed"},
   schedule_options_ready |->
     {"waiting_for_approval", "no_available_slots", "escalated", "failed"},
   waiting_for_approval |->
     {"approval_completed", "rejected", "needs_rescheduling", "escalated",
      "failed"},
   approval_completed |->
     {"appointment_created", "needs_rescheduling", "failed"},
   needs_rescheduling |->
     {"ready_for_scheduling", "service_request_created", "escalated",
      "failed"},
   escalated |->
     {"waiting_for_approval", "ready_for_scheduling",
      "service_request_created", "rejected", "failed"},
   appointment_created |-> {"needs_rescheduling", "failed"},
   llm_failed |-> {"parsed", "escalated", "failed"},
   rejected |-> {},
   failed |-> {}]

Statuses == DOMAIN Allowed

(* Mutant of ValidTransition: a status may not follow itself.               *)
StrictTransition(from, to) == to \in Allowed[from]

ValidTransition(from, to) == from = to \/ to \in Allowed[from]

------------------------------------------------------------------------------
(* Who may review.                                                          *)

Levels == {"none", "operator", "senior_operator", "admin"}

Rank == [none |-> 0, operator |-> 1, senior_operator |-> 2, admin |-> 3]

CanApprove(role, level) == Rank[role] >= Rank[level]

Urgencies == {"missing", "standard", "emergency"}

(* Outside 08:00 - 18:00.  An hour stands for the start of a slot; weekends *)
(* are hours of this kind too.                                              *)
OffHours(hour) == hour < 8 \/ hour >= 18

(* The graph never passes a breached SLA, and no run reschedules.           *)
ApprovalLevel(urgency, hour) ==
  IF urgency = "emergency" \/ OffHours(hour)
  THEN "senior_operator" ELSE "operator"

(* The queue a blocked request goes to, as far as its role.                 *)
EscalationRole(trigger, urgency) ==
  CASE trigger = "no_candidates" /\ urgency = "emergency" -> "senior_operator"
    [] trigger = "sla_impossible" -> "senior_operator"
    [] OTHER -> "operator"

------------------------------------------------------------------------------
(* The decisions of the subgraphs: an action and the role it asks for.      *)

Decision(action, role) == [action |-> action, role |-> role]

NoDecision == Decision("none", "none")

Actions == {"none", "dispatch", "ask_for_information", "escalate",
            "wait_for_approval", "finalize", "require_human", "stop"}

DecisionSet == [action : Actions, role : Levels]

IntakeDecision(s) ==
  IF s.status = "needs_information" \/ "information" \in s.missing
  THEN IF s.asked >= MAX_CLARIFICATION_ROUNDS
       THEN Decision("escalate",
                     EscalationRole("clarification_limit", s.urgency))
       ELSE Decision("ask_for_information", "none")
  ELSE Decision("dispatch", "none")

DispatchDecision(s) ==
  IF s.candidates = {}
  THEN Decision("escalate", EscalationRole("no_candidates", s.urgency))
  ELSE IF s.status = "needs_time_clarification"
  THEN Decision("ask_for_information", "none")
  ELSE IF s.options = {}
  THEN Decision("escalate", EscalationRole("no_slots", s.urgency))
  ELSE Decision("wait_for_approval", "operator")

ResumeDecision(decision, role, level) ==
  IF ~ CanApprove(role, level)
  THEN Decision("require_human", level)
  ELSE IF decision = "approve"
  THEN Decision("finalize", "none")
  ELSE Decision("stop", "none")

------------------------------------------------------------------------------
(* Edges of the graph: the node that follows each node.                     *)

route_after_intake(s) ==
  CASE s.status = "service_request_created" -> "dispatch_subgraph"
    [] s.status = "escalated" -> "escalation_subgraph"
    [] OTHER -> "end"

(* Mutant of route_after_dispatch: a proposal is built without options.     *)
RouteWithoutOptions(s) ==
  CASE s.status \in {"schedule_options_ready", "no_available_slots"}
         -> "build_appointment_proposal"
    [] s.status \in {"no_technician_available", "escalated"}
         -> "escalation_subgraph"
    [] OTHER -> "end"

(* Mutant of route_after_dispatch: only what has become escalated is.       *)
RouteNamedEscalations(s) ==
  CASE s.status = "schedule_options_ready" /\ s.options # {}
         -> "build_appointment_proposal"
    [] s.status = "escalated" -> "escalation_subgraph"
    [] OTHER -> "end"

route_after_dispatch(s) ==
  CASE s.status = "schedule_options_ready" /\ s.options # {}
         -> "build_appointment_proposal"
    [] s.status \in {"no_technician_available", "no_available_slots",
                     "escalated"}
         -> "escalation_subgraph"
    [] OTHER -> "end"

route_after_human_review(s) ==
  CASE s.approval = "approved" -> "appointment_subgraph"
    [] s.approval = "rejected" -> "handle_rejection"
    [] OTHER -> "end"

NextNode(node, s) ==
  CASE node = "intake_subgraph" -> route_after_intake(s)
    [] node = "dispatch_subgraph" -> route_after_dispatch(s)
    [] node = "build_appointment_proposal" -> "human_review"
    [] node = "human_review" -> route_after_human_review(s)
    [] OTHER -> "end"

------------------------------------------------------------------------------
(* validate_workflow_invariants: what the code demands of a state, and      *)
(* looks at once an appointment has been made.                              *)

NoProposal == [technician |-> 0, hour |-> 0]

WorkflowInvariants(s) ==
  /\ s.steps <= MAX_WORKFLOW_STEPS
  /\ s.status = "appointment_created" => s.order # 0 /\ s.appointment # 0
  /\ s.status = "waiting_for_approval" =>
       s.order # 0 /\ s.proposal # NoProposal
  /\ s.proposal # NoProposal /\ s.candidates # {} =>
       s.proposal.technician \in s.candidates
=============================================================================
