---------------------------- MODULE WorkflowProofs ----------------------------
(****************************************************************************)
(* Type correctness of Workflow and the safety of a thread, for any number  *)
(* of runs that start and resume it, any technicians and slots, and any     *)
(* answers of the language model.                                           *)
(****************************************************************************)
EXTENDS Workflow, SequenceTheorems, WellFoundedInduction, TLAPS

------------------------------------------------------------------------------
(* The tables                                                               *)

LEMMA TableFacts ==
  ASSUME NEW S, NEW table \in Seq(S)
  PROVE  /\ Len(table) \in Nat
         /\ DOMAIN table = 1 .. Len(table)
         /\ \A a \in DOMAIN table : a \in Nat \ {0} /\ table[a] \in S
         /\ table \in [DOMAIN table -> S]
  BY LenProperties

LEMMA AppendRow ==
  ASSUME NEW S, NEW table \in Seq(S), NEW v \in S
  PROVE  /\ Append(table, v) \in Seq(S)
         /\ Len(Append(table, v)) = Len(table) + 1
         /\ DOMAIN Append(table, v) = DOMAIN table \cup {Len(table) + 1}
         /\ \A a \in DOMAIN table : Append(table, v)[a] = table[a]
         /\ Append(table, v)[Len(table) + 1] = v
<1>1. Len(table) \in Nat /\ DOMAIN table = 1 .. Len(table)
  BY TableFacts
<1>2. /\ Append(table, v) \in Seq(S)
      /\ Len(Append(table, v)) = Len(table) + 1
      /\ \A i \in 1 .. Len(table) : Append(table, v)[i] = table[i]
      /\ Append(table, v)[Len(table) + 1] = v
  BY AppendProperties
<1>3. DOMAIN Append(table, v) = 1 .. Len(table) + 1
  BY <1>2, TableFacts
<1> QED
  BY <1>1, <1>2, <1>3

LEMMA FunctionIsSeq ==
  ASSUME NEW S, NEW n \in Nat, NEW f \in [1 .. n -> S]
  PROVE  f \in Seq(S) /\ Len(f) = n
<1>1. f \in Seq(S)
  BY SeqDef
<1>2. 1 .. Len(f) = 1 .. n /\ Len(f) \in Nat
  BY <1>1, LenProperties
<1> QED
  BY <1>1, <1>2

------------------------------------------------------------------------------
(* The states of a thread                                                   *)

(* The transitions that the nodes make are in the table.                    *)
LEMMA TransitionFacts ==
  /\ ValidTransition("pending", "llm_failed")
  /\ ValidTransition("pending", "parsed")
  /\ ValidTransition("parsed", "validated")
  /\ ValidTransition("parsed", "needs_information")
  /\ ValidTransition("validated", "service_request_created")
  /\ ValidTransition("service_request_created", "needs_location")
  /\ ValidTransition("service_request_created", "needs_skill_information")
  /\ ValidTransition("service_request_created", "no_technician_available")
  /\ ValidTransition("service_request_created", "ready_for_scheduling")
  /\ ValidTransition("ready_for_scheduling", "needs_time_clarification")
  /\ ValidTransition("ready_for_scheduling", "no_available_slots")
  /\ ValidTransition("ready_for_scheduling", "schedule_options_ready")
  /\ ValidTransition("schedule_options_ready", "waiting_for_approval")
  /\ ValidTransition("waiting_for_approval", "approval_completed")
  /\ ValidTransition("waiting_for_approval", "rejected")
  /\ ValidTransition("approval_completed", "needs_rescheduling")
  /\ ValidTransition("approval_completed", "appointment_created")
  /\ \A status : ValidTransition(status, status)
  BY DEF ValidTransition, Allowed

(* Every status is one of the table's.                                      *)
LEMMA StatusFacts ==
  {"pending", "parsed", "llm_failed", "validated", "needs_information",
   "service_request_created", "needs_location", "needs_skill_information",
   "no_technician_available", "ready_for_scheduling",
   "needs_time_clarification", "no_available_slots",
   "schedule_options_ready", "waiting_for_approval", "approval_completed",
   "rejected", "needs_rescheduling", "escalated", "appointment_created"}
    \subseteq Statuses
  BY DEF Statuses, Allowed

(* What a state holds when a run is at the given step of the given node,    *)
(* and how many steps the graph can have taken.                             *)
Extracted(s) ==
  /\ "information" \notin s.missing => s.urgency # "missing"
  /\ s.asked = 0
  /\ s.candidates = {} /\ s.options = {} /\ s.proposal = NoProposal

Ordered(s, logs) == s.order \in DOMAIN logs

Matched(s) ==
  /\ s.options = {} \/ s.status = "schedule_options_ready"
  /\ \A o \in s.options : o.technician \in s.candidates
  /\ s.status = "schedule_options_ready" => s.options # {}

(* A request found blocked, and the role its decision asks for.             *)
Blocked(s) == s.status \in {"no_technician_available", "no_available_slots"}

QueueOf(s) ==
  EscalationRole(IF s.status = "no_technician_available"
                 THEN "no_candidates" ELSE "no_slots", s.urgency)

Queued(s, logs) ==
  Blocked(s) => Ordered(s, logs) /\ logs[s.order] \cap {QueueOf(s), "lost"} # {}

Proposed(s, logs) ==
  /\ Ordered(s, logs)
  /\ s.proposal \in s.options
  /\ \A o \in s.options : o.technician \in s.candidates
  /\ s.level = ApprovalLevel(s.urgency, s.proposal.hour)

Waiting(s, logs) ==
  Proposed(s, logs) /\ s.status = "waiting_for_approval" /\ s.approval = "pending"

Approved(s, logs) ==
  Proposed(s, logs) /\ s.status = "approval_completed" /\ CanApprove(s.reviewer, s.level)

AfterDispatch(s, logs) ==
  /\ Ordered(s, logs) /\ Matched(s) /\ s.proposal = NoProposal
  /\ s.status \in {"needs_location", "needs_skill_information",
                   "no_technician_available", "needs_time_clarification",
                   "no_available_slots", "schedule_options_ready"}

(* What a finished node leaves.                                             *)
After(n, s, logs) ==
  /\ s.steps <= 10
  /\ n = "intake_subgraph" =>
       /\ s.status \in {"llm_failed", "needs_information", "service_request_created"}
       /\ s.steps <= 4
       /\ s.status = "service_request_created" => Ordered(s, logs) /\ Extracted(s)
  /\ n = "dispatch_subgraph" =>
       /\ AfterDispatch(s, logs) /\ s.steps <= 7
       /\ Blocked(s) => s.decision.role = QueueOf(s)
  /\ n = "build_appointment_proposal" => Waiting(s, logs) /\ s.steps <= 8
  /\ n = "human_review" =>
       /\ s.steps <= 9
       /\ s.approval \in {"approved", "rejected"}
       /\ s.approval = "approved" => Approved(s, logs)
       /\ s.status \in {"approval_completed", "rejected"}
       /\ s.approval = "rejected" => s.status = "rejected"
  /\ n \in {"appointment_subgraph", "handle_rejection"} => ~ Blocked(s)
  /\ n = "escalation_subgraph" => Ordered(s, logs) /\ Queued(s, logs)

(* What a step finds, of its node and the state.                            *)
At(n, step, s, logs) ==
  /\ step = "parse" => n = "intake_subgraph" /\ s = create_initial_state
  /\ step = "validate" =>
       n = "intake_subgraph" /\ s.status = "parsed" /\ s.steps = 1 /\ Extracted(s)
  /\ step = "decideIntake" =>
       /\ n = "intake_subgraph" /\ s.steps = 2 /\ Extracted(s)
       /\ s.status = IF "information" \in s.missing THEN "needs_information" ELSE "validated"
  /\ step = "persist" =>
       n = "intake_subgraph" /\ s.status = "validated" /\ s.steps = 3 /\ Extracted(s)
  /\ step = "match" =>
       /\ n = "dispatch_subgraph" /\ s.status = "service_request_created"
       /\ s.steps <= 4 /\ Ordered(s, logs) /\ Extracted(s)
  /\ step = "schedule" =>
       /\ n = "dispatch_subgraph" /\ s.status = "ready_for_scheduling"
       /\ s.steps <= 5 /\ Ordered(s, logs) /\ Matched(s) /\ s.proposal = NoProposal
       /\ s.candidates # {}
  /\ step = "decideDispatch" =>
       /\ n = "dispatch_subgraph" /\ s.steps <= 6 /\ AfterDispatch(s, logs)
       /\ s.candidates = {} <=> s.status \in {"needs_location", "needs_skill_information",
                                             "no_technician_available"}
  /\ step = "propose" =>
       /\ n = "build_appointment_proposal" /\ s.steps <= 7
       /\ AfterDispatch(s, logs) /\ s.status = "schedule_options_ready"
  /\ step = "review" => n = "human_review" /\ s.steps <= 8 /\ Waiting(s, logs)
  /\ step \in {"finalize", "book"} =>
       n = "appointment_subgraph" /\ s.steps <= 9 /\ Approved(s, logs)
  /\ step = "reject" => n = "handle_rejection" /\ s.steps <= 9 /\ s.status = "rejected"
  /\ step = "escalate" =>
       /\ n = "escalation_subgraph" /\ s.steps <= 7 /\ Ordered(s, logs) /\ Blocked(s)
       /\ s.decision.role = QueueOf(s)
  /\ step = "save" => n \in Nodes /\ After(n, s, logs)

RunsFit == \A r \in Runs : At(node[r], pc[r], local[r], orders)

ThreadFits ==
  /\ thread.next \in Nodes =>
       At(thread.next, FirstStep[thread.next], thread.state, orders)
  /\ thread.next = "end" => Queued(thread.state, orders)

(* Who approved an appointment could, and no run was halted.                *)
IInv ==
  TypeOK /\ RunsFit /\ ThreadFits /\ BookedByAuthority /\ GuardsNeverFire

(* A node ends in a state for the next one.                                 *)
LEMMA NodeFollows ==
  ASSUME NEW n \in Nodes, NEW s, NEW logs, After(n, s, logs)
  PROVE  LET next == NextNode(n, s) IN
         /\ next \in Nodes \cup {"end"}
         /\ next \in Nodes => At(next, FirstStep[next], s, logs)
         /\ next = "end" => Queued(s, logs)
<1>1. CASE n = "intake_subgraph"
  BY <1>1 DEF After, NextNode, route_after_intake, At, FirstStep, Nodes, Queued, Blocked
<1>2. CASE n = "dispatch_subgraph"
  BY <1>2 DEF After, NextNode, route_after_dispatch, At, FirstStep, Nodes, Queued,
     Blocked, AfterDispatch, Matched
<1>3. CASE n = "build_appointment_proposal"
  BY <1>3 DEF After, NextNode, At, FirstStep, Nodes
<1>4. CASE n = "human_review"
  BY <1>4 DEF After, NextNode, route_after_human_review, At, FirstStep, Nodes
<1>5. CASE n \in {"appointment_subgraph", "handle_rejection", "escalation_subgraph"}
  BY <1>5 DEF After, NextNode, Nodes, Queued
<1> QED
  BY <1>1, <1>2, <1>3, <1>4, <1>5 DEF Nodes

(* Requests are only added, and their logs only grow: what a state says of  *)
(* its request stays true.                                                  *)
Grows(logs, later) ==
  /\ DOMAIN logs \subseteq DOMAIN later
  /\ \A k \in DOMAIN logs : logs[k] \subseteq later[k]

LEMMA FitsGrow ==
  ASSUME NEW logs, NEW later, Grows(logs, later), NEW n, NEW step, NEW s
  PROVE  /\ At(n, step, s, logs) => At(n, step, s, later)
         /\ Queued(s, logs) => Queued(s, later)
<1>1. Ordered(s, logs) => Ordered(s, later)
  BY DEF Ordered, Grows
<1>2. Queued(s, logs) => Queued(s, later)
  BY DEF Queued, Ordered, Grows
<1>3. After(n, s, logs) => After(n, s, later)
  BY <1>1, <1>2 DEF After, AfterDispatch, Waiting, Approved, Proposed
<1>4. At(n, step, s, logs) => At(n, step, s, later)
  BY <1>1, <1>3 DEF At, AfterDispatch, Waiting, Approved, Proposed
<1> QED
  BY <1>2, <1>4

------------------------------------------------------------------------------
(* Steps of a run                                                           *)

(* What the types say of one run.                                           *)
LEMMA RunFacts ==
  ASSUME IInv, NEW r \in Runs
  PROVE  /\ local[r] \in FieldServiceState
         /\ local[r].order <= Len(orders) /\ local[r].appointment <= Len(appointments)
         /\ At(node[r], pc[r], local[r], orders)
         /\ Len(orders) \in Nat /\ Len(appointments) \in Nat
         /\ DOMAIN orders = 1 .. Len(orders)
         /\ DOMAIN appointments = 1 .. Len(appointments)
         /\ node[r] \in Nodes \cup {"end"}
<1>1. /\ local \in [Runs -> FieldServiceState]
      /\ node \in [Runs -> Nodes \cup {"end"}]
      /\ orders \in Seq(AuditLog) /\ appointments \in Seq(Appointment)
      /\ \A s \in {thread.state} \cup {local[v] : v \in Runs} :
            s.order <= Len(orders) /\ s.appointment <= Len(appointments)
  BY DEF IInv, TypeOK
<1>2. /\ Len(orders) \in Nat /\ Len(appointments) \in Nat
      /\ DOMAIN orders = 1 .. Len(orders)
      /\ DOMAIN appointments = 1 .. Len(appointments)
  BY <1>1, TableFacts
<1> QED
  BY <1>1, <1>2 DEF IInv, RunsFit

(* The fields of a state.                                                   *)
LEMMA StateFacts ==
  ASSUME NEW s \in FieldServiceState
  PROVE  /\ s.status \in Statuses /\ s.missing \in Missing /\ s.urgency \in Urgencies
         /\ s.asked \in Nat /\ s.candidates \in SUBSET Technicians
         /\ s.options \in SUBSET Options /\ s.proposal \in Options \cup {NoProposal}
         /\ s.level \in Levels /\ s.approval \in {"none", "pending", "approved", "rejected"}
         /\ s.order \in Nat /\ s.appointment \in Nat /\ s.decision \in DecisionSet
         /\ s.reviewer \in Levels /\ s.steps \in Nat
  BY DEF FieldServiceState

LEMMA InitialState ==
  /\ create_initial_state \in FieldServiceState
  /\ create_initial_state.order = 0 /\ create_initial_state.appointment = 0
  BY StatusFacts DEF create_initial_state, FieldServiceState, Missing, Urgencies, Levels,
     NoDecision, Decision, DecisionSet, Actions

(* One more step is counted.                                                *)
LEMMA CountStep ==
  ASSUME NEW s \in FieldServiceState
  PROVE  LET t == [s EXCEPT !.steps = @ + 1] IN
         /\ t \in FieldServiceState
         /\ t.steps = s.steps + 1
         /\ t.status = s.status /\ t.missing = s.missing /\ t.urgency = s.urgency
         /\ t.asked = s.asked /\ t.candidates = s.candidates /\ t.options = s.options
         /\ t.proposal = s.proposal /\ t.level = s.level /\ t.approval = s.approval
         /\ t.order = s.order /\ t.appointment = s.appointment
         /\ t.decision = s.decision /\ t.reviewer = s.reviewer
  BY DEF FieldServiceState

(* What a step may do to the tables.                                        *)
TablesGrow ==
  /\ orders' \in Seq(AuditLog) /\ Grows(orders, orders')
  /\ appointments' \in Seq(Appointment)
  /\ Len(appointments') >= Len(appointments)
  /\ BookedByAuthority'

LEMMA TablesStay ==
  ASSUME IInv, NoRows
  PROVE  TablesGrow
<1>1. orders \in Seq(AuditLog) /\ appointments \in Seq(Appointment)
  BY DEF IInv, TypeOK
<1>2. Len(appointments) \in Nat
  BY <1>1, TableFacts
<1> QED
  BY <1>1, <1>2 DEF NoRows, TablesGrow, Grows, IInv, BookedByAuthority

LEMMA LengthsGrow ==
  ASSUME IInv, TablesGrow
  PROVE  /\ Len(orders) \in Nat /\ Len(orders') \in Nat /\ Len(orders') >= Len(orders)
         /\ Len(appointments) \in Nat /\ Len(appointments') \in Nat
         /\ Len(appointments') >= Len(appointments)
<1>1. /\ orders \in Seq(AuditLog) /\ appointments \in Seq(Appointment)
      /\ orders' \in Seq(AuditLog) /\ appointments' \in Seq(Appointment)
  BY DEF IInv, TypeOK, TablesGrow
<1>2. /\ Len(orders) \in Nat /\ DOMAIN orders = 1 .. Len(orders)
      /\ Len(orders') \in Nat /\ DOMAIN orders' = 1 .. Len(orders')
      /\ Len(appointments) \in Nat /\ Len(appointments') \in Nat
  BY <1>1, TableFacts
<1>3. DOMAIN orders \subseteq DOMAIN orders'
  BY DEF TablesGrow, Grows
<1> QED
  BY <1>2, <1>3 DEF TablesGrow

(* A step of one run: its new state fits its step, the thread's its next    *)
(* node, and nothing else moves.                                            *)
LEMMA RunMoves ==
  ASSUME IInv, TablesGrow, NEW r \in Runs,
         local' \in [Runs -> FieldServiceState], node' \in [Runs -> Nodes \cup {"end"}],
         pc' \in [Runs -> Steps], verdict' \in [Runs -> Verdicts],
         outcome' \in [Runs -> {"none", "ended", "refused", "failed"}],
         \A v \in Runs \ {r} : /\ local'[v] = local[v] /\ node'[v] = node[v]
                               /\ pc'[v] = pc[v],
         At(node'[r], pc'[r], local'[r], orders'),
         local'[r].order <= Len(orders'), local'[r].appointment <= Len(appointments'),
         \/ UNCHANGED thread
         \/ /\ thread' \in [state : FieldServiceState, next : Nodes \cup {"none", "end"}]
            /\ ThreadFits'
            /\ thread'.state.order <= Len(orders')
            /\ thread'.state.appointment <= Len(appointments')
  PROVE  IInv'
<1>1. RunsFit'
  <2>1. ASSUME NEW v \in Runs \ {r}
        PROVE  At(node'[v], pc'[v], local'[v], orders')
    <3>1. At(node[v], pc[v], local[v], orders)
      BY DEF IInv, RunsFit
    <3> QED
      BY <3>1, FitsGrow DEF TablesGrow
  <2> QED
    BY <2>1 DEF RunsFit
<1>2. ThreadFits'
  <2>1. CASE UNCHANGED thread
    <3>1. ThreadFits /\ Grows(orders, orders')
      BY DEF IInv, TablesGrow
    <3> QED
      BY <2>1, <3>1, FitsGrow DEF ThreadFits
  <2> QED
    BY <2>1
<1>3. \A s \in {thread'.state} \cup {local'[v] : v \in Runs} :
        s.order <= Len(orders') /\ s.appointment <= Len(appointments')
  <2>1. \A s \in {thread.state} \cup {local[v] : v \in Runs} :
          s.order <= Len(orders) /\ s.appointment <= Len(appointments)
    BY DEF IInv, TypeOK
  <2>2. ASSUME NEW s \in FieldServiceState,
               s.order <= Len(orders) /\ s.appointment <= Len(appointments)
        PROVE  s.order <= Len(orders') /\ s.appointment <= Len(appointments')
    BY <2>2, StateFacts, LengthsGrow
  <2>3. \A s \in {thread.state} \cup {local[v] : v \in Runs} :
          s.order <= Len(orders') /\ s.appointment <= Len(appointments')
    BY <2>1, <2>2 DEF IInv, TypeOK
  <2> QED
    BY <2>3
<1>4. thread' \in [state : FieldServiceState, next : Nodes \cup {"none", "end"}]
  BY DEF IInv, TypeOK
<1>5. TypeOK'
  BY <1>3, <1>4 DEF TypeOK, TablesGrow
<1>6. GuardsNeverFire'
  BY DEF GuardsNeverFire
<1> QED
  BY <1>1, <1>2, <1>5, <1>6 DEF IInv, TablesGrow

(* The table lets the run pass.                                             *)
LEMMA UpdateKeeps ==
  ASSUME IInv, TablesGrow, NEW r \in Runs, NEW s \in FieldServiceState,
         NEW step \in Steps, Update(r, s, step), UNCHANGED thread,
         ValidTransition(local[r].status, s.status),
         s.order <= Len(orders'), s.appointment <= Len(appointments'),
         At(node[r], step, [s EXCEPT !.steps = @ + 1], orders')
  PROVE  IInv'
<1>1. /\ local' = [local EXCEPT ![r] = [s EXCEPT !.steps = @ + 1]]
      /\ pc' = [pc EXCEPT ![r] = step]
      /\ UNCHANGED <<node, verdict, outcome>>
  BY DEF Update
<1>2. [s EXCEPT !.steps = @ + 1] \in FieldServiceState
  BY CountStep
<1>3. /\ local \in [Runs -> FieldServiceState] /\ pc \in [Runs -> Steps]
      /\ node \in [Runs -> Nodes \cup {"end"}] /\ verdict \in [Runs -> Verdicts]
      /\ outcome \in [Runs -> {"none", "ended", "refused", "halted", "failed"}]
      /\ \A v \in Runs : outcome[v] # "halted"
  BY DEF IInv, TypeOK, GuardsNeverFire
<1>4. /\ local' \in [Runs -> FieldServiceState] /\ pc' \in [Runs -> Steps]
      /\ local'[r] = [s EXCEPT !.steps = @ + 1] /\ pc'[r] = step
      /\ \A v \in Runs \ {r} : local'[v] = local[v] /\ pc'[v] = pc[v]
  BY <1>1, <1>2, <1>3
<1>5. outcome' \in [Runs -> {"none", "ended", "refused", "failed"}]
  BY <1>1, <1>3
<1>6. local'[r].order = s.order /\ local'[r].appointment = s.appointment
  BY <1>4, CountStep
<1> QED
  BY <1>1, <1>3, <1>4, <1>5, <1>6, RunMoves

(* A run that ends leaves nothing to fit.                                   *)
LEMMA StopKeeps ==
  ASSUME IInv, TablesGrow, NEW r \in Runs, NEW o \in {"ended", "refused", "failed"},
         Stop(r, o),
         \/ UNCHANGED thread
         \/ /\ thread' \in [state : FieldServiceState, next : Nodes \cup {"none", "end"}]
            /\ ThreadFits'
            /\ thread'.state.order <= Len(orders')
            /\ thread'.state.appointment <= Len(appointments')
  PROVE  IInv'
<1>1. /\ local \in [Runs -> FieldServiceState] /\ pc \in [Runs -> Steps]
      /\ node \in [Runs -> Nodes \cup {"end"}] /\ verdict \in [Runs -> Verdicts]
      /\ outcome \in [Runs -> {"none", "ended", "refused", "halted", "failed"}]
      /\ \A v \in Runs : outcome[v] # "halted"
  BY DEF IInv, TypeOK, GuardsNeverFire
<1>2. NoVerdict \in Verdicts /\ "done" \in Steps
  BY DEF NoVerdict, Verdicts, Levels, Steps
<1>3. /\ local' \in [Runs -> FieldServiceState] /\ pc' \in [Runs -> Steps]
      /\ node' \in [Runs -> Nodes \cup {"end"}] /\ verdict' \in [Runs -> Verdicts]
      /\ local'[r] = create_initial_state /\ pc'[r] = "done"
      /\ \A v \in Runs \ {r} : local'[v] = local[v] /\ pc'[v] = pc[v] /\ node'[v] = node[v]
  BY <1>1, <1>2, InitialState DEF Stop
<1>4. outcome' \in [Runs -> {"none", "ended", "refused", "failed"}]
  BY <1>1 DEF Stop
<1>5. At(node'[r], "done", create_initial_state, orders')
  BY DEF At
<1>6. /\ local'[r].order <= Len(orders') /\ local'[r].appointment <= Len(appointments')
  BY <1>3, InitialState, LengthsGrow
<1> QED
  BY <1>3, <1>4, <1>5, <1>6, RunMoves

------------------------------------------------------------------------------
(* The nodes                                                                *)

LEMMA StepNames ==
  /\ \A n \in Nodes : FirstStep[n] \in Steps
  /\ {"idle", "parse", "validate", "decideIntake", "persist", "match", "schedule",
      "decideDispatch", "propose", "review", "finalize", "book", "escalate",
      "reject", "invoke", "save", "done"} \subseteq Steps
  BY DEF Nodes, FirstStep, Steps

LEMMA ParseKeeps ==
  ASSUME IInv, NEW r \in Runs, Parse(r)
  PROVE  IInv'
<1>1. TablesGrow /\ UNCHANGED <<thread, orders, appointments>>
  BY TablesStay DEF Parse, NoRows
<1>2. /\ local[r] = create_initial_state /\ node[r] = "intake_subgraph"
      /\ local[r] \in FieldServiceState /\ Len(orders) \in Nat /\ Len(appointments) \in Nat
  BY RunFacts DEF Parse, At
<1>3. CASE Update(r, [local[r] EXCEPT !.status = "llm_failed"], "save")
  <2> DEFINE s == [local[r] EXCEPT !.status = "llm_failed"]
  <2>1. s \in FieldServiceState
    BY <1>2, StatusFacts DEF FieldServiceState
  <2>2. /\ ValidTransition(local[r].status, s.status)
        /\ s.order = 0 /\ s.appointment = 0 /\ s.steps = 0 /\ s.status = "llm_failed"
    BY <1>2, TransitionFacts DEF create_initial_state
  <2> HIDE DEF s
  <2>3. At(node[r], "save", [s EXCEPT !.steps = @ + 1], orders')
    BY <1>2, <2>1, <2>2, CountStep DEF At, After, Nodes
  <2>4. Update(r, s, "save")
    BY <1>3 DEF s
  <2>5. "save" \in Steps /\ s.order <= Len(orders') /\ s.appointment <= Len(appointments')
    BY <1>1, <1>2, <2>2, StepNames
  <2> QED
    BY <1>1, <2>1, <2>2, <2>3, <2>4, <2>5, UpdateKeeps
<1>4. ASSUME NEW x \in Extractions,
             Update(r, [local[r] EXCEPT !.status = "parsed", !.missing = x.missing,
                                        !.urgency = x.urgency], "validate")
      PROVE  IInv'
  <2> DEFINE s == [local[r] EXCEPT !.status = "parsed", !.missing = x.missing,
                                   !.urgency = x.urgency]
  <2>1. /\ x.missing \in Missing /\ x.urgency \in Urgencies
        /\ x.urgency = "missing" => "information" \in x.missing
    BY WorkflowAssumption
  <2>2. s \in FieldServiceState
    BY <1>2, <2>1, StatusFacts DEF FieldServiceState
  <2>3. /\ ValidTransition(local[r].status, s.status)
        /\ s.order = 0 /\ s.appointment = 0 /\ s.steps = 0 /\ s.status = "parsed"
        /\ Extracted(s)
    BY <1>2, <2>1, TransitionFacts DEF create_initial_state, Extracted
  <2> HIDE DEF s
  <2>4. At(node[r], "validate", [s EXCEPT !.steps = @ + 1], orders')
    BY <1>2, <2>2, <2>3, CountStep DEF At, Extracted
  <2>5. Update(r, s, "validate")
    BY <1>4 DEF s
  <2>6. "validate" \in Steps /\ s.order <= Len(orders') /\ s.appointment <= Len(appointments')
    BY <1>1, <1>2, <2>3, StepNames
  <2> QED
    BY <1>1, <2>2, <2>3, <2>4, <2>5, <2>6, UpdateKeeps
<1> QED
  BY <1>3, <1>4 DEF Parse

LEMMA ValidateKeeps ==
  ASSUME IInv, NEW r \in Runs, Validate(r)
  PROVE  IInv'
<1> DEFINE s == [local[r] EXCEPT !.status = IF "information" \in local[r].missing
                                            THEN "needs_information" ELSE "validated"]
<1>1. TablesGrow /\ UNCHANGED <<thread, orders, appointments>> /\ Update(r, s, "decideIntake")
  BY TablesStay DEF Validate, NoRows
<1>2. /\ local[r] \in FieldServiceState
      /\ local[r].order <= Len(orders) /\ local[r].appointment <= Len(appointments)
      /\ node[r] = "intake_subgraph" /\ local[r].status = "parsed"
      /\ local[r].steps = 1 /\ Extracted(local[r])
  BY RunFacts DEF Validate, At
<1>3. s \in FieldServiceState
  BY <1>2, StatusFacts DEF FieldServiceState
<1>4. /\ s.order = local[r].order /\ s.appointment = local[r].appointment
      /\ s.steps = 1 /\ Extracted(s)
      /\ s.status = IF "information" \in s.missing THEN "needs_information" ELSE "validated"
  BY <1>2 DEF FieldServiceState, Extracted
<1>5. ValidTransition(local[r].status, s.status)
  BY <1>2, <1>4, TransitionFacts
<1> HIDE DEF s
<1>6. At(node[r], "decideIntake", [s EXCEPT !.steps = @ + 1], orders')
  BY <1>2, <1>3, <1>4, CountStep DEF At, Extracted
<1> QED
  BY <1>1, <1>2, <1>3, <1>4, <1>5, <1>6, StepNames, UpdateKeeps

LEMMA DecideIntakeKeeps ==
  ASSUME IInv, NEW r \in Runs, DecideIntake(r)
  PROVE  IInv'
<1> DEFINE d == IntakeDecision(local[r])
           t == [local[r] EXCEPT !.status = "needs_information", !.asked = @ + 1,
                                 !.decision = d]
           u == [local[r] EXCEPT !.decision = d]
<1>1. TablesGrow /\ UNCHANGED <<thread, orders, appointments>>
  BY TablesStay DEF DecideIntake, NoRows
<1>2. /\ local[r] \in FieldServiceState
      /\ local[r].order <= Len(orders) /\ local[r].appointment <= Len(appointments)
      /\ node[r] = "intake_subgraph" /\ local[r].steps = 2 /\ Extracted(local[r])
      /\ local[r].status = IF "information" \in local[r].missing
                           THEN "needs_information" ELSE "validated"
  BY RunFacts DEF DecideIntake, At
<1>3. CASE "information" \in local[r].missing
  <2>1. d = Decision("ask_for_information", "none")
    BY <1>2, <1>3 DEF IntakeDecision, Extracted, MAX_CLARIFICATION_ROUNDS
  <2>2. Update(r, t, "save")
    BY <2>1 DEF DecideIntake, Decision
  <2>3. d \in DecisionSet
    BY <2>1 DEF Decision, DecisionSet, Actions, Levels
  <2>4. t \in FieldServiceState
    <3>1. local[r].asked + 1 \in Nat /\ "needs_information" \in Statuses
      BY <1>2, StateFacts, StatusFacts
    <3> QED
      BY <1>2, <2>3, <3>1 DEF FieldServiceState
  <2>5. /\ t.order = local[r].order /\ t.appointment = local[r].appointment
        /\ t.steps = 2 /\ t.status = "needs_information"
    BY <1>2 DEF FieldServiceState
  <2>6. ValidTransition(local[r].status, t.status)
    BY <1>2, <1>3, <2>5, TransitionFacts
  <2> HIDE DEF t
  <2>7. At(node[r], "save", [t EXCEPT !.steps = @ + 1], orders')
    BY <1>2, <2>4, <2>5, CountStep DEF At, After, Nodes
  <2>8. "save" \in Steps /\ t.order <= Len(orders') /\ t.appointment <= Len(appointments')
    BY <1>1, <1>2, <2>5, StepNames
  <2> QED
    BY <1>1, <2>2, <2>4, <2>6, <2>7, <2>8, UpdateKeeps
<1>4. CASE "information" \notin local[r].missing
  <2>1. d = Decision("dispatch", "none")
    BY <1>2, <1>4 DEF IntakeDecision
  <2>2. Update(r, u, "persist")
    BY <2>1 DEF DecideIntake, Decision
  <2>3. d \in DecisionSet
    BY <2>1 DEF Decision, DecisionSet, Actions, Levels
  <2>4. u \in FieldServiceState
    BY <1>2, <2>3 DEF FieldServiceState
  <2>5. /\ u.order = local[r].order /\ u.appointment = local[r].appointment
        /\ u.steps = 2 /\ u.status = "validated" /\ Extracted(u)
    BY <1>2, <1>4 DEF FieldServiceState, Extracted
  <2>6. ValidTransition(local[r].status, u.status)
    BY <1>2, <1>4, <2>5, TransitionFacts
  <2> HIDE DEF u
  <2>7. At(node[r], "persist", [u EXCEPT !.steps = @ + 1], orders')
    BY <1>2, <2>4, <2>5, CountStep DEF At, Extracted
  <2> QED
    BY <1>1, <1>2, <2>2, <2>4, <2>5, <2>6, <2>7, StepNames, UpdateKeeps
<1> QED
  BY <1>3, <1>4

LEMMA PersistKeeps ==
  ASSUME IInv, NEW r \in Runs, Persist(r)
  PROVE  IInv'
<1> DEFINE s == WithOrder(r)
<1>1. /\ local[r] \in FieldServiceState
      /\ local[r].appointment <= Len(appointments)
      /\ node[r] = "intake_subgraph" /\ local[r].steps = 3 /\ Extracted(local[r])
      /\ local[r].status = "validated" /\ Len(orders) \in Nat
  BY RunFacts DEF Persist, At
<1>2. s \in FieldServiceState
  <2>1. Len(orders) + 1 \in Nat /\ "service_request_created" \in Statuses
    BY <1>1, StatusFacts
  <2> QED
    BY <1>1, <2>1 DEF FieldServiceState, WithOrder
<1>3. /\ s.order = Len(orders) + 1 /\ s.appointment = local[r].appointment
      /\ s.steps = 3 /\ s.status = "service_request_created" /\ Extracted(s)
  BY <1>1 DEF FieldServiceState, WithOrder, Extracted
<1>4. ValidTransition(local[r].status, s.status)
  BY <1>1, <1>3, TransitionFacts
<1>5. /\ orders' = Append(orders, {}) /\ UNCHANGED <<thread, appointments>>
      /\ Update(r, s, "save")
  BY <1>4 DEF Persist
<1>6. orders \in Seq(AuditLog) /\ {} \in AuditLog
  BY DEF IInv, TypeOK, AuditLog
<1>7. /\ orders' \in Seq(AuditLog) /\ Len(orders') = Len(orders) + 1
      /\ DOMAIN orders' = DOMAIN orders \cup {Len(orders) + 1}
      /\ \A k \in DOMAIN orders : orders'[k] = orders[k]
  BY <1>5, <1>6, AppendRow
<1>8. TablesGrow
  <2>1. appointments \in Seq(Appointment) /\ Len(appointments) \in Nat
    BY TableFacts DEF IInv, TypeOK
  <2> QED
    BY <1>5, <1>7, <2>1 DEF TablesGrow, Grows, IInv, BookedByAuthority
<1> HIDE DEF s
<1>9. At(node[r], "save", [s EXCEPT !.steps = @ + 1], orders')
  BY <1>1, <1>2, <1>3, <1>7, CountStep DEF At, After, Nodes, Ordered, Extracted
<1>10. "save" \in Steps /\ s.order <= Len(orders') /\ s.appointment <= Len(appointments')
  BY <1>1, <1>3, <1>5, <1>7, StepNames
<1> QED
  BY <1>2, <1>4, <1>5, <1>8, <1>9, <1>10, UpdateKeeps

LEMMA MatchKeeps ==
  ASSUME IInv, NEW r \in Runs, Match(r)
  PROVE  IInv'
<1>1. TablesGrow /\ UNCHANGED <<thread, orders, appointments>>
  BY TablesStay DEF Match, NoRows
<1>2. /\ local[r] \in FieldServiceState
      /\ local[r].order <= Len(orders) /\ local[r].appointment <= Len(appointments)
      /\ node[r] = "dispatch_subgraph" /\ local[r].steps <= 4
      /\ local[r].status = "service_request_created"
      /\ Ordered(local[r], orders) /\ Extracted(local[r])
  BY RunFacts DEF Match, At
<1>3. ASSUME NEW status \in {"needs_location", "needs_skill_information",
                             "no_technician_available"},
             Update(r, [local[r] EXCEPT !.status = status], "decideDispatch")
      PROVE  IInv'
  <2> DEFINE s == [local[r] EXCEPT !.status = status]
  <2>1. s \in FieldServiceState
    BY <1>2, StatusFacts DEF FieldServiceState
  <2>2. /\ s.order = local[r].order /\ s.appointment = local[r].appointment
        /\ s.steps = local[r].steps /\ s.status = status
        /\ Ordered(s, orders) /\ Extracted(s)
    BY <1>2 DEF FieldServiceState, Extracted, Ordered
  <2>3. ValidTransition(local[r].status, s.status)
    BY <1>2, <2>2, TransitionFacts
  <2>4. Update(r, s, "decideDispatch")
    BY <1>3
  <2> HIDE DEF s
  <2>5. At(node[r], "decideDispatch", [s EXCEPT !.steps = @ + 1], orders')
    BY <1>1, <1>2, <2>1, <2>2, CountStep, StateFacts
    DEF At, AfterDispatch, Matched, Ordered, Extracted
  <2>6. /\ "decideDispatch" \in Steps
        /\ s.order <= Len(orders') /\ s.appointment <= Len(appointments')
    BY <1>1, <1>2, <2>2, StepNames
  <2> QED
    BY <1>1, <2>1, <2>3, <2>4, <2>5, <2>6, UpdateKeeps
<1>4. ASSUME NEW matched \in Matches,
             Update(r, [local[r] EXCEPT !.status = "ready_for_scheduling",
                                        !.candidates = matched], "schedule")
      PROVE  IInv'
  <2> DEFINE s == [local[r] EXCEPT !.status = "ready_for_scheduling",
                                   !.candidates = matched]
  <2>1. matched \in SUBSET Technicians /\ matched # {}
    BY WorkflowAssumption
  <2>2. s \in FieldServiceState
    BY <1>2, <2>1, StatusFacts DEF FieldServiceState
  <2>3. /\ s.order = local[r].order /\ s.appointment = local[r].appointment
        /\ s.steps = local[r].steps /\ s.status = "ready_for_scheduling"
        /\ Ordered(s, orders) /\ Matched(s) /\ s.proposal = NoProposal /\ s.candidates # {}
    BY <1>2, <2>1 DEF FieldServiceState, Extracted, Ordered, Matched
  <2>4. ValidTransition(local[r].status, s.status)
    BY <1>2, <2>3, TransitionFacts
  <2>5. Update(r, s, "schedule")
    BY <1>4
  <2> HIDE DEF s
  <2>6. At(node[r], "schedule", [s EXCEPT !.steps = @ + 1], orders')
    BY <1>1, <1>2, <2>2, <2>3, CountStep, StateFacts DEF At, Matched, Ordered
  <2>7. /\ "schedule" \in Steps
        /\ s.order <= Len(orders') /\ s.appointment <= Len(appointments')
    BY <1>1, <1>2, <2>3, StepNames
  <2> QED
    BY <1>1, <2>2, <2>4, <2>5, <2>6, <2>7, UpdateKeeps
<1> QED
  BY <1>3, <1>4 DEF Match

LEMMA ScheduleKeeps ==
  ASSUME IInv, NEW r \in Runs, Schedule(r)
  PROVE  IInv'
<1>1. TablesGrow /\ UNCHANGED <<thread, orders, appointments>>
  BY TablesStay DEF Schedule, NoRows
<1>2. /\ local[r] \in FieldServiceState
      /\ local[r].order <= Len(orders) /\ local[r].appointment <= Len(appointments)
      /\ node[r] = "dispatch_subgraph" /\ local[r].steps <= 5
      /\ local[r].status = "ready_for_scheduling" /\ local[r].candidates # {}
      /\ Ordered(local[r], orders) /\ Matched(local[r]) /\ local[r].proposal = NoProposal
  BY RunFacts DEF Schedule, At
<1> DEFINE Outcomes == {"needs_time_clarification", "no_available_slots",
                        "schedule_options_ready"}
           Found(status, free) ==
             /\ status = "schedule_options_ready" <=> free # {}
             /\ \A o \in free : o.technician \in local[r].candidates
             /\ Update(r, [local[r] EXCEPT !.status = status, !.options = free],
                       "decideDispatch")
<1>3. \E status \in Outcomes, free \in SUBSET Options : Found(status, free)
  <2>1. CASE Update(r, [local[r] EXCEPT !.status = "needs_time_clarification"],
                    "decideDispatch")
    <3>1. local[r].options = {}
      BY <1>2 DEF Matched
    <3>2. [local[r] EXCEPT !.status = "needs_time_clarification"] =
            [local[r] EXCEPT !.status = "needs_time_clarification", !.options = {}]
      BY <1>2, <3>1 DEF FieldServiceState
    <3>3. Found("needs_time_clarification", {})
      BY <2>1, <3>2
    <3> QED
      BY <3>3
  <2>2. ASSUME NEW calendar \in Calendars,
               LET free == {o \in calendar : o.technician \in local[r].candidates} IN
               Update(r, [local[r] EXCEPT !.status = IF free = {} THEN "no_available_slots"
                                                     ELSE "schedule_options_ready",
                                          !.options = free], "decideDispatch")
        PROVE  \E status \in Outcomes, free \in SUBSET Options : Found(status, free)
    <3> DEFINE free == {o \in calendar : o.technician \in local[r].candidates}
    <3>1. free \in SUBSET Options
      BY WorkflowAssumption DEF Options
    <3>2. Found(IF free = {} THEN "no_available_slots" ELSE "schedule_options_ready", free)
      BY <2>2
    <3>3. (IF free = {} THEN "no_available_slots" ELSE "schedule_options_ready") \in Outcomes
      OBVIOUS
    <3> HIDE DEF free, Found, Outcomes
    <3> QED
      BY <3>1, <3>2, <3>3
  <2> QED
    BY <2>1, <2>2 DEF Schedule
<1>4. PICK status \in Outcomes, free \in SUBSET Options : Found(status, free)
  BY <1>3
<1> DEFINE s == [local[r] EXCEPT !.status = status, !.options = free]
<1>5. s \in FieldServiceState
  BY <1>2, StatusFacts DEF FieldServiceState
<1>6. /\ s.order = local[r].order /\ s.appointment = local[r].appointment
      /\ s.steps = local[r].steps /\ s.status = status /\ s.options = free
      /\ s.candidates = local[r].candidates /\ s.proposal = NoProposal
  BY <1>2 DEF FieldServiceState
<1>7. Ordered(s, orders) /\ Matched(s)
  BY <1>2, <1>4, <1>6 DEF Ordered, Matched
<1>8. ValidTransition(local[r].status, s.status)
  BY <1>2, <1>6, TransitionFacts
<1>9. Update(r, s, "decideDispatch")
  BY <1>4
<1> HIDE DEF s
<1>10. At(node[r], "decideDispatch", [s EXCEPT !.steps = @ + 1], orders')
  BY <1>1, <1>2, <1>5, <1>6, <1>7, CountStep, StateFacts
  DEF At, AfterDispatch, Matched, Ordered
<1>11. /\ "decideDispatch" \in Steps
       /\ s.order <= Len(orders') /\ s.appointment <= Len(appointments')
  BY <1>1, <1>2, <1>6, StepNames
<1> QED
  BY <1>1, <1>5, <1>8, <1>9, <1>10, <1>11, UpdateKeeps

LEMMA DecideDispatchKeeps ==
  ASSUME IInv, NEW r \in Runs, DecideDispatch(r)
  PROVE  IInv'
<1> DEFINE d == DispatchDecision(local[r])
           s == [local[r] EXCEPT !.decision = d]
<1>1. TablesGrow /\ UNCHANGED <<thread, orders, appointments>>
  BY TablesStay DEF DecideDispatch, NoRows
<1>2. /\ local[r] \in FieldServiceState
      /\ local[r].order <= Len(orders) /\ local[r].appointment <= Len(appointments)
      /\ node[r] = "dispatch_subgraph" /\ local[r].steps <= 6
      /\ AfterDispatch(local[r], orders)
      /\ local[r].candidates = {} <=>
           local[r].status \in {"needs_location", "needs_skill_information",
                                "no_technician_available"}
  BY RunFacts DEF DecideDispatch, At
<1>3. /\ d \in DecisionSet
      /\ Blocked(local[r]) => d.role = QueueOf(local[r])
      /\ d.action = "escalate" =>
           local[r].status \in {"no_technician_available", "no_available_slots",
                                "needs_location", "needs_skill_information"}
  BY <1>2 DEF DispatchDecision, Decision, DecisionSet, Actions, Levels, Blocked, QueueOf,
     EscalationRole, AfterDispatch, Matched
<1>4. s \in FieldServiceState
  BY <1>2, <1>3 DEF FieldServiceState
<1>5. /\ s.order = local[r].order /\ s.appointment = local[r].appointment
      /\ s.steps = local[r].steps /\ s.status = local[r].status
      /\ s.options = local[r].options /\ s.urgency = local[r].urgency
      /\ s.candidates = local[r].candidates /\ s.proposal = local[r].proposal
      /\ s.decision = d
  BY <1>2 DEF FieldServiceState
<1>6. AfterDispatch(s, orders) /\ (Blocked(s) => s.decision.role = QueueOf(s))
  BY <1>2, <1>3, <1>5 DEF AfterDispatch, Ordered, Matched, Blocked, QueueOf
<1>7. Update(r, s, "save")
  <2>1. s = [local[r] EXCEPT !.decision = d, !.status = local[r].status]
    BY <1>2 DEF FieldServiceState
  <2> HIDE DEF s, d
  <2> QED
    BY <1>3, <2>1 DEF DecideDispatch, d
<1>8. ValidTransition(local[r].status, s.status)
  BY <1>5, TransitionFacts
<1> HIDE DEF s
<1>9. At(node[r], "save", [s EXCEPT !.steps = @ + 1], orders')
  <2>1. /\ AfterDispatch([s EXCEPT !.steps = @ + 1], orders')
        /\ Blocked([s EXCEPT !.steps = @ + 1]) =>
             s.decision.role = QueueOf([s EXCEPT !.steps = @ + 1])
    BY <1>1, <1>4, <1>6, CountStep DEF AfterDispatch, Ordered, Matched, Blocked, QueueOf
  <2> QED
    BY <1>2, <1>4, <1>5, <2>1, CountStep, StateFacts DEF At, After, Nodes
<1>10. "save" \in Steps /\ s.order <= Len(orders') /\ s.appointment <= Len(appointments')
  BY <1>1, <1>2, <1>5, StepNames
<1> QED
  BY <1>1, <1>4, <1>7, <1>8, <1>9, <1>10, UpdateKeeps

(* Numbers have a least one, and so does a set of options in the order of   *)
(* the proposals.                                                           *)
LEMMA LeastNumber ==
  ASSUME NEW T \in SUBSET Nat, T # {}
  PROVE  \E n \in T : \A m \in T : n <= m
<1>1. PICK n \in T : \A m \in T : ~ (<<m, n>> \in OpToRel(<, Nat))
  BY NatLessThanWellFounded, WFMin
<1>2. \A m \in T : ~ (m < n)
  BY <1>1 DEF OpToRel
<1> QED
  BY <1>2

LEMMA ProposalIsOption ==
  ASSUME NEW options \in SUBSET Options, options # {}
  PROVE  select_proposal(options) \in options
<1>1. \A o \in options : o.hour \in Nat /\ o.technician \in Nat
  BY WorkflowAssumption DEF Options
<1>2. PICK h \in {o.hour : o \in options} : \A i \in {o.hour : o \in options} : h <= i
  <2>1. {o.hour : o \in options} \in SUBSET Nat /\ {o.hour : o \in options} # {}
    BY <1>1
  <2> QED
    BY <2>1, LeastNumber
<1> DEFINE early == {o \in options : o.hour = h}
<1>3. PICK t \in {o.technician : o \in early} : \A u \in {o.technician : o \in early} : t <= u
  <2>1. {o.technician : o \in early} \in SUBSET Nat /\ {o.technician : o \in early} # {}
    BY <1>1
  <2> QED
    BY <2>1, LeastNumber
<1>4. PICK o \in options : o.hour = h /\ o.technician = t
  BY <1>3
<1>5. \A p \in options : \/ o.hour < p.hour
                         \/ o.hour = p.hour /\ o.technician <= p.technician
  <2> SUFFICES ASSUME NEW p \in options
               PROVE  \/ o.hour < p.hour
                      \/ o.hour = p.hour /\ o.technician <= p.technician
    OBVIOUS
  <2>1. h <= p.hour /\ (p.hour = h => t <= p.technician)
    BY <1>2, <1>3
  <2> QED
    BY <1>1, <1>4, <2>1
<1> QED
  BY <1>5 DEF select_proposal

LEMMA ProposeKeeps ==
  ASSUME IInv, NEW r \in Runs, Propose(r)
  PROVE  IInv'
<1> DEFINE o == select_proposal(local[r].options)
           level == ApprovalLevel(local[r].urgency, o.hour)
           d == Decision("wait_for_approval", level)
           s == [local[r] EXCEPT !.status = "waiting_for_approval",
                                 !.approval = "pending", !.proposal = o,
                                 !.level = level, !.decision = d]
<1>1. TablesGrow /\ UNCHANGED <<thread, orders, appointments>>
  BY TablesStay DEF Propose, NoRows
<1>2. /\ local[r] \in FieldServiceState
      /\ local[r].order <= Len(orders) /\ local[r].appointment <= Len(appointments)
      /\ node[r] = "build_appointment_proposal" /\ local[r].steps <= 7
      /\ AfterDispatch(local[r], orders) /\ local[r].status = "schedule_options_ready"
  BY RunFacts DEF Propose, At
<1>3. local[r].options # {} /\ local[r].options \in SUBSET Options
  BY <1>2, StateFacts DEF AfterDispatch, Matched
<1>4. o \in local[r].options /\ o \in Options
  BY <1>3, ProposalIsOption
<1>5. level \in Levels /\ d \in DecisionSet
  BY DEF ApprovalLevel, Levels, Decision, DecisionSet, Actions
<1>6. Update(r, s, "save")
  BY <1>3 DEF Propose
<1> HIDE DEF o, d
<1>7. s \in FieldServiceState
  BY <1>2, <1>4, <1>5, StatusFacts DEF FieldServiceState
<1>8. /\ s.order = local[r].order /\ s.appointment = local[r].appointment
      /\ s.steps = local[r].steps /\ s.status = "waiting_for_approval"
      /\ s.approval = "pending" /\ s.options = local[r].options /\ s.proposal = o
      /\ s.candidates = local[r].candidates /\ s.urgency = local[r].urgency
      /\ s.level = level
  BY <1>2 DEF FieldServiceState
<1>9. Waiting(s, orders)
  BY <1>2, <1>4, <1>8 DEF Waiting, Proposed, AfterDispatch, Ordered, Matched
<1>10. ValidTransition(local[r].status, s.status)
  BY <1>2, <1>8, TransitionFacts
<1> HIDE DEF s
<1>11. At(node[r], "save", [s EXCEPT !.steps = @ + 1], orders')
  <2>1. Waiting([s EXCEPT !.steps = @ + 1], orders')
    BY <1>1, <1>7, <1>9, CountStep DEF Waiting, Proposed, Ordered
  <2> QED
    BY <1>2, <1>7, <1>8, <2>1, CountStep, StateFacts DEF At, After, Nodes
<1>12. "save" \in Steps /\ s.order <= Len(orders') /\ s.appointment <= Len(appointments')
  BY <1>1, <1>2, <1>8, StepNames
<1> QED
  BY <1>1, <1>6, <1>7, <1>10, <1>11, <1>12, UpdateKeeps

LEMMA ReviewKeeps ==
  ASSUME IInv, NEW r \in Runs, Review(r)
  PROVE  IInv'
<1> DEFINE d == ResumeDecision(verdict[r].decision, verdict[r].role, local[r].level)
           with(approval, status) ==
             [local[r] EXCEPT !.decision = d, !.reviewer = verdict[r].role,
                              !.approval = approval, !.status = status]
<1>1. TablesGrow /\ UNCHANGED <<thread, orders, appointments>>
  BY TablesStay DEF Review, NoRows
<1>2. /\ local[r] \in FieldServiceState
      /\ local[r].order <= Len(orders) /\ local[r].appointment <= Len(appointments)
      /\ node[r] = "human_review" /\ local[r].steps <= 8 /\ Waiting(local[r], orders)
  BY RunFacts DEF Review, At
<1>3. verdict[r] \in Verdicts
  BY DEF IInv, TypeOK
<1>4. verdict[r].role \in Levels /\ d \in DecisionSet
  <2>1. local[r].level \in Levels /\ verdict[r].role \in Levels
    BY <1>2, <1>3, StateFacts DEF Verdicts
  <2>2. /\ Decision("require_human", local[r].level) \in DecisionSet
        /\ Decision("finalize", "none") \in DecisionSet
        /\ Decision("stop", "none") \in DecisionSet
    BY <2>1 DEF Decision, DecisionSet, Actions, Levels
  <2> QED
    BY <2>1, <2>2 DEF ResumeDecision
<1>5. CASE d.action = "require_human"
  <2>1. Stop(r, "refused")
    BY <1>5 DEF Review
  <2> QED
    BY <1>1, <2>1, StopKeeps
<1>6. ASSUME NEW approval \in {"approved", "rejected"},
             NEW status \in {"approval_completed", "rejected"},
             Update(r, with(approval, status), "save"),
             approval = "approved" <=> status = "approval_completed",
             approval = "approved" => CanApprove(verdict[r].role, local[r].level)
      PROVE  IInv'
  <2> DEFINE s == with(approval, status)
  <2> HIDE DEF d
  <2>1. s \in FieldServiceState
    BY <1>2, <1>4, StatusFacts DEF FieldServiceState
  <2>2. /\ s.order = local[r].order /\ s.appointment = local[r].appointment
        /\ s.steps = local[r].steps /\ s.status = status /\ s.approval = approval
        /\ s.options = local[r].options /\ s.proposal = local[r].proposal
        /\ s.candidates = local[r].candidates /\ s.urgency = local[r].urgency
        /\ s.level = local[r].level /\ s.reviewer = verdict[r].role
    BY <1>2 DEF FieldServiceState
  <2>3. approval = "approved" => Approved(s, orders)
    BY <1>2, <1>6, <2>2 DEF Approved, Waiting, Proposed, Ordered
  <2>4. ValidTransition(local[r].status, s.status)
    BY <1>2, <2>2, TransitionFacts DEF Waiting
  <2>5. Update(r, s, "save")
    BY <1>6
  <2> HIDE DEF s
  <2>6. At(node[r], "save", [s EXCEPT !.steps = @ + 1], orders')
    <3> DEFINE t == [s EXCEPT !.steps = @ + 1]
    <3>1. approval = "approved" => Approved(t, orders')
      BY <1>1, <2>1, <2>3, CountStep DEF Approved, Proposed, Ordered
    <3>2. t.steps <= 9 /\ t.status = status /\ t.approval = approval
      BY <1>2, <2>1, <2>2, CountStep, StateFacts
    <3> HIDE DEF t
    <3>3. At(node[r], "save", t, orders')
      <4>1. After("human_review", t, orders')
        <5>1. t.steps <= 10
          BY <2>1, <3>2, CountStep, StateFacts DEF t
        <5> QED
          BY <1>6, <3>1, <3>2, <5>1 DEF After
      <4> QED
        BY <1>2, <4>1 DEF At, Nodes
    <3> QED
      BY <3>3 DEF t
  <2>7. "save" \in Steps /\ s.order <= Len(orders') /\ s.appointment <= Len(appointments')
    BY <1>1, <1>2, <2>2, StepNames
  <2> QED
    BY <1>1, <2>1, <2>4, <2>5, <2>6, <2>7, UpdateKeeps
<1>7. CASE d.action = "finalize"
  <2>1. CanApprove(verdict[r].role, local[r].level)
    BY <1>7 DEF ResumeDecision, Decision
  <2>2. Update(r, with("approved", "approval_completed"), "save")
    BY <1>2, <1>7 DEF Review, FieldServiceState
  <2> QED
    BY <1>6, <2>1, <2>2
<1>8. CASE d.action \notin {"require_human", "finalize"}
  <2>1. Update(r, with("rejected", "rejected"), "save")
    BY <1>2, <1>8 DEF Review, FieldServiceState
  <2> QED
    BY <1>6, <2>1
<1> QED
  BY <1>5, <1>7, <1>8

(* With an appointment that exists, an approved thread meets the invariants *)
(* the code looks at.                                                       *)
LEMMA BookedKeeps ==
  ASSUME IInv, TablesGrow, NEW r \in Runs, NEW a \in DOMAIN appointments',
         UNCHANGED <<thread, orders>>,
         node[r] = "appointment_subgraph", local[r].steps <= 9,
         Approved(local[r], orders), Booked(r, a)
  PROVE  IInv'
<1> DEFINE s == [local[r] EXCEPT !.status = "appointment_created", !.appointment = a]
<1>1. /\ local[r] \in FieldServiceState /\ local[r].order <= Len(orders)
      /\ DOMAIN orders = 1 .. Len(orders) /\ Len(orders) \in Nat
  BY RunFacts
<1>2. a \in Nat \ {0} /\ a <= Len(appointments')
  BY TableFacts DEF TablesGrow
<1>3. s \in FieldServiceState
  BY <1>1, <1>2, StatusFacts DEF FieldServiceState
<1>4. /\ s.order = local[r].order /\ s.appointment = a
      /\ s.steps = local[r].steps /\ s.status = "appointment_created"
      /\ s.options = local[r].options /\ s.proposal = local[r].proposal
      /\ s.candidates = local[r].candidates
  BY <1>1 DEF FieldServiceState
<1>5. ValidTransition(local[r].status, s.status)
  BY <1>4, TransitionFacts DEF Approved
<1> HIDE DEF s
<1>6. WorkflowInvariants([s EXCEPT !.steps = @ + 1])
  <2> DEFINE t == [s EXCEPT !.steps = @ + 1]
  <2>1. /\ t.steps = s.steps + 1 /\ t.status = s.status /\ t.order = s.order
        /\ t.appointment = s.appointment /\ t.proposal = s.proposal
        /\ t.candidates = s.candidates /\ t.steps <= 10
    BY <1>1, <1>3, <1>4, CountStep, StateFacts
  <2> HIDE DEF t
  <2>2. t.order # 0 /\ t.appointment # 0 /\ t.proposal.technician \in t.candidates
    BY <1>1, <1>2, <1>4, <2>1 DEF Approved, Proposed, Ordered
  <2>3. t.steps <= MAX_WORKFLOW_STEPS
    BY <1>3, <2>1, StateFacts DEF MAX_WORKFLOW_STEPS
  <2>4. WorkflowInvariants(t)
    BY <1>4, <2>1, <2>2, <2>3 DEF WorkflowInvariants
  <2> QED
    BY <2>4 DEF t
<1>7. Update(r, s, "save")
  BY <1>6 DEF Booked, s
<1>8. At(node[r], "save", [s EXCEPT !.steps = @ + 1], orders')
  <2> DEFINE t == [s EXCEPT !.steps = @ + 1]
  <2>1. t.steps <= 10 /\ t.status = "appointment_created"
    BY <1>1, <1>3, <1>4, CountStep, StateFacts
  <2> HIDE DEF t
  <2>2. At(node[r], "save", t, orders')
    BY <2>1 DEF At, After, Nodes, Blocked
  <2> QED
    BY <2>2 DEF t
<1>9. /\ "save" \in Steps /\ s.order <= Len(orders') /\ s.appointment <= Len(appointments')
  BY <1>1, <1>2, <1>4, StepNames
<1> QED
  BY <1>3, <1>5, <1>7, <1>8, <1>9, UpdateKeeps

(* An approved thread has a request and a proposal.                         *)
LEMMA ApprovedFacts ==
  ASSUME IInv, NEW r \in Runs, Approved(local[r], orders)
  PROVE  /\ local[r].proposal # NoProposal /\ local[r].order # 0
         /\ local[r].proposal \in Options
<1>1. local[r] \in FieldServiceState /\ DOMAIN orders = 1 .. Len(orders) /\ Len(orders) \in Nat
  BY RunFacts
<1>2. local[r].proposal \in Options /\ local[r].order \in 1 .. Len(orders)
  BY <1>1, StateFacts DEF Approved, Proposed, Ordered
<1>3. local[r].proposal.technician # 0
  BY <1>2, WorkflowAssumption DEF Options
<1> QED
  BY <1>1, <1>2, <1>3 DEF NoProposal

(* The slot was lost: the run saves and ends without an appointment.        *)
LEMMA RescheduleKeeps ==
  ASSUME IInv, NEW r \in Runs, NoRows, UNCHANGED thread,
         node[r] = "appointment_subgraph", local[r].steps <= 9, Approved(local[r], orders),
         Update(r, [local[r] EXCEPT !.status = "needs_rescheduling"], "save")
  PROVE  IInv'
<1> DEFINE s == [local[r] EXCEPT !.status = "needs_rescheduling"]
<1>1. TablesGrow /\ UNCHANGED <<orders, appointments>>
  BY TablesStay DEF NoRows
<1>2. /\ local[r] \in FieldServiceState
      /\ local[r].order <= Len(orders) /\ local[r].appointment <= Len(appointments)
  BY RunFacts
<1>3. s \in FieldServiceState
  BY <1>2, StatusFacts DEF FieldServiceState
<1>4. /\ s.order = local[r].order /\ s.appointment = local[r].appointment
      /\ s.steps = local[r].steps /\ s.status = "needs_rescheduling"
  BY <1>2 DEF FieldServiceState
<1>5. ValidTransition(local[r].status, s.status)
  BY <1>4, TransitionFacts DEF Approved
<1> HIDE DEF s
<1>6. At(node[r], "save", [s EXCEPT !.steps = @ + 1], orders')
  <2> DEFINE t == [s EXCEPT !.steps = @ + 1]
  <2>1. t.steps <= 10 /\ t.status = "needs_rescheduling"
    BY <1>2, <1>3, <1>4, CountStep, StateFacts
  <2> HIDE DEF t
  <2>2. At(node[r], "save", t, orders')
    BY <2>1 DEF At, After, Nodes, Blocked
  <2> QED
    BY <2>2 DEF t
<1>7. /\ "save" \in Steps /\ s.order <= Len(orders') /\ s.appointment <= Len(appointments')
  BY <1>1, <1>2, <1>4, StepNames
<1> QED
  BY <1>1, <1>3, <1>5, <1>6, <1>7, UpdateKeeps DEF s

LEMMA FinalizeKeeps ==
  ASSUME IInv, NEW r \in Runs, Finalize(r)
  PROVE  IInv'
<1>1. TablesGrow /\ UNCHANGED <<thread, orders, appointments>>
  BY TablesStay DEF Finalize, NoRows
<1>2. /\ node[r] = "appointment_subgraph" /\ local[r].steps <= 9
      /\ Approved(local[r], orders)
  BY RunFacts DEF Finalize, At
<1>3. CASE \E a \in Live(local[r].order) : Booked(r, a)
  BY <1>1, <1>2, <1>3, BookedKeeps DEF Live
<1>4. CASE pc' = [pc EXCEPT ![r] = "book"] /\ UNCHANGED <<node, local, verdict, outcome>>
  <2>1. /\ local \in [Runs -> FieldServiceState] /\ pc \in [Runs -> Steps]
        /\ node \in [Runs -> Nodes \cup {"end"}] /\ verdict \in [Runs -> Verdicts]
        /\ outcome \in [Runs -> {"none", "ended", "refused", "halted", "failed"}]
        /\ \A v \in Runs : outcome[v] # "halted"
    BY DEF IInv, TypeOK, GuardsNeverFire
  <2>2. /\ pc' \in [Runs -> Steps] /\ pc'[r] = "book"
        /\ \A v \in Runs \ {r} : pc'[v] = pc[v]
    BY <1>4, <2>1, StepNames
  <2>3. outcome' \in [Runs -> {"none", "ended", "refused", "failed"}]
    BY <1>4, <2>1
  <2>4. At(node[r], "book", local[r], orders)
    BY <1>2 DEF At
  <2>5. local[r].order <= Len(orders) /\ local[r].appointment <= Len(appointments)
    BY RunFacts
  <2> QED
    BY <1>1, <1>4, <2>1, <2>2, <2>3, <2>4, <2>5, RunMoves
<1> QED
  BY <1>2, <1>3, <1>4, ApprovedFacts DEF Finalize

LEMMA BookKeeps ==
  ASSUME IInv, NEW r \in Runs, Book(r)
  PROVE  IInv'
<1> DEFINE row == [order |-> local[r].order, technician |-> local[r].proposal.technician,
                   hour |-> local[r].proposal.hour, urgency |-> local[r].urgency,
                   reviewer |-> local[r].reviewer, status |-> "scheduled"]
<1>1. /\ node[r] = "appointment_subgraph" /\ local[r].steps <= 9
      /\ Approved(local[r], orders) /\ local[r] \in FieldServiceState
  BY RunFacts DEF Book, At
<1>2. CASE /\ appointments' = Append(appointments, row)
           /\ Booked(r, Len(appointments) + 1)
           /\ UNCHANGED <<orders, thread>>
  <2>1. row \in Appointment
    <3>1. /\ local[r].order \in Nat /\ local[r].proposal \in Options
          /\ local[r].urgency \in Urgencies /\ local[r].reviewer \in Levels
      BY <1>1, StateFacts, ApprovedFacts
    <3> QED
      BY <3>1 DEF Appointment, Options
  <2>2. CanApprove(row.reviewer, ApprovalLevel(row.urgency, row.hour))
    BY <1>1 DEF Approved, Proposed
  <2> HIDE DEF row
  <2>3. appointments \in Seq(Appointment) /\ orders \in Seq(AuditLog)
    BY DEF IInv, TypeOK
  <2>4. /\ appointments' \in Seq(Appointment) /\ Len(appointments') = Len(appointments) + 1
        /\ DOMAIN appointments' = DOMAIN appointments \cup {Len(appointments) + 1}
        /\ \A a \in DOMAIN appointments : appointments'[a] = appointments[a]
        /\ appointments'[Len(appointments) + 1] = row
        /\ Len(appointments) \in Nat
    BY <1>2, <2>1, <2>3, AppendRow, TableFacts
  <2>5. BookedByAuthority'
    <3>1. \A a \in DOMAIN appointments :
            CanApprove(appointments[a].reviewer,
                       ApprovalLevel(appointments[a].urgency, appointments[a].hour))
      BY DEF IInv, BookedByAuthority
    <3>2. \A a \in DOMAIN appointments' :
            CanApprove(appointments'[a].reviewer,
                       ApprovalLevel(appointments'[a].urgency, appointments'[a].hour))
      BY <2>2, <2>4, <3>1
    <3> QED
      BY <3>2 DEF BookedByAuthority
  <2>6. TablesGrow
    BY <1>2, <2>3, <2>4, <2>5 DEF TablesGrow, Grows
  <2> QED
    BY <1>1, <1>2, <2>4, <2>6, BookedKeeps
<1>3. CASE /\ Update(r, [local[r] EXCEPT !.status = "needs_rescheduling"], "save")
           /\ NoRows /\ UNCHANGED thread
  BY <1>1, <1>3, RescheduleKeeps
<1> QED
  BY <1>2, <1>3 DEF Book

LEMMA RejectKeeps ==
  ASSUME IInv, NEW r \in Runs, HandleRejection(r)
  PROVE  IInv'
<1> DEFINE s == [local[r] EXCEPT !.status = "rejected", !.appointment = 0]
<1>1. TablesGrow /\ UNCHANGED <<thread, orders, appointments>>
  BY TablesStay DEF HandleRejection, NoRows
<1>2. /\ local[r] \in FieldServiceState /\ Len(appointments) \in Nat
      /\ local[r].order <= Len(orders) /\ node[r] = "handle_rejection"
      /\ local[r].steps <= 9 /\ local[r].status = "rejected"
  BY RunFacts DEF HandleRejection, At
<1>3. s \in FieldServiceState
  BY <1>2, StatusFacts DEF FieldServiceState
<1>4. /\ s.order = local[r].order /\ s.appointment = 0
      /\ s.steps = local[r].steps /\ s.status = "rejected"
  BY <1>2 DEF FieldServiceState
<1>5. ValidTransition(local[r].status, s.status)
  BY <1>2, <1>4, TransitionFacts
<1>6. Update(r, s, "save")
  BY DEF HandleRejection
<1> HIDE DEF s
<1>7. At(node[r], "save", [s EXCEPT !.steps = @ + 1], orders')
  <2> DEFINE t == [s EXCEPT !.steps = @ + 1]
  <2>1. t.steps <= 10 /\ t.status = "rejected"
    BY <1>2, <1>3, <1>4, CountStep, StateFacts
  <2> HIDE DEF t
  <2>2. At(node[r], "save", t, orders')
    BY <1>2, <2>1 DEF At, After, Nodes, Blocked
  <2> QED
    BY <2>2 DEF t
<1>8. /\ "save" \in Steps /\ s.order <= Len(orders') /\ s.appointment <= Len(appointments')
  BY <1>1, <1>2, <1>4, StepNames
<1> QED
  BY <1>1, <1>3, <1>5, <1>6, <1>7, <1>8, UpdateKeeps

LEMMA EscalateKeeps ==
  ASSUME IInv, NEW r \in Runs, Escalate(r)
  PROVE  IInv'
<1> DEFINE k == local[r].order
           s == [local[r] EXCEPT !.status = local[r].status]
<1>1. /\ local[r] \in FieldServiceState
      /\ local[r].order <= Len(orders) /\ local[r].appointment <= Len(appointments)
      /\ node[r] = "escalation_subgraph" /\ local[r].steps <= 7
      /\ Ordered(local[r], orders) /\ Blocked(local[r])
      /\ local[r].decision.role = QueueOf(local[r])
      /\ DOMAIN orders = 1 .. Len(orders) /\ Len(orders) \in Nat
  BY RunFacts DEF Escalate, At
<1>2. k \in DOMAIN orders /\ k # 0
  BY <1>1 DEF Ordered
<1>3. PICK word \in {QueueOf(local[r]), "lost"} :
        orders' = [orders EXCEPT ![k] = @ \cup {word}]
  <2>1. \E written \in BOOLEAN :
          orders' = [orders EXCEPT ![k] = @ \cup {IF written THEN local[r].decision.role
                                                  ELSE "lost"}]
    BY <1>2 DEF Escalate
  <2> QED
    BY <1>1, <2>1
<1>4. orders \in Seq(AuditLog) /\ appointments \in Seq(Appointment)
  BY DEF IInv, TypeOK
<1>5. orders[k] \cup {word} \in AuditLog
  <2>1. word \in Levels \cup {"lost"} /\ orders[k] \in AuditLog
    BY <1>2, <1>4, TableFacts DEF QueueOf, EscalationRole, Levels
  <2> QED
    BY <2>1 DEF AuditLog
<1>6. /\ orders' \in Seq(AuditLog) /\ Len(orders') = Len(orders)
      /\ DOMAIN orders' = DOMAIN orders /\ orders'[k] = orders[k] \cup {word}
      /\ \A j \in DOMAIN orders : j # k => orders'[j] = orders[j]
  <2>1. orders' \in [1 .. Len(orders) -> AuditLog]
    BY <1>1, <1>3, <1>4, <1>5, TableFacts
  <2>2. orders' \in Seq(AuditLog) /\ Len(orders') = Len(orders)
    BY <1>1, <2>1, FunctionIsSeq
  <2> QED
    BY <1>1, <1>2, <1>3, <1>4, <2>1, <2>2, TableFacts
<1>7. TablesGrow /\ UNCHANGED <<thread, appointments>>
  <2>1. Len(appointments) \in Nat /\ UNCHANGED <<thread, appointments>>
    BY <1>4, TableFacts DEF Escalate
  <2>2. Grows(orders, orders')
    BY <1>6 DEF Grows
  <2> QED
    BY <1>4, <1>6, <2>1, <2>2 DEF TablesGrow, IInv, BookedByAuthority
<1>8. s \in FieldServiceState
  BY <1>1 DEF FieldServiceState
<1>9. /\ s.order = k /\ s.appointment = local[r].appointment /\ s.steps = local[r].steps
      /\ s.status = local[r].status /\ s.urgency = local[r].urgency
  BY <1>1 DEF FieldServiceState
<1>10. ValidTransition(local[r].status, s.status)
  BY <1>9, TransitionFacts
<1>11. Update(r, s, "save")
  BY <1>1 DEF Escalate, Blocked
<1> HIDE DEF s
<1>12. At(node[r], "save", [s EXCEPT !.steps = @ + 1], orders')
  <2> DEFINE t == [s EXCEPT !.steps = @ + 1]
  <2>1. /\ t.steps <= 10 /\ t.status = local[r].status /\ t.order = k
        /\ t.urgency = local[r].urgency
    BY <1>1, <1>8, <1>9, CountStep, StateFacts
  <2> HIDE DEF t
  <2>2. Ordered(t, orders') /\ Queued(t, orders')
    BY <1>2, <1>3, <1>6, <2>1 DEF Ordered, Queued, Blocked, QueueOf
  <2>3. At(node[r], "save", t, orders')
    BY <1>1, <2>1, <2>2 DEF At, After, Nodes
  <2> QED
    BY <2>3 DEF t
<1>13. /\ "save" \in Steps /\ s.order <= Len(orders') /\ s.appointment <= Len(appointments')
  BY <1>1, <1>6, <1>7, <1>9, StepNames
<1> QED
  BY <1>7, <1>8, <1>10, <1>11, <1>12, <1>13, UpdateKeeps

------------------------------------------------------------------------------
(* The thread                                                               *)

(* The variables of runs, without the outcome that never is.                *)
LEMMA RunTypes ==
  ASSUME IInv
  PROVE  /\ local \in [Runs -> FieldServiceState] /\ pc \in [Runs -> Steps]
         /\ node \in [Runs -> Nodes \cup {"end"}] /\ verdict \in [Runs -> Verdicts]
         /\ outcome \in [Runs -> {"none", "ended", "refused", "failed"}]
         /\ thread \in [state : FieldServiceState, next : Nodes \cup {"none", "end"}]
         /\ thread.state.order <= Len(orders) /\ thread.state.appointment <= Len(appointments)
<1>1. /\ outcome \in [Runs -> {"none", "ended", "refused", "halted", "failed"}]
      /\ \A v \in Runs : outcome[v] # "halted"
  BY DEF IInv, TypeOK, GuardsNeverFire
<1>2. outcome \in [Runs -> {"none", "ended", "refused", "failed"}]
  BY <1>1
<1> QED
  BY <1>2 DEF IInv, TypeOK

LEMMA SaveKeeps ==
  ASSUME IInv, NEW r \in Runs, Save(r)
  PROVE  IInv'
<1> DEFINE next == NextNode(node[r], local[r])
<1>1. TablesGrow /\ UNCHANGED <<orders, appointments>>
  BY TablesStay DEF Save, NoRows
<1>2. /\ node[r] \in Nodes /\ After(node[r], local[r], orders)
      /\ local[r] \in FieldServiceState
      /\ local[r].order <= Len(orders) /\ local[r].appointment <= Len(appointments)
  BY RunFacts DEF Save, At
<1>3. /\ next \in Nodes \cup {"end"}
      /\ next \in Nodes => At(next, FirstStep[next], local[r], orders)
      /\ next = "end" => Queued(local[r], orders)
  BY <1>2, NodeFollows
<1> HIDE DEF next
<1>4. thread' = [state |-> local[r], next |-> next]
  BY DEF Save, next
<1>5. /\ thread' \in [state : FieldServiceState, next : Nodes \cup {"none", "end"}]
      /\ thread'.state = local[r] /\ thread'.next = next
  BY <1>2, <1>3, <1>4
<1>6. ThreadFits'
  BY <1>1, <1>3, <1>5 DEF ThreadFits
<1>7. thread'.state.order <= Len(orders') /\ thread'.state.appointment <= Len(appointments')
  BY <1>1, <1>2, <1>5
<1>8. CASE next = "end"
  <2>1. Stop(r, "ended")
    BY <1>8 DEF Save, next
  <2> QED
    BY <1>1, <1>5, <1>6, <1>7, <2>1, StopKeeps
<1>9. CASE next # "end"
  <2>1. /\ next \in Nodes /\ node' = [node EXCEPT ![r] = next]
        /\ pc' = [pc EXCEPT ![r] = FirstStep[next]]
        /\ UNCHANGED <<local, verdict, outcome>>
    BY <1>3, <1>9 DEF Save, next
  <2>2. /\ node' \in [Runs -> Nodes \cup {"end"}] /\ pc' \in [Runs -> Steps]
        /\ node'[r] = next /\ pc'[r] = FirstStep[next]
        /\ \A v \in Runs \ {r} : node'[v] = node[v] /\ pc'[v] = pc[v]
    BY <2>1, RunTypes, StepNames
  <2>3. At(node'[r], pc'[r], local'[r], orders')
    BY <1>1, <1>3, <2>1, <2>2
  <2> QED
    BY <1>1, <1>2, <1>5, <1>6, <1>7, <2>1, <2>2, <2>3, RunTypes, RunMoves
<1> QED
  BY <1>8, <1>9

LEMMA InvokeKeeps ==
  ASSUME IInv, NEW r \in Runs, Invoke(r), thread.next # "none"
  PROVE  IInv'
<1>1. TablesGrow /\ UNCHANGED <<thread, orders, appointments>>
  BY TablesStay DEF Invoke, NoRows
<1>2. CASE thread.next = "end"
  BY <1>1, <1>2, StopKeeps DEF Invoke
<1>3. CASE thread.next # "end"
  <2>1. /\ local' = [local EXCEPT ![r] = thread.state]
        /\ node' = [node EXCEPT ![r] = thread.next]
        /\ pc' = [pc EXCEPT ![r] = FirstStep[thread.next]]
        /\ verdict' = [verdict EXCEPT ![r] = IF thread.next = "human_review"
                                             THEN verdict[r] ELSE NoVerdict]
        /\ UNCHANGED outcome
    BY <1>3 DEF Invoke
  <2>2. thread.next \in Nodes /\ thread.state \in FieldServiceState
    BY <1>3, RunTypes
  <2>3. NoVerdict \in Verdicts
    BY DEF NoVerdict, Verdicts, Levels
  <2>4. /\ local' \in [Runs -> FieldServiceState] /\ pc' \in [Runs -> Steps]
        /\ node' \in [Runs -> Nodes \cup {"end"}] /\ verdict' \in [Runs -> Verdicts]
        /\ local'[r] = thread.state /\ node'[r] = thread.next
        /\ pc'[r] = FirstStep[thread.next]
        /\ \A v \in Runs \ {r} : /\ local'[v] = local[v] /\ node'[v] = node[v]
                                 /\ pc'[v] = pc[v]
    BY <2>1, <2>2, <2>3, RunTypes, StepNames
  <2>5. At(node'[r], pc'[r], local'[r], orders')
    BY <1>1, <2>2, <2>4 DEF IInv, ThreadFits
  <2> QED
    BY <1>1, <2>1, <2>4, <2>5, RunTypes, RunMoves
<1> QED
  BY <1>2, <1>3

LEMMA LookKeeps ==
  ASSUME IInv, NEW r \in Runs, Look(r)
  PROVE  IInv'
<1>1. TablesGrow /\ UNCHANGED <<thread, orders, appointments>>
  BY TablesStay DEF Look, NoRows
<1>2. CASE Stop(r, "refused")
  BY <1>1, <1>2, StopKeeps
<1>3. ASSUME NEW decision \in {"approve", "reject"}, NEW role \in Reviewers,
             verdict' = [verdict EXCEPT ![r] = [decision |-> decision, role |-> role]],
             pc' = [pc EXCEPT ![r] = "invoke"],
             UNCHANGED <<node, local, outcome>>
      PROVE  IInv'
  <2>1. [decision |-> decision, role |-> role] \in Verdicts
    BY WorkflowAssumption DEF Verdicts
  <2>2. /\ pc' \in [Runs -> Steps] /\ verdict' \in [Runs -> Verdicts] /\ pc'[r] = "invoke"
        /\ \A v \in Runs \ {r} : pc'[v] = pc[v]
    BY <1>3, <2>1, RunTypes, StepNames
  <2>3. At(node'[r], "invoke", local'[r], orders')
    BY DEF At
  <2>4. local[r].order <= Len(orders) /\ local[r].appointment <= Len(appointments)
    BY RunFacts
  <2> QED
    BY <1>1, <1>3, <2>2, <2>3, <2>4, RunTypes, RunMoves
<1> QED
  BY <1>2, <1>3 DEF Look

LEMMA StartKeeps ==
  ASSUME IInv, NEW r \in Runs, Start(r)
  PROVE  IInv'
<1>1. TablesGrow /\ UNCHANGED <<orders, appointments>>
  BY TablesStay DEF Start, NoRows
<1>2. /\ "intake_subgraph" \in Nodes /\ FirstStep["intake_subgraph"] = "parse"
      /\ At("intake_subgraph", "parse", create_initial_state, orders)
  BY DEF Nodes, FirstStep, At
<1>3. /\ local' \in [Runs -> FieldServiceState] /\ pc' \in [Runs -> Steps]
      /\ node' \in [Runs -> Nodes \cup {"end"}]
      /\ local'[r] = create_initial_state /\ node'[r] = "intake_subgraph" /\ pc'[r] = "parse"
      /\ \A v \in Runs \ {r} : local'[v] = local[v] /\ node'[v] = node[v] /\ pc'[v] = pc[v]
      /\ UNCHANGED <<verdict, outcome>>
  BY <1>2, RunTypes, InitialState, StepNames DEF Start
<1>4. thread' = [state |-> create_initial_state, next |-> "intake_subgraph"]
  BY DEF Start
<1>5. /\ thread' \in [state : FieldServiceState, next : Nodes \cup {"none", "end"}]
      /\ thread'.state = create_initial_state /\ thread'.next = "intake_subgraph"
  BY <1>2, <1>4, InitialState
<1>6. ThreadFits'
  BY <1>1, <1>2, <1>5 DEF ThreadFits
<1>7. /\ create_initial_state.order <= Len(orders')
      /\ create_initial_state.appointment <= Len(appointments')
  BY InitialState, LengthsGrow, <1>1
<1>8. At(node'[r], pc'[r], local'[r], orders')
  BY <1>1, <1>2, <1>3
<1> QED
  BY <1>1, <1>3, <1>5, <1>6, <1>7, <1>8, RunTypes, RunMoves

LEMMA EndKeeps ==
  ASSUME IInv, NEW r \in Runs, Pause(r) \/ Fail(r)
  PROVE  IInv'
<1>1. TablesGrow /\ UNCHANGED thread
  BY TablesStay DEF Pause, Fail
<1> QED
  BY <1>1, StopKeeps DEF Pause, Fail

LEMMA CancelKeeps ==
  ASSUME IInv, CancelOrder
  PROVE  IInv'
<1>1. appointments \in Seq(Appointment)
  BY DEF IInv, TypeOK
<1>2. PICK k \in DOMAIN orders :
        appointments' = [a \in DOMAIN appointments |->
                           IF a \in Live(k)
                           THEN [appointments[a] EXCEPT !.status = "cancelled"]
                           ELSE appointments[a]]
  BY DEF CancelOrder
<1>3. UNCHANGED <<thread, orders, node, pc, local, verdict, outcome>>
  BY DEF CancelOrder
<1>4. \A a \in DOMAIN appointments :
        /\ appointments'[a] \in Appointment
        /\ appointments'[a].reviewer = appointments[a].reviewer
        /\ appointments'[a].urgency = appointments[a].urgency
        /\ appointments'[a].hour = appointments[a].hour
  <2>1. ASSUME NEW a \in DOMAIN appointments
        PROVE  /\ appointments'[a] \in Appointment
               /\ appointments'[a].reviewer = appointments[a].reviewer
               /\ appointments'[a].urgency = appointments[a].urgency
               /\ appointments'[a].hour = appointments[a].hour
    <3>1. appointments[a] \in Appointment
      BY <1>1, TableFacts
    <3>2. \/ appointments'[a] = appointments[a]
          \/ appointments'[a] = [appointments[a] EXCEPT !.status = "cancelled"]
      BY <1>2
    <3> QED
      BY <3>1, <3>2 DEF Appointment
  <2> QED
    BY <2>1
<1>5. appointments' \in Seq(Appointment) /\ Len(appointments') = Len(appointments)
  <2>1. /\ DOMAIN appointments = 1 .. Len(appointments) /\ Len(appointments) \in Nat
    BY <1>1, TableFacts
  <2>2. appointments' \in [1 .. Len(appointments) -> Appointment]
    BY <1>2, <1>4, <2>1
  <2> QED
    BY <2>1, <2>2, FunctionIsSeq
<1>6. BookedByAuthority'
  <2>1. DOMAIN appointments' = DOMAIN appointments
    BY <1>2
  <2> QED
    BY <1>4, <2>1 DEF IInv, BookedByAuthority
<1>7. TypeOK'
  BY <1>3, <1>5 DEF IInv, TypeOK
<1> QED
  BY <1>3, <1>6, <1>7 DEF IInv, RunsFit, ThreadFits, GuardsNeverFire

(* A run is only invoked once there is a checkpoint.                        *)
Checkpointed == (\E r \in Runs : pc[r] # "idle") => thread.next # "none"

LEMMA InitHolds ==
  ASSUME Init
  PROVE  IInv /\ Checkpointed
<1>1. /\ thread.state = create_initial_state /\ thread.next = "none"
      /\ thread \in [state : FieldServiceState, next : Nodes \cup {"none", "end"}]
  BY InitialState DEF Init
<1>2. /\ orders \in Seq(AuditLog) /\ appointments \in Seq(Appointment)
      /\ Len(orders) = 0 /\ Len(appointments) = 0
  BY EmptySeq DEF Init
<1>3. NoVerdict \in Verdicts
  BY DEF NoVerdict, Verdicts, Levels
<1>4. \A s \in {thread.state} \cup {local[r] : r \in Runs} :
        s.order <= Len(orders) /\ s.appointment <= Len(appointments)
  BY <1>1, <1>2, InitialState DEF Init
<1>5. TypeOK
  BY <1>1, <1>2, <1>3, <1>4, InitialState, StepNames DEF Init, TypeOK
<1>6. RunsFit
  BY DEF Init, RunsFit, At
<1>7. ThreadFits
  BY <1>1 DEF ThreadFits, Nodes
<1>8. BookedByAuthority
  BY DEF Init, BookedByAuthority
<1> QED
  BY <1>1, <1>5, <1>6, <1>7, <1>8 DEF IInv, GuardsNeverFire, Init, Checkpointed

LEMMA CheckpointedKept ==
  ASSUME IInv, Checkpointed, [Next]_vars
  PROVE  Checkpointed'
<1>1. pc \in [Runs -> Steps]
  BY RunTypes
<1>2. ASSUME NEW r \in Messages, Start(r) PROVE Checkpointed'
  BY <1>2 DEF Start, Checkpointed
<1>3. ASSUME NEW r \in Approvals, Look(r) PROVE Checkpointed'
  BY <1>3 DEF Look, Checkpointed
<1>4. ASSUME NEW r \in Runs, Save(r) PROVE Checkpointed'
  <2>1. node[r] \in Nodes
    BY <1>4, RunFacts DEF Save, At
  <2>2. NextNode(node[r], local[r]) # "none"
    BY DEF NextNode, route_after_intake, route_after_dispatch, route_after_human_review
  <2> QED
    BY <1>4, <2>2 DEF Save, Checkpointed
<1>5. ASSUME NEW r \in Runs, pc[r] # "idle", UNCHANGED thread
      PROVE  Checkpointed'
  BY <1>5 DEF Checkpointed
<1>6. ASSUME NEW r \in Runs, Step(r) \/ Fail(r) PROVE Checkpointed'
  BY <1>4, <1>5, <1>6
  DEF Step, Parse, Validate, DecideIntake, Persist, Match, Schedule, DecideDispatch, Propose,
      Pause, Review, Finalize, Book, HandleRejection, Escalate, Invoke, Fail
<1>7. CASE CancelOrder \/ UNCHANGED vars
  BY <1>7 DEF CancelOrder, vars, Checkpointed
<1> QED
  BY <1>2, <1>3, <1>6, <1>7 DEF Next

LEMMA NextKeeps ==
  ASSUME IInv, Checkpointed, [Next]_vars
  PROVE  IInv'
<1>1. ASSUME NEW r \in Runs, Step(r) PROVE IInv'
  <2>1. CASE Invoke(r)
    <3>1. thread.next # "none"
      BY <2>1 DEF Checkpointed, Invoke
    <3> QED
      BY <2>1, <3>1, InvokeKeeps
  <2> QED
    BY <1>1, <2>1, ParseKeeps, ValidateKeeps, DecideIntakeKeeps, PersistKeeps, MatchKeeps,
       ScheduleKeeps, DecideDispatchKeeps, ProposeKeeps, EndKeeps, ReviewKeeps,
       FinalizeKeeps, BookKeeps, RejectKeeps, EscalateKeeps, SaveKeeps
    DEF Step
<1>2. CASE UNCHANGED vars
  BY <1>2 DEF vars, IInv, TypeOK, RunsFit, ThreadFits, BookedByAuthority, GuardsNeverFire
<1> QED
  BY <1>1, <1>2, StartKeeps, LookKeeps, EndKeeps, CancelKeeps DEF Next, Runs

LEMMA Invariant == Spec => []IInv
<1>1. Init => IInv /\ Checkpointed
  BY InitHolds
<1>2. IInv /\ Checkpointed /\ [Next]_vars => IInv' /\ Checkpointed'
  BY NextKeeps, CheckpointedKept
<1> QED
  BY <1>1, <1>2, PTL DEF Spec

(* Every variable keeps its type, and the ids a state names are of rows.    *)
THEOREM TypeCorrect == Spec => []TypeOK
<1>1. IInv => TypeOK
  BY DEF IInv
<1> QED
  BY <1>1, Invariant, PTL

(* No run, in any order of any number of them, is ended by the transition   *)
(* table or by the invariants the code looks at.                            *)
THEOREM NeverHalted == Spec => []GuardsNeverFire
<1>1. IInv => GuardsNeverFire
  BY DEF IInv
<1> QED
  BY <1>1, Invariant, PTL

(* A thread that waits for its review has all that it needs, whichever run  *)
(* saved it last.                                                           *)
THEOREM PausedStaysReviewable == Spec => []PausedIsReviewable
<1>1. IInv => PausedIsReviewable
  <2> SUFFICES ASSUME IInv, thread.next = "human_review"
               PROVE  Waiting(thread.state, orders)
    BY DEF PausedIsReviewable, Waiting, Proposed, Ordered
  <2>1. At("human_review", "review", thread.state, orders)
    BY DEF IInv, ThreadFits, Nodes, FirstStep
  <2> QED
    BY <2>1 DEF At
<1> QED
  BY <1>1, Invariant, PTL

(* Whoever approved an appointment had the role the policy asks for, though *)
(* the thread may have changed since the role was checked.                  *)
THEOREM BookedWithAuthority == Spec => []BookedByAuthority
<1>1. IInv => BookedByAuthority
  BY DEF IInv
<1> QED
  BY <1>1, Invariant, PTL

(* A request that ends without technician or slot was put in the queue of   *)
(* the role the policy names, unless the write of the audit row failed.     *)
THEOREM EscalationReaches == Spec => []EscalationReachesItsQueue
<1>1. IInv => EscalationReachesItsQueue
  <2> SUFFICES ASSUME IInv, thread.next = "end"
               PROVE  Queued(thread.state, orders)
    BY DEF EscalationReachesItsQueue, Queued, Blocked, QueueOf
  <2> QED
    BY DEF IInv, ThreadFits
<1> QED
  BY <1>1, Invariant, PTL

------------------------------------------------------------------------------
(* One standing appointment, as long as there is one request                *)

Working(r) == pc[r] \notin {"idle", "done"}

(* Runs that are not at work on a state have none.                          *)
Rested ==
  \A r \in Runs : pc[r] \in {"idle", "done", "invoke"} => local[r] = create_initial_state

(* Nobody has seen a proposal yet, so that nobody decides: one run at most  *)
(* is at work, and only it may have just made one.                          *)
Early ==
  /\ appointments = <<>>
  /\ thread.state.proposal = NoProposal
  /\ \A r \in Runs : Working(r) =>
       /\ r \in Messages /\ pc[r] # "invoke"
       /\ local[r].proposal = NoProposal \/ node[r] = "build_appointment_proposal"
       /\ \A q \in Runs : Working(q) => q = r

(* All who hold the request hold the same slot for it, and nothing else was *)
(* booked for it.                                                           *)
Agreed(o) ==
  /\ thread.state.order = 1 => thread.state.proposal = o
  /\ \A r \in Runs : local[r].order = 1 => local[r].proposal = o
  /\ \A a \in DOMAIN appointments :
       appointments[a].order = 1 =>
         appointments[a].technician = o.technician /\ appointments[a].hour = o.hour

OneSlot ==
  /\ Rested
  /\ Len(orders) = 0 => Early
  /\ Len(orders) = 1 =>
       /\ Early \/ \E o \in Options : Agreed(o)
       /\ \A a, b \in Live(1) : a = b

(* What a step does to the run that takes it, but for a proposal: the run   *)
(* goes on with its node, or ends.                                          *)
GoesOn(r) ==
  /\ pc'[r] \notin {"idle", "done", "invoke"}
  /\ node'[r] = node[r]
  /\ local'[r].order = local[r].order
  /\ local'[r].proposal = local[r].proposal

Ends(r) == pc'[r] = "done" /\ local'[r] = create_initial_state

OthersRest(r) ==
  \A v \in Runs \ {r} : local'[v] = local[v] /\ pc'[v] = pc[v] /\ node'[v] = node[v]

Goes(r) == OthersRest(r) /\ (GoesOn(r) \/ Ends(r))

LEMMA NoProposalIsNone ==
  NoProposal \notin Options /\ create_initial_state.proposal = NoProposal
    /\ create_initial_state.order = 0
<1>1. \A o \in Options : o.technician # 0
  BY WorkflowAssumption DEF Options
<1> QED
  BY <1>1 DEF NoProposal, create_initial_state

LEMMA StopEnds ==
  ASSUME IInv, NEW r \in Runs, NEW o, Stop(r, o)
  PROVE  Goes(r)
  BY RunTypes DEF Stop, Goes, OthersRest, Ends

(* A state with other values in some fields has the rest, its request and   *)
(* its proposal among them.                                                 *)
Varies(r, s) ==
  DOMAIN s = DOMAIN local[r] /\ s.order = local[r].order /\ s.proposal = local[r].proposal

LEMMA UpdateGoes ==
  ASSUME IInv, NEW r \in Runs, NEW s, Varies(r, s),
         NEW step \in Steps \ {"idle", "done", "invoke"}, Update(r, s, step)
  PROVE  Goes(r)
<1>1. CASE ValidTransition(local[r].status, s.status)
  <2>1. /\ local' = [local EXCEPT ![r] = [s EXCEPT !.steps = @ + 1]]
        /\ pc' = [pc EXCEPT ![r] = step] /\ node' = node
    BY <1>1 DEF Update
  <2>2. /\ local'[r] = [s EXCEPT !.steps = @ + 1] /\ pc'[r] = step /\ OthersRest(r)
    BY <2>1, RunTypes DEF OthersRest
  <2>3. local[r] \in FieldServiceState
    BY RunFacts
  <2>4. {"order", "proposal"} \subseteq DOMAIN s
    BY <2>3 DEF Varies, FieldServiceState
  <2>5. local'[r].order = s.order /\ local'[r].proposal = s.proposal
    BY <2>2, <2>4
  <2> QED
    BY <2>1, <2>2, <2>5 DEF Goes, GoesOn, Varies
<1>2. CASE ~ ValidTransition(local[r].status, s.status)
  BY <1>2, StopEnds DEF Update
<1> QED
  BY <1>1, <1>2

LEMMA BookedGoes ==
  ASSUME IInv, NEW r \in Runs, NEW a, Booked(r, a)
  PROVE  Goes(r)
<1> DEFINE s == [local[r] EXCEPT !.status = "appointment_created", !.appointment = a]
<1>1. Varies(r, s)
  BY RunFacts DEF Varies, FieldServiceState
<1> HIDE DEF s
<1>2. Update(r, s, "save") \/ Stop(r, "halted")
  BY DEF Booked, s
<1> QED
  BY <1>1, <1>2, StepNames, UpdateGoes, StopEnds

LEMMA IntakeGoes ==
  ASSUME IInv, NEW r \in Runs, Parse(r) \/ Validate(r) \/ DecideIntake(r)
  PROVE  Goes(r)
<1>1. local[r] \in FieldServiceState /\ {"save", "validate", "decideIntake", "persist"} \subseteq
        Steps \ {"idle", "done", "invoke"}
  BY RunFacts, StepNames
<1>2. CASE Parse(r)
  <2>1. Varies(r, [local[r] EXCEPT !.status = "llm_failed"])
    BY <1>1 DEF Varies, FieldServiceState
  <2>2. \A x \in Extractions :
          Varies(r, [local[r] EXCEPT !.status = "parsed", !.missing = x.missing,
                                     !.urgency = x.urgency])
    BY <1>1 DEF Varies, FieldServiceState
  <2> QED
    BY <1>1, <1>2, <2>1, <2>2, UpdateGoes DEF Parse
<1>3. CASE Validate(r)
  <2>1. \A v : Varies(r, [local[r] EXCEPT !.status = v])
    BY <1>1 DEF Varies, FieldServiceState
  <2> QED
    BY <1>1, <1>3, <2>1, UpdateGoes DEF Validate
<1>4. CASE DecideIntake(r)
  <2>1. \A d : /\ Varies(r, [local[r] EXCEPT !.status = "escalated", !.decision = d])
               /\ Varies(r, [local[r] EXCEPT !.status = "needs_information",
                                             !.asked = @ + 1, !.decision = d])
               /\ Varies(r, [local[r] EXCEPT !.decision = d])
    BY <1>1 DEF Varies, FieldServiceState
  <2> QED
    BY <1>1, <1>4, <2>1, UpdateGoes DEF DecideIntake
<1> QED
  BY <1>2, <1>3, <1>4

LEMMA DispatchGoes ==
  ASSUME IInv, NEW r \in Runs, Match(r) \/ Schedule(r) \/ DecideDispatch(r)
  PROVE  Goes(r)
<1>1. local[r] \in FieldServiceState /\ {"save", "schedule", "decideDispatch"} \subseteq
        Steps \ {"idle", "done", "invoke"}
  BY RunFacts, StepNames
<1>2. \A v, w : /\ Varies(r, [local[r] EXCEPT !.status = v])
                /\ Varies(r, [local[r] EXCEPT !.status = v, !.candidates = w])
                /\ Varies(r, [local[r] EXCEPT !.status = v, !.options = w])
                /\ Varies(r, [local[r] EXCEPT !.decision = w, !.status = v])
  BY <1>1 DEF Varies, FieldServiceState
<1>3. CASE Match(r)
  BY <1>1, <1>2, <1>3, UpdateGoes DEF Match
<1>4. CASE Schedule(r)
  BY <1>1, <1>2, <1>4, UpdateGoes DEF Schedule
<1>5. CASE DecideDispatch(r)
  BY <1>1, <1>2, <1>5, UpdateGoes DEF DecideDispatch
<1> QED
  BY <1>3, <1>4, <1>5

LEMMA DecisionGoes ==
  ASSUME IInv, NEW r \in Runs,
         Pause(r) \/ Review(r) \/ Finalize(r) \/ HandleRejection(r) \/ Escalate(r)
  PROVE  Goes(r)
<1>1. local[r] \in FieldServiceState /\ {"save", "book"} \subseteq
        Steps \ {"idle", "done", "invoke"}
  BY RunFacts, StepNames
<1>2. \A v, w, x, y :
        /\ Varies(r, [local[r] EXCEPT !.status = v])
        /\ Varies(r, [local[r] EXCEPT !.status = v, !.appointment = w])
        /\ Varies(r, [[local[r] EXCEPT !.decision = v, !.reviewer = w]
                         EXCEPT !.approval = x, !.status = y])
  BY <1>1 DEF Varies, FieldServiceState
<1>3. CASE Pause(r)
  BY <1>3, StopEnds DEF Pause
<1>4. CASE Review(r)
  BY <1>1, <1>2, <1>4, UpdateGoes, StopEnds DEF Review
<1>5. CASE Finalize(r)
  <2>1. CASE pc' = [pc EXCEPT ![r] = "book"] /\ UNCHANGED <<node, local, verdict, outcome>>
    BY <2>1, RunTypes, StepNames DEF Goes, GoesOn, OthersRest
  <2> QED
    BY <1>1, <1>2, <1>5, <2>1, UpdateGoes, BookedGoes DEF Finalize
<1>6. CASE HandleRejection(r)
  BY <1>1, <1>2, <1>6, UpdateGoes DEF HandleRejection
<1>7. CASE Escalate(r)
  BY <1>1, <1>2, <1>7, UpdateGoes DEF Escalate
<1> QED
  BY <1>3, <1>4, <1>5, <1>6, <1>7

LEMMA GoesRested ==
  ASSUME OneSlot, NEW r \in Runs, Goes(r)
  PROVE  Rested'
  BY DEF OneSlot, Rested, Goes, GoesOn, Ends, OthersRest, create_initial_state

LEMMA GoesAgreed ==
  ASSUME NEW r \in Runs, Goes(r), UNCHANGED thread, NEW o, Agreed(o),
         \A a \in DOMAIN appointments' :
           appointments'[a].order = 1 =>
             appointments'[a].technician = o.technician /\ appointments'[a].hour = o.hour
  PROVE  Agreed(o)'
<1>1. \A v \in Runs : local'[v].order = 1 => local'[v].proposal = o
  BY NoProposalIsNone DEF Agreed, Goes, GoesOn, Ends, OthersRest
<1> QED
  BY <1>1 DEF Agreed

(* A step that leaves the thread and the tables alone changes nothing of    *)
(* who holds what.                                                          *)
Alone == UNCHANGED <<thread, appointments>> /\ Len(orders') = Len(orders)

LEMMA GoesKeeps ==
  ASSUME OneSlot, NEW r \in Runs, Goes(r), Alone, Working(r) \/ Ends(r)
  PROVE  OneSlot'
<1>1. Rested'
  BY GoesRested
<1>2. ASSUME Early PROVE Early'
  <2>1. \A q \in Runs : Working(q)' =>
          /\ Working(q) /\ pc'[q] # "invoke"
          /\ local'[q].proposal = local[q].proposal /\ node'[q] = node[q]
    BY <1>2 DEF Early, Goes, GoesOn, Ends, OthersRest, Working
  <2> QED
    BY <1>2, <2>1 DEF Early, Alone
<1>3. ASSUME NEW o \in Options, Agreed(o) PROVE Agreed(o)'
  BY <1>3, GoesAgreed DEF Agreed, Alone
<1>4. Live(1)' = Live(1)
  BY DEF Live, IsLive, Alone
<1> QED
  BY <1>1, <1>2, <1>3, <1>4 DEF OneSlot, Alone

LEMMA StepsAlone ==
  ASSUME IInv, NEW r \in Runs,
         \/ Parse(r) \/ Validate(r) \/ DecideIntake(r) \/ Match(r) \/ Schedule(r)
         \/ DecideDispatch(r) \/ Pause(r) \/ Review(r) \/ Finalize(r) \/ HandleRejection(r)
         \/ Escalate(r)
  PROVE  Working(r) /\ Alone
<1>1. CASE Escalate(r)
  <2>1. orders \in Seq(AuditLog) /\ DOMAIN orders' = DOMAIN orders
    BY <1>1 DEF Escalate, IInv, TypeOK
  <2>2. orders' \in Seq(AuditLog)
    BY <1>1, EscalateKeeps DEF IInv, TypeOK
  <2>3. Len(orders') = Len(orders)
    <3>1. /\ Len(orders) \in Nat /\ DOMAIN orders = 1 .. Len(orders)
          /\ Len(orders') \in Nat /\ DOMAIN orders' = 1 .. Len(orders')
      BY <2>1, <2>2, TableFacts
    <3> QED
      BY <2>1, <3>1
  <2> QED
    BY <1>1, <2>3 DEF Escalate, Working, Alone
<1>2. CASE ~ Escalate(r)
  BY <1>2 DEF Parse, Validate, DecideIntake, Match, Schedule, DecideDispatch, Pause, Review,
     Finalize, HandleRejection, Working, Alone, NoRows
<1> QED
  BY <1>1, <1>2

(* A request that a run holds, when there is one.                           *)
LEMMA OrderedFirst ==
  ASSUME IInv, NEW r \in Runs, Ordered(local[r], orders)
  PROVE  Len(orders) # 0 /\ (Len(orders) = 1 => local[r].order = 1)
  BY RunFacts DEF Ordered

LEMMA StartOne ==
  ASSUME IInv, OneSlot, NEW r \in Messages, Start(r)
  PROVE  OneSlot'
<1>1. r \in Runs
  BY DEF Runs
<1>2. /\ local'[r] = create_initial_state /\ pc'[r] = "parse" /\ OthersRest(r)
      /\ thread'.state = create_initial_state /\ UNCHANGED <<orders, appointments>>
  BY <1>1, RunTypes DEF Start, OthersRest
<1>3. Rested'
  BY <1>2 DEF OneSlot, Rested, OthersRest
<1>4. ASSUME Early PROVE Early'
  <2>1. \A q \in Runs : Working(q)' => q = r
    BY <1>2, <1>4 DEF Early, Start, OthersRest, Working
  <2> QED
    BY <1>2, <1>4, <2>1, NoProposalIsNone DEF Early
<1>5. ASSUME NEW o \in Options, Agreed(o) PROVE Agreed(o)'
  BY <1>2, <1>5, NoProposalIsNone DEF Agreed, OthersRest
<1>6. Live(1)' = Live(1)
  BY <1>2 DEF Live, IsLive
<1> QED
  BY <1>2, <1>3, <1>4, <1>5, <1>6 DEF OneSlot

(* While nobody has seen a proposal, nobody can decide.                     *)
LEMMA NothingToDecide ==
  ASSUME IInv, Early
  PROVE  ~ (thread.next \in Nodes /\ thread.state.status = "waiting_for_approval")
<1> SUFFICES ASSUME thread.next \in Nodes, thread.state.status = "waiting_for_approval"
             PROVE  FALSE
  OBVIOUS
<1>1. At(thread.next, FirstStep[thread.next], thread.state, orders)
  BY DEF IInv, ThreadFits
<1>2. thread.next = "human_review" /\ FirstStep[thread.next] = "review"
  BY <1>1 DEF At, Nodes, FirstStep, create_initial_state, Approved, AfterDispatch, Blocked
<1>3. thread.state.proposal \in thread.state.options
  BY <1>1, <1>2 DEF At, Waiting, Proposed
<1>4. thread.state.options \subseteq Options
  BY RunTypes, StateFacts
<1> QED
  BY <1>3, <1>4, NoProposalIsNone DEF Early

LEMMA LookOne ==
  ASSUME IInv, OneSlot, NEW r \in Runs, Look(r)
  PROVE  OneSlot'
<1>1. CASE Stop(r, "refused")
  <2>1. Goes(r) /\ Ends(r) /\ Alone
    BY <1>1, StopEnds, RunTypes DEF Look, NoRows, Alone, Stop, Ends
  <2> QED
    BY <2>1, GoesKeeps
<1>2. CASE ~ Stop(r, "refused")
  <2>1. /\ thread.state.status = "waiting_for_approval" /\ thread.next \notin {"none", "end"}
        /\ pc' = [pc EXCEPT ![r] = "invoke"]
        /\ UNCHANGED <<node, local, thread, orders, appointments>>
    BY <1>2 DEF Look, NoRows
  <2>2. ~ Early
    BY <2>1, NothingToDecide, RunTypes
  <2>3. Rested'
    <3>1. local[r] = create_initial_state
      BY DEF OneSlot, Rested, Look
    <3> QED
      BY <2>1, <3>1, RunTypes DEF OneSlot, Rested
  <2>4. ASSUME NEW o \in Options, Agreed(o) PROVE Agreed(o)'
    BY <2>1, <2>4 DEF Agreed
  <2>5. Live(1)' = Live(1)
    BY <2>1 DEF Live, IsLive
  <2> QED
    BY <2>1, <2>2, <2>3, <2>4, <2>5 DEF OneSlot
<1> QED
  BY <1>1, <1>2

LEMMA InvokeOne ==
  ASSUME IInv, OneSlot, NEW r \in Runs, Invoke(r), thread.next # "none"
  PROVE  OneSlot'
<1>1. Working(r) /\ Alone
  BY DEF Invoke, Working, NoRows, Alone
<1>2. CASE thread.next = "end"
  BY <1>1, <1>2, StopEnds, GoesKeeps DEF Invoke
<1>3. CASE thread.next # "end"
  <2>1. /\ thread.next \in Nodes
        /\ local' = [local EXCEPT ![r] = thread.state]
        /\ pc' = [pc EXCEPT ![r] = FirstStep[thread.next]]
        /\ UNCHANGED thread /\ UNCHANGED orders /\ UNCHANGED appointments
    BY <1>3, RunTypes DEF Invoke, NoRows
  <2>2. FirstStep[thread.next] \notin {"idle", "done", "invoke"}
    BY <2>1 DEF Nodes, FirstStep
  <2>3. /\ local'[r] = thread.state /\ pc'[r] \notin {"idle", "done", "invoke"}
        /\ \A v \in Runs \ {r} : local'[v] = local[v] /\ pc'[v] = pc[v]
    BY <2>1, <2>2, RunTypes
  <2>4. Rested'
    BY <2>3 DEF OneSlot, Rested
  <2>5. ~ Early
    BY <1>1 DEF Early, Invoke
  <2>6. ASSUME NEW o \in Options, Agreed(o) PROVE Agreed(o)'
    BY <2>1, <2>3, <2>6 DEF Agreed
  <2>7. Live(1)' = Live(1)
    BY <2>1 DEF Live, IsLive
  <2> QED
    BY <2>1, <2>4, <2>5, <2>6, <2>7 DEF OneSlot
<1> QED
  BY <1>2, <1>3

(* The proposal that is saved is what all who take up the thread will hold. *)
LEMMA SaveOne ==
  ASSUME IInv, OneSlot, NEW r \in Runs, Save(r)
  PROVE  OneSlot'
<1> DEFINE next == NextNode(node[r], local[r])
<1>1. /\ thread'.state = local[r] /\ UNCHANGED orders /\ UNCHANGED appointments
      /\ pc[r] = "save" /\ node[r] \in Nodes /\ After(node[r], local[r], orders)
  BY RunFacts DEF Save, NoRows, At
<1>2. next \in Nodes \cup {"end"}
  BY <1>1, NodeFollows
<1>3. /\ OthersRest(r)
      /\ \/ Ends(r)
         \/ pc'[r] \notin {"idle", "done", "invoke"} /\ local'[r] = local[r]
  <2>1. CASE next = "end"
    BY <2>1, RunTypes DEF Save, Stop, OthersRest, Ends
  <2>2. CASE next # "end"
    <3>1. FirstStep[next] \notin {"idle", "done", "invoke"}
      BY <1>2, <2>2 DEF Nodes, FirstStep
    <3>2. /\ node' = [node EXCEPT ![r] = next] /\ pc' = [pc EXCEPT ![r] = FirstStep[next]]
          /\ UNCHANGED local
      BY <2>2 DEF Save
    <3> QED
      BY <3>1, <3>2, RunTypes DEF OthersRest
  <2> QED
    BY <2>1, <2>2
<1>4. Rested'
  BY <1>3 DEF OneSlot, Rested, OthersRest, Ends
<1>5. ASSUME Early, local[r].proposal = NoProposal
      PROVE  Early'
  <2>1. \A q \in Runs : Working(q)' => q = r /\ pc'[r] # "invoke" /\ local'[r] = local[r]
    BY <1>1, <1>3, <1>5 DEF Early, OthersRest, Ends, Working
  <2>2. r \in Messages
    BY <1>1, <1>5 DEF Early, Working
  <2> QED
    BY <1>1, <1>5, <2>1, <2>2 DEF Early
<1>6. ASSUME Early, local[r].proposal # NoProposal, Len(orders) = 1
      PROVE  \E o \in Options : Agreed(o)'
  <2>1. PICK o \in Options : o = local[r].proposal
    BY <1>6, RunFacts, StateFacts
  <2>2. \A q \in Runs : Working(q) => q = r
    BY <1>1, <1>6 DEF Early, Working
  <2>3. \A v \in Runs \ {r} : local'[v].order = 0
    <3>1. \A v \in Runs \ {r} : pc[v] \in {"idle", "done"}
      BY <2>2 DEF Working
    <3> QED
      BY <1>3, <3>1, NoProposalIsNone DEF OneSlot, Rested, OthersRest
  <2>4. local'[r].order = 1 => local'[r].proposal = o
    BY <1>3, <2>1, NoProposalIsNone DEF Ends
  <2>5. DOMAIN appointments' = {}
    BY <1>1, <1>6 DEF Early
  <2>6. Agreed(o)'
    BY <1>1, <2>1, <2>3, <2>4, <2>5 DEF Agreed
  <2> QED
    BY <2>6
<1>7. ASSUME NEW o \in Options, Agreed(o) PROVE Agreed(o)'
  <2>1. \A v \in Runs : local'[v].order = 1 => local'[v].proposal = o
    BY <1>3, <1>7, NoProposalIsNone DEF Agreed, OthersRest, Ends
  <2> QED
    BY <1>1, <1>7, <2>1 DEF Agreed
<1>8. Early /\ local[r].proposal # NoProposal => Len(orders) # 0
  <2> SUFFICES ASSUME Early, local[r].proposal # NoProposal
               PROVE  Ordered(local[r], orders)
    BY OrderedFirst
  <2>1. node[r] = "build_appointment_proposal"
    BY <1>1 DEF Early, Working
  <2> QED
    BY <1>1, <2>1 DEF After, Waiting, Proposed
<1>9. Live(1)' = Live(1)
  BY <1>1 DEF Live, IsLive
<1> QED
  BY <1>1, <1>4, <1>5, <1>6, <1>7, <1>8, <1>9 DEF OneSlot

LEMMA PersistOne ==
  ASSUME IInv, OneSlot, NEW r \in Runs, Persist(r)
  PROVE  OneSlot'
<1> DEFINE s == WithOrder(r)
<1>1. /\ local[r] \in FieldServiceState /\ local[r].status = "validated"
      /\ local[r].proposal = NoProposal
      /\ Len(orders) \in Nat /\ pc[r] = "persist" /\ node[r] = "intake_subgraph"
  BY RunFacts DEF Persist, At, Extracted
<1>2. s.status = "service_request_created" /\ s.proposal = NoProposal
  BY <1>1 DEF WithOrder, FieldServiceState
<1>3. DOMAIN s = DOMAIN local[r]
  BY <1>1 DEF WithOrder, FieldServiceState
<1>4. /\ orders' = Append(orders, {}) /\ Update(r, s, "save")
      /\ UNCHANGED thread /\ UNCHANGED appointments
  BY <1>1, <1>2, TransitionFacts DEF Persist
<1> HIDE DEF s
<1>5. /\ local' = [local EXCEPT ![r] = [s EXCEPT !.steps = @ + 1]]
      /\ pc' = [pc EXCEPT ![r] = "save"] /\ node' = node
  BY <1>1, <1>2, <1>4, TransitionFacts DEF Update
<1>6. /\ local'[r].proposal = NoProposal /\ pc'[r] = "save" /\ OthersRest(r)
  <2>1. "proposal" \in DOMAIN s
    BY <1>1, <1>3 DEF FieldServiceState
  <2>2. local'[r] = [s EXCEPT !.steps = @ + 1] /\ pc'[r] = "save" /\ OthersRest(r)
    BY <1>5, RunTypes, StepNames DEF OthersRest
  <2> QED
    BY <1>2, <2>1, <2>2
<1>7. Len(orders') = Len(orders) + 1
  <2>1. orders \in Seq(AuditLog) /\ {} \in AuditLog
    BY DEF IInv, TypeOK, AuditLog
  <2> QED
    BY <1>4, <2>1, AppendRow
<1>8. Rested'
  BY <1>6 DEF OneSlot, Rested, OthersRest
<1>9. ASSUME Len(orders) = 0
      PROVE  Early' /\ Live(1)' = {}
  <2>1. Early
    BY <1>9 DEF OneSlot
  <2>2. \A q \in Runs : Working(q)' => q = r
    BY <1>1, <1>6, <2>1 DEF Early, Working, OthersRest
  <2>3. r \in Messages
    BY <1>1, <2>1 DEF Early, Working
  <2> QED
    BY <1>4, <1>6, <2>1, <2>2, <2>3 DEF Early, Live
<1> QED
  BY <1>1, <1>7, <1>8, <1>9 DEF OneSlot

LEMMA ProposeOne ==
  ASSUME IInv, OneSlot, NEW r \in Runs, Propose(r)
  PROVE  OneSlot'
<1> DEFINE o == select_proposal(local[r].options)
           s == [local[r] EXCEPT !.status = "waiting_for_approval",
                                 !.approval = "pending", !.proposal = o,
                                 !.level = ApprovalLevel(local[r].urgency, o.hour),
                                 !.decision = Decision("wait_for_approval",
                                                ApprovalLevel(local[r].urgency, o.hour))]
<1>1. /\ local[r] \in FieldServiceState /\ local[r].status = "schedule_options_ready"
      /\ local[r].options # {} /\ local[r].proposal = NoProposal
      /\ pc[r] = "propose" /\ node[r] = "build_appointment_proposal"
      /\ Ordered(local[r], orders) /\ Len(orders) \in Nat
  BY RunFacts DEF Propose, At, AfterDispatch, Matched
<1>2. /\ Update(r, s, "save") /\ UNCHANGED thread /\ Alone
  BY <1>1 DEF Propose, NoRows, Alone
<1>3. s.status = "waiting_for_approval" /\ DOMAIN s = DOMAIN local[r]
  BY <1>1 DEF FieldServiceState
<1> HIDE DEF s
<1>4. /\ pc'[r] = "save" /\ node' = node /\ OthersRest(r)
  <2>1. /\ local' = [local EXCEPT ![r] = [s EXCEPT !.steps = @ + 1]]
        /\ pc' = [pc EXCEPT ![r] = "save"] /\ node' = node
    BY <1>1, <1>2, <1>3, TransitionFacts DEF Update
  <2> QED
    BY <2>1, RunTypes, StepNames DEF OthersRest
<1>5. Rested'
  BY <1>4 DEF OneSlot, Rested, OthersRest
<1>6. Len(orders) # 0 /\ (Len(orders) = 1 => local[r].order = 1)
  BY <1>1, OrderedFirst
<1>7. ASSUME Len(orders) = 1 PROVE Early'
  <2>1. \A p \in Options : ~ Agreed(p)
    BY <1>1, <1>6, <1>7, NoProposalIsNone DEF Agreed
  <2>2. Early
    BY <1>7, <2>1 DEF OneSlot
  <2>3. \A q \in Runs : Working(q)' => q = r
    BY <1>1, <1>4, <2>2 DEF Early, Working, OthersRest
  <2>4. r \in Messages
    BY <1>1, <2>2 DEF Early, Working
  <2> QED
    BY <1>1, <1>2, <1>4, <2>2, <2>3, <2>4 DEF Early, Alone
<1>8. Live(1)' = Live(1)
  BY <1>2 DEF Live, IsLive, Alone
<1> QED
  BY <1>2, <1>5, <1>6, <1>7, <1>8 DEF OneSlot, Alone

(* A slot that is booked for the request is the one that all hold for it,   *)
(* and it is only booked where it is free.                                  *)
LEMMA BookOne ==
  ASSUME IInv, OneSlot, NEW r \in Runs, Book(r)
  PROVE  OneSlot'
<1>1. /\ Working(r) /\ UNCHANGED thread /\ UNCHANGED orders
      /\ Approved(local[r], orders) /\ node[r] = "appointment_subgraph"
  BY RunFacts DEF Book, NoRows, Working, At
<1>2. CASE Update(r, [local[r] EXCEPT !.status = "needs_rescheduling"], "save") /\ NoRows
  <2> DEFINE s == [local[r] EXCEPT !.status = "needs_rescheduling"]
  <2>1. Varies(r, s) /\ Update(r, s, "save")
    BY <1>2, RunFacts DEF Varies, FieldServiceState
  <2> HIDE DEF s
  <2>2. Goes(r)
    BY <2>1, StepNames, UpdateGoes
  <2> QED
    BY <1>1, <1>2, <2>2, GoesKeeps DEF NoRows, Alone
<1>3. CASE ~ (Update(r, [local[r] EXCEPT !.status = "needs_rescheduling"], "save") /\ NoRows)
  <2> DEFINE row == [order |-> local[r].order, technician |-> local[r].proposal.technician,
                     hour |-> local[r].proposal.hour, urgency |-> local[r].urgency,
                     reviewer |-> local[r].reviewer, status |-> "scheduled"]
             id == Len(appointments) + 1
  <2>1. /\ ~ Taken(local[r].proposal.technician, local[r].proposal.hour)
        /\ appointments' = Append(appointments, row) /\ Booked(r, id)
    BY <1>3 DEF Book
  <2>2. Goes(r) /\ Rested'
    BY <2>1, BookedGoes, GoesRested
  <2>3. /\ local[r].proposal # NoProposal /\ Len(orders) # 0
        /\ Len(orders) = 1 => local[r].order = 1
    <3>1. local[r].proposal \in Options
      BY <1>1, RunFacts, StateFacts DEF Approved, Proposed
    <3> QED
      BY <1>1, <3>1, OrderedFirst, NoProposalIsNone DEF Approved, Proposed
  <2>4. ~ Early
    BY <1>1, <2>3 DEF Early
  <2>5. ASSUME Len(orders) = 1, NEW o \in Options, Agreed(o)
        PROVE  Agreed(o)' /\ \A a, b \in Live(1)' : a = b
    <3>1. local[r].proposal = o
      BY <2>3, <2>5 DEF Agreed
    <3>2. Live(1) = {}
      BY <2>1, <2>5, <3>1 DEF Live, Agreed, Taken
    <3>3. /\ DOMAIN appointments' = DOMAIN appointments \cup {id}
          /\ \A a \in DOMAIN appointments : appointments'[a] = appointments[a]
          /\ appointments'[id] = row
      <4> HIDE DEF row
      <4>1. row \in Appointment /\ appointments \in Seq(Appointment)
        BY <2>3, RunFacts, StateFacts DEF row, Appointment, Options, IInv, TypeOK
      <4> QED
        BY <2>1, <4>1, AppendRow
    <3>4. Live(1)' \subseteq {id}
      BY <3>2, <3>3 DEF Live, IsLive
    <3>5. \A a \in DOMAIN appointments' :
            appointments'[a].order = 1 =>
              appointments'[a].technician = o.technician /\ appointments'[a].hour = o.hour
      BY <2>5, <3>1, <3>3 DEF Agreed
    <3>6. Agreed(o)'
      BY <1>1, <2>2, <2>5, <3>5, GoesAgreed
    <3> QED
      BY <3>4, <3>6
  <2> QED
    BY <1>1, <2>2, <2>3, <2>4, <2>5 DEF OneSlot
<1> QED
  BY <1>2, <1>3

LEMMA CancelOne ==
  ASSUME IInv, OneSlot, CancelOrder
  PROVE  OneSlot'
<1>1. /\ UNCHANGED <<thread, orders, node, pc, local>>
      /\ DOMAIN appointments' = DOMAIN appointments
  BY DEF CancelOrder
<1>2. \A a \in DOMAIN appointments :
        \/ appointments'[a] = appointments[a]
        \/ appointments'[a] = [appointments[a] EXCEPT !.status = "cancelled"]
  BY DEF CancelOrder
<1>3. \A a \in DOMAIN appointments :
        /\ appointments'[a].order = appointments[a].order
        /\ appointments'[a].technician = appointments[a].technician
        /\ appointments'[a].hour = appointments[a].hour
        /\ IsLive(a)' => IsLive(a)
  <2> SUFFICES ASSUME NEW a \in DOMAIN appointments
               PROVE  /\ appointments'[a].order = appointments[a].order
                      /\ appointments'[a].technician = appointments[a].technician
                      /\ appointments'[a].hour = appointments[a].hour
                      /\ appointments'[a].status = "scheduled" =>
                           appointments[a].status = "scheduled"
    BY DEF IsLive
  <2>1. appointments[a] \in Appointment
    BY TableFacts DEF IInv, TypeOK
  <2> QED
    BY <1>2, <2>1 DEF Appointment
<1>4. ~ Early
  BY DEF CancelOrder, Live, Early
<1>5. ASSUME NEW o \in Options, Agreed(o) PROVE Agreed(o)'
  BY <1>1, <1>3, <1>5 DEF Agreed
<1>6. Live(1)' \subseteq Live(1)
  BY <1>1, <1>3 DEF Live
<1> QED
  BY <1>1, <1>4, <1>5, <1>6 DEF OneSlot, Rested

LEMMA OneSlotKept ==
  ASSUME IInv, Checkpointed, OneSlot, [Next]_vars
  PROVE  OneSlot'
<1>1. ASSUME NEW r \in Runs, Step(r) PROVE OneSlot'
  <2>1. CASE Persist(r) \/ Propose(r) \/ Book(r) \/ Save(r)
    BY <2>1, PersistOne, ProposeOne, BookOne, SaveOne
  <2>2. CASE Invoke(r)
    <3>1. thread.next # "none"
      BY <2>2 DEF Checkpointed, Invoke
    <3> QED
      BY <2>2, <3>1, InvokeOne
  <2>3. CASE ~ (Persist(r) \/ Propose(r) \/ Book(r) \/ Save(r) \/ Invoke(r))
    <3>1. Goes(r) /\ Working(r) /\ Alone
      BY <1>1, <2>3, StepsAlone, IntakeGoes, DispatchGoes, DecisionGoes DEF Step
    <3> QED
      BY <3>1, GoesKeeps
  <2> QED
    BY <2>1, <2>2, <2>3
<1>2. ASSUME NEW r \in Runs, Fail(r) PROVE OneSlot'
  <2>1. Goes(r) /\ Working(r) /\ Alone
    BY <1>2, StopEnds DEF Fail, NoRows, Working, Alone
  <2> QED
    BY <2>1, GoesKeeps
<1>3. CASE UNCHANGED vars
  <2>1. UNCHANGED <<thread, orders, appointments, node, pc, local>>
    BY <1>3 DEF vars
  <2>2. Live(1)' = Live(1)
    BY <2>1 DEF Live, IsLive
  <2> QED
    BY <2>1, <2>2 DEF OneSlot, Rested, Early, Agreed, Working
<1> QED
  BY <1>1, <1>2, <1>3, StartOne, LookOne, CancelOne DEF Next, Runs

(* As long as the thread has made one request, decisions that overlap give  *)
(* it one standing appointment, however many there are: whoever decides     *)
(* holds the slot that was proposed, and a slot is booked where it is free. *)
THEOREM OneStanding == Spec => []OneStandingAppointment
<1>1. Init => OneSlot
  <2> SUFFICES ASSUME Init PROVE OneSlot
    OBVIOUS
  <2>1. thread.state = create_initial_state /\ Len(orders) = 0
    BY EmptySeq DEF Init
  <2>2. Early
    BY <2>1, NoProposalIsNone DEF Init, Early, Working
  <2>3. Rested
    BY DEF Init, Rested
  <2> QED
    BY <2>1, <2>2, <2>3 DEF OneSlot
<1>2. Init => IInv /\ Checkpointed
  BY InitHolds
<1>3. IInv /\ Checkpointed /\ OneSlot /\ [Next]_vars => IInv' /\ Checkpointed' /\ OneSlot'
  BY NextKeeps, CheckpointedKept, OneSlotKept
<1>4. OneSlot => OneStandingAppointment
  BY DEF OneSlot, OneStandingAppointment
<1> QED
  BY <1>1, <1>2, <1>3, <1>4, PTL DEF Spec
------------------------------------------------------------------------------
(* A decision is in somebody's hands                                        *)

(* The run that is at the node which the thread has decided for.            *)
CarriesOut(r) ==
  node[r] = thread.next /\ pc[r] \in {"finalize", "book", "reject", "save"}

InHand == Decided => \E r \in Runs : CarriesOut(r) \/ outcome[r] = "failed"

FailedHasEnded == \A r \in Runs : outcome[r] = "failed" => pc[r] = "done"

(* A step of one run leaves the others where they are, and gives it an      *)
(* outcome only where it ends.                                              *)
Frames(r) ==
  /\ pc[r] # "done"
  /\ \A v \in Runs \ {r} :
       pc'[v] = pc[v] /\ node'[v] = node[v] /\ outcome'[v] = outcome[v]
  /\ outcome'[r] = outcome[r] \/ pc'[r] = "done"

LEMMA StopFrames ==
  ASSUME IInv, NEW r \in Runs, pc[r] # "done", NEW o, Stop(r, o)
  PROVE  Frames(r) /\ outcome'[r] = o
<1>1. outcome \in [Runs -> {"none", "ended", "refused", "halted", "failed"}]
  BY DEF IInv, TypeOK
<1> QED
  BY <1>1, RunTypes DEF Stop, Frames

LEMMA UpdateFrames ==
  ASSUME IInv, NEW r \in Runs, pc[r] # "done", NEW s, NEW step, Update(r, s, step)
  PROVE  /\ Frames(r)
         /\ \/ outcome'[r] = "halted"
            \/ pc'[r] = step /\ node' = node
<1>1. CASE ValidTransition(local[r].status, s.status)
  BY <1>1, RunTypes DEF Update, Frames
<1>2. CASE ~ ValidTransition(local[r].status, s.status)
  BY <1>2, StopFrames DEF Update
<1> QED
  BY <1>1, <1>2

(* Whoever carries a decision out goes on with it: the guards do not stop   *)
(* it.                                                                      *)
LEMMA CarryingGoesOn ==
  ASSUME IInv, IInv', NEW r \in Runs, Finalize(r) \/ Book(r) \/ HandleRejection(r)
  PROVE  Frames(r) /\ UNCHANGED <<thread, node>> /\ pc'[r] \in {"book", "save"}
<1>1. outcome'[r] # "halted"
  BY DEF IInv, GuardsNeverFire
<1>2. ASSUME NEW a, Booked(r, a), pc[r] # "done"
      PROVE  Frames(r) /\ pc'[r] = "save" /\ node' = node
  <2> DEFINE s == [local[r] EXCEPT !.status = "appointment_created", !.appointment = a]
  <2> HIDE DEF s
  <2>1. Update(r, s, "save") \/ Stop(r, "halted")
    BY <1>2 DEF Booked, s
  <2> QED
    BY <1>1, <1>2, <2>1, UpdateFrames, StopFrames
<1>3. CASE Finalize(r)
  <2>1. CASE pc' = [pc EXCEPT ![r] = "book"] /\ UNCHANGED <<node, local, verdict, outcome>>
    BY <1>3, <2>1, RunTypes DEF Frames, Finalize
  <2> QED
    BY <1>1, <1>2, <1>3, <2>1, UpdateFrames DEF Finalize
<1>4. CASE Book(r)
  BY <1>1, <1>2, <1>4, UpdateFrames DEF Book
<1>5. CASE HandleRejection(r)
  BY <1>1, <1>5, UpdateFrames DEF HandleRejection
<1> QED
  BY <1>3, <1>4, <1>5

LEMMA FramesKept ==
  ASSUME IInv, NEW r \in Runs,
         \/ Parse(r) \/ Validate(r) \/ DecideIntake(r) \/ Persist(r) \/ Match(r) \/ Schedule(r)
         \/ DecideDispatch(r) \/ Propose(r) \/ Pause(r) \/ Review(r) \/ Escalate(r)
  PROVE  Frames(r) /\ UNCHANGED thread /\ ~ CarriesOut(r)
<1>1. CASE Parse(r) \/ Validate(r) \/ DecideIntake(r) \/ Persist(r)
  BY <1>1, UpdateFrames DEF Parse, Validate, DecideIntake, Persist, CarriesOut
<1>2. CASE Match(r) \/ Schedule(r) \/ DecideDispatch(r) \/ Propose(r)
  BY <1>2, UpdateFrames DEF Match, Schedule, DecideDispatch, Propose, CarriesOut
<1>3. CASE Pause(r) \/ Review(r) \/ Escalate(r)
  BY <1>3, UpdateFrames, StopFrames DEF Pause, Review, Escalate, CarriesOut
<1> QED
  BY <1>1, <1>2, <1>3

(* What a step of one run leaves of the others keeps a decision in hand, if *)
(* it is not itself the one that carries it out.                            *)
LEMMA FramesInHand ==
  ASSUME InHand, FailedHasEnded, NEW r \in Runs, Frames(r), UNCHANGED thread,
         CarriesOut(r) => CarriesOut(r)' \/ outcome'[r] = "failed"
  PROVE  InHand'
<1> SUFFICES ASSUME Decided' PROVE \E v \in Runs : CarriesOut(v)' \/ outcome'[v] = "failed"
  BY DEF InHand
<1>1. PICK v \in Runs : CarriesOut(v) \/ outcome[v] = "failed"
  BY DEF InHand, Decided
<1>2. outcome[v] = "failed" => v # r
  BY DEF FailedHasEnded, Frames
<1>3. CASE v = r
  BY <1>1, <1>2, <1>3
<1>4. CASE v # r
  BY <1>1, <1>4 DEF Frames, CarriesOut
<1> QED
  BY <1>3, <1>4

LEMMA SaveHandsOn ==
  ASSUME IInv, NEW r \in Runs, Save(r)
  PROVE  Frames(r) /\ InHand'
<1> DEFINE next == NextNode(node[r], local[r])
<1>1. next \in Nodes \cup {"end"} /\ pc[r] = "save"
  <2>1. pc[r] = "save" /\ node[r] \in Nodes /\ After(node[r], local[r], orders)
    BY RunFacts DEF Save, At
  <2> QED
    BY <2>1, NodeFollows
<1>2. thread'.next = next
  BY DEF Save
<1> HIDE DEF next
<1>3. CASE next = "end"
  <2>1. Stop(r, "ended")
    BY <1>3 DEF Save, next
  <2> QED
    BY <1>1, <1>2, <1>3, <2>1, StopFrames DEF InHand, Decided
<1>4. CASE next # "end"
  <2>1. /\ node' = [node EXCEPT ![r] = next] /\ pc' = [pc EXCEPT ![r] = FirstStep[next]]
        /\ UNCHANGED outcome
    BY <1>4 DEF Save, next
  <2>2. Frames(r) /\ node'[r] = next /\ pc'[r] = FirstStep[next]
    BY <1>1, <2>1, RunTypes DEF Frames
  <2>3. Decided' => CarriesOut(r)'
    BY <1>2, <2>2 DEF Decided, CarriesOut, FirstStep
  <2> QED
    BY <2>2, <2>3 DEF InHand
<1> QED
  BY <1>3, <1>4

LEMMA InHandKept ==
  ASSUME IInv, IInv', Checkpointed, InHand, FailedHasEnded, [Next]_vars
  PROVE  InHand' /\ FailedHasEnded'
<1>1. ASSUME NEW r \in Runs, Frames(r) PROVE FailedHasEnded'
  BY <1>1 DEF FailedHasEnded, Frames
<1>2. ASSUME NEW r \in Runs, Finalize(r) \/ Book(r) \/ HandleRejection(r)
      PROVE  InHand' /\ FailedHasEnded'
  <2>1. Frames(r) /\ UNCHANGED <<thread, node>> /\ pc'[r] \in {"book", "save"}
    BY <1>2, CarryingGoesOn
  <2>2. CarriesOut(r) => CarriesOut(r)'
    BY <2>1 DEF CarriesOut
  <2> QED
    BY <1>1, <2>1, <2>2, FramesInHand
<1>3. ASSUME NEW r \in Runs, Save(r) PROVE InHand' /\ FailedHasEnded'
  BY <1>1, <1>3, SaveHandsOn
<1>4. ASSUME NEW r \in Runs, Invoke(r) PROVE InHand' /\ FailedHasEnded'
  <2>1. Frames(r)
    <3>1. CASE thread.next = "end"
      BY <1>4, <3>1, StopFrames DEF Invoke
    <3>2. CASE thread.next # "end"
      BY <1>4, <3>2, RunTypes DEF Invoke, Frames
    <3> QED
      BY <3>1, <3>2
  <2> QED
    BY <1>1, <1>4, <2>1, FramesInHand DEF Invoke, CarriesOut
<1>5. ASSUME NEW r \in Runs, Fail(r) PROVE InHand' /\ FailedHasEnded'
  BY <1>1, <1>5, StopFrames, FramesInHand DEF Fail
<1>6. ASSUME NEW r \in Runs, Look(r) PROVE InHand' /\ FailedHasEnded'
  <2>1. pc[r] = "idle" /\ UNCHANGED thread
    BY <1>6 DEF Look
  <2>2. \/ Stop(r, "refused")
        \/ pc' = [pc EXCEPT ![r] = "invoke"] /\ UNCHANGED <<node, local, outcome>>
    BY <1>6 DEF Look
  <2>3. Frames(r)
    BY <2>1, <2>2, StopFrames, RunTypes DEF Frames
  <2> QED
    BY <1>1, <2>1, <2>3, FramesInHand DEF CarriesOut
<1>7. ASSUME NEW r \in Runs, Start(r) PROVE InHand' /\ FailedHasEnded'
  <2>1. Frames(r)
    BY <1>7, RunTypes DEF Start, Frames
  <2>2. ~ Decided'
    BY <1>7 DEF Start, Decided
  <2> QED
    BY <1>1, <2>1, <2>2 DEF InHand
<1>8. CASE UNCHANGED <<thread, node, pc, outcome>>
  BY <1>8 DEF InHand, FailedHasEnded, Decided, CarriesOut
<1>9. ASSUME NEW r \in Runs, Step(r) PROVE InHand' /\ FailedHasEnded'
  <2>1. CASE Finalize(r) \/ Book(r) \/ HandleRejection(r) \/ Save(r) \/ Invoke(r)
    BY <1>2, <1>3, <1>4, <2>1
  <2>2. CASE ~ (Finalize(r) \/ Book(r) \/ HandleRejection(r) \/ Save(r) \/ Invoke(r))
    <3>1. Frames(r) /\ UNCHANGED thread /\ ~ CarriesOut(r)
      BY <1>9, <2>2, FramesKept DEF Step
    <3> QED
      BY <1>1, <3>1, FramesInHand
  <2> QED
    BY <2>1, <2>2
<1> QED
  BY <1>5, <1>6, <1>7, <1>8, <1>9 DEF Next, Runs, CancelOrder, vars

(* The safety half of DecisionIsCarriedOut: while a thread stands at the    *)
(* booking or the rejection that was decided, a run is at it, whatever      *)
(* other runs save, unless a run has failed.  Neither the guards nor a      *)
(* decision that arrives at the same time leave it there.                   *)
THEOREM DecisionInHand == Spec => []InHand
<1>1. Init => IInv /\ Checkpointed /\ InHand /\ FailedHasEnded
  BY InitHolds DEF Init, InHand, FailedHasEnded, Decided
<1>2. IInv /\ Checkpointed /\ InHand /\ FailedHasEnded /\ [Next]_vars
        => IInv' /\ Checkpointed' /\ InHand' /\ FailedHasEnded'
  BY NextKeeps, CheckpointedKept, InHandKept
<1> QED
  BY <1>1, <1>2, PTL DEF Spec
=============================================================================
