# FieldOps: models, checks and proofs

FieldOps is a dispatch desk for field service. Customers report problems,
an agent graph classifies them and proposes a technician and a time, an operator
approves, appointments are booked, moved, visited or cancelled, and an outbox
carries every change of an appointment to reminders, e-mails and a calendar.
This directory holds TLA+ specifications of that program, TLC configurations
that check them on small instances, and theorems that TLAPS checks for all
values of the constants. Source paths below start at the root of the repository.

    tlasany M.tla                               parse a module
    tlc -workers 2 -config X.cfg M              run X.cfg on the MC module M
    tlapm MProofs.tla                           check the proofs

## 1. The system

### 1.1 Components

| Component | State it keeps | Operations that change it | Correct when | Module |
|---|---|---|---|---|
| Booking transactions (`application/appointment_service.py`, direct branch of `main.py` approve) | `appointments`, request status; PostgreSQL locks | `finalize_appointment`, direct approval | no technician booked twice; every attempt ends | Booking |
| Service lifecycle (`application/service_lifecycle_service.py`, `api/operator_schedule.py`) | `appointments`, `reschedule_requests`, request status, staged events | start, complete, cancel, request / approve / reject reschedule, reassign | status backed by rows; history is a chain; cancelled is final; every change staged | Lifecycle |
| Customer portal (`api/customer_portal.py`) | requests, accounts, profiles | submit, supplement, cancel, reschedule | same rules as the operator's paths | Lifecycle (partly) |
| Technicians (`api/admin_console.py`) | `technicians` | create, edit, activate, deactivate | an inactive technician has no visit ahead | Dispatch |
| Agent workflow (`agent/`, `application/field_service_workflow.py`) | LangGraph checkpoints, workflow state | run, pause at human review, resume | a pause can be reviewed; who approves may; a decision is carried out; transitions are legal | Workflow (Lifecycle has its effects) |
| Agent decisions and policies (`agent/decisions`, `agent/invariants.py`) | none; counters in the graph's state | route, escalate, choose the level of review | every end without a visit reaches a queue | Decisions (partly) |
| Outbox publisher (`tasks/outbox_tasks.py`) | `outbox_events` | poll, dispatch, mark | no task lost; every event settles | Outbox |
| Calendar synchronisation (`tasks/integration_tasks.py`, `integrations/calendar/`) | `integration_records`; the external calendar | sync, cancel event, reconcile, retry by hand | the calendar converges; a record in `processing` has an owner | CalendarSync |
| Notification jobs (`tasks/appointment_tasks.py`) | `notification_jobs` | reminder, follow-up, confirmation | sent once; not for a cancelled visit; a claimed job settles | Notifications |
| Inbound intake (`intake/service.py`) | `inbound_events` | deduplicate, process, retry | one payload per message; barred only by a call at work | Intake |
| Idempotent creation (`main.py` POST /service-requests) | `idempotency_records` | claim, answer, replay | one request per key until one fails | Intake |
| Conversations (`api/customer_conversations.py`) | `conversations`, `conversation_messages` | create, send, confirm, cancel | one request per version of the draft | Intake (partly) |
| Scheduling and matching (`domain/services/`) | none | free slots, proposal, ranking | agrees with a plain definition | Scheduling |
| Users and policies (`api/admin_console.py`) | `internal_users`, `dispatch_policies`, `sla_policies` | deactivate, change role, activate a version | one active version; an administrator remains | Admin |
| Rate limiter, LLM retry (`security/rate_limiter.py`, `llm/retry.py`) | counters | allow, retry | the limit holds | not modelled |
| Authentication, e-mail client, observability, views, React client | none the above depend on | | | not modelled |

### 1.2 How they interact

- The API and the graph's nodes write the business tables in one database
  transaction each, and stage outbox rows in the same transaction.
- A graph thread stops at the human review with its proposal in a checkpoint.
  Approving or rejecting resumes it, possibly much later. A request without a
  thread under the id used is decided by the approval endpoint itself, with code
  of its own.
- Celery beat starts a publisher every minute. It reads pending events without a
  lock, hands tasks to the broker and commits after each event.
- Workers acknowledge a task when it has ended (`acks_late`,
  `reject_on_worker_lost`): a task whose worker dies is delivered again.
- The calendar task commits its record, releases the lock and only then calls
  the provider.

### 1.3 What is hard here

Locks and checks in different orders between two booking paths; state read from
a checkpoint, a table or a provider and used after others have moved on; rows
related by several transactions that each look at a different one of them;
partial failure between the broker and the commit, and between the provider and
the commit; redelivery; and cycles of waiting transactions. `PROJECT.json` lists
each hazard at its line, with the properties that watch it.

## 2. Modules

    TechnicianCalendar        what dispatch promises of technicians' time
      ^             ^
    Lifecycle     Booking     implement it (ImplementsCalendar in both)

    AppointmentStories        what the outbox tells of an appointment
      ^             ^             ^
    Lifecycle   CalendarSync  Notifications
    tells them  faces all     hears all      (LifecycleTellsStories,
                                              EveryStoryIsFaced, EveryStoryIsHeard)

    Outbox  <--EXTENDS--  CalendarSync
                              delivers tasks to it

    Decisions   <--EXTENDS--  Workflow     a thread of the graph
    Scheduling  <--EXTENDS--  Dispatch     the roster and who is booked

    Intake                    where requests come from
    Notifications             what an appointment's events cause besides
    Admin                     users and policies

    XProofs EXTENDS X, TLAPS  theorems      MCX EXTENDS X, TLC   values for TLC

`Lifecycle` and `Booking` are two grains of one system. Lifecycle has every
business transaction, each as one atomic action; Booking has only those that
insert appointments, each split into its statements, with PostgreSQL's locks.
CalendarSync and Notifications follow one appointment whose events Lifecycle stages;
the abstract `AppointmentStories` is the contract between the three. The
abstract `TechnicianCalendar` is the contract the first two share. Intake is what
comes before them: it makes the service requests whose lives Lifecycle follows, and
sees of them no more than which call made them (`requests`). Workflow is one thread
node by node, where Lifecycle has a thread's transactions only. Dispatch is the
roster under the bookings, with the algorithms of Scheduling for Lifecycle's free
choice of a technician. Notifications has the publisher's other two kinds of task.

### 2.1 TechnicianCalendar

A ledger of bookings. A step gives up bookings, takes at most one new one under
a fresh id where the technician is free, or moves one to another technician. It
knows nothing of requests, reschedules or transactions. Its refinement mapping
is `Bookings` (rows whose status blocks) and `used` (ids ever inserted).

**AppointmentStories** is the other contract. The outbox is all that the publisher, the
calendar and the notifications learn of an appointment from. A story is the status of
an appointment with the events staged for it; the module says how one goes on: created
once, then reassigned, started, completed, cancelled, each status in turn with its one
event. Lifecycle is the side that tells (`TellsStories`, for each of its rows);
CalendarSync and Notifications are written against one appointment, and their business
actions are those of a story (section 4).

### 2.2 Lifecycle

State: `requestStatus`, `appointments` and `reschedules` (tables as sequences;
the index is the primary key), `outbox` (per appointment, its events in order),
`thread` and `proposal` (the graph's checkpoint), `active` (technicians).

| Action | Code |
|---|---|
| SubmitByWorkflow, Propose, EndWithoutProposal | intake and dispatch nodes of the graph |
| FinalizeExisting / Conflict / Create | approval resumes the thread: `finalize_appointment` |
| HandleRejection, LoseDecision | rejection; a crash after the decision was checkpointed |
| SubmitByPortal, Supplement | `customer_portal.py` |
| DirectApprove / Reject / Conflict | the endpoint's own branch in `main.py` |
| StartService, CompleteService | `start_service`, `complete_service` |
| CancelAppointment, CancelRequest | `cancel_request` by appointment and by request id |
| CancelCustomerAppointment | the portal's own cancellation |
| RequestReschedule, ApproveReschedule, RejectReschedule | the reschedule workflow |
| ReassignTechnician | `reassign_technician` |
| DeactivateTechnician, ActivateTechnician | `admin_console.py` |

A resumed thread may be resumed once more: reading the snapshot and running the
graph are two steps of `field_service_workflow.py`, and a node commits before
its checkpoint is written. Hence `Resume` either ends the thread or leaves it.
Ranking is a free choice of a technician, the language model a free choice of
outcome. All windows lie in the future. `confirmed` is an appointment status
that the code tests and never writes.

### 2.3 Booking

Processes are booking attempts: finalizers and approvers. `pc` is the statement
an attempt is at; `row`, `inserted`, `prior` are the rows it inserts and
supersedes; `locked` and `shared` are the holders of `FOR UPDATE` and
`FOR KEY SHARE` on a technician; row locks on requests follow from `row`.
`WaitsFor` gathers what an attempt waits for at its statement. `Deadlocked`
holds on a cycle, of which `AbortVictim` breaks one. `Crash` rolls back.
`CancelBooked` is an operator who cancels a committed appointment meanwhile.
`Exclusion` says whether the exclusion constraint is installed: the migration
adds it on PostgreSQL only.

PostgreSQL is not under `src/`: `WaitsFor`, `Undecided`, `Deadlocked`,
`AbortVictim` and `Rollback` model it as the code leans on it.

### 2.4 Outbox

`events` (the rows), per publisher the `batch` it has read and whether the tasks
of its oldest event are `sent`, the `queue` of calendar messages (a bag),
`handed` (a history of what was handed to the broker) and `faults`. `Dispatch`
hands over all tasks of an event; `BrokerFails` hands over some of them and
leaves the event pending; `MarkProcessed` commits; `PublisherCrash` forgets the
batch and keeps what was sent. Several publishers run: nothing in the code keeps
a second beat from overlapping with the first. The events are those of one
appointment, because publishing one event touches no other; `Oldest` keeps the
order of a batch, and its limit of 50 is not reached. `appointment.started` and
`appointment.reassigned` have no branch in the publisher.

### 2.5 CalendarSync

Extends Outbox by one appointment, its integration record, the provider's events
(`remote`, and `trashed` for those it shows as cancelled) and `work`, the step
each worker and the reconciler is at.

| Action | Code |
|---|---|
| SyncRead, SyncClaim, SyncInsert | reading the appointment; locking, claiming or inserting the record |
| SyncList, SyncPost | `create_event`: look for an event, insert one (two calls) |
| SyncMark, SyncTransient, SyncPermanent | the ends of the task, with its retry |
| UnsyncLook, UnsyncDelete, UnsyncMark, UnsyncFails | `cancel_appointment_calendar_event` |
| ReconcileUnsynced / Compare / InSync / Missing / Cancelled / Active | `reconcile_appointment` |
| RetryRecord | the administrator's retry of a record |
| WorkerCrash, DeletedByHand | redelivery; somebody edits the calendar |
| Start, Cancel, Complete, Reassign | the business transactions, which stage their event |

Ids of provider events are reused once nothing refers to them. `Cancel` has no guard:
approving a reschedule request cancels what it replaces even when that was completed or
cancelled meanwhile (`service_lifecycle_service.py:620`). Reconciliation is
modelled for one appointment; the batch form reads through one session whose
cached rows can be older, which is not modelled.

### 2.6 Intake

A call is one HTTP request: a delivery of an outside message (webhook, e-mail), a
POST under an `Idempotency-Key`, or a turn of a customer's conversation. `pc` is the
transaction it is at, `call` what it was asked, has read and has made; `events`
and `records` are `inbound_events` and `idempotency_records` by their unique keys.

| Action | Code |
|---|---|
| Deliver, Post | the endpoints of `main.py` |
| LookAbsent / Conflict / Completed / Retry, Claim | the look-up of `InboundRequestService.handle`, and the retry it allows |
| InsertReceived, InsertRefused, MarkProcessing | a new event, or the refusal by its unique key |
| RunWorkflow | the workflow between the transactions: it makes a service request or not, and ends, fails or raises |
| Settle, SettleFails | `mark_completed` and `mark_failed`; the last transaction fails |
| LookKeyAbsent / Answered / Retry, ClaimKey, InsertKey, InsertKeyRefused | the idempotency record before `handle` |
| RecordAnswer, RecordFails | the record after it |
| SendLook / Commit, ConfirmLook / Commit, CancelLook / Commit | `customer_conversations.py`, a read and a commit each |
| Crash | the process dies between two transactions; its call keeps its step |

A confirmation's message id is the conversation's draft version
(`customer_conversations.py:416`), and the hash of its request covers the time it was
received (`intake/schemas.py:29`): two confirmations never have the same, so the call
itself stands for the hash. A POST has no message id and an event of its own. `Written`
is the ORM's habit of writing the columns whose value changed and no others. There is
one customer with one conversation; its messages, their `client_message_id` and the
model's answers are left out; filled fields of a draft stay filled
(`sanitize_and_merge_draft`). An exception that finds no database to mark the row
failed in is a crash.

### 2.7 Decisions and Workflow

Decisions has what the graph decides with: the table of legal transitions and the
invariants of `agent/invariants.py`, the policies that the graph evaluates, and the
edges of `agent/graph.py`. Workflow runs the graph. `thread` is the latest
checkpoint, a state and the node that is next; a run has a state of its own
(`local`), the `node` it is in and the step (`pc`) within its subgraph; `orders`
(with their audit logs) and `appointments` are the rows that runs write.

| Action | Code |
|---|---|
| Start, Look, Invoke | `run_field_service_workflow`; `resume_field_service_workflow`, its check and its invocation |
| Parse, Validate, DecideIntake, Persist | `intake_subgraph.py` |
| Match, Schedule, DecideDispatch | `dispatch_subgraph.py` |
| Propose, Pause, Review | `build_appointment_proposal.py`, `human_review.py` |
| Finalize, Book, HandleRejection, Escalate | the last three nodes |
| Save | the checkpoint between two nodes of the main graph |
| Fail | an exception, or the death of the process |
| CancelOrder | somebody cancels the request meanwhile |

LangGraph is not under `src/`: that a checkpoint is written after each node of the
main graph, and that a resumption goes on from the latest one, is how the code
leans on it. A thread is started again only once no other message is being handled
in it. The language model, the matching and the calendar are choices from constants.
`Book` is `finalize_appointment` under the technician's lock (module Booking has its
statements). `needs_location` and the like end a thread without an escalation.
`approval_subgraph` and `reschedule_subgraph` are compiled into nothing, and the limit
of clarifications is not reached, since a message begins a new state.

### 2.8 Notifications

One appointment, its two events, the messages in the broker (`queue`, a bag), the
rows of `notification_jobs` by their unique key, and the step each worker is at.
`phase` is how near the visit is; `clock` numbers the readings of the time that jobs
take their keys from. `sent`, `excused` and `caught` are histories: how often each
message was sent, how often something happened after which it may be sent again,
and who was sending when the appointment was cancelled. A visit that was completed can
be cancelled afterwards (see 2.5). Start, reassignment and a second cancellation change
nothing here: no task of this module is caused by them, and none looks at more than
whether the visit is over.

| Action | Code |
|---|---|
| PublishCreated, PublishCompleted | the branches of `outbox_tasks.py`, with the failure to mark the event |
| Look, ClaimFound, ClaimNew, ClaimRefused | the idempotency check and the claim of a job |
| Read, Skip, Send, Mark, Ack | the status guard, the message, the job's end |
| SendFails (AnswerLost), WorkerCrash | the except branches and their retry, the provider having accepted a confirmation or not; redelivery |
| Complete, Cancel, Pass | the appointment and time |

### 2.9 Scheduling and Dispatch

Scheduling has the algorithms as operators: `match_technicians`, `parse`,
`generate_candidate_slots`, `check_availability`, `select_proposal` and the ranking of
`main.py`, in tenths of a point because the code cuts fractions off at the end. Dispatch
is the roster that administrators change while technicians are chosen from it. `matched`
and `plans` are what a thread or a transaction has chosen and not yet booked, `closing`
the deactivations between their count and their commit.

| Action | Code |
|---|---|
| create / update / activate_technician_admin, CountFuture, deactivate_technician_admin | `admin_console.py` |
| Match, Propose, finalize_appointment | the dispatch nodes and the booking that follows a review |
| ChooseTopRanked, ApproveDirectly | the endpoint's own branch in `main.py` |
| ChooseSubstitute, reassign_technician | `reassign_technician` |
| approve_reschedule, EndVisit, Drop, Tick | reschedule, start and end of a visit, rejection, time |

Time is in hours. The statuses of requests are left to Lifecycle: an order may be
matched, approved or moved at any time its visit allows.

### 2.10 Admin

A call of the console is authorized in a session of its own, reads what it decides on,
and commits later. `calls` is what each one is at. The two tables of policies have the
same handlers. `FindActive` and `LockActive` are the two halves of an UPDATE under READ
COMMITTED: the rows found in its snapshot, and those of them that still qualify once
their holders have ended. The histories `overtaken`, `revokedTwice` and `switchedTwice`
say which calls decided on what a commit has since changed.

## 3. Runs

The names are those in `PROJECT.json`.

| Run | Instance | Question |
|---|---|---|
| lifecycle_one | 1 request, 2 technicians, 3 appointments, 2 reschedule requests, 1 reassignment (of the second) | Do a request, its appointments and its reschedule requests stay consistent through long histories, implement the calendar, and tell stories? |
| booking_constraint | 1 finalizer, 2 approvers, 2 requests, 1 technician, overlapping windows, constraint | Do mixed bookings implement the calendar, and end; does the constraint ever refuse a finalizer? |
| calendar_sync | 2 publishers, 2 workers, reconciler, 2 events, 1 fault | Is no task lost and no `processing` record left alone, in every interleaving? |
| calendar_settles | 1 publisher, 1 worker, reconciler, 2 events, 1 retry, 2 faults, fairness | Does every event settle, and the calendar show a visit that stands? |
| intake | 3 calls, 1 message, 1 key, 2 payloads, 3 versions of a draft | Do repeated, changed, concurrent, failing and dying calls make more requests than they should, or bar others for good? |
| workflow | 1 message, 1 approval and one call more of either kind, 2 technicians, 2 slots, 4 extractions | Does a thread keep to its tables, pause with all a reviewer needs, book by who may, and carry out what was decided? |
| notifications | 2 workers, 1 retry, 1 fault, fairness | Is each message sent once unless there is an excuse, none after a cancellation, and does every job settle and every booking get a reminder? |
| dispatch | 2 technicians, 2 orders, 2 profiles, 2 policies, 2 choices, 3 changes | Who may be left to visit after a deactivation, and do proposal and ranking keep their rules in every state reached? |
| admin | 2 calls, 3 users, 2 roles, 2 versions of each policy | Do an administrator and one version of each policy remain? |
| find_* | smallest instances | Section 5 |

### 3.1 What the properties say

- **NoDoubleBooking** (Lifecycle, Booking): no technician is claimed twice at one
  instant. It is stated by instants, not by the overlap test the code uses. It is
  proved (section 4); the runs check the stronger ImplementsCalendar in its place.
- **ImplementsCalendar**: the rows behave as TechnicianCalendar, so no booking
  comes back after it was given up and none is taken over another.
- **RequestStatusIsBacked**: `scheduled`, `in_progress` and `completed` each have
  an appointment that justifies them, whichever of nine transactions wrote them; a
  `cancelled` request that has appointments has a cancelled one. It may have a live one
  too (section 5, `service_lifecycle_service.py:358`), and no property says otherwise.
- **ReplacementChain**: the two links between an appointment and its replacement
  agree and stay within a request, and at most one reschedule request is pending, at
  an end of its chains.
- **OutboxTellsTheStory**: replaying an appointment's events gives its status.
- **TellsStories**: what the outbox tells of each appointment goes the ways of
  AppointmentStories, whichever transaction wrote it: no change without its event, no
  event without its change, no second creation, nothing but cancellations after the
  visit is over. It implies that a cancelled appointment is never taken up again
  (`CancelledIsFinal`, which is proved).
- **FinalizerNeverRefused**: the exclusion constraint never refuses a row of
  `finalize_appointment`. Whoever inserts a row needs the technician's key (a
  foreign key takes `FOR KEY SHARE`), and the finalizer's `FOR UPDATE` keeps it
  waiting from the second check to the commit; what would be a refusal is a
  deadlock, of which one side is a victim. The branch for an `IntegrityError`
  (`appointment_service.py:232`, RecordConflict) is thus never taken here.
- **EveryAttemptEnds**: no booking attempt waits for ever, although finalizers
  and approvers take the request and the technician in opposite orders.
- **ProcessedWasHandedOver**, **EveryEventSettles**: the outbox loses nothing and
  no event blocks it.
- **ProcessingIsOwned**: a record in `processing` has a worker or a message.
- **StandingIsShown**: an appointment that stands is shown in the end and stays shown,
  its record `synced` and naming an event of the calendar (`<>[]Shown`), however often
  its event was deleted before. The exception is an event that its record names and
  the calendar itself shows as cancelled (section 5).

- **OnePayloadPerMessage**: the check of the hash and the unique key of
  `inbound_events` together let no second payload make a request under one
  message id, though several runs for one message may overlap.
- **OneTicketPerVersion**: however many confirmations of a draft overlap, one makes
  a request; the others meet the unique key or the hash.
- **KeyedOnce**: until a POST under a key has ended in an error. After one, a
  repetition may make a second request: the code allows it (section 5).
- **InFlightIsOwned**: what answers 409 because it is in flight has a call at work
  on it, or one that died at work.
- **NamedRequestStays**: an event that names a service request names one made for it
  ever after, whatever a second run of the message comes to.

- **GuardsNeverFire**: the transition table and the invariants of the code, which
  raise and would strand a thread, refuse nothing that the nodes do.
- **PausedIsReviewable**, **EscalationReachesItsQueue**: no path to the review or to the
  end lacks what the reviewer, the booking or the queue needs.
- **BookedByAuthority**: the role is checked against a thread that may have been
  started again before the decision reaches it; the review's own check decides.
- **OneStandingAppointment**: overlapping approvals of one thread give one appointment
  that stands. Their check for one is stale; both would book the same slot.
- **DecisionIsCarriedOut**: a checkpointed decision is acted on, unless a run fails
  between the two. Nothing takes up a thread that was left there, and a later approval
  is refused: that is what the escape allows.
- **SentOnceUnlessExcused**: delivery at least once, retries and two workers send a
  message once, and once more only for a worker that took up a job another was at,
  that failed after it had sent, or that lost the provider's answer.
- **CancelledIsSilent**: only a worker that was sending at the cancellation still sends.
- **ClaimedJobSettles**, **BookedIsReminded**: in the end no confirmation or reminder is
  left in processing, whichever worker dies or is refused (but a confirmation of an
  appointment cancelled since), and every booking has made a reminder whose job ended.
- **InactiveIsIdle**: after a deactivation only visits that were under way (matched,
  proposed, chosen or booked in between) or put there by hand lie ahead.
- **ProposalIsBest**, **RankingIsMonotone**: the chain of filters, slots and sort keys
  gives the earliest free visit of someone able, stated without them; a technician who
  is no worse in anything never ranks below.
- **AdminRemains**, **OnePolicyInEffect**: unless two calls that had not seen each other
  were both committed, an administrator remains and one version is in effect.

### 3.2 Bounds

Every bound is a constant that occurs in a guard.

- *MaxAppointments 3, MaxReschedules 2*: an appointment, its replacement and the
  replacement of that, with a second reschedule request after the first was
  decided. Requests that compete are in Booking, and in the theorems of Lifecycle.
  *Reassignable {2}*: the technician of the second appointment may be replaced, which may
  itself be a replacement or be replaced later; the theorems allow any.
- *Windows*: one where contention is what matters; two that overlap without being
  equal where the comparison does. A second disjoint window adds no conflict.
- *Technicians 2*: one that is taken and one to go to.
- *Booking attempts 3*: one that holds a lock, one that waits for it and one that
  checked before both; cycles of two and three waiting transactions occur.
  Finalizers of one request have the same job, because a thread has one proposal.
- *MaxEvents 2*: the creation and one later event, unknown types included.
- *MaxFaults, MaxRetries*: one fault where two workers interleave, two faults and
  a retry where one worker runs. `RetryRecord` and `DeletedByHand` count as
  faults, so that liveness is asked after interventions by hand have stopped.
- *MaxIds* limits event ids in use; an insertion waits when none is free.
  *MaxWaiting* limits the syncs that reconciliation queues.

- *Calls of Intake 3*: one that works, one that overlaps with it and one that comes after
  both; a failed event retried twice at once; two confirmations and the message
  between them. *MaxVersion 3*: the draft, its completion and a correction. Calls and
  payloads are symmetric.

- *Runs of a thread 3*: a message and two decisions, or the message twice and a decision.
  *Extractions, Matches, Calendars*: each branch of the intake, one technician or two,
  a slot by day and one in the evening, which need different reviewers.
- *Notifications, MaxFaults 1*: one failure of the publisher, a task or a worker, at any
  step; a second overlap of workers comes from redelivery. *MaxNow* gives every reading
  of the clock a time of its own.
- *Dispatch, MaxChoices 2, MaxUpdates 3*: two technicians created and one changed, and a
  choice for each order or two for one. *Hours 8 and 10*: before the window, and in it.
- *Calls of Admin 2*: what three could do more is one overlap more, which the histories
  allow for. *MaxRows 2*: a version and its successor.

All modules but Booking may stop: everything settled or answered, or bounds
exhausted; deadlock is not checked there. It is checked for Booking, where only the state
in which every attempt has ended may stutter (`Finished`).

### 3.3 Fairness

- *Booking*: weak fairness of each attempt's next statement (its server process
  runs when its lock is free) and of `AbortVictim` (PostgreSQL's deadlock
  timeout). Crashes and cancellations are not fair.
- *CalendarSync*: weak fairness of publishers (beat starts one every minute) and
  workers (the pool runs). `ReconciledSpec` adds weak fairness of the
  reconciler. The code has no schedule for reconciliation; an administrator or
  an operator's script asks for it. StandingIsShown therefore says what holds
  *when somebody keeps asking*, and would not hold without that. Deletions are
  faults, so that they end; how long the event is missing before is not bounded.
- *Workflow*: weak fairness of the next step of each run that has begun (a thread of the
  API process executes it). Nobody has to send a message or to approve.
- *Notifications*: weak fairness of time, of the publisher and of each worker.
- Faults are never fair and end at MaxFaults.

## 4. Proofs

For all values of the constants, under the named assumptions of each module
(windows start before they end; bounds are natural numbers; finalizers and
approvers are disjoint; the reconciler is no worker; calls, payloads and message ids
differ; workers and orders are finitely many; what the language model extracts is one
of the kinds its schema allows; technicians have a service area, and weights are natural
numbers, as the console refuses others):

| Theorem | Argument |
|---|---|
| BookingProofs `TypeCorrect` | one step per action |
| BookingProofs `NeverDoubleBooked` | `IInv`, given `Exclusion \/ Approvers = {}` |
| BookingProofs `ConstraintSparesFinalizers` | a conjunct of `IInv` |
| BookingProofs `BookingImplementsCalendar` | a commit is a `Book`, a cancellation a `Release`, all else stutters |
| BookingProofs `FinalizedOnce` | finalizers of a request have one job, and live rows do not clash |
| BookingProofs `OneAfterTheOther` | `InOrder` and `Knows`, given `[]OneAtATime` |
| BookingProofs `NeverStuck` | `Orderly`; a least set of attempts that wait among themselves is a cycle |
| LifecycleProofs `TypeCorrect` | lemmas on tables: update, append, cancel a set of rows |
| LifecycleProofs `NeverDoubleBooked` | `Apart`: no two blocking rows compete |
| LifecycleProofs `OutboxTells`, `CancelledStays`, `ChainsKept`, `StatusBacked` | each step is one of a few kinds (`StepKinds`), and each kind keeps them |
| LifecycleProofs `LifecycleImplementsCalendar` | a step is a `Book`, a `Release`, a move, or a stutter |
| LifecycleProofs `LifecycleTellsStories` | each kind of step carries each story on or leaves it (`Carries`) |
| LifecycleProofs `OverIsOver` | `EndsWell`, a fact of stories alone, through `LifecycleTellsStories` |
| CalendarSyncProofs `EveryStoryIsFaced`, `OnlyBusinessTells` | one equivalence of actions; all other steps leave `Told` |
| NotificationsProofs `EveryStoryIsHeard` | the steps of a story, one by one, and back |
| CalendarSyncProofs `TypeCorrect` | outbox part and calendar part |
| CalendarSyncProofs `NothingIsLost` | `SentIsHandedOver` |
| CalendarSyncProofs `ProcessingNeverAlone` | `SyncStepsAreOfSyncs` with the property itself |
| IntakeProofs `TypeCorrect` | lemmas on the updates of a call, an event, a record, a conversation |
| IntakeProofs `OnePayload`, `OneTicket`, `OneRequestPerKey`, `BarredIsOwned` | parts or consequences of `IInv` |
| IntakeProofs `NamedStays` | `NamesAreOwn`, and that no step clears a name |
| WorkflowProofs `TypeCorrect`, `NeverHalted`, `PausedStaysReviewable`, `BookedWithAuthority`, `EscalationReaches` | conjuncts or consequences of `IInv` |
| WorkflowProofs `OneStanding` | `OneSlot` |
| WorkflowProofs `DecisionInHand` | a step leaves the other runs alone (`Frames`), and a save hands a decision on to the run that saved it |
| NotificationsProofs `TypeCorrect`, `CancelledStaysSilent`, `SentOnce` | `Silent`; `Budgets` |
| NotificationsProofs `NothingForgotten` | `Pursued` |
| DispatchProofs `TypeCorrect`, `DeactivatedIsIdle` | conjuncts or consequences of `IInv` |
| DispatchProofs `NeverDoubleBooked` | `Apart`: visits are written where the technician is free |
| DispatchProofs `BestProposed`, `RankedMonotonely` | what the algorithms compute from a typed state |
| AdminProofs `TypeCorrect`, `AdminStays`, `OneInEffect` | conjuncts or consequences of `IInv` |

**Booking.** `NoDoubleBooking` alone is not inductive: a commit makes a row live,
so it must be known to clash with no live row. With the constraint that is
`ConstraintDecided`: an uncommitted row clashes with no other uncommitted one and
only with live rows that its own transaction supersedes. Without it, it is
`SlotStaysFree` (a finalizer's slot stays free from the second check to the
commit), which rests on `LocksHeld` (a technician has one holder or else holders
of its key, and a finalizer or an approver has its lock when it matters).
`RowsFollowSteps` and `PriorCommitted` tie rows to steps. The assumption
`Exclusion \/ Approvers = {}` is needed: without the constraint approvers check
and insert without a lock.

That a *request* has one appointment is another matter, for nothing locks a request
while its booking is decided: the run `find_two_approvals` shows two. `FinalizedOnce`
and `OneAfterTheOther` say how far it holds. Finalizers of one request want one slot, so
that the calendar itself keeps them apart. Others keep apart as long as the attempts of
a request do not overlap (`OneAtATime`; the hypothesis is about the order of calls and
leaves attempts of different requests free): the latest committed row of a request is
then the only one that can be live (`InOrder`), so that a finalizer that finds it dead
finds all dead, and an approver has read every row there is to supersede (`Knows`).

`NeverStuck` is the safety half of `EveryAttemptEnds`. `Orderly` says that whom an
attempt waits for holds a row or a lock and is therefore under way (`WaitsForTheLiving`).
If nobody can go on, all attempts under way wait among themselves; finitely many of
them (`IsFiniteSet(Procs)`) have a smallest such set, and there each is waited for, or it
could be left out: a cycle, which the engine breaks (`SomeCycle`). None of this needs the
exclusion constraint. It is why the fairness of `FairSpec` suffices: the two lock orders
of finalizers and approvers can meet in a deadlock, but in no other standstill.

**The stories.** Modules that follow one appointment choose when it is cancelled or
completed; that these choices are those of Lifecycle was once only a claim. Now it is
three theorems. `LifecycleTellsStories` takes every row of Lifecycle, under any
transaction, to a story. `EveryStoryIsFaced` says that the business side of CalendarSync
takes a step exactly where a story goes on, and `EveryStoryIsHeard` that each way a
story goes on is an action of Notifications or concerns none of its tasks; both hold in
both directions, so that neither module checks less than can happen nor fails for what
cannot. `OnlyBusinessTells` adds that no publisher or worker writes history.
The first attempts failed for a reason: Lifecycle lets an approved reschedule cancel a
visit that was completed or cancelled already, which the other two modules excluded.
Their `Cancel` has lost that guard, and all their properties were checked again.
`OverIsOver` is a fact about stories that Notifications counts on with its one
completion event.

**Lifecycle.** Every action either claims no more than before (`ClaimsNoMore`) or
claims a slot it has just found free (`AppendApart`, and the reassignment).

**CalendarSync.** A publisher that is past its dispatch has handed over all tasks
of its oldest event (`SentIsHandedOver`). Every step that sets `processing`
leaves its actor in an owning step, and every step that ends an owner clears the
status or puts a sync message back; `SyncStepsAreOfSyncs` makes the redelivered
message that of a sync.

**Intake.** A call past the look-up has the payload of its event, and so have the
requests made for it (`PayloadsAgree`): hence one payload per message. A confirmation's
payload is the confirmation itself, so a second request for its version would have been
made by the very call that is about to make one; `ConfirmedOnce` says that such a call
has left its run behind. For keys, `KeyHeldOnce` counts the calls under way: while
none has failed there is at most one, and none before its run once a request exists.
`NamesAreOwn` ties calls and events to the requests they name. `Returned`, `Run` and
`Settled` say once what the three ends of `handle` change, for all those proofs.

**Lifecycle, histories.** `StepKinds` sorts the actions by what they do to rows: nothing
(`Quiet`), a visit goes on (`Visit`), some rows of one request are cancelled, one is
inserted, a reschedule request is made or decided, a technician is replaced. The
outbox's story (`Tells`), the chains (`LinksIn`, `PendingIn`) and the backing of
statuses (`AllBacked`) are stated of any table, so that a kind is proved once. The chain
needs more than its links: that a pending request's appointment has no replacement is
what lets an approval append to it.

**Workflow.** What is wanted of a pause or an end holds because of what each node leaves
behind. `At` says what a run finds at each step of each node, `After` what a finished
node leaves, and `NodeFollows` that one edge of the graph leads from the second to the
first; `RunsFit` and `ThreadFits` say so of all runs and of the checkpoint, from which
a second run may go on. Counting steps in `At` shows that the limit of 25 is out of
reach. The number of runs is arbitrary: a run's state is its own copy, and the tables
only grow (`TablesGrow`). That a run at work finds a checkpoint is `Checkpointed`.

That overlapping decisions give one appointment is `OneSlot`, relative to `IInv`. Until
the first proposal is saved nobody can decide, and one run at most is at work (`Early`).
From then on, and as long as there is one request, all who hold it hold the same slot
for it and nothing else was booked for it (`Agreed`): `SaveOne` passes from the first to
the second, `ProposeOne` shows that no other proposal is made. A slot is booked where it
is free, so an appointment in it is the only one that stands (`BookOne`). All other
steps copy what a run holds or end it (`Goes`).

`InHand` is inductive with `IInv` and `FailedHasEnded` (a failed run takes no more steps,
so that its failure is not forgotten). A run that carries a decision out could lose it only
where the guards stop it, and `GuardsNeverFire` holds in the next state too. Another
run may save over the thread, but then it stands at that run's next node itself.

**Notifications.** `Budget` counts, for one job, the messages sent and the workers that
may yet send (`Holders`): together at most one more than the excuses. When nobody holds
the job, has sent and is about to mark it, or has completed it, there is no debt, so a
worker may take it up. `Silent` says who may still be sending after a cancellation.

`NothingForgotten` is the safety half of the liveness properties: a job that is not
settled has a worker at it or a message to come (`NoJobForgotten`), and a booking
without a reminder has its event pending, its message or its worker (`ReminderToCome`).
Fairness then only has to let those act. The strengthening is `Pursued`: a worker that
is past its insert has the job's row (`Rowed`), so that one whose insert is refused
leaves a row which somebody else has to settle, and a booking whose event is out has a
reminder that waits, is worked on or has a row (`Known`). Follow-ups are left out
because it is false of them: TLC shows a follow-up's job left in processing
(section 5).

**Dispatch.** Whoever is engaged for an order, from the match to the visit, and is not
active is excused (`Idle`): a deactivation excuses those whose engagement it could not
count. It has itself counted no visit (`Counted`), and a substitute is chosen for a visit
there is (`Substitutes`). That the proposal is the best needs no invariant but types.
`SlotsFit` and `WindowIsKnown` say which slots there are, `FreeIsNoClash` that a slot
the code calls free is one where the visit overlaps none of the technician's (from which
also `NeverDoubleBooked`, however long ago the visit was planned), and
`SelectedIsFirst` that the choice is the least of its options. `ScoreIsMonotone` is
arithmetic with `\div`, and rests on the weights' being natural numbers;
`JobsAreCounted` provides the numbers of jobs.

**Admin.** A call that no commit has overtaken has found all active rows of its table
(`FreshFoundAll`) and leaves another administrator (`AdminLeft`); `PoliciesInOrder` and
`VersionsKnown` make versions the places of their rows.

Model-checked only: liveness (`EveryAttemptEnds`, `EveryEventSettles`, `StandingIsShown`,
`ClaimedJobSettles`, `BookedIsReminded`, `DecisionIsCarriedOut`), for TLAPS does not
treat fairness and ENABLED here. What these rest on besides fairness is proved where it
is more than a type: `NeverStuck` for the first, `NothingForgotten` for the notification
jobs, `DecisionInHand` for the last. They say that somebody is at the work or a message is
to come; that it then moves is left to the runs.

## 5. Where the documentation and the code disagree

Runs that end in a counterexample:

- `find_two_approvals`: two operators who approve one request at once with
  different technicians book two appointments. `docs/reliability.md:73` excludes it.
- `find_duplicate_events`: two syncs that look for an appointment's event before
  either inserts it make two. `docs/adr/0004-google-calendar-integration.md:54`
  excludes it.

- `find_second_ticket`: a message that was being answered when a confirmation began
  raises the draft's version and leaves `awaiting_confirmation`; the next confirmation
  makes a second ticket. `docs/reliability.md:70` excludes it.

Seen while modelling, without a run:

- `docs/status-model.md:43`: cancelling by the id of an appointment that has been
  replaced cancels the request and leaves the replacement scheduled
  (`service_lifecycle_service.py:358`).
- `docs/service-lifecycle.md:92`: approving a reschedule request that was pending when
  the visit was completed cancels the completed visit
  (`service_lifecycle_service.py:620`).
- `docs/status-model.md:44`: a paused thread approved after the request was
  completed books again; `finalize_appointment` never reads the request's status
  (`appointment_service.py:193`).
- `docs/service-lifecycle.md:42`: the portal's own cancellation leaves a pending
  reschedule request behind (`customer_portal.py:848`).
- `appointment_service.py:106`: a request has two live appointments after a direct
  approval followed by the approval of an older reschedule request.
- `appointment_service.py:68`: of two concurrent finalizers of one request the
  second reports a conflict with its own appointment, since it looks for an
  existing one (107) before it waits for the lock (128).
- `docs/service-lifecycle.md:32`: a cancelled appointment's calendar event can
  stay. A skipped sync marks the record `cancelled` while an event is being
  inserted, and reconciliation then passes over it; or the task that removes the
  event runs before the one that makes it.
- `docs/adr/0004-google-calendar-integration.md:48`: an event cancelled on the
  provider's side does not come back. The sync asked for finds the record synced
  and returns. `StandingIsShown` therefore excepts a record whose own event is in
  `trashed`.
- `docs/workflow-recovery.md:57` speaks of five retries, the tasks have three;
  the task that removes an event is never retried (`integration_tasks.py:247`);
  event types unknown to the publisher are marked failed (`outbox_tasks.py:141`).
- `intake/service.py:116`: an event that another call has just received, or two
  retries of a failed one, are not told from a failure: two runs of one message
  overlap and may both make a service request; the later one's failure overwrites
  `completed`.
- `main.py:489`: when the answer cannot be stored after the workflow has made its
  request, the key is failed and its repetition makes a second one. An answer of
  `llm_failed` is kept as completed and replayed.
- `intake/service.py:129`, `main.py:451`: after a crash the event or the record says
  `processing` for good and every repetition is answered 409.
- `customer_conversations.py:436`: a confirmation repeated after a failure has another
  hash under the same message id and is always refused; only a further message, which
  raises the version, lets the customer confirm again.
- `customer_conversations.py:439`: a confirmation whose run made no request takes the
  customer's latest one, whatever it is about, and writes its draft's fields over it.
- `customer_conversations.py:329`: a message that read the conversation before it was
  submitted or cancelled can reopen it.
- `docs/workflow-policies.md:33`, `:35`, `:36`: the code asks for a senior operator for a
  visit outside hours (the table: operator) and after two reschedules (admin), and
  approves nothing by itself (`agent/decisions/policies.py:72`).
- `docs/workflow-v2.md:36`: a proposal whose slot was taken ends its thread in
  `needs_rescheduling`; no edge leads to a reschedule subgraph (`agent/graph.py:73`).
- `field_service_workflow.py:157`: of two overlapping approvals the second ends in
  `needs_rescheduling` although the first one's appointment stands. Of an approval and a
  rejection that overlap, the request may end rejected with a live appointment. A
  resumption that comes second answers 200 with its decision ignored. A thread started
  again meanwhile may be given a decision on a proposal its reviewer never saw, though
  never by a role that may not (`BookedByAuthority`).
- `human_review.py:22`: a process that dies after the decision was checkpointed leaves a
  thread that no call takes up, since resuming asks for `waiting_for_approval`.
- `docs/service-lifecycle.md:91`: a follow-up is dispatched without the time it is
  scheduled for, so that each execution has a key of its own, its idempotency check never
  hits, and a crash leaves its job in `processing` (`appointment_tasks.py:198`).
- `outbox_tasks.py:96`: a reminder's key is computed anew at each publication; an event
  published twice around a boundary makes two reminders.
- `integration_tasks.py:279`: a confirmation that is delivered again after its appointment
  was cancelled returns before it looks at its job, which stays in `processing`.
- `admin_console.py:535`: a deactivation counts scheduled visits ahead. Those proposed,
  chosen or booked after the count, and visits that have begun, it does not see, and
  `finalize_appointment` and `approve_reschedule` take inactive technicians.
- `time_window_parser.py:66`: "this morning", said in the afternoon, is in the past, and
  so is the visit proposed for it.
- `main.py:630`: a direct approval whose top-ranked technician is taken answers with a
  conflict and does not try the next one.
- `docs/reliability.md:86`: two administrators who deactivate or demote each other at once
  leave none (`admin_console.py:223`); `AdminRemains` allows for it.
- `admin_console.py:630`: two overlapping activations of a policy can leave two active
  versions, of which readers take any (`policy_attribution.py:10`).

## 6. Not modelled

- Access control, input validation, audit rows other than an escalation's, metrics,
  views, the React client: no decision modelled here depends on their state.
- The language model: a free choice of what it extracts, or a failure. How often a call
  of it is repeated (`llm/retry.py`) and the rate limiter are counters of one process,
  which unit tests reach.
- `RecoveryPolicy`, `CompensationEngine`, `recovery_decision.py`, `approval_subgraph.py`,
  `reschedule_subgraph.py`: the compiled graph calls none of them.
- Lifecycle transactions from within. `start_service`, `complete_service` and
  `cancel_request` read without locks (`service_lifecycle_service.py:378`), and two clicks
  on reschedule may both insert (514). Lifecycle has them as atomic actions: its
  properties are those of serial histories, and overlapping calls may break them.
- Time in Lifecycle and Booking: windows lie in the future. Refusals because a window has
  begun are left out, so the models have more behaviours than the code.
- Reconciliation of many appointments in one session, whose cached rows may be older.
- Accounts and profiles of customers; the rows of a conversation's messages, and several
  conversations of one customer.
- Graph state the routes do not read: names, texts, histories of decisions, metrics.

## 7. Next

Every component with state of its own has its module. What would come next: the
lifecycle's transactions as reads and writes, with the updates that overlapping calls
lose.
