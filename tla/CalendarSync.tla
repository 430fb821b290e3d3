----------------------------- MODULE CalendarSync -----------------------------
(****************************************************************************)
(* Keeping an external calendar in step with an appointment: the worker     *)
(* tasks sync_appointment_calendar and cancel_appointment_calendar_event,   *)
(* their IntegrationRecord, the reconciliation an administrator starts, and *)
(* the calendar provider.  Extends Outbox, which delivers the tasks.        *)
(*                                                                          *)
(* Workers acknowledge a task when it has ended, so a task whose worker     *)
(* dies is delivered again.  The record is locked only until the commit     *)
(* before the provider is called.  The provider is Google Calendar as the   *)
(* client uses it: creating looks for an event of the appointment and       *)
(* inserts one if there is none, in two calls; deleting is idempotent; an   *)
(* event deleted by hand may be gone or be shown as cancelled.              *)
(****************************************************************************)
EXTENDS Outbox

CONSTANTS
  Workers,           \* slots of the worker pool that run calendar tasks
  Reconciler,        \* the request that runs the reconciliation
  MaxIds,            \* bound: ids of calendar events in use
  MaxWaiting         \* bound: sync messages waiting when one more is asked for

ASSUME CalendarAssumption ==
  /\ Reconciler \notin Workers
  /\ MaxIds \in Nat
  /\ MaxWaiting \in Nat

VARIABLES
  appointment,       \* appointments.status
  record,            \* the IntegrationRecord
  remote,            \* the events in the provider's calendar
  trashed,           \* the events the provider shows as cancelled
  work               \* per worker, the step, message and event id it holds

provider == <<remote, trashed>>

calendarVars == <<appointment, record, provider, work>>

vars == <<outboxVars, calendarVars>>

------------------------------------------------------------------------------
Ids == 1 .. MaxIds

Nil == 0             \* no external id

RecordStatuses ==
  {"none", "pending", "processing", "synced", "failed", "cancelled"}

SyncSteps == {"claim", "insert", "list", "post", "mark"}
UnsyncSteps == {"delete", "delete again", "unmark"}
ReconcileSteps == {"check", "verify"}

Idle == [step |-> "idle", task |-> "sync", retries |-> 0, id |-> Nil]

Work ==
  [step : {"idle"} \cup SyncSteps \cup UnsyncSteps \cup ReconcileSteps,
   task : CalendarTasks, retries : 0 .. MaxRetries, id : Ids \cup {Nil}]

MessageOf(w) == [task |-> work[w].task, retries |-> work[w].retries]

At(w, step) == work[w].step = step

Go(w, step) == work' = [work EXCEPT ![w].step = step]

GoWith(w, step, id) ==
  work' = [work EXCEPT ![w] = [@ EXCEPT !.step = step, !.id = id]]

End(w) == work' = [work EXCEPT ![w] = Idle]

SetRecord(status) == record' = [record EXCEPT !.status = status]

Put(m) == queue' = [queue EXCEPT ![m] = @ + 1]

------------------------------------------------------------------------------
Init ==
  /\ OutboxInit
  /\ appointment = "scheduled"
  /\ record = [status |-> "none", id |-> Nil]
  /\ remote = {}
  /\ trashed = {}
  /\ work = [w \in Workers \cup {Reconciler} |-> Idle]

------------------------------------------------------------------------------
(* The business side: every story of module AppointmentStories              *)

Start ==
  /\ appointment = "scheduled"
  /\ appointment' = "in_progress"
  /\ Stage("appointment.started")
  /\ UNCHANGED <<record, provider, work>>

(* Approving a reschedule cancels what it replaces whatever its status.     *)
Cancel ==
  /\ appointment' = "cancelled"
  /\ Stage("appointment.cancelled")
  /\ UNCHANGED <<record, provider, work>>

Complete ==
  /\ appointment \in {"scheduled", "in_progress"}
  /\ appointment' = "completed"
  /\ Stage("appointment.completed")
  /\ UNCHANGED <<record, provider, work>>

Reassign ==
  /\ appointment = "scheduled"
  /\ Stage("appointment.reassigned")
  /\ UNCHANGED calendarVars

------------------------------------------------------------------------------
(* The worker pool                                                          *)

(* Worker w is given message m and takes the first step of its task.        *)
Take(w, m, step, id) ==
  /\ At(w, "idle")
  /\ queue[m] > 0
  /\ queue' = [queue EXCEPT ![m] = @ - 1]
  /\ work' = [work EXCEPT ![w] = IF step = "idle" THEN Idle ELSE
                 [step |-> step, task |-> m.task, retries |-> m.retries,
                  id |-> id]]
  /\ UNCHANGED <<events, batch, sent, handed, faults>>

(* Mutant of WorkerCrash: tasks are acknowledged when they are taken.       *)
CrashLosesTask(w) ==
  /\ ~ At(w, "idle")
  /\ End(w)
  /\ Fault
  /\ UNCHANGED <<events, batch, sent, queue, handed, appointment, record,
                 provider>>

(* The worker dies; its message was not acknowledged and is delivered again.*)
WorkerCrash(w) ==
  /\ ~ At(w, "idle")
  /\ Put(MessageOf(w))
  /\ End(w)
  /\ Fault
  /\ UNCHANGED <<events, batch, sent, handed, appointment, record, provider>>

------------------------------------------------------------------------------
(* sync_appointment_calendar                                                *)

(* 1., 2. A cancelled appointment is skipped and its record says so.        *)
SyncRead(w) ==
  /\ \E m \in Messages :
       /\ m.task = "sync"
       /\ Take(w, m, IF appointment = "cancelled" THEN "idle" ELSE "claim", Nil)
  /\ IF appointment = "cancelled" /\ record.status # "none"
     THEN SetRecord("cancelled")
     ELSE UNCHANGED record
  /\ UNCHANGED <<appointment, provider>>

(* 3. The record is locked: one that is synced ends the task, any other     *)
(* becomes processing and is committed.                                     *)
SyncClaim(w) ==
  /\ At(w, "claim")
  /\ \/ /\ record.status = "none"
        /\ Go(w, "insert")
        /\ UNCHANGED record
     \/ /\ record.status = "synced"
        /\ End(w)
        /\ UNCHANGED record
     \/ /\ record.status \notin {"none", "synced"}
        /\ SetRecord("processing")
        /\ Go(w, "list")
  /\ UNCHANGED <<outboxVars, appointment, provider>>

(* No record was found, and so none was locked: it is inserted, unless      *)
(* another worker was faster and the unique key fails the task.             *)
SyncInsert(w) ==
  /\ At(w, "insert")
  /\ IF record.status = "none"
     THEN SetRecord("processing") /\ Go(w, "list")
     ELSE End(w) /\ UNCHANGED record
  /\ UNCHANGED <<outboxVars, appointment, provider>>

(* 5. create_event looks for an event of the appointment ...                *)
SyncList(w) ==
  /\ At(w, "list")
  /\ IF remote # {} THEN \E id \in remote : GoWith(w, "mark", id)
                    ELSE Go(w, "post")
  /\ UNCHANGED <<outboxVars, appointment, record, provider>>

(* The provider makes an event.  An id that nothing refers to is new.       *)
InUse ==
  remote \cup trashed \cup {record.id}
    \cup {work[w].id : w \in Workers \cup {Reconciler}}

NewIds == Oldest(Ids \ InUse)

Insert(id) ==
  /\ remote' = remote \cup {id}
  /\ UNCHANGED trashed

(* ... and inserts one if it found none.                                    *)
SyncPost(w) ==
  /\ At(w, "post")
  /\ \E id \in NewIds : Insert(id) /\ GoWith(w, "mark", id)
  /\ UNCHANGED <<outboxVars, appointment, record>>

(* 6. The record is synced with the event's id.                             *)
SyncMark(w) ==
  /\ At(w, "mark")
  /\ record' = [status |-> "synced", id |-> work[w].id]
  /\ End(w)
  /\ UNCHANGED <<outboxVars, appointment, provider>>

(* A transient failure, which an insertion whose answer is lost also is:    *)
(* the record fails and the task is retried while it may be.                *)
SyncTransient(w) ==
  /\ At(w, "list") \/ At(w, "post")
  /\ Fault
  /\ SetRecord("failed")
  /\ \/ At(w, "post") /\ \E id \in NewIds : Insert(id)
     \/ UNCHANGED provider
  /\ End(w)
  /\ IF work[w].retries < MaxRetries
     THEN Put([task |-> "sync", retries |-> work[w].retries + 1])
     ELSE UNCHANGED queue
  /\ UNCHANGED <<events, batch, sent, handed, appointment>>

(* A permanent failure ends the task.                                       *)
SyncPermanent(w) ==
  /\ At(w, "list") \/ At(w, "post")
  /\ Fault
  /\ SetRecord("failed")
  /\ End(w)
  /\ UNCHANGED <<events, batch, sent, queue, handed, appointment, provider>>

------------------------------------------------------------------------------
(* cancel_appointment_calendar_event                                        *)

(* No record, or one without an event: there is nothing to delete.          *)
UnsyncLook(w) ==
  /\ \E m \in Messages :
       /\ m.task = "unsync"
       /\ Take(w, m, CASE record.id = Nil -> "idle"
                      [] record.status = "cancelled" -> "delete again"
                      [] OTHER -> "delete",
               record.id)
  /\ UNCHANGED <<appointment, record, provider>>

(* The provider deletes the event, if it is there.                          *)
Delete(id) == remote' = remote \ {id} /\ trashed' = trashed \ {id}

(* The row is written only if it did not read cancelled before.             *)
UnsyncDelete(w) ==
  /\ \/ At(w, "delete") /\ Go(w, "unmark")
     \/ At(w, "delete again") /\ End(w)
  /\ Delete(work[w].id)
  /\ UNCHANGED <<outboxVars, appointment, record>>

UnsyncMark(w) ==
  /\ At(w, "unmark")
  /\ SetRecord("cancelled")
  /\ End(w)
  /\ UNCHANGED <<outboxVars, appointment, provider>>

(* Every failure is caught and the task ends without a retry.               *)
UnsyncFails(w) ==
  /\ At(w, "delete") \/ At(w, "delete again")
  /\ Fault
  /\ End(w)
  /\ UNCHANGED <<events, batch, sent, queue, handed, appointment, record,
                 provider>>

------------------------------------------------------------------------------
(* reconcile_appointment, run by a request (or a task) of its own           *)

(* A sync is enqueued, unless the broker fails.                             *)
EnqueueSync ==
  \/ /\ queue[Fresh("sync")] < MaxWaiting
     /\ Put(Fresh("sync"))
     /\ UNCHANGED faults
  \/ Fault /\ UNCHANGED queue

Linked == record.id # Nil

(* The appointment stands and its record is not synced: sync it again.      *)
ReconcileUnsynced ==
  /\ At(Reconciler, "idle")
  /\ appointment # "cancelled"
  /\ record.status # "synced" \/ ~ Linked
  /\ EnqueueSync
  /\ UNCHANGED <<events, batch, sent, handed, appointment, record, provider,
                 work>>

(* It is synced: is the event still there?  Or it is cancelled and the      *)
(* record does not say so: is the event still there?                        *)
ReconcileCompare ==
  /\ At(Reconciler, "idle")
  /\ \/ /\ appointment # "cancelled"
        /\ record.status = "synced" /\ Linked
        /\ GoWith(Reconciler, "check", record.id)
     \/ /\ appointment = "cancelled"
        /\ Linked /\ record.status # "cancelled"
        /\ GoWith(Reconciler, "verify", record.id)
  /\ UNCHANGED <<outboxVars, appointment, record, provider>>

Found == work[Reconciler].id \in remote
FoundCancelled == work[Reconciler].id \in trashed

ReconcileInSync ==
  /\ \/ At(Reconciler, "check") /\ Found
     \/ At(Reconciler, "verify") /\ ~ Found /\ ~ FoundCancelled
  /\ End(Reconciler)
  /\ UNCHANGED <<outboxVars, appointment, record, provider>>

(* Mutant of ReconcileMissing: a sync is asked for and nothing else.        *)
ResyncOnly ==
  /\ At(Reconciler, "check")
  /\ ~ Found /\ ~ FoundCancelled
  /\ EnqueueSync
  /\ End(Reconciler)
  /\ UNCHANGED <<events, batch, sent, handed, appointment, record, provider>>

(* The event is missing: the record fails, so that a sync makes another.    *)
ReconcileMissing ==
  /\ At(Reconciler, "check")
  /\ ~ Found /\ ~ FoundCancelled
  /\ SetRecord("failed")
  /\ EnqueueSync
  /\ End(Reconciler)
  /\ UNCHANGED <<events, batch, sent, handed, appointment, provider>>

(* The event is shown as cancelled: a sync is asked for and nothing else.   *)
ReconcileCancelled ==
  /\ At(Reconciler, "check")
  /\ FoundCancelled
  /\ EnqueueSync
  /\ End(Reconciler)
  /\ UNCHANGED <<events, batch, sent, handed, appointment, record, provider>>

(* The appointment is cancelled and the provider still knows its event: it  *)
(* is deleted and the record marked, as UnsyncDelete and UnsyncMark do.     *)
ReconcileActive ==
  /\ At(Reconciler, "verify")
  /\ Found \/ FoundCancelled
  /\ Go(Reconciler, "delete")
  /\ UNCHANGED <<outboxVars, appointment, record, provider>>

(* A call of the provider fails, or the process dies: the request is over.  *)
ReconcileFails ==
  /\ ~ At(Reconciler, "idle")
  /\ Fault
  /\ End(Reconciler)
  /\ UNCHANGED <<events, batch, sent, queue, handed, appointment, record,
                 provider>>

(* Mutant of RetryRecord: the record gets the status of the answer.         *)
RequeueRecord ==
  /\ record.status # "none"
  /\ SetRecord("queued")
  /\ Put(Fresh("sync"))
  /\ Fault
  /\ UNCHANGED <<events, batch, sent, handed, appointment, provider, work>>

(* The administrator retries the record by hand, whatever its status.       *)
RetryRecord ==
  /\ record.status # "none"
  /\ SetRecord("pending")
  /\ Put(Fresh("sync"))
  /\ Fault
  /\ UNCHANGED <<events, batch, sent, handed, appointment, provider, work>>

(* Somebody deletes or cancels the event in the calendar.                   *)
DeletedByHand ==
  /\ \E id \in remote :
       /\ remote' = remote \ {id}
       /\ trashed' \in {trashed, trashed \cup {id}}
  /\ Fault
  /\ UNCHANGED <<events, batch, sent, queue, handed, appointment, record, work>>

------------------------------------------------------------------------------
WorkerStep(w) ==
  \/ SyncRead(w) \/ SyncClaim(w) \/ SyncInsert(w)
  \/ SyncList(w) \/ SyncPost(w) \/ SyncMark(w)
  \/ UnsyncLook(w) \/ UnsyncDelete(w) \/ UnsyncMark(w)

WorkerFault(w) ==
  WorkerCrash(w) \/ SyncTransient(w) \/ SyncPermanent(w) \/ UnsyncFails(w)

ReconcileStep ==
  \/ ReconcileUnsynced \/ ReconcileCompare \/ ReconcileInSync
  \/ ReconcileMissing \/ ReconcileCancelled \/ ReconcileActive
  \/ UnsyncDelete(Reconciler) \/ UnsyncMark(Reconciler)

Business == Start \/ Cancel \/ Complete \/ Reassign

Next ==
  \/ Business
  \/ \E p \in Publishers : PublisherNext(p) /\ UNCHANGED calendarVars
  \/ \E w \in Workers : WorkerStep(w) \/ WorkerFault(w)
  \/ ReconcileStep \/ ReconcileFails
  \/ RetryRecord \/ DeletedByHand

Spec == Init /\ [][Next]_vars

(* Beat and the worker pool keep running: a publisher or a worker that can  *)
(* take a step takes it.                                                    *)
Fairness ==
  /\ \A p \in Publishers :
       WF_vars(PublisherStep(p) /\ UNCHANGED calendarVars)
  /\ \A w \in Workers : WF_vars(WorkerStep(w))

(* ... and administrators ask for reconciliation again and again.           *)
ReconciledSpec == Spec /\ Fairness /\ WF_vars(ReconcileStep)

------------------------------------------------------------------------------
(* Properties                                                               *)

TypeOK ==
  /\ OutboxTypeOK
  /\ appointment \in {"scheduled", "in_progress", "completed", "cancelled"}
  /\ record \in [status : RecordStatuses, id : Ids \cup {Nil}]
  /\ remote \subseteq Ids
  /\ trashed \subseteq Ids
  /\ work \in [Workers \cup {Reconciler} -> Work]

(* However often its event is deleted, an appointment that stands is shown  *)
(* in the calendar again, and stays shown once the faults have stopped and  *)
(* while reconciliation goes on; unless the event of its record was         *)
(* cancelled in the calendar itself, and is shown there as cancelled.       *)
Shown == record.status = "synced" /\ record.id \in remote

StandingIsShown ==
  <>[](appointment # "cancelled" /\ record.id \notin trashed) => <>[]Shown

(* A record that says processing is never left alone: a worker is syncing   *)
(* it, or the task that set it so is delivered again.                       *)
ProcessingIsOwned ==
  record.status = "processing" =>
    \/ \E w \in Workers : work[w].step \in SyncSteps \ {"insert"}
    \/ \E m \in Messages : m.task = "sync" /\ queue[m] > 0

------------------------------------------------------------------------------
(* The business side is that of module AppointmentStories                   *)

(* What the outbox has told of the appointment.                             *)
Told ==
  [status |-> appointment, staged |-> [i \in DOMAIN events |-> events[i].type]]

Story == INSTANCE AppointmentStories
           WITH Ids <- {1}, stories <- [a \in {1} |-> Told]

(* Nothing but the business side has a part in the story.                   *)
FollowsAStory == Story!Spec

(* The story goes on, by any step that stories have, and one event is       *)
(* staged; the worker pool has no part in it.                               *)
StoryGoesOn ==
  /\ Story!GoesOn(Told, Told')
  /\ Len(events) < MaxEvents
  /\ \E type \in EventTypes :
       events' = Append(events, [type |-> type, status |-> "pending"])
  /\ UNCHANGED <<batch, sent, queue, handed, faults, record, provider, work>>

------------------------------------------------------------------------------
(* Statements of the documentation that the code does not keep              *)

(* docs/adr/0004: duplicate calendar events are prevented even under        *)
(* arbitrary worker crashes.                                                *)
NoDuplicateEvents == \A a, b \in remote : a = b

==============================================================================
