-------------------------------- MODULE Outbox --------------------------------
(****************************************************************************)
(* The transactional outbox: business transactions stage events, publishers *)
(* poll the events that are pending and hand their tasks to the message     *)
(* broker, which delivers every task at least once.                         *)
(*                                                                          *)
(* The events are those of one appointment: publishing an event neither     *)
(* reads nor changes the events of another one, and a failure goes on to    *)
(* the next event of the batch.  A batch is read without a lock, so two     *)
(* publishers (beat starts one every minute, whether or not the last has    *)
(* ended) may publish the same event.  The calendar tasks go to the queue   *)
(* of module CalendarSync; of the notification tasks only the fact that     *)
(* they were handed over is kept.  The limit of a batch is not reached.     *)
(****************************************************************************)
EXTENDS Integers, Sequences

CONSTANTS
  Publishers,    \* runs of publish_outbox_events
  MaxRetries,    \* max_retries of a task
  MaxEvents,     \* bound: events ever staged
  MaxFaults      \* bound: failures of the broker, workers and the provider

ASSUME OutboxAssumption ==
  MaxRetries \in Nat /\ MaxEvents \in Nat /\ MaxFaults \in Nat

VARIABLES
  events,        \* the outbox_events rows, in order of id
  batch,         \* per publisher, the ids it has read and not yet settled
  sent,          \* per publisher, whether the tasks of its oldest id are sent
  queue,         \* the bag of calendar messages, as a function to numbers
  handed,        \* history: the <<event id, task>> ever handed to the broker
  faults         \* failures so far

outboxVars == <<events, batch, sent, queue, handed, faults>>

------------------------------------------------------------------------------
EventTypes ==
  {"appointment.created", "appointment.started", "appointment.completed",
   "appointment.cancelled", "appointment.reassigned"}

Event == [type : EventTypes, status : {"pending", "processed", "failed"}]

Tasks == {"sync", "confirm", "remind", "followup", "unsync"}

(* The tasks of an event, in the order in which they are dispatched.        *)
TasksOf(type) ==
  CASE type = "appointment.created"   -> <<"sync", "confirm", "remind">>
    [] type = "appointment.completed" -> <<"followup">>
    [] type = "appointment.cancelled" -> <<"unsync">>
    [] OTHER                          -> <<>>

(* publish_outbox_events has no branch for the other two types.             *)
Known(type) == TasksOf(type) # <<>>

CalendarTasks == {"sync", "unsync"}

Messages == [task : CalendarTasks, retries : 0 .. MaxRetries]

Fresh(task) == [task |-> task, retries |-> 0]

FirstTasks(type, n) == {TasksOf(type)[k] : k \in 1 .. n}

AllTasks(type) == FirstTasks(type, Len(TasksOf(type)))

Enqueue(tasks) ==
  queue' = [m \in Messages |->
              IF m.retries = 0 /\ m.task \in tasks THEN queue[m] + 1
                                                   ELSE queue[m]]

(* Tasks of event i are handed to the broker.                               *)
HandOver(i, tasks) ==
  /\ Enqueue(tasks)
  /\ handed' = handed \cup ({i} \X tasks)

Fault == faults < MaxFaults /\ faults' = faults + 1

------------------------------------------------------------------------------
OutboxInit ==
  /\ events = <<[type |-> "appointment.created", status |-> "pending"]>>
  /\ batch = [p \in Publishers |-> {}]
  /\ sent = [p \in Publishers |-> FALSE]
  /\ queue = [m \in Messages |-> 0]
  /\ handed = {}
  /\ faults = 0

(* A business transaction stages an event.                                  *)
Stage(type) ==
  /\ Len(events) < MaxEvents
  /\ events' = Append(events, [type |-> type, status |-> "pending"])
  /\ UNCHANGED <<batch, sent, queue, handed, faults>>

PendingIds == {i \in DOMAIN events : events[i].status = "pending"}

(* Batches are read oldest first: the oldest ids of S, one or none.         *)
Oldest(S) == {i \in S : \A j \in S : i <= j}

TypeOf(i) == events[i].type

(* The pending events are read.                                             *)
Fetch(p) ==
  /\ batch[p] = {}
  /\ PendingIds # {}
  /\ batch' = [batch EXCEPT ![p] = PendingIds]
  /\ UNCHANGED <<events, sent, queue, handed, faults>>

(* The publisher has done with event i of its batch.                        *)
Leave(p, i) == batch' = [batch EXCEPT ![p] = @ \ {i}]

SetEvent(i, status) == events' = [events EXCEPT ![i].status = status]

(* Mutant of Dispatch: only the first task is dispatched.                   *)
DispatchFirst(p) ==
  /\ ~ sent[p]
  /\ \E i \in Oldest(batch[p]) :
       /\ Known(TypeOf(i))
       /\ HandOver(i, FirstTasks(TypeOf(i), 1))
  /\ sent' = [sent EXCEPT ![p] = TRUE]
  /\ UNCHANGED <<events, batch, faults>>

(* All tasks of the oldest event of the batch are dispatched ...            *)
Dispatch(p) ==
  /\ ~ sent[p]
  /\ \E i \in Oldest(batch[p]) :
       /\ Known(TypeOf(i))
       /\ HandOver(i, AllTasks(TypeOf(i)))
  /\ sent' = [sent EXCEPT ![p] = TRUE]
  /\ UNCHANGED <<events, batch, faults>>

(* ... and only then is it marked processed and committed.                  *)
MarkProcessed(p) ==
  /\ sent[p]
  /\ \E i \in Oldest(batch[p]) : SetEvent(i, "processed") /\ Leave(p, i)
  /\ sent' = [sent EXCEPT ![p] = FALSE]
  /\ UNCHANGED <<queue, handed, faults>>

(* Mutant of MarkFailed: an event of another type is passed over.           *)
PassOver(p) ==
  /\ \E i \in Oldest(batch[p]) : ~ Known(TypeOf(i)) /\ Leave(p, i)
  /\ UNCHANGED <<events, sent, queue, handed, faults>>

(* An event of another type is marked failed, for good.                     *)
MarkFailed(p) ==
  /\ \E i \in Oldest(batch[p]) :
       ~ Known(TypeOf(i)) /\ SetEvent(i, "failed") /\ Leave(p, i)
  /\ UNCHANGED <<sent, queue, handed, faults>>

(* The broker fails after some tasks were dispatched: the event stays as it *)
(* is and the next one is tried.                                            *)
BrokerFails(p) ==
  /\ ~ sent[p]
  /\ \E i \in Oldest(batch[p]) :
       /\ \E n \in 0 .. Len(TasksOf(TypeOf(i))) - 1 :
            HandOver(i, FirstTasks(TypeOf(i), n))
       /\ Leave(p, i)
  /\ Fault
  /\ UNCHANGED <<events, sent>>

(* The publisher dies; what it has dispatched stays dispatched.             *)
PublisherCrash(p) ==
  /\ batch[p] # {}
  /\ batch' = [batch EXCEPT ![p] = {}]
  /\ sent' = [sent EXCEPT ![p] = FALSE]
  /\ Fault
  /\ UNCHANGED <<events, queue, handed>>

PublisherStep(p) ==
  Fetch(p) \/ Dispatch(p) \/ MarkProcessed(p) \/ MarkFailed(p)

PublisherNext(p) == PublisherStep(p) \/ BrokerFails(p) \/ PublisherCrash(p)

------------------------------------------------------------------------------
OutboxTypeOK ==
  /\ events \in Seq(Event)
  /\ batch \in [Publishers -> SUBSET DOMAIN events]
  /\ sent \in [Publishers -> BOOLEAN]
  /\ queue \in [Messages -> Nat]
  /\ handed \subseteq (DOMAIN events) \X Tasks
  /\ faults \in 0 .. MaxFaults

(* No task is lost: whatever fails or crashes, an event is marked processed *)
(* only after every one of its tasks was handed to the broker.              *)
ProcessedWasHandedOver ==
  \A i \in DOMAIN events :
    events[i].status = "processed" =>
      {i} \X AllTasks(TypeOf(i)) \subseteq handed

(* Every event is settled in the end: published, or failed when its type is *)
(* not known to the publisher.                                              *)
EveryEventSettles ==
  \A i \in 1 .. MaxEvents :
    i \in PendingIds ~> i \in DOMAIN events /\ i \notin PendingIds

==============================================================================
