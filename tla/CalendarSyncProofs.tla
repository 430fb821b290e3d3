-------------------------- MODULE CalendarSyncProofs --------------------------
(****************************************************************************)
(* What the outbox and the calendar tasks keep true whatever fails, for any *)
(* number of publishers, workers, events, messages and faults; and that the *)
(* business side they face is the one of AppointmentStories.                *)
(****************************************************************************)
EXTENDS CalendarSync, SequenceTheorems, TLAPS

USE OutboxAssumption, CalendarAssumption

------------------------------------------------------------------------------
(* Lemmas about the operators                                               *)

(* The outbox table: what its keys and rows are.                            *)
LEMMA EventRows ==
  ASSUME NEW table \in Seq(Event)
  PROVE  /\ Len(table) \in Nat
         /\ DOMAIN table = 1 .. Len(table)
         /\ \A i \in DOMAIN table : table[i] \in Event
BY LenProperties

(* A staged event leaves the others alone.                                  *)
LEMMA AppendEvent ==
  ASSUME NEW table \in Seq(Event), NEW e \in Event
  PROVE  /\ Append(table, e) \in Seq(Event)
         /\ DOMAIN Append(table, e) = DOMAIN table \cup {Len(table) + 1}
         /\ \A i \in DOMAIN table : Append(table, e)[i] = table[i]
         /\ Append(table, e)[Len(table) + 1] = e
<1>1. Len(table) \in Nat /\ DOMAIN table = 1 .. Len(table)
  BY EventRows
<1>2. /\ Append(table, e) \in Seq(Event)
      /\ Len(Append(table, e)) = Len(table) + 1
      /\ \A i \in 1 .. Len(table) : Append(table, e)[i] = table[i]
      /\ Append(table, e)[Len(table) + 1] = e
  BY AppendProperties
<1>3. DOMAIN Append(table, e) = 1 .. Len(table) + 1
  BY <1>2, EventRows
<1> QED
  BY <1>1, <1>2, <1>3

(* Changing the status of one event.                                        *)
LEMMA SetEventFacts ==
  ASSUME NEW table \in Seq(Event), NEW i,
         NEW s \in {"pending", "processed", "failed"}
  PROVE  LET new == [table EXCEPT ![i].status = s] IN
         /\ new \in Seq(Event)
         /\ DOMAIN new = DOMAIN table
         /\ \A j \in DOMAIN table :
              /\ new[j].type = table[j].type
              /\ j # i => new[j] = table[j]
<1> DEFINE new == [table EXCEPT ![i].status = s]
<1>1. Len(table) \in Nat /\ DOMAIN table = 1 .. Len(table)
  BY EventRows
<1>2. new \in [1 .. Len(table) -> Event]
  BY <1>1, EventRows DEF Event
<1>3. new \in Seq(Event)
  BY <1>1, <1>2, SeqDef
<1>4. \A j \in DOMAIN table :
        new[j].type = table[j].type /\ (j # i => new[j] = table[j])
  BY <1>1, EventRows DEF Event
<1> QED
  BY <1>1, <1>2, <1>3, <1>4

(* There is at most one oldest id.                                          *)
LEMMA OldestIsOne ==
  ASSUME NEW S, S \subseteq Nat, NEW i \in Oldest(S), NEW j \in Oldest(S)
  PROVE  i = j
BY DEF Oldest

(* The tasks of an event are tasks.                                         *)
LEMMA TasksOfType ==
  ASSUME NEW type \in EventTypes
  PROVE  /\ TasksOf(type) \in Seq(Tasks)
         /\ AllTasks(type) \subseteq Tasks
         /\ \A n \in 0 .. Len(TasksOf(type)) - 1 :
              FirstTasks(type, n) \subseteq Tasks
<1>1. TasksOf(type) \in Seq(Tasks)
  <2>1. /\ <<"sync", "confirm", "remind">> \in Seq(Tasks)
        /\ <<"followup">> \in Seq(Tasks)
        /\ <<"unsync">> \in Seq(Tasks)
        /\ <<>> \in Seq(Tasks)
    BY DEF Tasks
  <2> QED
    BY <2>1 DEF TasksOf, EventTypes
<1>2. /\ Len(TasksOf(type)) \in Nat
      /\ \A k \in 1 .. Len(TasksOf(type)) : TasksOf(type)[k] \in Tasks
  BY <1>1, LenProperties
<1> QED
  BY <1>1, <1>2 DEF AllTasks, FirstTasks

------------------------------------------------------------------------------
(* The outbox                                                               *)

(* What a publisher has sent, and not yet marked, is what the event on top  *)
(* of its batch calls for.                                                  *)
SentIsHandedOver ==
  \A p \in Publishers :
    sent[p] => \E i \in Oldest(batch[p]) :
                 /\ Known(TypeOf(i))
                 /\ {i} \X AllTasks(TypeOf(i)) \subseteq handed

OutboxInv == OutboxTypeOK /\ SentIsHandedOver /\ ProcessedWasHandedOver

(* The rows of the outbox in a state of the invariant.                      *)
LEMMA OutboxFacts ==
  ASSUME OutboxTypeOK
  PROVE  /\ DOMAIN events \subseteq Nat
         /\ \A i \in DOMAIN events : TypeOf(i) \in EventTypes
         /\ PendingIds \subseteq DOMAIN events
         /\ \A p \in Publishers : Oldest(batch[p]) \subseteq DOMAIN events
<1>1. events \in Seq(Event) /\ batch \in [Publishers -> SUBSET DOMAIN events]
  BY DEF OutboxTypeOK
<1>2. DOMAIN events \subseteq Nat /\ \A i \in DOMAIN events : events[i] \in Event
  BY <1>1, EventRows
<1>3. \A i \in DOMAIN events : TypeOf(i) \in EventTypes
  BY <1>2 DEF Event, TypeOf
<1> QED
  BY <1>1, <1>2, <1>3 DEF PendingIds, Oldest

LEMMA OutboxInitially == OutboxInit => OutboxInv
<1> SUFFICES ASSUME OutboxInit PROVE OutboxInv
  OBVIOUS
<1> DEFINE first == [type |-> "appointment.created", status |-> "pending"]
<1>1. events = <<first>> /\ first \in Event
  BY DEF OutboxInit, Event, EventTypes
<1>2. events \in Seq(Event) /\ DOMAIN events = {1} /\ events[1] = first
  BY <1>1
<1>3. OutboxTypeOK
  BY <1>2 DEF OutboxInit, OutboxTypeOK
<1>4. SentIsHandedOver
  BY DEF OutboxInit, SentIsHandedOver
<1>5. ProcessedWasHandedOver
  BY <1>2 DEF ProcessedWasHandedOver
<1> QED
  BY <1>3, <1>4, <1>5 DEF OutboxInv

(* Enqueuing keeps the queue a bag.                                         *)
LEMMA EnqueueTyped ==
  ASSUME queue \in [Messages -> Nat], NEW tasks, Enqueue(tasks)
  PROVE  queue' \in [Messages -> Nat]
BY DEF Enqueue

LEMMA StageKeepsOutbox ==
  ASSUME OutboxInv, NEW type \in EventTypes, Stage(type)
  PROVE  OutboxInv'
<1> DEFINE e == [type |-> type, status |-> "pending"]
<1>1. e \in Event /\ events \in Seq(Event) /\ events' = Append(events, e)
  BY DEF Event, OutboxInv, OutboxTypeOK, Stage
<1>2. /\ events' \in Seq(Event)
      /\ DOMAIN events' = DOMAIN events \cup {Len(events) + 1}
      /\ \A i \in DOMAIN events : events'[i] = events[i]
      /\ events'[Len(events) + 1] = e
  BY <1>1, AppendEvent
<1>3. OutboxTypeOK'
  BY <1>2 DEF OutboxInv, OutboxTypeOK, Stage
<1>4. SentIsHandedOver'
  BY <1>2, OutboxFacts DEF OutboxInv, SentIsHandedOver, Stage, TypeOf, OutboxTypeOK, Known
<1>5. ProcessedWasHandedOver'
  BY <1>2 DEF OutboxInv, ProcessedWasHandedOver, Stage, TypeOf
<1> QED
  BY <1>3, <1>4, <1>5 DEF OutboxInv

(* A publisher keeps the invariant, whatever the others do.                 *)
LEMMA PublisherKeepsOutbox ==
  ASSUME OutboxInv, NEW p \in Publishers, PublisherNext(p)
  PROVE  OutboxInv'
<1> USE DEF OutboxInv
<1>1. CASE Fetch(p)
  <2>1. OutboxTypeOK'
    BY <1>1, OutboxFacts DEF Fetch, OutboxTypeOK
  <2>2. ~ sent[p]
    BY <1>1 DEF Fetch, SentIsHandedOver, Oldest
  <2>3. SentIsHandedOver'
    BY <1>1, <2>2 DEF Fetch, SentIsHandedOver, OutboxTypeOK, TypeOf, Known
  <2>4. ProcessedWasHandedOver'
    BY <1>1 DEF Fetch, ProcessedWasHandedOver, TypeOf
  <2> QED
    BY <2>1, <2>3, <2>4
<1>2. CASE Dispatch(p)
  <2>1. PICK i \in Oldest(batch[p]) :
          Known(TypeOf(i)) /\ HandOver(i, AllTasks(TypeOf(i)))
    BY <1>2 DEF Dispatch
  <2>2. i \in DOMAIN events /\ TypeOf(i) \in EventTypes
    BY <2>1, OutboxFacts
  <2>3. {i} \X AllTasks(TypeOf(i)) \subseteq (DOMAIN events) \X Tasks
    BY <2>2, TasksOfType
  <2>4. handed' = handed \cup ({i} \X AllTasks(TypeOf(i)))
    BY <2>1 DEF HandOver
  <2>5. queue' \in [Messages -> Nat]
    BY <2>1, EnqueueTyped DEF HandOver, OutboxTypeOK
  <2>6. OutboxTypeOK'
    BY <1>2, <2>3, <2>4, <2>5 DEF Dispatch, OutboxTypeOK
  <2>7. SentIsHandedOver'
    BY <1>2, <2>1, <2>4 DEF Dispatch, SentIsHandedOver, OutboxTypeOK, TypeOf, Known
  <2>8. ProcessedWasHandedOver'
    BY <1>2, <2>4 DEF Dispatch, ProcessedWasHandedOver, TypeOf
  <2> QED
    BY <2>6, <2>7, <2>8
<1>3. CASE MarkProcessed(p)
  <2>1. PICK i \in Oldest(batch[p]) : SetEvent(i, "processed") /\ Leave(p, i)
    BY <1>3 DEF MarkProcessed
  <2>2. PICK j \in Oldest(batch[p]) : {j} \X AllTasks(TypeOf(j)) \subseteq handed
    BY <1>3 DEF MarkProcessed, SentIsHandedOver
  <2>3. i = j
    BY OldestIsOne, OutboxFacts DEF OutboxTypeOK
  <2>4. /\ events' \in Seq(Event)
        /\ DOMAIN events' = DOMAIN events
        /\ \A k \in DOMAIN events :
             TypeOf(k)' = TypeOf(k) /\ (k # i => events'[k] = events[k])
    BY <2>1, SetEventFacts DEF SetEvent, OutboxTypeOK, TypeOf
  <2>5. OutboxTypeOK'
    BY <1>3, <2>1, <2>4 DEF MarkProcessed, Leave, OutboxTypeOK
  <2>6. SentIsHandedOver'
    BY <1>3, <2>1, <2>4, OutboxFacts
    DEF MarkProcessed, Leave, SentIsHandedOver, OutboxTypeOK, Known
  <2>7. ProcessedWasHandedOver'
    BY <1>3, <2>2, <2>3, <2>4 DEF MarkProcessed, ProcessedWasHandedOver
  <2> QED
    BY <2>5, <2>6, <2>7
<1>4. CASE MarkFailed(p)
  <2>1. PICK i \in Oldest(batch[p]) :
          ~ Known(TypeOf(i)) /\ SetEvent(i, "failed") /\ Leave(p, i)
    BY <1>4 DEF MarkFailed
  <2>2. ~ sent[p]
    BY <2>1, OldestIsOne, OutboxFacts DEF SentIsHandedOver, OutboxTypeOK
  <2>3. /\ events' \in Seq(Event)
        /\ DOMAIN events' = DOMAIN events
        /\ \A k \in DOMAIN events :
             TypeOf(k)' = TypeOf(k) /\ (k # i => events'[k] = events[k])
    BY <2>1, SetEventFacts DEF SetEvent, OutboxTypeOK, TypeOf
  <2>4. i \in DOMAIN events /\ events'[i].status = "failed"
    BY <2>1, OutboxFacts, EventRows DEF SetEvent, OutboxTypeOK, Event
  <2>5. OutboxTypeOK'
    BY <1>4, <2>1, <2>3 DEF MarkFailed, Leave, OutboxTypeOK
  <2>6. SentIsHandedOver'
    BY <1>4, <2>1, <2>2, <2>3, OutboxFacts
    DEF MarkFailed, Leave, SentIsHandedOver, OutboxTypeOK, Known
  <2>7. ProcessedWasHandedOver'
    BY <1>4, <2>3, <2>4 DEF MarkFailed, ProcessedWasHandedOver
  <2> QED
    BY <2>5, <2>6, <2>7
<1>5. CASE BrokerFails(p)
  <2>a. PICK i \in Oldest(batch[p]) :
          /\ \E n \in 0 .. Len(TasksOf(TypeOf(i))) - 1 :
               HandOver(i, FirstTasks(TypeOf(i), n))
          /\ Leave(p, i)
    BY <1>5 DEF BrokerFails
  <2>1. PICK n \in 0 .. Len(TasksOf(TypeOf(i))) - 1 :
          HandOver(i, FirstTasks(TypeOf(i), n)) /\ Leave(p, i)
    BY <2>a
  <2>2. i \in DOMAIN events /\ TypeOf(i) \in EventTypes
    BY <2>1, OutboxFacts
  <2>3. {i} \X FirstTasks(TypeOf(i), n) \subseteq (DOMAIN events) \X Tasks
    BY <2>1, <2>2, TasksOfType
  <2>4. handed' = handed \cup ({i} \X FirstTasks(TypeOf(i), n))
    BY <2>1 DEF HandOver
  <2>5. queue' \in [Messages -> Nat]
    BY <2>1, EnqueueTyped DEF HandOver, OutboxTypeOK
  <2>6. OutboxTypeOK'
    BY <1>5, <2>1, <2>3, <2>4, <2>5 DEF BrokerFails, Leave, Fault, OutboxTypeOK
  <2>7. SentIsHandedOver'
    BY <1>5, <2>1, <2>4
    DEF BrokerFails, Leave, SentIsHandedOver, OutboxTypeOK, TypeOf, Known
  <2>8. ProcessedWasHandedOver'
    BY <1>5, <2>4 DEF BrokerFails, ProcessedWasHandedOver, TypeOf
  <2> QED
    BY <2>6, <2>7, <2>8
<1>6. CASE PublisherCrash(p)
  <2>1. OutboxTypeOK'
    BY <1>6 DEF PublisherCrash, Fault, OutboxTypeOK
  <2>2. SentIsHandedOver'
    BY <1>6 DEF PublisherCrash, SentIsHandedOver, OutboxTypeOK, TypeOf, Known
  <2>3. ProcessedWasHandedOver'
    BY <1>6 DEF PublisherCrash, ProcessedWasHandedOver, TypeOf
  <2> QED
    BY <2>1, <2>2, <2>3
<1> QED
  BY <1>1, <1>2, <1>3, <1>4, <1>5, <1>6 DEF PublisherNext, PublisherStep

(* Steps of the workers and the administrators.                             *)
LEMMA OthersKeepOutbox ==
  ASSUME OutboxInv, UNCHANGED <<events, batch, sent, handed>>,
         queue' \in [Messages -> Nat], faults' \in 0 .. MaxFaults
  PROVE  OutboxInv'
<1>1. OutboxTypeOK'
  BY DEF OutboxInv, OutboxTypeOK
<1>2. SentIsHandedOver' /\ ProcessedWasHandedOver'
  BY DEF OutboxInv, SentIsHandedOver, ProcessedWasHandedOver, TypeOf, Known
<1> QED
  BY <1>1, <1>2 DEF OutboxInv

------------------------------------------------------------------------------
(* The calendar tasks                                                       *)

CalendarTypeOK ==
  /\ appointment \in {"scheduled", "in_progress", "completed", "cancelled"}
  /\ record \in [status : RecordStatuses, id : Ids \cup {Nil}]
  /\ remote \subseteq Ids
  /\ trashed \subseteq Ids
  /\ work \in [Workers \cup {Reconciler} -> Work]

(* A worker in a step of a sync holds the message of a sync.                *)
SyncStepsAreOfSyncs ==
  \A w \in Workers : work[w].step \in SyncSteps => work[w].task = "sync"

CalendarInv == CalendarTypeOK /\ SyncStepsAreOfSyncs /\ ProcessingIsOwned

Inv == OutboxInv /\ CalendarInv

LEMMA InvIsTyped == Inv => TypeOK /\ queue \in [Messages -> Nat] /\ faults \in 0 .. MaxFaults
BY DEF Inv, OutboxInv, CalendarInv, CalendarTypeOK, TypeOK, OutboxTypeOK

LEMMA IdleIsWork == Idle \in Work /\ Idle.step = "idle"
BY DEF Idle, Work, CalendarTasks, Ids, Nil

LEMMA PutFacts ==
  ASSUME queue \in [Messages -> Nat], NEW m \in Messages, Put(m)
  PROVE  /\ queue' \in [Messages -> Nat]
         /\ queue'[m] > 0
         /\ \A n \in Messages : queue[n] > 0 => queue'[n] > 0
BY DEF Put

LEMMA MessagesOf ==
  /\ Fresh("sync") \in Messages
  /\ \A v \in Work : [task |-> v.task, retries |-> v.retries] \in Messages
  /\ \A v \in Work : v.retries < MaxRetries =>
       [task |-> "sync", retries |-> v.retries + 1] \in Messages
BY DEF Fresh, Messages, Work, CalendarTasks

(* An owner stays one as long as its work and the queue only grow.          *)
LEMMA StillOwned ==
  ASSUME ProcessingIsOwned, UNCHANGED <<record, work>>,
         \A n \in Messages : queue[n] > 0 => queue'[n] > 0
  PROVE  ProcessingIsOwned'
BY DEF ProcessingIsOwned

LEMMA EnqueueSyncFacts ==
  ASSUME queue \in [Messages -> Nat], faults \in 0 .. MaxFaults, EnqueueSync
  PROVE  /\ queue' \in [Messages -> Nat]
         /\ faults' \in 0 .. MaxFaults
         /\ \A n \in Messages : queue[n] > 0 => queue'[n] > 0
BY PutFacts, MessagesOf DEF EnqueueSync, Fault

LEMMA CalendarInitially == Init => CalendarInv
<1> SUFFICES ASSUME Init PROVE CalendarInv
  OBVIOUS
<1>1. CalendarTypeOK
  BY IdleIsWork DEF Init, CalendarTypeOK, RecordStatuses, Nil
<1>2. SyncStepsAreOfSyncs /\ ProcessingIsOwned
  BY DEF Init, SyncStepsAreOfSyncs, ProcessingIsOwned, Idle, SyncSteps
<1> QED
  BY <1>1, <1>2 DEF CalendarInv

(* The business transactions and the publishers only stage and enqueue.     *)
LEMMA BusinessKeepsInv ==
  ASSUME Inv, Business
  PROVE  Inv'
<1>1. PICK type \in EventTypes : Stage(type)
  BY DEF Business, Start, Cancel, Complete, Reassign, EventTypes
<1>2. OutboxInv'
  BY <1>1, StageKeepsOutbox DEF Inv
<1>3. CalendarTypeOK' /\ SyncStepsAreOfSyncs'
  BY DEF Inv, CalendarInv, CalendarTypeOK, SyncStepsAreOfSyncs, Business,
         Start, Cancel, Complete, Reassign, provider, calendarVars
<1>4. ProcessingIsOwned'
  BY <1>1 DEF Inv, CalendarInv, ProcessingIsOwned, Business, Stage,
         Start, Cancel, Complete, Reassign, provider, calendarVars
<1> QED
  BY <1>2, <1>3, <1>4 DEF Inv, CalendarInv

LEMMA PublisherKeepsInv ==
  ASSUME Inv, NEW p \in Publishers, PublisherNext(p), UNCHANGED calendarVars
  PROVE  Inv'
<1>1. OutboxInv'
  BY PublisherKeepsOutbox DEF Inv
<1>2. CalendarTypeOK' /\ SyncStepsAreOfSyncs'
  BY DEF Inv, CalendarInv, CalendarTypeOK, SyncStepsAreOfSyncs, calendarVars, provider
<1>3. \A n \in Messages : queue[n] > 0 => queue'[n] > 0
  BY InvIsTyped DEF PublisherNext, PublisherStep, Fetch, Dispatch, MarkProcessed,
       MarkFailed, BrokerFails, PublisherCrash, HandOver, Enqueue
<1>4. ProcessingIsOwned'
  BY <1>3, StillOwned DEF Inv, CalendarInv, calendarVars
<1> QED
  BY <1>1, <1>2, <1>4 DEF Inv, CalendarInv

Actors == Workers \cup {Reconciler}

OwnerSteps == SyncSteps \ {"insert"}

(* The work of one actor is replaced.                                       *)
Becomes(w, x) == work' = [work EXCEPT ![w] = x]

LEMMA BecomesTyped ==
  ASSUME CalendarTypeOK, SyncStepsAreOfSyncs, NEW w \in Actors,
         NEW x \in Work, Becomes(w, x),
         x.step \in SyncSteps => x.task = "sync",
         UNCHANGED appointment,
         record' \in [status : RecordStatuses, id : Ids \cup {Nil}],
         remote' \subseteq Ids, trashed' \subseteq Ids
  PROVE  CalendarTypeOK' /\ SyncStepsAreOfSyncs'
BY DEF CalendarTypeOK, SyncStepsAreOfSyncs, Becomes, Actors

(* The owner of a processing record is not the actor that moves, or the     *)
(* actor that moves becomes one.                                            *)
LEMMA BecomesOwned ==
  ASSUME CalendarTypeOK, ProcessingIsOwned, NEW w \in Actors, NEW x \in Work,
         Becomes(w, x),
         \/ record'.status # "processing"
         \/ w \in Workers /\ x.step \in OwnerSteps
         \/ /\ record'.status = record.status
            /\ ~ (w \in Workers /\ work[w].step \in OwnerSteps)
            /\ \A m \in Messages :
                 m.task = "sync" /\ queue[m] > 0 => queue'[m] > 0
         \/ \E m \in Messages : m.task = "sync" /\ queue'[m] > 0
  PROVE  ProcessingIsOwned'
<1>1. CASE record'.status # "processing"
  BY <1>1 DEF ProcessingIsOwned
<1>2. CASE w \in Workers /\ x.step \in OwnerSteps
  BY <1>2 DEF ProcessingIsOwned, CalendarTypeOK, Becomes, OwnerSteps
<1>3. CASE /\ record'.status = record.status
           /\ ~ (w \in Workers /\ work[w].step \in OwnerSteps)
           /\ \A m \in Messages :
                m.task = "sync" /\ queue[m] > 0 => queue'[m] > 0
  BY <1>3 DEF ProcessingIsOwned, CalendarTypeOK, Becomes, OwnerSteps
<1>4. CASE \E m \in Messages : m.task = "sync" /\ queue'[m] > 0
  BY <1>4 DEF ProcessingIsOwned
<1> QED
  BY <1>1, <1>2, <1>3, <1>4

(* One message less.                                                        *)
LEMMA QueueTaken ==
  ASSUME queue \in [Messages -> Nat], NEW m \in Messages, queue[m] > 0,
         queue' = [queue EXCEPT ![m] = @ - 1]
  PROVE  /\ queue' \in [Messages -> Nat]
         /\ \A n \in Messages : n # m /\ queue[n] > 0 => queue'[n] > 0
<1>1. queue[m] \in Nat
  OBVIOUS
<1>2. \A k \in Nat : k > 0 => k - 1 \in Nat
  OBVIOUS
<1>3. queue[m] - 1 \in Nat
  BY <1>1, <1>2
<1> QED
  BY <1>3

(* Taking a message.                                                        *)
LEMMA TakeFacts ==
  ASSUME Inv, NEW w \in Workers, NEW m \in Messages,
         NEW step \in {"idle", "claim", "delete", "delete again"},
         step = "claim" => m.task = "sync",
         NEW id \in Ids \cup {Nil}, Take(w, m, step, id)
  PROVE  /\ OutboxInv'
         /\ work[w].step = "idle"
         /\ \A n \in Messages : n # m /\ queue[n] > 0 => queue'[n] > 0
         /\ \E x \in Work :
              /\ Becomes(w, x)
              /\ x.step = step
              /\ x.step \in SyncSteps => x.task = "sync"
<1> DEFINE x == IF step = "idle" THEN Idle ELSE
                  [step |-> step, task |-> m.task, retries |-> m.retries,
                   id |-> id]
<1>1. /\ queue \in [Messages -> Nat] /\ queue[m] > 0
      /\ queue' = [queue EXCEPT ![m] = @ - 1]
  BY InvIsTyped DEF Take
<1>2. /\ queue' \in [Messages -> Nat]
      /\ \A n \in Messages : n # m /\ queue[n] > 0 => queue'[n] > 0
  BY <1>1, QueueTaken
<1>3. OutboxInv'
  BY <1>2, OthersKeepOutbox, InvIsTyped DEF Inv, Take
<1>4. x \in Work /\ x.step = step
  BY IdleIsWork DEF Work, Messages, SyncSteps, UnsyncSteps
<1>5. x.step \in SyncSteps => x.task = "sync"
  BY <1>4 DEF SyncSteps
<1>6. Becomes(w, x)
  BY DEF Take, Becomes
<1> QED
  BY <1>2, <1>3, <1>4, <1>5, <1>6 DEF Take, At

(* The statuses a handler writes are statuses of a record.                  *)
LEMMA SetRecordTyped ==
  ASSUME CalendarTypeOK, NEW status \in RecordStatuses, SetRecord(status)
  PROVE  /\ record' \in [status : RecordStatuses, id : Ids \cup {Nil}]
         /\ record'.status = status
BY DEF CalendarTypeOK, SetRecord

LEMMA SyncReadKeepsInv ==
  ASSUME Inv, NEW w \in Workers, SyncRead(w)
  PROVE  Inv'
<1> DEFINE step == IF appointment = "cancelled" THEN "idle" ELSE "claim"
<1>1. PICK m \in Messages : m.task = "sync" /\ Take(w, m, step, Nil)
  BY DEF SyncRead
<1>2. /\ OutboxInv'
      /\ work[w].step = "idle"
      /\ \E x \in Work :
           /\ Becomes(w, x)
           /\ x.step = step
           /\ x.step \in SyncSteps => x.task = "sync"
  BY <1>1, TakeFacts DEF Nil
<1>3. PICK x \in Work :
           /\ Becomes(w, x)
           /\ x.step = step
           /\ x.step \in SyncSteps => x.task = "sync"
  BY <1>2
<1>4. /\ record' \in [status : RecordStatuses, id : Ids \cup {Nil}]
      /\ record'.status # "processing" \/ x.step \in OwnerSteps
  <2>1. CASE appointment = "cancelled" /\ record.status # "none"
    BY <2>1, SetRecordTyped DEF SyncRead, Inv, CalendarInv, RecordStatuses
  <2>2. CASE appointment = "cancelled" /\ record.status = "none"
    BY <2>2 DEF SyncRead, Inv, CalendarInv, CalendarTypeOK
  <2>3. CASE appointment # "cancelled"
    BY <2>3, <1>3 DEF SyncRead, Inv, CalendarInv, CalendarTypeOK, OwnerSteps, SyncSteps
  <2> QED
    BY <2>1, <2>2, <2>3
<1>5. CalendarTypeOK' /\ SyncStepsAreOfSyncs'
  BY <1>3, <1>4, BecomesTyped DEF SyncRead, Inv, CalendarInv, CalendarTypeOK, Actors, provider
<1>6. ProcessingIsOwned'
  BY <1>3, <1>4, BecomesOwned DEF Inv, CalendarInv, Actors
<1> QED
  BY <1>2, <1>5, <1>6 DEF Inv, CalendarInv

(* An actor that goes on keeps its message; one that ends is idle.          *)
LEMMA MoveFacts ==
  ASSUME CalendarTypeOK, NEW w \in Actors,
         NEW step \in {"idle"} \cup SyncSteps \cup UnsyncSteps \cup ReconcileSteps,
         NEW id \in Ids \cup {Nil}
  PROVE  /\ Go(w, step) => \E x \in Work :
              Becomes(w, x) /\ x.step = step /\ x.task = work[w].task
         /\ GoWith(w, step, id) => \E x \in Work :
              Becomes(w, x) /\ x.step = step /\ x.task = work[w].task
         /\ End(w) => \E x \in Work : Becomes(w, x) /\ x.step = "idle"
<1>1. work[w] \in Work
  BY DEF CalendarTypeOK, Actors
<1> DEFINE x == [work[w] EXCEPT !.step = step]
           y == [work[w] EXCEPT !.step = step, !.id = id]
<1>2. /\ x \in Work /\ x.step = step /\ x.task = work[w].task
      /\ y \in Work /\ y.step = step /\ y.task = work[w].task
  BY <1>1 DEF Work
<1>3. /\ Go(w, step) => Becomes(w, x)
      /\ GoWith(w, step, id) => Becomes(w, y)
      /\ End(w) => Becomes(w, Idle)
  BY DEF Go, GoWith, End, Becomes
<1> QED
  BY <1>2, <1>3, IdleIsWork

(* A step that leaves the queue alone and the record unprocessed, or makes  *)
(* its worker an owner.                                                     *)
LEMMA QuietStepKeepsInv ==
  ASSUME Inv, NEW w \in Actors, NEW x \in Work, Becomes(w, x),
         x.step \in SyncSteps => x.task = "sync",
         UNCHANGED <<events, batch, sent, handed, queue, appointment>>,
         faults' \in 0 .. MaxFaults,
         record' \in [status : RecordStatuses, id : Ids \cup {Nil}],
         remote' \subseteq Ids, trashed' \subseteq Ids,
         \/ record'.status # "processing"
         \/ w \in Workers /\ x.step \in OwnerSteps
         \/ /\ record'.status = record.status
            /\ ~ (w \in Workers /\ work[w].step \in OwnerSteps)
  PROVE  Inv'
<1>1. OutboxInv'
  BY OthersKeepOutbox, InvIsTyped DEF Inv
<1>2. CalendarTypeOK' /\ SyncStepsAreOfSyncs'
  BY BecomesTyped DEF Inv, CalendarInv
<1>3. ProcessingIsOwned'
  BY BecomesOwned DEF Inv, CalendarInv
<1> QED
  BY <1>1, <1>2, <1>3 DEF Inv, CalendarInv

LEMMA SyncClaimKeepsInv ==
  ASSUME Inv, NEW w \in Workers, SyncClaim(w)
  PROVE  Inv'
<1>1. /\ CalendarTypeOK /\ faults \in 0 .. MaxFaults /\ w \in Actors
      /\ work[w].task = "sync" /\ work[w].step = "claim"
  BY InvIsTyped DEF Inv, CalendarInv, SyncStepsAreOfSyncs, SyncClaim, At, SyncSteps, Actors
<1>2. UNCHANGED <<events, batch, sent, handed, queue, faults, appointment,
                  remote, trashed>>
  BY DEF SyncClaim, outboxVars, provider
<1>3. CASE record.status = "none" /\ Go(w, "insert") /\ UNCHANGED record
  <2>1. PICK x \in Work : Becomes(w, x) /\ x.step = "insert" /\ x.task = "sync"
    BY <1>1, <1>3, MoveFacts DEF SyncSteps, Nil
  <2> QED
    BY <1>1, <1>2, <1>3, <2>1, QuietStepKeepsInv DEF CalendarTypeOK
<1>4. CASE record.status = "synced" /\ End(w) /\ UNCHANGED record
  <2>1. PICK x \in Work : Becomes(w, x) /\ x.step = "idle"
    BY <1>1, <1>4, MoveFacts DEF SyncSteps, Nil
  <2> QED
    BY <1>1, <1>2, <1>4, <2>1, QuietStepKeepsInv DEF CalendarTypeOK, SyncSteps
<1>5. CASE SetRecord("processing") /\ Go(w, "list")
  <2>1. PICK x \in Work : Becomes(w, x) /\ x.step = "list" /\ x.task = "sync"
    BY <1>1, <1>5, MoveFacts DEF SyncSteps, Nil
  <2>2. record' \in [status : RecordStatuses, id : Ids \cup {Nil}]
    BY <1>1, <1>5, SetRecordTyped DEF RecordStatuses
  <2> QED
    BY <1>1, <1>2, <2>1, <2>2, QuietStepKeepsInv DEF CalendarTypeOK, SyncSteps, OwnerSteps
<1> QED
  BY <1>3, <1>4, <1>5 DEF SyncClaim

LEMMA SyncInsertKeepsInv ==
  ASSUME Inv, NEW w \in Workers, SyncInsert(w)
  PROVE  Inv'
<1>1. /\ CalendarTypeOK /\ faults \in 0 .. MaxFaults /\ w \in Actors
      /\ work[w].task = "sync" /\ work[w].step = "insert"
  BY InvIsTyped DEF Inv, CalendarInv, SyncStepsAreOfSyncs, SyncInsert, At, SyncSteps, Actors
<1>2. UNCHANGED <<events, batch, sent, handed, queue, faults, appointment,
                  remote, trashed>>
  BY DEF SyncInsert, outboxVars, provider
<1>3. CASE record.status = "none"
  <2>1. SetRecord("processing") /\ Go(w, "list")
    BY <1>3 DEF SyncInsert
  <2>2. PICK x \in Work : Becomes(w, x) /\ x.step = "list" /\ x.task = "sync"
    BY <1>1, <2>1, MoveFacts DEF SyncSteps, Nil
  <2>3. record' \in [status : RecordStatuses, id : Ids \cup {Nil}]
    BY <1>1, <2>1, SetRecordTyped DEF RecordStatuses
  <2> QED
    BY <1>1, <1>2, <2>2, <2>3, QuietStepKeepsInv DEF CalendarTypeOK, SyncSteps, OwnerSteps
<1>4. CASE record.status # "none"
  <2>1. End(w) /\ UNCHANGED record
    BY <1>4 DEF SyncInsert
  <2>2. PICK x \in Work : Becomes(w, x) /\ x.step = "idle"
    BY <1>1, <2>1, MoveFacts DEF SyncSteps, Nil
  <2> QED
    BY <1>1, <1>2, <2>1, <2>2, QuietStepKeepsInv DEF CalendarTypeOK, SyncSteps, OwnerSteps
<1> QED
  BY <1>3, <1>4

LEMMA SyncListKeepsInv ==
  ASSUME Inv, NEW w \in Workers, SyncList(w)
  PROVE  Inv'
<1>1. /\ CalendarTypeOK /\ faults \in 0 .. MaxFaults /\ w \in Actors
      /\ work[w].task = "sync"
  BY InvIsTyped DEF Inv, CalendarInv, SyncStepsAreOfSyncs, SyncList, At, SyncSteps, Actors
<1>2. UNCHANGED <<events, batch, sent, handed, queue, faults, appointment,
                  record, remote, trashed>>
  BY DEF SyncList, outboxVars, provider
<1>3. PICK x \in Work : /\ Becomes(w, x) /\ x.task = "sync"
                        /\ x.step \in {"mark", "post"}
  <2>1. CASE remote = {}
    BY <1>1, <2>1, MoveFacts DEF SyncList, SyncSteps, Nil
  <2>2. CASE remote # {}
    <3>1. PICK id \in remote : GoWith(w, "mark", id)
      BY <2>2 DEF SyncList
    <3>2. id \in Ids \cup {Nil}
      BY <1>1 DEF CalendarTypeOK
    <3> QED
      BY <1>1, <3>1, <3>2, MoveFacts DEF SyncSteps
  <2> QED
    BY <2>1, <2>2
<1> QED
  BY <1>1, <1>2, <1>3, QuietStepKeepsInv DEF CalendarTypeOK, SyncSteps, OwnerSteps

LEMMA SyncPostKeepsInv ==
  ASSUME Inv, NEW w \in Workers, SyncPost(w)
  PROVE  Inv'
<1>1. /\ CalendarTypeOK /\ faults \in 0 .. MaxFaults /\ w \in Actors
      /\ work[w].task = "sync"
  BY InvIsTyped DEF Inv, CalendarInv, SyncStepsAreOfSyncs, SyncPost, At, SyncSteps, Actors
<1>2. UNCHANGED <<events, batch, sent, handed, queue, faults, appointment, record>>
  BY DEF SyncPost, outboxVars
<1>3. PICK id \in NewIds : Insert(id) /\ GoWith(w, "mark", id)
  BY DEF SyncPost
<1>4. id \in Ids \cup {Nil} /\ remote' \subseteq Ids /\ trashed' \subseteq Ids
  BY <1>1, <1>3 DEF NewIds, Oldest, Insert, CalendarTypeOK
<1>5. PICK x \in Work : Becomes(w, x) /\ x.step = "mark" /\ x.task = "sync"
  BY <1>1, <1>3, <1>4, MoveFacts DEF SyncSteps
<1> QED
  BY <1>1, <1>2, <1>4, <1>5, QuietStepKeepsInv DEF CalendarTypeOK, SyncSteps, OwnerSteps

LEMMA SyncMarkKeepsInv ==
  ASSUME Inv, NEW w \in Workers, SyncMark(w)
  PROVE  Inv'
<1>1. CalendarTypeOK /\ faults \in 0 .. MaxFaults /\ w \in Actors
  BY InvIsTyped DEF Inv, CalendarInv, Actors
<1>2. UNCHANGED <<events, batch, sent, handed, queue, faults, appointment,
                  remote, trashed>>
  BY DEF SyncMark, outboxVars, provider
<1>3. work[w].id \in Ids \cup {Nil}
  BY <1>1 DEF CalendarTypeOK, Actors, Work
<1>4. /\ record' \in [status : RecordStatuses, id : Ids \cup {Nil}]
      /\ record'.status # "processing"
  BY <1>3 DEF SyncMark, RecordStatuses
<1>5. PICK x \in Work : Becomes(w, x) /\ x.step = "idle"
  BY <1>1, MoveFacts DEF SyncMark, Nil
<1> QED
  BY <1>1, <1>2, <1>4, <1>5, QuietStepKeepsInv DEF CalendarTypeOK, SyncSteps

(* The two ways a sync fails.                                               *)
LEMMA SyncFailureKeepsInv ==
  ASSUME Inv, NEW w \in Workers, SyncTransient(w) \/ SyncPermanent(w)
  PROVE  Inv'
<1>1. /\ CalendarTypeOK /\ faults' \in 0 .. MaxFaults /\ w \in Actors
      /\ queue \in [Messages -> Nat] /\ work[w] \in Work
  BY InvIsTyped
  DEF Inv, CalendarInv, SyncTransient, SyncPermanent, Fault, Actors, CalendarTypeOK
<1>2. UNCHANGED <<events, batch, sent, handed, appointment>>
  BY DEF SyncTransient, SyncPermanent
<1>3. /\ record' \in [status : RecordStatuses, id : Ids \cup {Nil}]
      /\ record'.status = "failed"
  BY <1>1, SetRecordTyped DEF SyncTransient, SyncPermanent, RecordStatuses
<1>4. PICK x \in Work : Becomes(w, x) /\ x.step = "idle"
  BY <1>1, MoveFacts DEF SyncTransient, SyncPermanent, Nil
<1>5. queue' \in [Messages -> Nat]
  BY <1>1, PutFacts, MessagesOf DEF SyncTransient, SyncPermanent
<1>6. remote' \subseteq Ids /\ trashed' \subseteq Ids
  BY <1>1 DEF SyncTransient, SyncPermanent, Insert, NewIds, Oldest, provider,
       CalendarTypeOK
<1>7. OutboxInv'
  BY <1>1, <1>2, <1>5, OthersKeepOutbox DEF Inv
<1>8. CalendarTypeOK' /\ SyncStepsAreOfSyncs'
  BY <1>1, <1>2, <1>3, <1>4, <1>6, BecomesTyped DEF Inv, CalendarInv, SyncSteps
<1>9. ProcessingIsOwned'
  BY <1>3 DEF ProcessingIsOwned
<1> QED
  BY <1>7, <1>8, <1>9 DEF Inv, CalendarInv

(* The message of a worker that dies is delivered again.                    *)
LEMMA WorkerCrashKeepsInv ==
  ASSUME Inv, NEW w \in Workers, WorkerCrash(w)
  PROVE  Inv'
<1>1. /\ CalendarTypeOK /\ faults' \in 0 .. MaxFaults /\ w \in Actors
      /\ queue \in [Messages -> Nat] /\ work[w] \in Work
  BY InvIsTyped DEF Inv, CalendarInv, WorkerCrash, Fault, Actors, CalendarTypeOK
<1>2. UNCHANGED <<events, batch, sent, handed, appointment, record, remote,
                  trashed>>
  BY DEF WorkerCrash, provider
<1>3. /\ MessageOf(w) \in Messages
      /\ queue' \in [Messages -> Nat] /\ queue'[MessageOf(w)] > 0
      /\ \A n \in Messages : queue[n] > 0 => queue'[n] > 0
  BY <1>1, PutFacts, MessagesOf DEF WorkerCrash, MessageOf
<1>4. PICK x \in Work : Becomes(w, x) /\ x.step = "idle"
  BY <1>1, MoveFacts DEF WorkerCrash, Nil
<1>5. OutboxInv'
  BY <1>1, <1>2, <1>3, OthersKeepOutbox DEF Inv
<1>6. CalendarTypeOK' /\ SyncStepsAreOfSyncs'
  BY <1>1, <1>2, <1>4, BecomesTyped DEF Inv, CalendarInv, CalendarTypeOK, SyncSteps
<1>7. ProcessingIsOwned'
  <2>1. CASE work[w].step \in OwnerSteps
    <3>1. MessageOf(w).task = "sync"
      BY <2>1 DEF Inv, CalendarInv, SyncStepsAreOfSyncs, MessageOf, OwnerSteps
    <3> QED
      BY <1>3, <3>1 DEF ProcessingIsOwned
  <2>2. CASE work[w].step \notin OwnerSteps
    BY <1>1, <1>2, <1>3, <1>4, <2>2, BecomesOwned DEF Inv, CalendarInv
  <2> QED
    BY <2>1, <2>2
<1> QED
  BY <1>5, <1>6, <1>7 DEF Inv, CalendarInv

LEMMA UnsyncLookKeepsInv ==
  ASSUME Inv, NEW w \in Workers, UnsyncLook(w)
  PROVE  Inv'
<1> DEFINE step == CASE record.id = Nil -> "idle"
                     [] record.status = "cancelled" -> "delete again"
                     [] OTHER -> "delete"
<1>1. PICK m \in Messages : m.task = "unsync" /\ Take(w, m, step, record.id)
  BY DEF UnsyncLook
<1>2. step \in {"idle", "delete", "delete again"}
  <2>1. CASE record.id = Nil
    BY <2>1
  <2>2. CASE record.id # Nil /\ record.status = "cancelled"
    BY <2>2
  <2>3. CASE record.id # Nil /\ record.status # "cancelled"
    BY <2>3
  <2> QED
    BY <2>1, <2>2, <2>3
<1>3. record.id \in Ids \cup {Nil} /\ w \in Actors
  BY DEF Inv, CalendarInv, CalendarTypeOK, Actors
<1>a. /\ step \in {"idle", "claim", "delete", "delete again"}
      /\ step = "claim" => m.task = "sync"
  BY <1>2
<1>b. Take(w, m, step, record.id)
  BY <1>1
<1> HIDE DEF step
<1>4. /\ OutboxInv'
      /\ work[w].step = "idle"
      /\ \A n \in Messages : n # m /\ queue[n] > 0 => queue'[n] > 0
      /\ \E x \in Work :
           /\ Becomes(w, x)
           /\ x.step = step
           /\ x.step \in SyncSteps => x.task = "sync"
  BY <1>a, <1>b, <1>3, TakeFacts
<1>5. PICK x \in Work :
           /\ Becomes(w, x)
           /\ x.step = step
           /\ x.step \in SyncSteps => x.task = "sync"
  BY <1>4
<1>6. UNCHANGED <<appointment, record, remote, trashed>>
  BY DEF UnsyncLook, provider
<1>7. CalendarTypeOK' /\ SyncStepsAreOfSyncs'
  BY <1>3, <1>5, <1>6, BecomesTyped DEF Inv, CalendarInv, CalendarTypeOK
<1>8. \A n \in Messages : n.task = "sync" /\ queue[n] > 0 => queue'[n] > 0
  BY <1>1, <1>4
<1>9. ProcessingIsOwned'
  BY <1>3, <1>4, <1>5, <1>6, <1>8, BecomesOwned
  DEF Inv, CalendarInv, OwnerSteps, SyncSteps
<1> QED
  BY <1>4, <1>7, <1>9 DEF Inv, CalendarInv

(* Deleting the event, by a worker or by the reconciliation.                *)
LEMMA UnsyncDeleteKeepsInv ==
  ASSUME Inv, NEW w \in Actors, UnsyncDelete(w)
  PROVE  Inv'
<1>1. /\ CalendarTypeOK /\ faults \in 0 .. MaxFaults
      /\ work[w].step \in {"delete", "delete again"}
  BY InvIsTyped DEF Inv, CalendarInv, UnsyncDelete, At
<1>2. UNCHANGED <<events, batch, sent, handed, queue, faults, appointment, record>>
  BY DEF UnsyncDelete, outboxVars
<1>3. remote' \subseteq Ids /\ trashed' \subseteq Ids
  BY <1>1 DEF UnsyncDelete, Delete, CalendarTypeOK
<1>4. PICK x \in Work : Becomes(w, x) /\ x.step \in {"unmark", "idle"}
  BY <1>1, MoveFacts DEF UnsyncDelete, UnsyncSteps, Nil
<1> QED
  BY <1>1, <1>2, <1>3, <1>4, QuietStepKeepsInv
  DEF CalendarTypeOK, SyncSteps, OwnerSteps

LEMMA UnsyncMarkKeepsInv ==
  ASSUME Inv, NEW w \in Actors, UnsyncMark(w)
  PROVE  Inv'
<1>1. CalendarTypeOK /\ faults \in 0 .. MaxFaults
  BY InvIsTyped DEF Inv, CalendarInv
<1>2. UNCHANGED <<events, batch, sent, handed, queue, faults, appointment,
                  remote, trashed>>
  BY DEF UnsyncMark, outboxVars, provider
<1>3. /\ record' \in [status : RecordStatuses, id : Ids \cup {Nil}]
      /\ record'.status = "cancelled"
  BY <1>1, SetRecordTyped DEF UnsyncMark, RecordStatuses
<1>4. PICK x \in Work : Becomes(w, x) /\ x.step = "idle"
  BY <1>1, MoveFacts DEF UnsyncMark, Nil
<1> QED
  BY <1>1, <1>2, <1>3, <1>4, QuietStepKeepsInv DEF CalendarTypeOK, SyncSteps

LEMMA UnsyncFailsKeepsInv ==
  ASSUME Inv, NEW w \in Workers, UnsyncFails(w)
  PROVE  Inv'
<1>1. /\ CalendarTypeOK /\ w \in Actors
      /\ work[w].step \in {"delete", "delete again"}
  BY DEF Inv, CalendarInv, UnsyncFails, At, Actors
<1>a. faults' \in 0 .. MaxFaults
  <2>1. Fault
    BY DEF UnsyncFails
  <2> QED
    BY <2>1, InvIsTyped DEF Fault
<1>2. UNCHANGED <<events, batch, sent, handed, queue, appointment, record,
                  remote, trashed>>
  BY DEF UnsyncFails, provider
<1>3. PICK x \in Work : Becomes(w, x) /\ x.step = "idle"
  BY <1>1, MoveFacts DEF UnsyncFails, Nil
<1> QED
  BY <1>1, <1>a, <1>2, <1>3, QuietStepKeepsInv DEF CalendarTypeOK, SyncSteps, OwnerSteps

------------------------------------------------------------------------------
(* Reconciliation and what is done by hand                                  *)

(* The work changes at most for the reconciliation, messages are only added *)
(* and no record becomes processing.                                        *)
LEMMA ByHandKeepsInv ==
  ASSUME Inv, UNCHANGED <<events, batch, sent, handed, appointment>>,
         \/ UNCHANGED work
         \/ \E x \in Work : Becomes(Reconciler, x),
         queue' \in [Messages -> Nat], faults' \in 0 .. MaxFaults,
         \A n \in Messages : queue[n] > 0 => queue'[n] > 0,
         record' \in [status : RecordStatuses, id : Ids \cup {Nil}],
         remote' \subseteq Ids, trashed' \subseteq Ids,
         record'.status # "processing" \/ record'.status = record.status
  PROVE  Inv'
<1>1. OutboxInv'
  BY OthersKeepOutbox DEF Inv
<1>2. work' \in [Workers \cup {Reconciler} -> Work]
  BY DEF Inv, CalendarInv, CalendarTypeOK, Becomes
<1>3. CalendarTypeOK'
  BY <1>2 DEF Inv, CalendarInv, CalendarTypeOK
<1>4. \A w \in Workers : work'[w] = work[w]
  BY DEF Inv, CalendarInv, CalendarTypeOK, Becomes
<1>5. SyncStepsAreOfSyncs' /\ ProcessingIsOwned'
  BY <1>4 DEF Inv, CalendarInv, SyncStepsAreOfSyncs, ProcessingIsOwned
<1> QED
  BY <1>1, <1>3, <1>5 DEF Inv, CalendarInv

(* What every step of the reconciliation starts from.                       *)
LEMMA ReconcilerFacts ==
  ASSUME Inv
  PROVE  /\ CalendarTypeOK /\ Reconciler \in Actors
         /\ queue \in [Messages -> Nat] /\ faults \in 0 .. MaxFaults
         /\ record \in [status : RecordStatuses, id : Ids \cup {Nil}]
         /\ remote \subseteq Ids /\ trashed \subseteq Ids
BY InvIsTyped DEF Inv, CalendarInv, CalendarTypeOK, Actors

LEMMA ReconcileKeepsInv ==
  ASSUME Inv, ReconcileStep \/ ReconcileFails
  PROVE  Inv'
<1> USE ReconcilerFacts
<1>1. CASE ReconcileUnsynced
  BY <1>1, EnqueueSyncFacts, ByHandKeepsInv DEF ReconcileUnsynced, provider
<1>2. CASE ReconcileCompare
  <2>1. \E x \in Work : Becomes(Reconciler, x)
    BY <1>2, MoveFacts DEF ReconcileCompare, CalendarTypeOK, ReconcileSteps
  <2> QED
    BY <1>2, <2>1, ByHandKeepsInv DEF ReconcileCompare, outboxVars, provider
<1>3. CASE ReconcileInSync
  <2>1. \E x \in Work : Becomes(Reconciler, x)
    BY <1>3, MoveFacts DEF ReconcileInSync, Nil
  <2> QED
    BY <1>3, <2>1, ByHandKeepsInv DEF ReconcileInSync, outboxVars, provider
<1>4. CASE ReconcileMissing
  <2>1. \E x \in Work : Becomes(Reconciler, x)
    BY <1>4, MoveFacts DEF ReconcileMissing, Nil
  <2>2. /\ record' \in [status : RecordStatuses, id : Ids \cup {Nil}]
        /\ record'.status = "failed"
    BY <1>4, SetRecordTyped DEF ReconcileMissing, RecordStatuses
  <2>3. /\ queue' \in [Messages -> Nat] /\ faults' \in 0 .. MaxFaults
        /\ \A n \in Messages : queue[n] > 0 => queue'[n] > 0
    BY <1>4, EnqueueSyncFacts DEF ReconcileMissing
  <2>4. UNCHANGED <<events, batch, sent, handed, appointment, remote, trashed>>
    BY <1>4 DEF ReconcileMissing, provider
  <2> QED
    BY <2>1, <2>2, <2>3, <2>4, ByHandKeepsInv
<1>5. CASE ReconcileCancelled
  <2>1. \E x \in Work : Becomes(Reconciler, x)
    BY <1>5, MoveFacts DEF ReconcileCancelled, Nil
  <2> QED
    BY <1>5, <2>1, EnqueueSyncFacts, ByHandKeepsInv DEF ReconcileCancelled, provider
<1>6. CASE ReconcileActive
  <2>1. \E x \in Work : Becomes(Reconciler, x)
    BY <1>6, MoveFacts DEF ReconcileActive, UnsyncSteps, Nil
  <2> QED
    BY <1>6, <2>1, ByHandKeepsInv DEF ReconcileActive, outboxVars, provider
<1>7. CASE UnsyncDelete(Reconciler) \/ UnsyncMark(Reconciler)
  BY <1>7, UnsyncDeleteKeepsInv, UnsyncMarkKeepsInv
<1>8. CASE ReconcileFails
  <2>1. \E x \in Work : Becomes(Reconciler, x)
    BY <1>8, MoveFacts DEF ReconcileFails, Nil
  <2>2. Fault
    BY <1>8 DEF ReconcileFails
  <2>3. faults' \in 0 .. MaxFaults
    BY <2>2 DEF Fault
  <2> QED
    BY <1>8, <2>1, <2>3, ByHandKeepsInv DEF ReconcileFails, provider
<1> QED
  BY <1>1, <1>2, <1>3, <1>4, <1>5, <1>6, <1>7, <1>8 DEF ReconcileStep

LEMMA RetryRecordKeepsInv ==
  ASSUME Inv, RetryRecord
  PROVE  Inv'
<1>1. /\ record' \in [status : RecordStatuses, id : Ids \cup {Nil}]
      /\ record'.status = "pending"
  BY ReconcilerFacts, SetRecordTyped DEF RetryRecord, RecordStatuses
<1>2. /\ queue' \in [Messages -> Nat]
      /\ \A n \in Messages : queue[n] > 0 => queue'[n] > 0
  BY ReconcilerFacts, PutFacts, MessagesOf DEF RetryRecord
<1>3. Fault
  BY DEF RetryRecord
<1>4. faults' \in 0 .. MaxFaults
  BY <1>3, ReconcilerFacts DEF Fault
<1>5. UNCHANGED <<events, batch, sent, handed, appointment, remote, trashed, work>>
  BY DEF RetryRecord, provider
<1> QED
  BY <1>1, <1>2, <1>4, <1>5, ReconcilerFacts, ByHandKeepsInv

LEMMA DeletedByHandKeepsInv ==
  ASSUME Inv, DeletedByHand
  PROVE  Inv'
<1>1. remote' \subseteq Ids /\ trashed' \subseteq Ids
  BY ReconcilerFacts DEF DeletedByHand
<1>2. Fault
  BY DEF DeletedByHand
<1>3. faults' \in 0 .. MaxFaults
  BY <1>2, ReconcilerFacts DEF Fault
<1>4. UNCHANGED <<events, batch, sent, queue, handed, appointment, record, work>>
  BY DEF DeletedByHand
<1> QED
  BY <1>1, <1>3, <1>4, ReconcilerFacts, ByHandKeepsInv

------------------------------------------------------------------------------
(* Theorems                                                                 *)

LEMMA StepKeepsInv == Inv /\ [Next]_vars => Inv'
<1> SUFFICES ASSUME Inv, [Next]_vars PROVE Inv'
  OBVIOUS
<1>1. CASE Business
  BY <1>1, BusinessKeepsInv
<1>2. CASE \E p \in Publishers : PublisherNext(p) /\ UNCHANGED calendarVars
  BY <1>2, PublisherKeepsInv
<1>3. ASSUME NEW w \in Workers, WorkerStep(w) \/ WorkerFault(w)
      PROVE  Inv'
  <2>1. w \in Actors
    BY DEF Actors
  <2> QED
    BY <1>3, <2>1, SyncReadKeepsInv, SyncClaimKeepsInv, SyncInsertKeepsInv,
       SyncListKeepsInv, SyncPostKeepsInv, SyncMarkKeepsInv,
       UnsyncLookKeepsInv, UnsyncDeleteKeepsInv, UnsyncMarkKeepsInv,
       WorkerCrashKeepsInv, SyncFailureKeepsInv, UnsyncFailsKeepsInv
    DEF WorkerStep, WorkerFault
<1>4. CASE ReconcileStep \/ ReconcileFails
  BY <1>4, ReconcileKeepsInv
<1>5. CASE RetryRecord \/ DeletedByHand
  BY <1>5, RetryRecordKeepsInv, DeletedByHandKeepsInv
<1>6. CASE UNCHANGED vars
  <2>1. UNCHANGED <<events, batch, sent, queue, handed, faults, appointment,
                    record, remote, trashed, work>>
    BY <1>6 DEF vars, outboxVars, calendarVars, provider
  <2> QED
    BY <2>1, ReconcilerFacts, ByHandKeepsInv
<1> QED
  BY <1>1, <1>2, <1>3, <1>4, <1>5, <1>6 DEF Next

LEMMA InvAlways == Spec => []Inv
<1>1. Init => Inv
  BY OutboxInitially, CalendarInitially DEF Init, Inv
<1> QED
  BY <1>1, StepKeepsInv, PTL DEF Spec

(* Every reachable state of the outbox and the calendar tasks is well       *)
(* typed.                                                                   *)
THEOREM TypeCorrect == Spec => []TypeOK
BY InvAlways, InvIsTyped, PTL

(* No task of a processed event is lost, whatever publishers, the broker    *)
(* and crashes do (publish_outbox_events).                                  *)
THEOREM NothingIsLost == Spec => []ProcessedWasHandedOver
<1>1. Inv => ProcessedWasHandedOver
  BY DEF Inv, OutboxInv
<1> QED
  BY <1>1, InvAlways, PTL

(* A record left in processing always has a task that will deal with it     *)
(* (sync_appointment_calendar, acknowledged late).                          *)
THEOREM ProcessingNeverAlone == Spec => []ProcessingIsOwned
<1>1. Inv => ProcessingIsOwned
  BY DEF Inv, CalendarInv
<1> QED
  BY <1>1, InvAlways, PTL

------------------------------------------------------------------------------
(* The story of the appointment                                             *)

Types(table) == [i \in DOMAIN table |-> table[i].type]

LEMMA TypesOfSeq ==
  ASSUME NEW table \in Seq(Event)
  PROVE  /\ Types(table) \in Seq(EventTypes)
         /\ Len(Types(table)) = Len(table)
<1>1. Len(table) \in Nat /\ Types(table) \in [1 .. Len(table) -> EventTypes]
  BY EventRows DEF Types, Event
<1>2. Types(table) \in Seq(EventTypes)
  BY <1>1, SeqDef
<1>3. Len(Types(table)) \in Nat /\ 1 .. Len(Types(table)) = 1 .. Len(table)
  BY <1>1, <1>2, LenProperties
<1> QED
  BY <1>1, <1>2, <1>3

(* A staged event is the next chapter.                                      *)
LEMMA TypesOfAppend ==
  ASSUME NEW table \in Seq(Event), NEW e \in Event
  PROVE  Types(Append(table, e)) = Append(Types(table), e.type)
<1> DEFINE new == Append(table, e)
           told == Append(Types(table), e.type)
<1>1. Len(table) \in Nat /\ DOMAIN table = 1 .. Len(table)
  BY EventRows
<1>2. /\ DOMAIN new = 1 .. Len(table) + 1
      /\ \A i \in 1 .. Len(table) : new[i] = table[i]
      /\ new[Len(table) + 1] = e
  BY <1>1, AppendEvent
<1>3. Types(table) \in Seq(EventTypes) /\ Len(Types(table)) = Len(table)
  BY TypesOfSeq
<1>4. e.type \in EventTypes
  BY DEF Event
<1>5. /\ told \in Seq(EventTypes)
      /\ Len(told) = Len(table) + 1
      /\ \A i \in 1 .. Len(table) : told[i] = Types(table)[i]
      /\ told[Len(table) + 1] = e.type
  BY <1>3, <1>4, AppendProperties
<1>6. told = [i \in 1 .. Len(table) + 1 |-> told[i]]
  BY <1>5, LenProperties
<1>7. \A i \in 1 .. Len(table) + 1 : told[i] = new[i].type
  BY <1>1, <1>2, <1>5 DEF Types
<1> QED
  BY <1>2, <1>6, <1>7 DEF Types

(* One event staged, of type and with a new status of the row, is one step  *)
(* of the story.                                                            *)
LEMMA StageTells ==
  ASSUME TypeOK, NEW type \in EventTypes,
         events' = Append(events, [type |-> type, status |-> "pending"])
  PROVE  Told' = Story!Tell(Told, appointment', type)
<1>1. events \in Seq(Event)
  BY DEF TypeOK, OutboxTypeOK
<1> DEFINE e == [type |-> type, status |-> "pending"]
<1>2. e \in Event /\ e.type = type
  BY DEF Event
<1>3. Types(Append(events, e)) = Append(Types(events), e.type)
  BY <1>1, <1>2, TypesOfAppend
<1> QED
  BY <1>2, <1>3 DEF Told, Types, Story!Tell

(* The last event told is the one staged.                                   *)
LEMMA LastTold ==
  ASSUME TypeOK, NEW type \in EventTypes, NEW e \in EventTypes, NEW status,
         events' = Append(events, [type |-> type, status |-> "pending"]),
         Told' = Story!Tell(Told, status, e)
  PROVE  type = e /\ appointment' = status
<1>1. Types(events) \in Seq(EventTypes)
  BY TypesOfSeq DEF TypeOK, OutboxTypeOK
<1>2. /\ Append(Types(events), type) = Append(Types(events), e)
      /\ appointment' = status
  BY StageTells DEF Told, Types, Story!Tell
<1>3. Len(Types(events)) \in Nat
  BY <1>1, LenProperties
<1>4. /\ Append(Types(events), type)[Len(Types(events)) + 1] = type
      /\ Append(Types(events), e)[Len(Types(events)) + 1] = e
  BY <1>1, AppendProperties
<1> QED
  BY <1>2, <1>4

(* The calendar and the outbox are ready for every story: in every typed    *)
(* state, what the business side may do (Lifecycle's transactions, as far   *)
(* as the worker pool sees them) is exactly a step of the story, as long as *)
(* the bound on events allows it.                                           *)
THEOREM EveryStoryIsFaced == TypeOK => (Business <=> StoryGoesOn)
<1> SUFFICES ASSUME TypeOK PROVE Business <=> StoryGoesOn
  OBVIOUS
<1> USE DEF Story!GoesOn, Story!Started, Story!Cancelled, Story!Completed, Story!Reassigned
<1>1. Told.status = appointment /\ Told.status # "none"
  BY DEF Told, TypeOK
<1>2. ASSUME Business PROVE StoryGoesOn
  <2>1. PICK type \in EventTypes :
          /\ Stage(type)
          /\ \/ Start /\ type = "appointment.started"
             \/ Cancel /\ type = "appointment.cancelled"
             \/ Complete /\ type = "appointment.completed"
             \/ Reassign /\ type = "appointment.reassigned"
    BY <1>2 DEF Business, Start, Cancel, Complete, Reassign, EventTypes
  <2>2. Told' = Story!Tell(Told, appointment', type)
    BY <2>1, StageTells DEF Stage
  <2>3. Story!GoesOn(Told, Told')
    BY <1>1, <2>1, <2>2 DEF Start, Cancel, Complete, Reassign, calendarVars
  <2> QED
    BY <2>1, <2>3 DEF StoryGoesOn, Stage, Start, Cancel, Complete, Reassign, calendarVars
<1>3. ASSUME StoryGoesOn PROVE Business
  <2>1. PICK type \in EventTypes :
          events' = Append(events, [type |-> type, status |-> "pending"])
    BY <1>3 DEF StoryGoesOn
  <2>2. Stage(type) /\ UNCHANGED <<record, provider, work>>
    BY <1>3, <2>1 DEF StoryGoesOn, Stage
  <2>3. CASE Story!Started(Told, Told')
    BY <1>1, <2>1, <2>2, <2>3, LastTold DEF EventTypes, Business, Start
  <2>4. CASE Story!Cancelled(Told, Told')
    BY <1>1, <2>1, <2>2, <2>4, LastTold DEF EventTypes, Business, Cancel
  <2>5. CASE Story!Completed(Told, Told')
    BY <1>1, <2>1, <2>2, <2>5, LastTold DEF EventTypes, Business, Complete
  <2>6. CASE Story!Reassigned(Told, Told')
    BY <1>1, <2>1, <2>2, <2>6, LastTold DEF EventTypes, Business, Reassign, calendarVars
  <2> QED
    BY <1>3, <2>3, <2>4, <2>5, <2>6 DEF StoryGoesOn
<1> QED
  BY <1>2, <1>3

(* Publishers change no type.                                               *)
LEMMA PublisherTellsNothing ==
  ASSUME TypeOK, NEW p \in Publishers, PublisherNext(p)
  PROVE  Types(events') = Types(events)
<1>1. events \in Seq(Event)
  BY DEF TypeOK, OutboxTypeOK
<1>2. \/ events' = events
      \/ \E i \in Nat : SetEvent(i, "processed") \/ SetEvent(i, "failed")
  <2>1. Oldest(batch[p]) \subseteq Nat
    BY OutboxFacts DEF TypeOK
  <2> QED
    BY <2>1 DEF PublisherNext, PublisherStep, Fetch, Dispatch, MarkProcessed, MarkFailed,
        BrokerFails, PublisherCrash
<1>3. ASSUME NEW i \in Nat, NEW s \in {"processed", "failed"}, SetEvent(i, s)
      PROVE  Types(events') = Types(events)
  BY <1>1, <1>3, SetEventFacts DEF SetEvent, Types
<1> QED
  BY <1>2, <1>3

(* Whatever publishers, workers, reconciliation and crashes do, nobody but  *)
(* the business side adds to the story of the appointment.                  *)
THEOREM OnlyBusinessTells == Spec => FollowsAStory
<1>1. Init => Story!Init
  <2> SUFFICES ASSUME Init PROVE Story!Init
    OBVIOUS
  <2>1. Types(events) = <<"appointment.created">>
    BY DEF Init, OutboxInit, Types
  <2>2. Told = Story!Begun
    BY <2>1 DEF Told, Types, Story!Begun, Story!Tell, Story!Untold, Init
  <2> QED
    BY <2>2 DEF Story!Init
<1>2. TypeOK /\ [Next]_vars => Story!Next \/ UNCHANGED Told
  <2> SUFFICES ASSUME TypeOK, [Next]_vars PROVE Story!Next \/ UNCHANGED Told
    OBVIOUS
  <2>1. CASE Business
    BY <2>1, EveryStoryIsFaced DEF StoryGoesOn, Story!Next, Story!Follows
  <2>2. CASE \E p \in Publishers : PublisherNext(p) /\ UNCHANGED calendarVars
    BY <2>2, PublisherTellsNothing DEF Told, Types, calendarVars
  <2>3. CASE \/ \E w \in Workers : WorkerStep(w) \/ WorkerFault(w)
             \/ ReconcileStep \/ ReconcileFails \/ RetryRecord \/ DeletedByHand
             \/ UNCHANGED vars
    <3>1. UNCHANGED <<appointment, events>>
      BY <2>3 DEF WorkerStep, WorkerFault, ReconcileStep, ReconcileFails, RetryRecord,
        DeletedByHand, vars, outboxVars, calendarVars, SyncRead, SyncClaim, SyncInsert,
        SyncList, SyncPost, SyncMark, UnsyncLook, UnsyncDelete, UnsyncMark, WorkerCrash,
        SyncTransient, SyncPermanent, UnsyncFails, ReconcileUnsynced, ReconcileCompare,
        ReconcileInSync, ReconcileMissing, ReconcileCancelled, ReconcileActive, Take
    <3> QED
      BY <3>1 DEF Told
  <2> QED
    BY <2>1, <2>2, <2>3 DEF Next
<1>3. UNCHANGED Told => Story!Next \/ UNCHANGED [a \in {1} |-> Told]
  OBVIOUS
<1> QED
  BY <1>1, <1>2, <1>3, TypeCorrect, PTL DEF Spec, FollowsAStory, Story!Spec

==============================================================================
