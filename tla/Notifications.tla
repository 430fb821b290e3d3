---------------------------- MODULE Notifications -----------------------------
(****************************************************************************)
(* The notifications of one appointment: the worker tasks that confirm it   *)
(* by email, remind the customer of it and follow it up, the rows of        *)
(* notification_jobs that are to keep them from doing so twice, and the     *)
(* outbox events that cause them.                                           *)
(*                                                                          *)
(* A job is known by its type and the time it is scheduled for.  The broker *)
(* delivers a task at least once, and the publisher of module Outbox may    *)
(* dispatch it twice.  A task is acknowledged when it has ended, also by an *)
(* exception; a task whose worker dies is delivered again.                  *)
(****************************************************************************)
EXTENDS Naturals, FiniteSets

CONSTANTS
  Workers,       \* slots of the worker pool
  MaxRetries,    \* max_retries of a task
  MaxFaults      \* bound: failures of the publisher, workers and tasks

ASSUME NotificationsAssumption ==
  IsFiniteSet(Workers) /\ MaxRetries \in Nat /\ MaxFaults \in Nat

VARIABLES
  appointment,   \* appointments.status
  phase,         \* how near the visit is
  clock,         \* the last time that was read
  events,        \* the status of the two outbox events
  queue,         \* the bag of messages, as a function to numbers
  jobs,          \* notification_jobs.status by the unique key of the table
  work,          \* what each worker is at
  faults,        \* failures so far
  sent,          \* history: how often each job's message was sent
  excused,       \* history: how often it may have been sent once more
  caught         \* history: the workers that were sending at a cancellation

outside == <<appointment, phase, events>>
history == <<sent, excused, caught>>
vars == <<outside, clock, queue, jobs, work, faults, history>>

------------------------------------------------------------------------------
Types == {"confirmation", "reminder", "followup"}

\* appointment.created_at, a day and an hour before the start, and the
\* readings of the clock that follow: one for each event, and one more for
\* each failure.
Booked == 0
DayBefore == 1
HourBefore == 2
MaxNow == HourBefore + 2 + MaxFaults
Times == 0 .. MaxNow

\* When a job can be scheduled for, and what its message says of that: a
\* follow-up message has no time and stands at Booked.
Keys == [type : {"confirmation"}, at : {Booked}]
          \cup [type : {"reminder"}, at : DayBefore .. MaxNow]
          \cup [type : {"followup"}, at : HourBefore .. MaxNow]

Messages == [type : {"confirmation", "followup"}, at : {Booked},
             retries : 0 .. MaxRetries]
              \cup [type : {"reminder"}, at : DayBefore .. MaxNow,
                    retries : 0 .. MaxRetries]

Message(type, at) == [type |-> type, at |-> at, retries |-> 0]

Idle ==
  [step |-> "idle", type |-> "reminder", at |-> Booked, retries |-> 0]

Work ==
  [step : {"idle", "take", "insert", "read", "send", "mark", "ack"},
   type : Types, at : Times, retries : 0 .. MaxRetries]

KeyOf(w) == [type |-> work[w].type, at |-> work[w].at]

MessageOf(w, retries) ==
  [type |-> work[w].type, retries |-> retries,
   at |-> IF work[w].type = "followup" THEN Booked ELSE work[w].at]

At(w, step) == work[w].step = step

(* A worker has looked for the job and not written to it yet.               *)
Claiming(w) == At(w, "take") \/ At(w, "insert")

Go(w, step) == work' = [work EXCEPT ![w].step = step]

End(w) == work' = [work EXCEPT ![w] = Idle]

SetJob(k, status) == jobs' = [jobs EXCEPT ![k] = status]

Put(ms) ==
  queue' = [m \in Messages |-> IF m \in ms THEN queue[m] + 1 ELSE queue[m]]

Fault == faults < MaxFaults /\ faults' = faults + 1

(* A time that nobody has read before.                                      *)
Now == clock + 1

Init ==
  /\ appointment = "scheduled"
  /\ phase \in {"early", "near", "close"}
  /\ clock = HourBefore
  /\ events = [created |-> "pending", completed |-> "none"]
  /\ queue = [m \in Messages |-> 0]
  /\ jobs = [k \in Keys |-> "none"]
  /\ work = [w \in Workers |-> Idle]
  /\ faults = 0
  /\ sent = [k \in Keys |-> 0]
  /\ excused = [k \in Keys |-> 0]
  /\ caught = {}

------------------------------------------------------------------------------
(* The appointment, time, and the publisher                                 *)

Complete ==
  /\ appointment = "scheduled"
  /\ appointment' = "completed"
  /\ events' = [events EXCEPT !.completed = "pending"]
  /\ UNCHANGED <<phase, clock, queue, jobs, work, faults, history>>

\* The workers that have read the appointment and not yet sent.
Sending ==
  {w \in Workers : \/ At(w, "send")
                   \/ Claiming(w) /\ work[w].type = "confirmation"}

(* A completed visit may be cancelled too, when a reschedule request that   *)
(* waits for it is approved.                                                *)
Cancel ==
  /\ appointment # "cancelled"
  /\ appointment' = "cancelled"
  /\ caught' = Sending
  /\ UNCHANGED <<phase, events, clock, queue, jobs, work, faults, sent, excused>>

Pass ==
  /\ phase # "close"
  /\ phase' = IF phase = "early" THEN "near" ELSE "close"
  /\ UNCHANGED <<appointment, events, clock, queue, jobs, work, faults, history>>

(* A day before, an hour before, or at once.                                *)
calculate_reminder_time ==
  CASE phase = "early" -> DayBefore
    [] phase = "near" -> HourBefore
    [] OTHER -> Now

(* A fault: the publisher does not come to mark the event, which stays      *)
(* pending and is published again.                                          *)
Mark_processed(event) ==
  \/ events' = [events EXCEPT ![event] = "processed"] /\ UNCHANGED faults
  \/ Fault /\ UNCHANGED events

(* Mutant of PublishCreated: the event is marked before the tasks are       *)
(* dispatched.                                                              *)
PublishMarkedFirst ==
  /\ events.created = "pending"
  /\ events' = [events EXCEPT !.created = "processed"]
  /\ \/ /\ Put({Message("confirmation", Booked),
                Message("reminder", calculate_reminder_time)})
        /\ UNCHANGED faults
     \/ Fault /\ UNCHANGED queue
  /\ UNCHANGED <<appointment, phase, clock, jobs, work, history>>

PublishCreated ==
  /\ events.created = "pending"
  /\ Mark_processed("created")
  /\ calculate_reminder_time \in Times
  /\ clock' = IF calculate_reminder_time = Now THEN Now ELSE clock
  /\ Put({Message("confirmation", Booked),
          Message("reminder", calculate_reminder_time)})
  /\ UNCHANGED <<appointment, phase, jobs, work, history>>

(* The follow-up is dispatched without the time it is scheduled for.        *)
PublishCompleted ==
  /\ events.completed = "pending"
  /\ Mark_processed("completed")
  /\ Put({Message("followup", Booked)})
  /\ UNCHANGED <<appointment, phase, clock, jobs, work, history>>

------------------------------------------------------------------------------
(* The tasks                                                                *)

(* A countdown holds a reminder back; a reminder of now is due at once.     *)
Due(m) ==
  m.type = "reminder" =>
    /\ m.at = DayBefore => phase # "early"
    /\ m.at = HourBefore => phase = "close"

(* Mutant of Ended: a completed job is not looked for.                      *)
EndedSkipped(k) == k.type = "reminder" /\ jobs[k] = "skipped"

(* The idempotency check: nothing is left to do for the job.                *)
Ended(k) ==
  \/ jobs[k] = "completed"
  \/ k.type = "reminder" /\ jobs[k] = "skipped"

(* A worker is given a message, reads the clock if it needs to, and looks   *)
(* for the job; the confirmation has read the appointment first.            *)
Look(w) ==
  \E m \in Messages :
    LET at == IF m.type = "followup" THEN Now ELSE m.at
        k == [type |-> m.type, at |-> at]
        stops == \/ Ended(k)
                 \/ m.type = "confirmation" /\ appointment = "cancelled"
    IN /\ At(w, "idle")
       /\ queue[m] > 0
       /\ Due(m)
       /\ at \in Times
       /\ clock' = IF m.type = "followup" THEN Now ELSE clock
       /\ queue' = [queue EXCEPT ![m] = @ - 1]
       /\ work' = IF stops THEN work
                  ELSE [work EXCEPT ![w] =
                          [step |-> IF jobs[k] = "none" THEN "insert" ELSE "take",
                           type |-> m.type, at |-> at, retries |-> m.retries]]
       /\ excused' = IF ~ stops /\ \E v \in Workers : KeyOf(v) = k /\ ~ At(v, "idle")
                     THEN [excused EXCEPT ![k] = @ + 1] ELSE excused
       /\ UNCHANGED <<outside, jobs, faults, sent, caught>>

(* The job found is taken over (a follow-up, which has a time of its own at *)
(* each look, never finds one) ...                                          *)
ClaimFound(w) ==
  /\ At(w, "take")
  /\ SetJob(KeyOf(w), "processing")
  /\ Go(w, IF work[w].type = "confirmation" THEN "send" ELSE "read")
  /\ UNCHANGED <<outside, clock, queue, faults, history>>

(* ... or a new one is inserted ...                                         *)
ClaimNew(w) ==
  /\ At(w, "insert")
  /\ jobs[KeyOf(w)] = "none"
  /\ SetJob(KeyOf(w), "processing")
  /\ Go(w, IF work[w].type = "confirmation" THEN "send" ELSE "read")
  /\ UNCHANGED <<outside, clock, queue, faults, history>>

(* ... unless another worker has inserted it since: the unique constraint   *)
(* raises, outside of any handler, and the task ends.                       *)
ClaimRefused(w) ==
  /\ At(w, "insert")
  /\ jobs[KeyOf(w)] # "none"
  /\ End(w)
  /\ UNCHANGED <<outside, clock, queue, jobs, faults, history>>

(* The status guard.                                                        *)
Wanted(type) ==
  CASE type = "reminder" -> appointment # "cancelled"
    [] type = "followup" -> appointment = "completed"

Read(w) ==
  /\ At(w, "read")
  /\ Wanted(work[w].type)
  /\ Go(w, "send")
  /\ UNCHANGED <<outside, clock, queue, jobs, faults, history>>

(* Mutant of Skip: the reason is written in place of the status.            *)
SkipForReason(w) ==
  /\ At(w, "read")
  /\ ~ Wanted(work[w].type)
  /\ SetJob(KeyOf(w), appointment)
  /\ Go(w, "ack")
  /\ UNCHANGED <<outside, clock, queue, faults, history>>

Skip(w) ==
  /\ At(w, "read")
  /\ ~ Wanted(work[w].type)
  /\ SetJob(KeyOf(w), "skipped")
  /\ Go(w, "ack")
  /\ UNCHANGED <<outside, clock, queue, faults, history>>

Send(w) ==
  /\ At(w, "send")
  /\ sent' = [sent EXCEPT ![KeyOf(w)] = @ + 1]
  /\ caught' = caught \ {w}
  /\ Go(w, "mark")
  /\ UNCHANGED <<outside, clock, queue, jobs, faults, excused>>

Mark(w) ==
  /\ At(w, "mark")
  /\ SetJob(KeyOf(w), "completed")
  /\ Go(w, "ack")
  /\ UNCHANGED <<outside, clock, queue, faults, history>>

Ack(w) ==
  /\ At(w, "ack")
  /\ End(w)
  /\ UNCHANGED <<outside, clock, queue, jobs, faults, history>>

(* Once a message was sent, what follows may send it again.                 *)
Excuse(w) ==
  excused' = IF At(w, "mark") THEN [excused EXCEPT ![KeyOf(w)] = @ + 1]
             ELSE excused

(* Mutant of Retried: the last attempt is made without looking again.       *)
Resent(w, transient) ==
  /\ work[w].retries < MaxRetries
  /\ work' = [work EXCEPT ![w] = [@ EXCEPT !.step = "send", !.retries = @ + 1]]
  /\ UNCHANGED <<queue, caught>>

(* A reminder or follow-up is retried whatever failed, a confirmation if    *)
(* the provider's failure is transient.                                     *)
Retried(w, transient) ==
  /\ IF work[w].retries < MaxRetries
          /\ (work[w].type = "confirmation" => transient /\ At(w, "send"))
     THEN Put({MessageOf(w, work[w].retries + 1)}) ELSE UNCHANGED queue
  /\ caught' = caught \ {w}
  /\ End(w)

(* The provider's answer is lost on its way back: the confirmation has been *)
(* sent, and the job does not tell.                                         *)
AnswerLost(w) ==
  /\ At(w, "send")
  /\ work[w].type = "confirmation"
  /\ sent' = [sent EXCEPT ![KeyOf(w)] = @ + 1]
  /\ excused' = [excused EXCEPT ![KeyOf(w)] = @ + 1]

(* Sending fails, or what follows it does.                                  *)
SendFails(w) ==
  /\ At(w, "send") \/ At(w, "mark")
  /\ SetJob(KeyOf(w), "failed")
  /\ \E transient \in BOOLEAN : Retried(w, transient)
  /\ AnswerLost(w) \/ (Excuse(w) /\ UNCHANGED sent)
  /\ Fault
  /\ UNCHANGED <<outside, clock>>

(* Mutant of WorkerCrash: a task is acknowledged when it is taken.          *)
CrashLosesTask(w) ==
  /\ ~ At(w, "idle")
  /\ Excuse(w)
  /\ caught' = caught \ {w}
  /\ End(w)
  /\ Fault
  /\ UNCHANGED <<outside, clock, queue, jobs, sent>>

WorkerCrash(w) ==
  /\ ~ At(w, "idle")
  /\ Put({MessageOf(w, work[w].retries)})
  /\ Excuse(w)
  /\ caught' = caught \ {w}
  /\ End(w)
  /\ Fault
  /\ UNCHANGED <<outside, clock, jobs, sent>>

------------------------------------------------------------------------------
WorkerStep(w) ==
  \/ Look(w) \/ ClaimFound(w) \/ ClaimNew(w) \/ ClaimRefused(w)
  \/ Read(w) \/ Skip(w) \/ Send(w) \/ Mark(w) \/ Ack(w)

Next ==
  \/ Complete \/ Cancel \/ Pass \/ PublishCreated \/ PublishCompleted
  \/ \E w \in Workers : WorkerStep(w) \/ SendFails(w) \/ WorkerCrash(w)

(* Time passes, beat starts the publisher every minute, and the workers     *)
(* take up what is due.                                                     *)
Fairness ==
  /\ WF_vars(Pass)
  /\ WF_vars(PublishCreated)
  /\ WF_vars(PublishCompleted)
  /\ \A w \in Workers : WF_vars(WorkerStep(w))

Spec == Init /\ [][Next]_vars /\ Fairness

------------------------------------------------------------------------------
(* Every variable has its type.                                             *)
TypeOK ==
  /\ appointment \in {"scheduled", "completed", "cancelled"}
  /\ phase \in {"early", "near", "close"}
  /\ clock \in HourBefore .. MaxNow
  /\ events \in [created : {"pending", "processed"},
                 completed : {"none", "pending", "processed"}]
  /\ queue \in [Messages -> Nat]
  /\ jobs \in [Keys -> {"none", "processing", "completed", "skipped", "failed"}]
  /\ work \in [Workers -> Work]
  /\ faults \in 0 .. MaxFaults
  /\ sent \in [Keys -> Nat]
  /\ excused \in [Keys -> Nat]
  /\ caught \subseteq Workers

(* A job that is completed was sent, and deliveries alone never send its    *)
(* message twice: each sending after the first has a worker of its own that *)
(* took up the job while another one was at it, or that failed when it had  *)
(* sent.                                                                    *)
SentOnceUnlessExcused ==
  \A k \in Keys :
    /\ jobs[k] = "completed" => sent[k] > 0
    /\ sent[k] <= 1 + excused[k]

(* Nothing is sent about a cancelled appointment, whatever is delivered or  *)
(* retried, but by a worker that was sending when it was cancelled.         *)
CancelledIsSilent ==
  appointment = "cancelled" =>
    \A w \in Workers : At(w, "send") => w \in caught

(* In the end no confirmation or reminder is left processing, whichever     *)
(* worker dies or is refused: its job is completed, skipped or failed, or   *)
(* it is a confirmation of an appointment cancelled before the next look.   *)
ClaimedJobSettles ==
  <>[](\A k \in {j \in Keys : j.type # "followup"} :
         \/ jobs[k] # "processing"
         \/ k.type = "confirmation" /\ appointment = "cancelled")

(* In the end an appointment that was booked has been reminded of, or a job *)
(* says why not.                                                            *)
BookedIsReminded ==
  <>[](\E k \in Keys : /\ k.type = "reminder"
                        /\ jobs[k] \in {"completed", "skipped", "failed"})
=============================================================================
