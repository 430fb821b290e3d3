------------------------- MODULE NotificationsProofs -------------------------
(****************************************************************************)
(* Type correctness of Notifications, and that messages are sent no more    *)
(* often than there is an excuse for and not once the appointment is        *)
(* cancelled, that no confirmation or reminder is forgotten, and that every *)
(* story of an appointment is heard: for any number of workers, retries and *)
(* failures.                                                                *)
(****************************************************************************)
EXTENDS Notifications, Sequences, SequenceTheorems, FiniteSetTheorems, TLAPS

------------------------------------------------------------------------------
(* Type correctness                                                         *)

(* The workers' records.                                                    *)
LEMMA WorkerFacts ==
  ASSUME TypeOK, NEW w \in Workers
  PROVE  /\ work[w] \in Work
         /\ work[w].step \in {"idle", "take", "insert", "read", "send", "mark", "ack"}
         /\ work[w].type \in Types
         /\ work[w].at \in Times
         /\ work[w].retries \in 0 .. MaxRetries
  BY DEF TypeOK, Work

(* A worker that goes on to another step.                                   *)
LEMMA GoType ==
  ASSUME TypeOK, NEW w \in Workers,
         NEW s \in {"idle", "take", "insert", "read", "send", "mark", "ack"},
         Go(w, s)
  PROVE  /\ work' \in [Workers -> Work]
         /\ work'[w] = [work[w] EXCEPT !.step = s]
         /\ \A v \in Workers \ {w} : work'[v] = work[v]
<1>1. [work[w] EXCEPT !.step = s] \in Work
  BY WorkerFacts DEF Work
<1>2. work \in [Workers -> Work]
  BY DEF TypeOK
<1> QED
  BY <1>1, <1>2 DEF Go

(* A worker whose task has ended.                                           *)
LEMMA EndType ==
  ASSUME TypeOK, NEW w \in Workers, End(w)
  PROVE  /\ work' \in [Workers -> Work]
         /\ work'[w] = Idle
         /\ \A v \in Workers \ {w} : work'[v] = work[v]
<1>1. Idle \in Work
  BY NotificationsAssumption DEF Idle, Work, Types, Times, MaxNow, HourBefore, Booked
<1>2. work \in [Workers -> Work]
  BY DEF TypeOK
<1> QED
  BY <1>1, <1>2 DEF End

(* What putting messages does to the queue, and a counter to its function.  *)
LEMMA PutType ==
  ASSUME TypeOK, NEW ms, Put(ms)
  PROVE  queue' \in [Messages -> Nat]
  BY DEF TypeOK, Put

LEMMA FaultType ==
  ASSUME TypeOK, Fault
  PROVE  faults' \in 0 .. MaxFaults
  BY NotificationsAssumption DEF TypeOK, Fault

LEMMA CountType ==
  ASSUME NEW f \in [Keys -> Nat], NEW k
  PROVE  [f EXCEPT ![k] = @ + 1] \in [Keys -> Nat]
<1>1. k \in Keys => f[k] + 1 \in Nat
  OBVIOUS
<1> QED
  BY <1>1, ZenonT(30)

LEMMA ExcuseType ==
  ASSUME TypeOK, NEW w, Excuse(w)
  PROVE  excused' \in [Keys -> Nat]
<1>1. excused \in [Keys -> Nat]
  BY DEF TypeOK
<1> QED
  BY <1>1, CountType DEF Excuse

LEMMA SetJobType ==
  ASSUME TypeOK, NEW k,
         NEW s \in {"none", "processing", "completed", "skipped", "failed"}, SetJob(k, s)
  PROVE  jobs' \in [Keys -> {"none", "processing", "completed", "skipped", "failed"}]
  BY DEF TypeOK, SetJob

(* A worker's record when it takes up a message.                            *)
LEMMA TakenType ==
  ASSUME TypeOK, NEW m \in Messages, NEW at \in Times, NEW s \in {"take", "insert"}
  PROVE  [step |-> s, type |-> m.type, at |-> at, retries |-> m.retries] \in Work
<1>1. m.type \in Types /\ m.retries \in 0 .. MaxRetries
  BY DEF Messages, Types
<1> QED
  BY <1>1 DEF Work

LEMMA LookType ==
  ASSUME TypeOK, NEW w \in Workers, Look(w)
  PROVE  TypeOK'
<1>1. PICK m \in Messages :
        LET at == IF m.type = "followup" THEN Now ELSE m.at
            k == [type |-> m.type, at |-> at]
            stops == \/ Ended(k)
                     \/ m.type = "confirmation" /\ appointment = "cancelled"
        IN /\ queue[m] > 0
           /\ at \in Times
           /\ clock' = IF m.type = "followup" THEN Now ELSE clock
           /\ queue' = [queue EXCEPT ![m] = @ - 1]
           /\ work' = IF stops THEN work
                      ELSE [work EXCEPT ![w] =
                              [step |-> IF jobs[k] = "none" THEN "insert" ELSE "take",
                               type |-> m.type, at |-> at, retries |-> m.retries]]
           /\ excused' = IF ~ stops /\ \E v \in Workers : KeyOf(v) = k /\ ~ At(v, "idle")
                         THEN [excused EXCEPT ![k] = @ + 1] ELSE excused
           /\ UNCHANGED <<outside, jobs, faults, sent, caught>>
  BY DEF Look
<1> DEFINE at == IF m.type = "followup" THEN Now ELSE m.at
           k == [type |-> m.type, at |-> at]
           s == IF jobs[k] = "none" THEN "insert" ELSE "take"
<1>2. clock' \in HourBefore .. MaxNow
  BY <1>1, NotificationsAssumption DEF TypeOK, Now, Times, MaxNow, HourBefore
<1>3. queue' \in [Messages -> Nat]
  BY <1>1 DEF TypeOK
<1>4. [step |-> s, type |-> m.type, at |-> at, retries |-> m.retries] \in Work
  BY <1>1, TakenType
<1>5. work' \in [Workers -> Work]
  BY <1>1, <1>4 DEF TypeOK
<1>6. excused' \in [Keys -> Nat]
  <2>1. excused \in [Keys -> Nat]
    BY DEF TypeOK
  <2>2. excused' = excused \/ excused' = [excused EXCEPT ![k] = @ + 1]
    BY <1>1
  <2> QED
    BY <2>1, <2>2, CountType
<1> QED
  BY <1>1, <1>2, <1>3, <1>5, <1>6 DEF TypeOK, outside

LEMMA WorkerStepType ==
  ASSUME TypeOK, NEW w \in Workers, WorkerStep(w)
  PROVE  TypeOK'
<1> DEFINE Statuses == {"none", "processing", "completed", "skipped", "failed"}
<1>1. CASE Look(w)
  BY <1>1, LookType
<1>2. CASE ClaimFound(w) \/ ClaimNew(w)
  <2>1. SetJob(KeyOf(w), "processing") /\ \E s \in {"send", "read"} : Go(w, s)
    BY <1>2 DEF ClaimFound, ClaimNew
  <2>2. work' \in [Workers -> Work] /\ jobs' \in [Keys -> Statuses]
    BY <2>1, GoType, SetJobType
  <2> QED
    BY <1>2, <2>2 DEF ClaimFound, ClaimNew, TypeOK, outside, history
<1>3. CASE ClaimRefused(w) \/ Ack(w)
  BY <1>3, EndType DEF ClaimRefused, Ack, TypeOK, outside, history
<1>4. CASE Read(w)
  BY <1>4, GoType DEF Read, TypeOK, outside, history
<1>5. CASE Skip(w) \/ Mark(w)
  <2>1. Go(w, "ack") /\ \E s \in Statuses : SetJob(KeyOf(w), s)
    BY <1>5 DEF Skip, Mark
  <2>2. work' \in [Workers -> Work] /\ jobs' \in [Keys -> Statuses]
    BY <2>1, GoType, SetJobType
  <2> QED
    BY <1>5, <2>2 DEF Skip, Mark, TypeOK, outside, history
<1>6. CASE Send(w)
  <2>1. work' \in [Workers -> Work]
    BY <1>6, GoType DEF Send
  <2>2. sent' \in [Keys -> Nat]
    BY <1>6, CountType DEF Send, TypeOK
  <2> QED
    BY <1>6, <2>1, <2>2 DEF Send, TypeOK, outside
<1> QED
  BY <1>1, <1>2, <1>3, <1>4, <1>5, <1>6 DEF WorkerStep

LEMMA FailureType ==
  ASSUME TypeOK, NEW w \in Workers, SendFails(w) \/ WorkerCrash(w)
  PROVE  TypeOK'
<1>1. CASE SendFails(w)
  <2>1. End(w) /\ caught' = caught \ {w}
    BY <1>1 DEF SendFails, Retried
  <2>2. queue' \in [Messages -> Nat]
    BY <1>1, PutType DEF SendFails, Retried, TypeOK
  <2>3. work' \in [Workers -> Work]
    BY <2>1, EndType
  <2>4. jobs' \in [Keys -> {"none", "processing", "completed", "skipped", "failed"}]
    BY <1>1, SetJobType DEF SendFails
  <2>5. excused' \in [Keys -> Nat] /\ sent' \in [Keys -> Nat]
    <3>1. CASE AnswerLost(w)
      BY <3>1, CountType DEF AnswerLost, TypeOK
    <3>2. CASE Excuse(w) /\ UNCHANGED sent
      BY <3>2, ExcuseType DEF TypeOK
    <3> QED
      BY <1>1, <3>1, <3>2 DEF SendFails
  <2>6. faults' \in 0 .. MaxFaults
    BY <1>1, FaultType DEF SendFails
  <2> QED
    BY <1>1, <2>1, <2>2, <2>3, <2>4, <2>5, <2>6 DEF SendFails, TypeOK, outside
<1>2. CASE WorkerCrash(w)
  <2>1. queue' \in [Messages -> Nat]
    BY <1>2, PutType DEF WorkerCrash
  <2>2. work' \in [Workers -> Work]
    BY <1>2, EndType DEF WorkerCrash
  <2>3. excused' \in [Keys -> Nat] /\ faults' \in 0 .. MaxFaults
    BY <1>2, ExcuseType, FaultType DEF WorkerCrash
  <2> QED
    BY <1>2, <2>1, <2>2, <2>3 DEF WorkerCrash, TypeOK, outside
<1> QED
  BY <1>1, <1>2

LEMMA OutsideType ==
  ASSUME TypeOK,
         Complete \/ Cancel \/ Pass \/ PublishCreated \/ PublishCompleted
  PROVE  TypeOK'
<1>1. CASE Complete
  BY <1>1 DEF Complete, TypeOK, history
<1>2. CASE Cancel
  BY <1>2 DEF Cancel, TypeOK, Sending
<1>3. CASE Pass
  BY <1>3 DEF Pass, TypeOK, history
<1>4. CASE PublishCreated
  <2>1. /\ events' \in [created : {"pending", "processed"},
                        completed : {"none", "pending", "processed"}]
        /\ faults' \in 0 .. MaxFaults
    BY <1>4, FaultType DEF PublishCreated, Mark_processed, TypeOK
  <2>2. queue' \in [Messages -> Nat]
    BY <1>4, PutType DEF PublishCreated
  <2>3. clock' \in HourBefore .. MaxNow
    BY <1>4, NotificationsAssumption
    DEF PublishCreated, TypeOK, Now, Times, MaxNow, HourBefore
  <2> QED
    BY <1>4, <2>1, <2>2, <2>3 DEF PublishCreated, TypeOK, history
<1>5. CASE PublishCompleted
  <2>1. /\ events' \in [created : {"pending", "processed"},
                        completed : {"none", "pending", "processed"}]
        /\ faults' \in 0 .. MaxFaults
    BY <1>5, FaultType DEF PublishCompleted, Mark_processed, TypeOK
  <2>2. queue' \in [Messages -> Nat]
    BY <1>5, PutType DEF PublishCompleted
  <2> QED
    BY <1>5, <2>1, <2>2 DEF PublishCompleted, TypeOK, history
<1> QED
  BY <1>1, <1>2, <1>3, <1>4, <1>5

LEMMA InitType ==
  ASSUME Init
  PROVE  TypeOK
<1>1. Idle \in Work
  BY NotificationsAssumption DEF Idle, Work, Types, Times, MaxNow, HourBefore, Booked
<1> QED
  BY <1>1, NotificationsAssumption DEF Init, TypeOK, MaxNow, HourBefore

(* Every variable keeps its type, for any number of workers, retries and    *)
(* failures.                                                                *)
THEOREM TypeCorrect == Spec => []TypeOK
<1>1. Init => TypeOK
  BY InitType
<1>2. TypeOK /\ [Next]_vars => TypeOK'
  <2> SUFFICES ASSUME TypeOK, [Next]_vars
               PROVE  TypeOK'
    OBVIOUS
  <2>1. CASE Complete \/ Cancel \/ Pass \/ PublishCreated \/ PublishCompleted
    BY <2>1, OutsideType
  <2>2. CASE \E w \in Workers : WorkerStep(w) \/ SendFails(w) \/ WorkerCrash(w)
    BY <2>2, WorkerStepType, FailureType
  <2>3. CASE UNCHANGED vars
    BY <2>3 DEF vars, outside, history, TypeOK
  <2> QED
    BY <2>1, <2>2, <2>3 DEF Next
<1> QED
  BY <1>1, <1>2, PTL DEF Spec

------------------------------------------------------------------------------
(* What the steps do to the workers                                         *)

Others(w) == \A v \in Workers \ {w} : work'[v] = work[v]

(* The key of a message is one of the table's.                              *)
LEMMA MessageKey ==
  ASSUME TypeOK, NEW m \in Messages,
         m.type = "followup" => Now \in Times
  PROVE  [type |-> m.type, at |-> IF m.type = "followup" THEN Now ELSE m.at] \in Keys
<1>1. CASE m.type = "followup"
  <2>1. Now \in HourBefore .. MaxNow
    BY <1>1, NotificationsAssumption DEF TypeOK, Now, Times, MaxNow, HourBefore
  <2> QED
    BY <1>1, <2>1 DEF Keys
<1>2. CASE m.type = "confirmation"
  <2>1. m.at = Booked
    BY <1>2 DEF Messages
  <2> QED
    BY <1>2, <2>1 DEF Keys
<1>3. CASE m.type = "reminder"
  <2>1. m.at \in DayBefore .. MaxNow
    BY <1>3 DEF Messages
  <2> QED
    BY <1>3, <2>1 DEF Keys
<1> QED
  BY <1>1, <1>2, <1>3 DEF Messages

(* A worker takes up no message whose job has ended or whose confirmation   *)
(* is of no use; a job that another worker is at is excused once more.      *)
LEMMA LookFacts ==
  ASSUME TypeOK, NEW w \in Workers, Look(w)
  PROVE  /\ At(w, "idle")
         /\ Others(w)
         /\ UNCHANGED <<appointment, jobs, sent, caught>>
         /\ \/ UNCHANGED <<work, excused>>
            \/ \E k \in Keys :
                 /\ KeyOf(w)' = k
                 /\ Claiming(w)'
                 /\ ~ Ended(k)
                 /\ work'[w].type = "confirmation" => appointment # "cancelled"
                 /\ excused' = IF \E v \in Workers : KeyOf(v) = k /\ ~ At(v, "idle")
                               THEN [excused EXCEPT ![k] = @ + 1] ELSE excused
<1>1. PICK m \in Messages :
        LET at == IF m.type = "followup" THEN Now ELSE m.at
            k == [type |-> m.type, at |-> at]
            stops == \/ Ended(k)
                     \/ m.type = "confirmation" /\ appointment = "cancelled"
        IN /\ At(w, "idle")
           /\ at \in Times
           /\ work' = IF stops THEN work
                      ELSE [work EXCEPT ![w] =
                              [step |-> IF jobs[k] = "none" THEN "insert" ELSE "take",
                               type |-> m.type, at |-> at, retries |-> m.retries]]
           /\ excused' = IF ~ stops /\ \E v \in Workers : KeyOf(v) = k /\ ~ At(v, "idle")
                         THEN [excused EXCEPT ![k] = @ + 1] ELSE excused
           /\ UNCHANGED <<outside, jobs, faults, sent, caught>>
  BY DEF Look
<1> DEFINE at == IF m.type = "followup" THEN Now ELSE m.at
           k == [type |-> m.type, at |-> at]
           s == IF jobs[k] = "none" THEN "insert" ELSE "take"
           stops == \/ Ended(k)
                    \/ m.type = "confirmation" /\ appointment = "cancelled"
           record == [step |-> s, type |-> m.type, at |-> at, retries |-> m.retries]
<1>2. k \in Keys
  BY <1>1, MessageKey
<1>3. work \in [Workers -> Work]
  BY DEF TypeOK
<1>4. CASE stops
  BY <1>1, <1>4 DEF outside, Others
<1>5. CASE ~ stops
  <2>1. work' = [work EXCEPT ![w] = record]
    BY <1>1, <1>5
  <2>2. work'[w] = record /\ Others(w)
    BY <1>3, <2>1 DEF Others
  <2>3. KeyOf(w)' = k
    BY <2>2 DEF KeyOf
  <2>4. Claiming(w)'
    BY <2>2 DEF Claiming, At
  <2>5. work'[w].type = "confirmation" => appointment # "cancelled"
    BY <1>5, <2>2
  <2> HIDE DEF k
  <2>6. excused' = IF \E v \in Workers : KeyOf(v) = k /\ ~ At(v, "idle")
                   THEN [excused EXCEPT ![k] = @ + 1] ELSE excused
    BY <1>1, <1>5 DEF k
  <2> QED
    BY <1>1, <1>2, <1>5, <2>2, <2>3, <2>4, <2>5, <2>6 DEF outside
<1> QED
  BY <1>4, <1>5

(* A worker that goes on stays at its job.                                  *)
LEMMA GoFacts ==
  ASSUME TypeOK, NEW w \in Workers,
         NEW s \in {"idle", "take", "insert", "read", "send", "mark", "ack"},
         Go(w, s)
  PROVE  /\ Others(w)
         /\ KeyOf(w)' = KeyOf(w)
         /\ work'[w].step = s
         /\ work'[w].type = work[w].type
<1>1. work'[w] = [work[w] EXCEPT !.step = s] /\ work[w] \in Work
  BY GoType, WorkerFacts
<1> QED
  BY <1>1, GoType DEF Others, KeyOf, Work

LEMMA EndFacts ==
  ASSUME TypeOK, NEW w \in Workers, End(w)
  PROVE  Others(w) /\ work'[w].step = "idle"
  BY EndType DEF Others, Idle

(* A worker's step is about its own record.                                 *)
LEMMA WorkerShape ==
  ASSUME TypeOK, NEW w \in Workers,
         WorkerStep(w) \/ SendFails(w) \/ WorkerCrash(w)
  PROVE  Others(w)
<1>1. CASE Look(w)
  BY <1>1, LookFacts
<1>2. CASE \E s \in {"read", "send", "mark", "ack"} : Go(w, s)
  BY <1>2, GoFacts
<1>3. CASE End(w)
  BY <1>3, EndFacts
<1> QED
  BY <1>1, <1>2, <1>3 DEF WorkerStep, ClaimFound, ClaimNew, ClaimRefused, Read, Skip,
     Send, Mark, Ack, SendFails, Retried, WorkerCrash, At

------------------------------------------------------------------------------
(* A cancelled appointment                                                  *)

(* Who still sends was caught sending; a worker that has read the           *)
(* appointment after its claim sends no confirmation.                       *)
Silent ==
  /\ \A w \in Workers : At(w, "read") => work[w].type # "confirmation"
  /\ appointment = "cancelled" => Sending \subseteq caught

LEMMA SilentKept ==
  ASSUME TypeOK, Silent, [Next]_vars
  PROVE  Silent'
<1>1. CASE Cancel
  BY <1>1 DEF Cancel, Silent, Sending, At, Claiming
<1>2. CASE Complete \/ Pass \/ PublishCreated \/ PublishCompleted \/ UNCHANGED vars
  BY <1>2 DEF Complete, Pass, PublishCreated, PublishCompleted, vars, outside, history,
     Silent, Sending, At, Claiming
<1>3. CASE \E w \in Workers : WorkerStep(w) \/ SendFails(w) \/ WorkerCrash(w)
  <2>1. PICK w \in Workers : WorkerStep(w) \/ SendFails(w) \/ WorkerCrash(w)
    BY <1>3
  <2> DEFINE Reads(v) == At(v, "read") => work[v].type # "confirmation"
             Sends(v) == \/ At(v, "send")
                         \/ Claiming(v) /\ work[v].type = "confirmation"
  <2>2. Others(w) /\ appointment' = appointment
    BY <2>1, WorkerShape
    DEF WorkerStep, ClaimFound, ClaimNew, ClaimRefused, Read, Skip, Send, Mark, Ack, Look,
        SendFails, WorkerCrash, outside
  <2>3. caught \ {w} \subseteq caught'
    BY <2>1
    DEF WorkerStep, ClaimFound, ClaimNew, ClaimRefused, Read, Skip, Send, Mark, Ack, Look,
        SendFails, Retried, WorkerCrash, history
  <2>4. \A v \in Workers \ {w} : Reads(v)' = Reads(v) /\ Sends(v)' = Sends(v)
    BY <2>2 DEF Others, At, Claiming
  <2>5. Reads(w)' /\ (Sends(w)' /\ appointment = "cancelled" => Sends(w) /\ caught' = caught)
    <3>1. CASE Look(w)
      BY <3>1, LookFacts DEF Silent, At, Claiming
    <3>2. CASE ClaimFound(w) \/ ClaimNew(w)
      <4>1. /\ Claiming(w)
            /\ Go(w, IF work[w].type = "confirmation" THEN "send" ELSE "read")
            /\ caught' = caught
        BY <3>2 DEF ClaimFound, ClaimNew, Claiming, history
      <4> QED
        BY <4>1, GoFacts DEF At, Claiming
    <3>3. CASE Read(w)
      <4>1. work[w].type # "confirmation"
        BY <3>3 DEF Read, Silent
      <4>2. appointment # "cancelled"
        BY <3>3, <4>1, WorkerFacts DEF Read, Wanted, Types
      <4> QED
        BY <3>3, <4>1, <4>2, GoFacts DEF Read, At, Claiming
    <3>4. CASE Send(w) \/ Skip(w) \/ Mark(w)
      <4>1. Go(w, "mark") \/ Go(w, "ack")
        BY <3>4 DEF Send, Skip, Mark
      <4> QED
        BY <4>1, GoFacts DEF At, Claiming
    <3>5. CASE End(w)
      BY <3>5, EndFacts DEF At, Claiming
    <3> QED
      BY <2>1, <3>1, <3>2, <3>3, <3>4, <3>5
      DEF WorkerStep, ClaimRefused, Ack, SendFails, Retried, WorkerCrash
  <2>6. \A v \in Workers : Reads(v)'
    BY <2>4, <2>5 DEF Silent
  <2>7. appointment' = "cancelled" => Sending' \subseteq caught'
    <3>1. Sending = {v \in Workers : Sends(v)} /\ Sending' = {v \in Workers : Sends(v)'}
      BY DEF Sending
    <3> HIDE DEF Sends
    <3> QED
      BY <2>2, <2>3, <2>4, <2>5, <3>1 DEF Silent
  <2> QED
    BY <2>6, <2>7 DEF Silent
<1> QED
  BY <1>1, <1>2, <1>3 DEF Next

(* Nothing is sent about a cancelled appointment, but by a worker that was  *)
(* sending when it was cancelled: whatever tasks are delivered, retried or  *)
(* interrupted, by any number of workers.                                   *)
THEOREM CancelledStaysSilent == Spec => []CancelledIsSilent
<1>1. Init => TypeOK /\ Silent
  <2> SUFFICES ASSUME Init PROVE TypeOK /\ Silent
    OBVIOUS
  <2>1. \A w \in Workers : work[w].step = "idle"
    BY DEF Init, Idle
  <2> QED
    BY <2>1, InitType DEF Init, Silent, At
<1>2. TypeOK /\ Silent /\ [Next]_vars => Silent'
  BY SilentKept
<1>3. Silent => CancelledIsSilent
  BY DEF Silent, Sending, CancelledIsSilent
<1> QED
  BY <1>1, <1>2, <1>3, TypeCorrect, PTL DEF Spec

------------------------------------------------------------------------------
(* How often a message is sent                                              *)

(* The workers that may yet send the message of a job.                      *)
MaySend(w) == Claiming(w) \/ At(w, "read") \/ At(w, "send")
Holders(k) == {w \in Workers : MaySend(w) /\ KeyOf(w) = k}
Marking(k) == {w \in Workers : At(w, "mark") /\ KeyOf(w) = k}

(* Each sending so far and each that may yet come has an excuse, but one;   *)
(* and none is without as long as nobody may send, has sent and is about to *)
(* mark, or has completed the job: then it may be taken up once more.       *)
Budget(k) ==
  /\ sent[k] + Cardinality(Holders(k)) <= 1 + excused[k]
  /\ Holders(k) = {} /\ Marking(k) = {} /\ jobs[k] # "completed" =>
       sent[k] <= excused[k]
  /\ Marking(k) # {} \/ jobs[k] = "completed" => sent[k] > 0

Budgets == \A k \in Keys : Budget(k)

LEMMA HoldersFinite ==
  ASSUME NEW k
  PROVE  /\ IsFiniteSet(Holders(k)) /\ Cardinality(Holders(k)) \in Nat
         /\ IsFiniteSet(Holders(k)')
<1>1. Holders(k) \in SUBSET Workers /\ Holders(k)' \in SUBSET Workers
  BY DEF Holders
<1>2. IsFiniteSet(Holders(k)) /\ IsFiniteSet(Holders(k)')
  BY <1>1, FS_Subset, NotificationsAssumption
<1> QED
  BY <1>2, FS_CardinalityType

(* Only one worker moves, so it alone may join or leave.                    *)
LEMMA HoldersChange ==
  ASSUME NEW w \in Workers, Others(w), NEW k
  PROVE  /\ Marking(k) \ {w} \subseteq Marking(k)'
         /\ Marking(k)' \ {w} \subseteq Marking(k)
         /\ w \notin Holders(k) /\ w \in Holders(k)' =>
              Cardinality(Holders(k)') = Cardinality(Holders(k)) + 1
         /\ w \in Holders(k) /\ w \notin Holders(k)' =>
              /\ Cardinality(Holders(k)') = Cardinality(Holders(k)) - 1
              /\ Holders(k) \ {w} = Holders(k)'
         /\ (w \in Holders(k) <=> w \in Holders(k)') => Holders(k)' = Holders(k)
<1>1. \A v \in Workers \ {w} :
        /\ v \in Holders(k) <=> v \in Holders(k)'
        /\ v \in Marking(k) <=> v \in Marking(k)'
  BY DEF Others, Holders, Marking, MaySend, Claiming, At, KeyOf
<1>2. /\ Holders(k) \subseteq Workers /\ Holders(k)' \subseteq Workers
      /\ Marking(k) \subseteq Workers /\ Marking(k)' \subseteq Workers
  BY DEF Holders, Marking
<1>3. CASE w \notin Holders(k) /\ w \in Holders(k)'
  <2>1. Holders(k)' = Holders(k) \cup {w}
    BY <1>1, <1>2, <1>3
  <2> QED
    <3>1. Cardinality(Holders(k)') = Cardinality(Holders(k)) + 1
      BY <1>3, <2>1, HoldersFinite, FS_AddElement
    <3>2. /\ Marking(k) \ {w} \subseteq Marking(k)'
          /\ Marking(k)' \ {w} \subseteq Marking(k)
      BY <1>1, <1>2
    <3> QED
      BY <1>3, <3>1, <3>2
<1>4. CASE w \in Holders(k) /\ w \notin Holders(k)'
  <2>1. Holders(k)' = Holders(k) \ {w}
    BY <1>1, <1>2, <1>4
  <2> QED
    BY <1>1, <1>2, <1>4, <2>1, HoldersFinite, FS_RemoveElement
<1>5. CASE w \in Holders(k) <=> w \in Holders(k)'
  BY <1>1, <1>2, <1>5
<1> QED
  BY <1>1, <1>2, <1>3, <1>4, <1>5

(* A worker is at one step, of one job.                                     *)
LEMMA AtOnce ==
  ASSUME NEW w \in Workers, NEW k
  PROVE  /\ w \in Holders(k) <=> work[w].step \in {"take", "insert", "read", "send"}
                                   /\ KeyOf(w) = k
         /\ w \in Marking(k) <=> work[w].step = "mark" /\ KeyOf(w) = k
         /\ w \in Holders(k)' <=> work'[w].step \in {"take", "insert", "read", "send"}
                                    /\ KeyOf(w)' = k
         /\ w \in Marking(k)' <=> work'[w].step = "mark" /\ KeyOf(w)' = k
  BY DEF Holders, Marking, MaySend, Claiming, At

LEMMA LookBudget ==
  ASSUME TypeOK, Budgets, NEW w \in Workers, Look(w), NEW k \in Keys
  PROVE  Budget(k)'
<1>1. /\ sent[k] \in Nat /\ excused[k] \in Nat /\ Cardinality(Holders(k)) \in Nat
      /\ excused \in [Keys -> Nat]
  BY HoldersFinite DEF TypeOK
<1>2. At(w, "idle") /\ Others(w) /\ UNCHANGED <<jobs, sent>>
  BY LookFacts
<1>3. w \notin Holders(k) /\ w \notin Marking(k)
  BY <1>2, AtOnce DEF At
<1>4. CASE UNCHANGED <<work, excused>>
  <2>1. Holders(k)' = Holders(k) /\ Marking(k)' = Marking(k)
    BY <1>4 DEF Holders, Marking, MaySend, Claiming, At, KeyOf
  <2> QED
    BY <1>2, <1>4, <2>1 DEF Budgets, Budget
<1>5. CASE ~ UNCHANGED <<work, excused>>
  <2>1. PICK j \in Keys :
          /\ KeyOf(w)' = j
          /\ Claiming(w)'
          /\ ~ Ended(j)
          /\ excused' = IF \E v \in Workers : KeyOf(v) = j /\ ~ At(v, "idle")
                        THEN [excused EXCEPT ![j] = @ + 1] ELSE excused
    BY <1>5, LookFacts
  <2>2. w \notin Marking(k)' /\ (w \in Holders(k)' <=> k = j)
    BY <2>1, AtOnce DEF Claiming, At
  <2>3. Marking(k)' = Marking(k)
    BY <1>2, <1>3, <2>2, HoldersChange
  <2>4. CASE k # j
    <3>1. excused'[k] = excused[k] /\ Holders(k)' = Holders(k)
      BY <1>1, <1>2, <1>3, <2>1, <2>2, <2>4, HoldersChange
    <3> QED
      BY <1>2, <2>3, <3>1 DEF Budgets, Budget
  <2>5. CASE k = j
    <3>1. Cardinality(Holders(k)') = Cardinality(Holders(k)) + 1 /\ w \in Holders(k)'
      BY <1>2, <1>3, <2>2, <2>5, HoldersChange
    <3>2. jobs[k] # "completed"
      BY <2>1, <2>5 DEF Ended
    <3>3. \/ excused'[k] = excused[k] + 1
          \/ excused'[k] = excused[k] /\ Holders(k) = {} /\ Marking(k) = {}
      BY <1>1, <2>1, <2>5 DEF Holders, Marking, MaySend, Claiming, At
    <3>4. Holders(k) = {} => Cardinality(Holders(k)) = 0
      BY FS_EmptySet
    <3> QED
      BY <1>1, <1>2, <2>3, <3>1, <3>2, <3>3, <3>4 DEF Budgets, Budget
  <2> QED
    BY <2>4, <2>5
<1> QED
  BY <1>4, <1>5

(* A worker that claims or reads stays among those that may send.           *)
LEMMA HoldBudget ==
  ASSUME TypeOK, Budgets, NEW w \in Workers, NEW k \in Keys,
         ClaimFound(w) \/ ClaimNew(w) \/ Read(w)
  PROVE  Budget(k)'
<1>1. /\ work[w].step \in {"take", "insert", "read"}
      /\ \E s \in {"read", "send"} : Go(w, s)
      /\ UNCHANGED <<sent, excused>>
      /\ \A j \in Keys : j # KeyOf(w) => jobs'[j] = jobs[j]
      /\ jobs'[k] # "completed" \/ jobs'[k] = jobs[k]
  BY DEF ClaimFound, ClaimNew, Read, At, history, SetJob, TypeOK
<1>2. /\ Others(w) /\ KeyOf(w)' = KeyOf(w) /\ work'[w].step \in {"read", "send"}
  BY <1>1, GoFacts
<1>3. Holders(k)' = Holders(k) /\ Marking(k)' = Marking(k)
  <2>1. /\ w \in Holders(k) <=> w \in Holders(k)'
        /\ w \notin Marking(k) /\ w \notin Marking(k)'
    BY <1>1, <1>2, AtOnce
  <2>2. Marking(k)' = Marking(k)
    BY <1>2, <2>1, HoldersChange
  <2> QED
    BY <1>2, <2>1, <2>2, HoldersChange
<1>4. k = KeyOf(w) => Holders(k) # {}
  BY <1>1, AtOnce
<1> QED
  BY <1>1, <1>3, <1>4 DEF Budgets, Budget

(* A worker that is refused or skips the job leaves its excuse behind.      *)
LEMMA LeaveBudget ==
  ASSUME TypeOK, Budgets, NEW w \in Workers, NEW k \in Keys,
         Others(w), w \notin Holders(k)', w \notin Marking(k)', w \notin Marking(k),
         sent'[k] = sent[k], excused'[k] = excused[k],
         w \in Holders(k) => jobs'[k] # "completed" \/ jobs'[k] = jobs[k],
         w \notin Holders(k) => jobs'[k] = jobs[k]
  PROVE  Budget(k)'
<1>1. sent[k] \in Nat /\ excused[k] \in Nat /\ Cardinality(Holders(k)) \in Nat
  BY HoldersFinite DEF TypeOK
<1>2. Marking(k)' = Marking(k)
  BY HoldersChange
<1>3. CASE w \in Holders(k)
  <2>1. Cardinality(Holders(k)') = Cardinality(Holders(k)) - 1
    BY <1>3, HoldersChange
  <2>2. Cardinality(Holders(k)') \in Nat /\ (Holders(k)' = {} => Cardinality(Holders(k)') = 0)
    BY HoldersFinite, FS_CardinalityType, FS_EmptySet
  <2> QED
    BY <1>1, <1>2, <1>3, <2>1, <2>2 DEF Budgets, Budget
<1>4. CASE w \notin Holders(k)
  <2>1. Holders(k)' = Holders(k)
    BY <1>4, HoldersChange
  <2> QED
    BY <1>2, <1>4, <2>1 DEF Budgets, Budget
<1> QED
  BY <1>3, <1>4

LEMMA SendBudget ==
  ASSUME TypeOK, Budgets, NEW w \in Workers, Send(w), NEW k \in Keys
  PROVE  Budget(k)'
<1>1. /\ sent[k] \in Nat /\ excused[k] \in Nat /\ Cardinality(Holders(k)) \in Nat
      /\ sent \in [Keys -> Nat]
  BY HoldersFinite DEF TypeOK
<1>2. /\ work[w].step = "send" /\ Others(w) /\ KeyOf(w)' = KeyOf(w)
      /\ work'[w].step = "mark" /\ UNCHANGED <<jobs, excused>>
      /\ sent' = [sent EXCEPT ![KeyOf(w)] = @ + 1]
  BY GoFacts DEF Send, At
<1>3. CASE k = KeyOf(w)
  <2>1. w \in Holders(k) /\ w \notin Holders(k)' /\ w \in Marking(k)'
    BY <1>2, <1>3, AtOnce
  <2>2. Cardinality(Holders(k)') = Cardinality(Holders(k)) - 1
    BY <1>2, <2>1, HoldersChange
  <2>3. sent'[k] = sent[k] + 1
    BY <1>1, <1>2, <1>3
  <2> QED
    BY <1>1, <1>2, <2>1, <2>2, <2>3 DEF Budgets, Budget
<1>4. CASE k # KeyOf(w)
  <2>1. /\ w \notin Holders(k) /\ w \notin Holders(k)'
        /\ w \notin Marking(k) /\ w \notin Marking(k)'
    BY <1>2, <1>4, AtOnce
  <2>2. sent'[k] = sent[k]
    BY <1>1, <1>2, <1>4
  <2> QED
    BY <1>2, <2>1, <2>2, LeaveBudget
<1> QED
  BY <1>3, <1>4

LEMMA MarkBudget ==
  ASSUME TypeOK, Budgets, NEW w \in Workers, Mark(w), NEW k \in Keys
  PROVE  Budget(k)'
<1>1. /\ work[w].step = "mark" /\ Others(w) /\ KeyOf(w)' = KeyOf(w)
      /\ work'[w].step = "ack" /\ UNCHANGED <<sent, excused>>
      /\ jobs' = [jobs EXCEPT ![KeyOf(w)] = "completed"]
  BY GoFacts DEF Mark, At, history, SetJob
<1>2. Holders(k)' = Holders(k)
  BY <1>1, AtOnce, HoldersChange
<1>3. CASE k = KeyOf(w)
  <2>1. w \in Marking(k) /\ jobs'[k] = "completed"
    BY <1>1, <1>3, AtOnce DEF TypeOK
  <2> QED
    BY <1>1, <1>2, <2>1 DEF Budgets, Budget
<1>4. CASE k # KeyOf(w)
  <2>1. w \notin Marking(k) /\ w \notin Marking(k)' /\ jobs'[k] = jobs[k]
    BY <1>1, <1>4, AtOnce DEF TypeOK
  <2>2. Marking(k)' = Marking(k)
    BY <1>1, <2>1, HoldersChange
  <2> QED
    BY <1>1, <1>2, <2>1, <2>2 DEF Budgets, Budget
<1> QED
  BY <1>3, <1>4

(* A failure or crash after the sending is an excuse of its own ...         *)
LEMMA FailBudget ==
  ASSUME TypeOK, Budgets, NEW w \in Workers, NEW k \in Keys,
         SendFails(w) \/ WorkerCrash(w), Excuse(w), UNCHANGED sent
  PROVE  Budget(k)'
<1>1. /\ ~ At(w, "idle") /\ End(w) /\ Excuse(w) /\ UNCHANGED sent
      /\ \/ UNCHANGED jobs
         \/ /\ jobs' = [jobs EXCEPT ![KeyOf(w)] = "failed"]
            /\ work[w].step \in {"send", "mark"}
  BY DEF SendFails, Retried, WorkerCrash, At, SetJob
<1>2. Others(w) /\ work'[w].step = "idle"
  BY <1>1, EndFacts
<1>3. w \notin Holders(k)' /\ w \notin Marking(k)'
  BY <1>2, AtOnce
<1>4. /\ sent[k] \in Nat /\ excused[k] \in Nat /\ Cardinality(Holders(k)) \in Nat
      /\ excused \in [Keys -> Nat]
  BY HoldersFinite DEF TypeOK
<1>5. \/ jobs'[k] = jobs[k]
      \/ k = KeyOf(w) /\ jobs'[k] = "failed" /\ work[w].step \in {"send", "mark"}
  BY <1>1 DEF TypeOK
<1>6. CASE w \in Marking(k)
  <2>1. work[w].step = "mark" /\ KeyOf(w) = k
    BY <1>6, AtOnce
  <2>2. excused'[k] = excused[k] + 1
    BY <1>1, <1>4, <2>1 DEF Excuse, At
  <2>3. Holders(k)' = Holders(k)
    BY <1>2, <1>3, <2>1, AtOnce, HoldersChange
  <2> QED
    BY <1>1, <1>4, <1>6, <2>2, <2>3 DEF Budgets, Budget
<1>7. CASE w \notin Marking(k)
  <2>1. excused'[k] = excused[k]
    BY <1>1, <1>4, <1>7, AtOnce DEF Excuse, At
  <2>2. w \in Holders(k) \/ jobs'[k] = jobs[k]
    BY <1>5, <1>7, AtOnce
  <2> QED
    BY <1>1, <1>2, <1>3, <1>5, <1>7, <2>1, <2>2, LeaveBudget
<1> QED
  BY <1>6, <1>7

(* ... and so is an answer that was lost.                                   *)
LEMMA LostBudget ==
  ASSUME TypeOK, Budgets, NEW w \in Workers, NEW k \in Keys,
         SendFails(w), AnswerLost(w)
  PROVE  Budget(k)'
<1>1. /\ work[w].step = "send" /\ End(w)
      /\ jobs' = [jobs EXCEPT ![KeyOf(w)] = "failed"]
      /\ sent' = [sent EXCEPT ![KeyOf(w)] = @ + 1]
      /\ excused' = [excused EXCEPT ![KeyOf(w)] = @ + 1]
  BY DEF SendFails, Retried, AnswerLost, At, SetJob
<1>2. Others(w) /\ work'[w].step = "idle"
  BY <1>1, EndFacts
<1>3. w \notin Holders(k)' /\ w \notin Marking(k)' /\ w \notin Marking(k)
  BY <1>1, <1>2, AtOnce
<1>4. /\ sent[k] \in Nat /\ excused[k] \in Nat /\ Cardinality(Holders(k)) \in Nat
      /\ sent \in [Keys -> Nat] /\ excused \in [Keys -> Nat]
      /\ jobs \in [Keys -> {"none", "processing", "completed", "skipped", "failed"}]
  BY HoldersFinite DEF TypeOK
<1>5. Marking(k)' = Marking(k)
  BY <1>2, <1>3, HoldersChange
<1>6. CASE k = KeyOf(w)
  <2>1. w \in Holders(k)
    BY <1>1, <1>6, AtOnce
  <2>2. Cardinality(Holders(k)') = Cardinality(Holders(k)) - 1
    BY <1>2, <1>3, <2>1, HoldersChange
  <2>3. /\ sent'[k] = sent[k] + 1 /\ excused'[k] = excused[k] + 1
        /\ jobs'[k] = "failed"
    BY <1>1, <1>4, <1>6
  <2>4. Cardinality(Holders(k)') \in Nat /\ (Holders(k)' = {} => Cardinality(Holders(k)') = 0)
    BY HoldersFinite, FS_CardinalityType, FS_EmptySet
  <2> QED
    BY <1>4, <1>5, <2>1, <2>2, <2>3, <2>4 DEF Budgets, Budget
<1>7. CASE k # KeyOf(w)
  <2>1. /\ w \notin Holders(k)
        /\ sent'[k] = sent[k] /\ excused'[k] = excused[k] /\ jobs'[k] = jobs[k]
    BY <1>1, <1>4, <1>7, AtOnce
  <2> QED
    BY <1>2, <1>3, <2>1, LeaveBudget
<1> QED
  BY <1>6, <1>7

LEMMA BudgetsKept ==
  ASSUME TypeOK, Budgets, [Next]_vars
  PROVE  Budgets'
<1> SUFFICES ASSUME NEW k \in Keys
             PROVE  Budget(k)'
  BY DEF Budgets, Keys, MaxNow
<1>1. CASE UNCHANGED <<jobs, work, sent, excused>>
  BY <1>1 DEF Budgets, Budget, Holders, Marking, MaySend, Claiming, At, KeyOf
<1>2. ASSUME NEW w \in Workers, ClaimRefused(w) \/ Skip(w) \/ Ack(w)
      PROVE  Budget(k)'
  <2>1. /\ Others(w) /\ work'[w].step \in {"idle", "ack"} /\ UNCHANGED <<sent, excused>>
        /\ work[w].step \in {"insert", "read", "ack"}
    BY <1>2, GoFacts, EndFacts DEF ClaimRefused, Skip, Ack, At, history
  <2>2. w \notin Holders(k)' /\ w \notin Marking(k)' /\ w \notin Marking(k)
    BY <2>1, AtOnce
  <2>3. \/ jobs'[k] = jobs[k]
        \/ jobs'[k] = "skipped" /\ k = KeyOf(w) /\ work[w].step = "read"
    BY <1>2 DEF ClaimRefused, Skip, Ack, At, SetJob, TypeOK
  <2> QED
    BY <2>1, <2>2, <2>3, AtOnce, LeaveBudget
<1>3. CASE \E w \in Workers : WorkerStep(w) \/ SendFails(w) \/ WorkerCrash(w)
  <2>1. ASSUME NEW w \in Workers, SendFails(w) \/ WorkerCrash(w)
        PROVE  Budget(k)'
    BY <2>1, FailBudget, LostBudget DEF SendFails, WorkerCrash
  <2> QED
    BY <1>2, <1>3, <2>1, LookBudget, HoldBudget, SendBudget, MarkBudget DEF WorkerStep
<1> QED
  BY <1>1, <1>3 DEF Next, vars, outside, history, Complete, Cancel, Pass, PublishCreated,
     PublishCompleted

(* However many workers are given a job, and however often its task is      *)
(* delivered, retried or interrupted: a completed job was sent, and each    *)
(* sending after the first has an excuse of its own.                        *)
THEOREM SentOnce == Spec => []SentOnceUnlessExcused
<1>1. Init => TypeOK /\ Budgets
  <2> SUFFICES ASSUME Init PROVE TypeOK /\ Budgets
    OBVIOUS
  <2>1. \A w \in Workers : work[w].step = "idle"
    BY DEF Init, Idle
  <2>2. ASSUME NEW k \in Keys PROVE Budget(k)
    <3>1. Holders(k) = {} /\ Marking(k) = {}
      BY <2>1 DEF Holders, Marking, MaySend, Claiming, At
    <3>2. sent[k] = 0 /\ excused[k] = 0 /\ jobs[k] = "none"
      BY DEF Init
    <3> QED
      BY <3>1, <3>2, FS_EmptySet DEF Budget
  <2> QED
    BY <2>1, <2>2, InitType DEF Budgets
<1>2. TypeOK /\ Budgets /\ [Next]_vars => Budgets'
  BY BudgetsKept
<1>3. TypeOK /\ Budgets => SentOnceUnlessExcused
  <2> SUFFICES ASSUME TypeOK, Budgets, NEW k \in Keys
               PROVE  /\ jobs[k] = "completed" => sent[k] > 0
                      /\ sent[k] <= 1 + excused[k]
    BY DEF SentOnceUnlessExcused
  <2>1. sent[k] \in Nat /\ excused[k] \in Nat /\ Cardinality(Holders(k)) \in Nat
    BY HoldersFinite DEF TypeOK
  <2> QED
    BY <2>1 DEF Budgets, Budget
<1> QED
  BY <1>1, <1>2, <1>3, TypeCorrect, PTL DEF Spec

------------------------------------------------------------------------------
(* The stories of the appointment                                           *)

(* Only the definitions of how stories go on are used, of any two stories.  *)
Story == INSTANCE AppointmentStories WITH Ids <- {1}, stories <- <<appointment>>

(* What the tasks can tell of a status: no guard of theirs knows whether    *)
(* the visit has started.                                                   *)
Seen(s) == IF s.status = "in_progress" THEN "scheduled" ELSE s.status

(* The story of the appointment goes on from s to t, and the notifications  *)
(* see of it the status, the event they follow up, and a cancellation.      *)
Hears(s, t) ==
  /\ Story!GoesOn(s, t)
  /\ appointment = Seen(s)
  /\ appointment' = Seen(t)
  /\ events' = IF Story!Completed(s, t) THEN [events EXCEPT !.completed = "pending"]
               ELSE events
  /\ caught' = IF appointment # "cancelled" /\ appointment' = "cancelled" THEN Sending
               ELSE caught
  /\ UNCHANGED <<phase, clock, queue, jobs, work, faults, sent, excused>>

(* The notifications are ready for every story: whatever event an           *)
(* appointment's story goes on by, in whatever state its tasks are, is a    *)
(* completion, a cancellation, or nothing that any task could see; and      *)
(* nothing completes or cancels the appointment that is not such an event.  *)
THEOREM EveryStoryIsHeard ==
  ASSUME TypeOK
  PROVE  /\ \A s, t \in Story!Stories :
              Hears(s, t) => Complete \/ Cancel \/ UNCHANGED vars
         /\ Complete \/ Cancel =>
              \A s \in Story!Stories :
                Seen(s) = appointment => \E t \in Story!Stories : Hears(s, t)
<1> USE DEF Seen
<1>1. ASSUME NEW s \in Story!Stories, NEW t \in Story!Stories, Hears(s, t)
      PROVE  Complete \/ Cancel \/ UNCHANGED vars
  <2>1. CASE Story!Completed(s, t)
    <3>1. appointment = "scheduled" /\ appointment' = "completed"
      BY <1>1, <2>1 DEF Hears, Story!Completed, Story!Tell
    <3> QED
      BY <1>1, <2>1, <3>1 DEF Hears, Complete, history
  <2>2. CASE Story!Cancelled(s, t) /\ ~ Story!Completed(s, t)
    <3>1. appointment' = "cancelled"
      BY <1>1, <2>2 DEF Hears, Story!Cancelled, Story!Tell
    <3> QED
      BY <1>1, <2>2, <3>1 DEF Hears, Cancel, vars, outside, history
  <2>3. CASE (Story!Started(s, t) \/ Story!Reassigned(s, t)) /\ ~ Story!Completed(s, t)
    <3>1. appointment' = appointment /\ appointment' # "cancelled"
      BY <1>1, <2>3 DEF Hears, Story!Started, Story!Reassigned, Story!Tell
    <3> QED
      BY <1>1, <2>3, <3>1 DEF Hears, vars, outside, history
  <2> QED
    BY <1>1, <2>1, <2>2, <2>3 DEF Hears, Story!GoesOn
<1>2. ASSUME NEW s \in Story!Stories, NEW e \in Story!EventTypes, NEW p \in Story!Statuses
      PROVE  Story!Tell(s, p, e) \in Story!Stories
  BY AppendProperties DEF Story!Stories, Story!Tell
<1>3. ASSUME Complete, NEW s \in Story!Stories, Seen(s) = appointment
      PROVE  \E t \in Story!Stories : Hears(s, t)
  <2> DEFINE t == Story!Tell(s, "completed", "appointment.completed")
  <2>1. t \in Story!Stories
    BY <1>2 DEF Story!EventTypes, Story!Statuses
  <2>2. t.status = "completed"
    BY DEF Story!Tell
  <2>3. Story!Completed(s, t)
    BY <1>3 DEF Complete, Story!Completed
  <2> HIDE DEF t
  <2>4. Hears(s, t)
    BY <1>3, <2>2, <2>3 DEF Complete, Hears, Story!GoesOn, history
  <2> QED
    BY <2>1, <2>4
<1>4. ASSUME Cancel, NEW s \in Story!Stories, Seen(s) = appointment
      PROVE  \E t \in Story!Stories : Hears(s, t)
  <2> DEFINE t == Story!Tell(s, "cancelled", "appointment.cancelled")
  <2>1. t \in Story!Stories
    BY <1>2 DEF Story!EventTypes, Story!Statuses
  <2>2. t.status = "cancelled"
    BY DEF Story!Tell
  <2>3. Story!Cancelled(s, t)
    BY <1>4 DEF TypeOK, Story!Cancelled
  <2>4. ~ Story!Completed(s, t)
    BY <2>2 DEF Story!Completed, Story!Tell
  <2> HIDE DEF t
  <2>5. Hears(s, t)
    BY <1>4, <2>2, <2>3, <2>4 DEF Cancel, Hears, Story!GoesOn
  <2> QED
    BY <2>1, <2>5
<1> QED
  BY <1>1, <1>3, <1>4

------------------------------------------------------------------------------
(* Somebody is at it                                                        *)

Waits(k) == \E m \in Messages : m.type = k.type /\ m.at = k.at /\ queue[m] > 0

Near(w, k) == KeyOf(w) = k /\ ~ At(w, "idle")

AtIt(w, k) == KeyOf(w) = k /\ \E s \in {"take", "read", "send", "mark"} : At(w, s)

Useless(k) == k.type = "confirmation" /\ appointment = "cancelled"

(* A job that is processing has a task that will settle it: one that waits  *)
(* to be delivered, or a worker's; or it is the confirmation of a cancelled *)
(* appointment, which the next look leaves alone.  (A follow-up has a key   *)
(* of its own at each look, and may be left behind.)                        *)
NoJobForgotten ==
  \A k \in Keys :
    k.type # "followup" /\ jobs[k] = "processing" =>
      Waits(k) \/ (\E w \in Workers : AtIt(w, k)) \/ Useless(k)

(* Until a reminder's job has ended, the event of the booking waits to be   *)
(* published, or a reminder to be delivered, or a worker is at one.         *)
ReminderToCome ==
  \/ events.created = "pending"
  \/ \E k \in Keys :
       /\ k.type = "reminder"
       /\ \/ Waits(k)
          \/ \E w \in Workers : Near(w, k)
          \/ jobs[k] \in {"completed", "skipped", "failed"}

(* Why they hold: there is a row of the job a worker is at unless it is     *)
(* about to insert it, and a reminder's row, once there, is pursued.        *)
Rowed ==
  \A w \in Workers : \A k :
    Near(w, k) => k \in Keys /\ (At(w, "insert") \/ jobs[k] # "none")

Known(k) == Waits(k) \/ (\E w \in Workers : Near(w, k)) \/ jobs[k] # "none"

Pursued ==
  /\ NoJobForgotten
  /\ events.created = "pending" \/ \E k \in Keys : k.type = "reminder" /\ Known(k)
  /\ Rowed

(* What is put in the queue waits, and so does what waited before.          *)
LEMMA PutWaits ==
  ASSUME TypeOK, NEW ms, Put(ms)
  PROVE  /\ \A k : Waits(k) => Waits(k)'
         /\ \A m \in ms \cap Messages : \A k :
              m.type = k.type /\ m.at = k.at => Waits(k)'
<1>1. queue \in [Messages -> Nat]
  BY DEF TypeOK
<1>2. \A m \in Messages : /\ queue'[m] >= queue[m]
                          /\ m \in ms => queue'[m] > 0
  BY <1>1 DEF Put
<1>3. \A m \in Messages : queue[m] > 0 => queue'[m] > 0
  BY <1>1, <1>2, PutType
<1> QED
  BY <1>2, <1>3 DEF Waits

(* The message of a worker waits for its job again.                         *)
LEMMA MessageWaits ==
  ASSUME TypeOK, NEW w \in Workers, NEW k \in Keys, KeyOf(w) = k, k.type # "followup",
         NEW r \in 0 .. MaxRetries, Put({MessageOf(w, r)})
  PROVE  Waits(k)'
<1>1. k.type = work[w].type /\ k.at = work[w].at
  BY DEF KeyOf
<1>2. MessageOf(w, r) \in Messages
  BY <1>1 DEF Keys, Messages, MessageOf
<1>3. MessageOf(w, r).type = k.type /\ MessageOf(w, r).at = k.at
  BY <1>1 DEF MessageOf
<1> QED
  BY <1>2, <1>3, PutWaits

(* One worker's step pursues every job, if it does not give up the one that *)
(* the worker is at.                                                        *)
LEMMA OneWorkerPursues ==
  ASSUME TypeOK, Pursued, NEW w \in Workers, Others(w), UNCHANGED <<appointment, events>>,
         \A k \in Keys : jobs[k] # "none" => jobs'[k] # "none",
         \A k \in Keys : k.type # "followup" /\ jobs'[k] = "processing" =>
           \/ Waits(k)' \/ AtIt(w, k)' \/ Useless(k)
           \/ ~ Waits(k) /\ jobs[k] = "processing" /\ ~ AtIt(w, k),
         \A k \in Keys : k.type = "reminder" /\ (Waits(k) \/ Near(w, k)) =>
           Waits(k)' \/ Near(w, k)' \/ jobs'[k] # "none",
         \A k : Near(w, k)' => k \in Keys /\ (At(w, "insert")' \/ jobs'[k] # "none")
  PROVE  Pursued'
<1>1. \A v \in Workers \ {w} : \A k :
        /\ AtIt(v, k)' <=> AtIt(v, k)
        /\ Near(v, k)' <=> Near(v, k)
        /\ At(v, "insert")' <=> At(v, "insert")
  BY DEF Others, AtIt, Near, At, KeyOf
<1>2. NoJobForgotten'
  <2> SUFFICES ASSUME NEW k \in Keys, k.type # "followup", jobs'[k] = "processing",
                      ~ Waits(k)', ~ AtIt(w, k)', ~ Useless(k)
               PROVE  \E v \in Workers : AtIt(v, k)'
    BY DEF NoJobForgotten, Useless
  <2>1. jobs[k] = "processing" /\ ~ Waits(k) /\ ~ AtIt(w, k)
    OBVIOUS
  <2>2. PICK v \in Workers : AtIt(v, k)
    BY <2>1 DEF Pursued, NoJobForgotten
  <2> QED
    BY <1>1, <2>1, <2>2
<1>3. ASSUME NEW k \in Keys, k.type = "reminder", Known(k)
      PROVE  Known(k)'
  BY <1>1, <1>3 DEF Known
<1>4. Rowed'
  BY <1>1 DEF Pursued, Rowed
<1> QED
  BY <1>2, <1>3, <1>4 DEF Pursued

LEMMA LookPursues ==
  ASSUME TypeOK, Pursued, NEW w \in Workers, Look(w)
  PROVE  Pursued'
<1>1. PICK m \in Messages :
        LET at == IF m.type = "followup" THEN Now ELSE m.at
            k == [type |-> m.type, at |-> at]
            stops == \/ Ended(k)
                     \/ m.type = "confirmation" /\ appointment = "cancelled"
        IN /\ At(w, "idle")
           /\ at \in Times
           /\ queue' = [queue EXCEPT ![m] = @ - 1]
           /\ work' = IF stops THEN work
                      ELSE [work EXCEPT ![w] =
                              [step |-> IF jobs[k] = "none" THEN "insert" ELSE "take",
                               type |-> m.type, at |-> at, retries |-> m.retries]]
           /\ UNCHANGED <<outside, jobs>>
  BY DEF Look
<1>2. PICK key \in Keys :
        key = [type |-> m.type, at |-> IF m.type = "followup" THEN Now ELSE m.at]
  BY <1>1, MessageKey
<1>3. Others(w) /\ UNCHANGED <<appointment, events, jobs>>
  BY <1>1, LookFacts DEF outside
<1> DEFINE s == IF jobs[key] = "none" THEN "insert" ELSE "take"
           stops == Ended(key) \/ Useless(key)
           record == [step |-> s, type |-> key.type, at |-> key.at, retries |-> m.retries]
<1>4. work' = IF stops THEN work ELSE [work EXCEPT ![w] = record]
  BY <1>1, <1>2 DEF Useless
<1>5. ~ stops => KeyOf(w)' = key /\ work'[w].step = s
  <2>1. ~ stops => work'[w] = record
    BY <1>4 DEF TypeOK
  <2>2. key = [type |-> key.type, at |-> key.at]
    BY <1>2
  <2> QED
    BY <2>1, <2>2 DEF KeyOf
<1>6. \A k : ~ Near(w, k) /\ ~ AtIt(w, k)
  BY <1>1 DEF Near, AtIt, At
<1>7. ASSUME NEW k \in Keys, k.type # "followup", Waits(k), ~ Waits(k)'
      PROVE  k = key
  <2>1. PICK n \in Messages : n.type = k.type /\ n.at = k.at /\ queue[n] > 0
    BY <1>7 DEF Waits
  <2>2. ~ (queue'[n] > 0)
    BY <1>7, <2>1 DEF Waits
  <2>3. n = m
    BY <1>1, <2>1, <2>2 DEF TypeOK
  <2>4. k = [type |-> k.type, at |-> k.at]
    BY DEF Keys
  <2> QED
    BY <1>2, <1>7, <2>1, <2>3, <2>4
<1>8. jobs[key] = "processing" => stops \/ AtIt(w, key)'
  BY <1>5 DEF AtIt, At
<1>9. stops \/ (Near(w, key)' /\ (At(w, "insert")' \/ jobs[key] # "none"))
  BY <1>5 DEF Near, At
<1>10. stops => Useless(key) \/ jobs[key] \in {"completed", "skipped"}
  BY DEF Ended
<1>11. \A k : Near(w, k)' => k = key /\ ~ stops
  BY <1>4, <1>5, <1>6 DEF Near, At, KeyOf
<1>12. Useless(key) => key.type # "reminder"
  BY DEF Useless
<1> HIDE DEF s, stops, record
<1>13. ASSUME NEW k \in Keys, k.type # "followup", jobs'[k] = "processing"
       PROVE  \/ Waits(k)' \/ AtIt(w, k)' \/ Useless(k)
              \/ ~ Waits(k) /\ jobs[k] = "processing" /\ ~ AtIt(w, k)
  BY <1>3, <1>6, <1>7, <1>8, <1>10, <1>13
<1>14. ASSUME NEW k \in Keys, k.type = "reminder", Waits(k) \/ Near(w, k)
       PROVE  Waits(k)' \/ Near(w, k)' \/ jobs'[k] # "none"
  BY <1>3, <1>6, <1>7, <1>9, <1>10, <1>12, <1>14
<1>15. ASSUME NEW k, Near(w, k)'
       PROVE  k \in Keys /\ (At(w, "insert")' \/ jobs'[k] # "none")
  BY <1>3, <1>9, <1>11, <1>15
<1> QED
  BY <1>3, <1>13, <1>14, <1>15, OneWorkerPursues

(* A worker claims its job, goes on with it, or ends it.                    *)
LEMMA WorkPursues ==
  ASSUME TypeOK, Pursued, NEW w \in Workers, NEW key \in Keys, Near(w, key),
         NEW s \in {"read", "send", "mark", "ack"}, Go(w, s),
         UNCHANGED <<appointment, events, queue>>,
         \/ /\ SetJob(key, "processing") /\ s \in {"read", "send", "mark"}
         \/ /\ \E status \in {"completed", "skipped"} : SetJob(key, status)
         \/ /\ UNCHANGED jobs /\ s \in {"read", "send", "mark"} /\ ~ At(w, "insert")
  PROVE  Pursued'
<1>1. Others(w) /\ KeyOf(w)' = key /\ work'[w].step = s
  BY GoFacts DEF Near
<1>2. /\ \A k \in Keys \ {key} : jobs'[k] = jobs[k]
      /\ jobs'[key] # "none"
      /\ jobs'[key] = "processing" => s \in {"read", "send", "mark"}
  <2>1. jobs[key] # "none" \/ At(w, "insert")
    BY DEF Pursued, Rowed
  <2> QED
    BY <2>1 DEF SetJob, TypeOK
<1>3. \A k : Waits(k)' <=> Waits(k)
  BY DEF Waits
<1>4. Near(w, key)' /\ (s \in {"read", "send", "mark"} => AtIt(w, key)')
  BY <1>1 DEF Near, AtIt, At
<1>5. \A k : Near(w, k)' => k = key
  BY <1>1 DEF Near, KeyOf
<1>6. \A k : AtIt(w, k) => k = key
  BY DEF AtIt, Near
<1>7. ASSUME NEW k \in Keys, k.type # "followup", jobs'[k] = "processing"
      PROVE  \/ Waits(k)' \/ AtIt(w, k)' \/ Useless(k)
             \/ ~ Waits(k) /\ jobs[k] = "processing" /\ ~ AtIt(w, k)
  BY <1>2, <1>3, <1>4, <1>6, <1>7
<1>8. ASSUME NEW k \in Keys, k.type = "reminder", Waits(k) \/ Near(w, k)
      PROVE  Waits(k)' \/ Near(w, k)' \/ jobs'[k] # "none"
  BY <1>2, <1>3, <1>8 DEF Near
<1> QED
  BY <1>1, <1>2, <1>5, <1>7, <1>8, OneWorkerPursues

(* A task ends: its job has settled, or is another's, or its message waits  *)
(* again.                                                                   *)
LEMMA EndPursues ==
  ASSUME TypeOK, Pursued, NEW w \in Workers, NEW key \in Keys, Near(w, key), End(w),
         UNCHANGED <<appointment, events>>,
         \A k : Waits(k) => Waits(k)',
         \/ SetJob(key, "failed")
         \/ UNCHANGED jobs /\ jobs[key] # "none" /\ ~ AtIt(w, key)
         \/ UNCHANGED jobs /\ (key.type # "followup" => Waits(key)')
  PROVE  Pursued'
<1>1. Others(w) /\ work'[w].step = "idle"
  BY EndFacts
<1>2. /\ \A k \in Keys \ {key} : jobs'[k] = jobs[k]
      /\ \A k \in Keys : jobs[k] # "none" => jobs'[k] # "none"
      /\ jobs'[key] # "none" \/ (key.type # "followup" => Waits(key)')
      /\ jobs'[key] = "processing" =>
           /\ jobs[key] = "processing"
           /\ ~ AtIt(w, key) \/ (key.type # "followup" => Waits(key)')
  BY DEF SetJob, TypeOK
<1>3. \A k : ~ Near(w, k)'
  BY <1>1 DEF Near, At
<1>4. \A k : AtIt(w, k) => k = key
  BY DEF AtIt, Near
<1>5. ASSUME NEW k \in Keys, k.type # "followup", jobs'[k] = "processing"
      PROVE  \/ Waits(k)' \/ AtIt(w, k)' \/ Useless(k)
             \/ ~ Waits(k) /\ jobs[k] = "processing" /\ ~ AtIt(w, k)
  BY <1>2, <1>4, <1>5
<1>6. ASSUME NEW k \in Keys, k.type = "reminder", Waits(k) \/ Near(w, k)
      PROVE  Waits(k)' \/ Near(w, k)' \/ jobs'[k] # "none"
  BY <1>2, <1>6 DEF Near
<1> QED
  BY <1>1, <1>2, <1>3, <1>5, <1>6, OneWorkerPursues

LEMMA StepPursues ==
  ASSUME TypeOK, Pursued, [Next]_vars
  PROVE  Pursued'
<1>1. CASE Complete \/ Cancel \/ Pass \/ UNCHANGED vars
  <2>1. UNCHANGED <<queue, jobs, work>> /\ events'.created = events.created
    BY <1>1 DEF Complete, Cancel, Pass, vars, outside, TypeOK
  <2>2. appointment = "cancelled" => appointment' = "cancelled"
    BY <1>1 DEF Complete, Cancel, Pass, vars, outside
  <2> QED
    BY <2>1, <2>2
    DEF Pursued, NoJobForgotten, Rowed, Known, Waits, Near, AtIt, At, KeyOf, Useless
<1>2. CASE PublishCreated \/ PublishCompleted
  <2>1. UNCHANGED <<appointment, jobs, work>>
    BY <1>2 DEF PublishCreated, PublishCompleted
  <2>2. \A k : Waits(k) => Waits(k)'
    BY <1>2, PutWaits DEF PublishCreated, PublishCompleted
  <2>3. NoJobForgotten' /\ Rowed'
    BY <2>1, <2>2 DEF Pursued, NoJobForgotten, Rowed, Near, AtIt, At, KeyOf, Useless
  <2>4. \A k : Known(k) => Known(k)'
    BY <2>1, <2>2 DEF Known, Near, At, KeyOf
  <2>5. CASE PublishCreated
    <3> DEFINE at == calculate_reminder_time
               m == Message("reminder", at)
    <3>1. at \in DayBefore .. MaxNow
      BY <2>5, NotificationsAssumption
      DEF PublishCreated, calculate_reminder_time, Times, TypeOK, Now, DayBefore, HourBefore, MaxNow
    <3>2. PICK t \in DayBefore .. MaxNow : t = at
      BY <3>1
    <3> DEFINE k == [type |-> "reminder", at |-> t]
    <3>3. k \in Keys /\ k.type = "reminder" /\ k.at = t
      BY DEF Keys
    <3>4. m \in Messages /\ m.type = "reminder" /\ m.at = t
      BY <3>2, NotificationsAssumption DEF Message, Messages
    <3>5. Waits(k)'
      BY <2>5, <3>3, <3>4, PutWaits DEF PublishCreated
    <3> QED
      BY <2>3, <3>3, <3>5 DEF Pursued, Known
  <2>6. CASE PublishCompleted
    <3>1. events'.created = events.created
      BY <2>6 DEF PublishCompleted, Mark_processed, TypeOK
    <3> QED
      BY <2>3, <2>4, <3>1 DEF Pursued
  <2> QED
    BY <1>2, <2>5, <2>6
<1>3. ASSUME NEW w \in Workers, ~ At(w, "idle"),
             WorkerStep(w) \/ SendFails(w) \/ WorkerCrash(w)
      PROVE  Pursued'
  <2>1. PICK key \in Keys : Near(w, key)
    BY <1>3 DEF Pursued, Rowed, Near
  <2>2. jobs[key] # "none" \/ At(w, "insert")
    BY <2>1 DEF Pursued, Rowed
  <2>3. KeyOf(w) = key
    BY <2>1 DEF Near
  <2>4. UNCHANGED <<appointment, events>>
    BY <1>3 DEF WorkerStep, Look, ClaimFound, ClaimNew, ClaimRefused, Read, Skip, Send, Mark,
      Ack, SendFails, WorkerCrash, outside
  <2>5. CASE ClaimFound(w) \/ ClaimNew(w)
    <3>1. \E s \in {"read", "send"} : Go(w, s)
      BY <2>5 DEF ClaimFound, ClaimNew
    <3> QED
      BY <2>1, <2>3, <2>4, <2>5, <3>1, WorkPursues DEF ClaimFound, ClaimNew
  <2>6. CASE Read(w)
    BY <2>1, <2>4, <2>6, WorkPursues DEF Read, At
  <2>7. CASE Send(w)
    BY <2>1, <2>4, <2>7, WorkPursues DEF Send, At
  <2>8. CASE Skip(w) \/ Mark(w)
    BY <2>1, <2>3, <2>4, <2>8, WorkPursues DEF Skip, Mark
  <2>9. CASE ClaimRefused(w) \/ Ack(w)
    <3>1. jobs[key] # "none" /\ ~ AtIt(w, key)
      BY <2>2, <2>3, <2>9 DEF ClaimRefused, Ack, AtIt, At
    <3>2. End(w) /\ UNCHANGED <<queue, jobs>>
      BY <2>9 DEF ClaimRefused, Ack
    <3>3. \A k : Waits(k) => Waits(k)'
      BY <3>2 DEF Waits
    <3> QED
      BY <2>1, <2>4, <3>1, <3>2, <3>3, EndPursues
  <2>10. CASE SendFails(w)
    <3>1. End(w) /\ SetJob(key, "failed")
      BY <2>3, <2>10 DEF SendFails, Retried
    <3>2. UNCHANGED queue \/ \E m : Put({m})
      BY <2>10 DEF SendFails, Retried
    <3>3. \A k : Waits(k) => Waits(k)'
      BY <3>2, PutWaits DEF Waits
    <3> QED
      BY <2>1, <2>4, <3>1, <3>3, EndPursues
  <2>11. CASE WorkerCrash(w)
    <3>1. Put({MessageOf(w, work[w].retries)}) /\ work[w].retries \in 0 .. MaxRetries
      BY <2>11, WorkerFacts DEF WorkerCrash
    <3>2. key.type # "followup" => Waits(key)'
      BY <2>3, <3>1, MessageWaits
    <3>3. \A k : Waits(k) => Waits(k)'
      BY <3>1, PutWaits
    <3> QED
      BY <2>1, <2>4, <2>11, <3>2, <3>3, EndPursues DEF WorkerCrash
  <2> QED
    BY <1>3, <2>5, <2>6, <2>7, <2>8, <2>9, <2>10, <2>11 DEF WorkerStep, Look
<1>4. ASSUME NEW w \in Workers, At(w, "idle"),
             WorkerStep(w) \/ SendFails(w) \/ WorkerCrash(w)
      PROVE  Look(w)
  BY <1>4 DEF WorkerStep, ClaimFound, ClaimNew, ClaimRefused, Read, Skip, Send, Mark, Ack,
    SendFails, WorkerCrash, At
<1> QED
  BY <1>1, <1>2, <1>3, <1>4, LookPursues DEF Next

(* Whatever worker dies, is refused or fails, and however messages are      *)
(* delivered again: a confirmation or reminder that is processing has a     *)
(* task that will settle it, and until a reminder's job has ended one is to *)
(* come.  So once the publisher, the queue and the workers are at rest,     *)
(* nothing is left processing but what a cancellation made useless, and a   *)
(* reminder's job has ended: what ClaimedJobSettles and BookedIsReminded    *)
(* say but for that there is such a rest.                                   *)
THEOREM NothingForgotten == Spec => [](NoJobForgotten /\ ReminderToCome)
<1>1. Init => TypeOK /\ Pursued
  <2> SUFFICES ASSUME Init PROVE Pursued
    BY InitType
  <2>1. \A k \in Keys : jobs[k] = "none"
    BY DEF Init
  <2>2. \A w \in Workers : \A k : ~ Near(w, k)
    BY DEF Init, Idle, Near, At
  <2>3. events.created = "pending"
    BY DEF Init
  <2> QED
    BY <2>1, <2>2, <2>3 DEF Pursued, NoJobForgotten, Rowed
<1>2. TypeOK /\ Pursued /\ [Next]_vars => Pursued'
  BY StepPursues
<1>3. TypeOK /\ Pursued => NoJobForgotten /\ ReminderToCome
  <2> SUFFICES ASSUME TypeOK, Pursued PROVE ReminderToCome
    BY DEF Pursued
  <2>1. ASSUME NEW k \in Keys, k.type = "reminder", Known(k)
        PROVE  \/ Waits(k)
               \/ \E w \in Workers : Near(w, k)
               \/ jobs[k] \in {"completed", "skipped", "failed"}
    <3>1. CASE jobs[k] = "processing"
      BY <2>1, <3>1 DEF Pursued, NoJobForgotten, Useless, AtIt, Near, At
    <3> QED
      BY <2>1, <3>1 DEF Known, TypeOK
  <2> QED
    BY <2>1 DEF Pursued, ReminderToCome
<1> QED
  BY <1>1, <1>2, <1>3, TypeCorrect, PTL DEF Spec

==============================================================================
