------------------------------- MODULE Booking -------------------------------
(****************************************************************************)
(* The transactions that book an appointment, run concurrently on           *)
(* PostgreSQL at its default isolation level READ COMMITTED.                *)
(*                                                                          *)
(* A finalizer is a call of AppointmentService.finalize_appointment made by *)
(* a resumed graph thread; an approver is the branch of the approval        *)
(* endpoint for a request that is addressed by its database id.  Each       *)
(* statement that reads, locks or writes is a step; a transaction that is   *)
(* aborted (a crash, a lost connection, a deadlock victim) leaves nothing   *)
(* behind.                                                                  *)
(*                                                                          *)
(* The engine is modelled as far as the code leans on it: FOR UPDATE on a   *)
(* technician, the FOR KEY SHARE lock that a foreign key takes on the       *)
(* technician of an inserted row, row locks of updated rows, the exclusion  *)
(* constraint with its wait for rows not yet committed, deadlock detection. *)
(* Exclusion = FALSE is a database without the constraint: the migration    *)
(* that adds it does so on PostgreSQL only.                                 *)
(****************************************************************************)
EXTENDS Integers, Sequences

CONSTANTS
  Finalizers, Approvers,   \* the transactions, one booking attempt each
  Requests, Technicians, Windows,
  Exclusion                \* is the exclusion constraint installed?

ASSUME WindowsAssumption ==
  /\ Windows \subseteq [start : Nat, end : Nat]
  /\ \A w \in Windows : w.start < w.end

ASSUME ProcessesAssumption == Finalizers \cap Approvers = {}

ASSUME ExclusionAssumption == Exclusion \in BOOLEAN

Procs == Finalizers \cup Approvers

VARIABLES
  job,        \* what each transaction was asked to book
  pc,         \* the step each transaction is at
  row,        \* the state of the row each transaction inserts
  inserted,   \* the transactions whose row got a primary key, in that order
  locked,     \* the holders of FOR UPDATE on each technician
  shared,     \* the holders of FOR KEY SHARE on each technician
  prior,      \* the rows an approver read and is going to supersede
  outcome,    \* what each transaction reports
  status      \* the committed status of each request

vars == <<job, pc, row, inserted, locked, shared, prior, outcome, status>>

------------------------------------------------------------------------------
Jobs == [request : Requests, technician : Technicians, window : Windows]

Steps == {"begin", "lock", "recheck", "slot", "prior", "insert", "key",
          "commit", "record", "done"}

RowStates == {"none", "uncommitted", "live", "cancelled"}

Outcomes == {"none", "existing", "created", "conflict", "error"}

Statuses == {"created", "scheduled", "needs_rescheduling", "conflict",
             "cancelled"}

Overlaps(v, w) == v.start < w.end /\ v.end > w.start

(* Two transactions book the same technician for windows that overlap.      *)
Compete(p, q) ==
  /\ p # q
  /\ job[p].technician = job[q].technician
  /\ Overlaps(job[p].window, job[q].window)

SameRequest(p, q) == job[p].request = job[q].request

(* The transaction has written but not committed.                           *)
InFlight(p) == row[p] = "uncommitted"

------------------------------------------------------------------------------
(* What a transaction at its present step has to wait for.                  *)

(* An approver's flush updates the request row before it inserts, so it     *)
(* holds the row until it ends.                                             *)
RequestLockers(p) ==
  {q \in Approvers \ {p} : SameRequest(p, q) /\ InFlight(q)}

(* Rows the exclusion constraint cannot decide on: inserted or superseded   *)
(* by a transaction that has not ended.                                     *)
Undecided(p) ==
  {q \in Procs : Exclusion /\ InFlight(q)
                 /\ (Compete(p, q) \/ \E c \in prior[q] \ prior[p] : Compete(p, c))}

Clashing(p) == {q \in Procs : row[q] = "live" /\ Compete(p, q)}

ClashingOthers(p) == {q \in Clashing(p) : ~ SameRequest(p, q)}

WaitsFor(p) ==
  LET t == job[p].technician IN
  CASE pc[p] \in {"begin", "prior", "done"} -> {}
    [] pc[p] = "slot" -> IF ClashingOthers(p) # {} THEN RequestLockers(p) ELSE {}
    [] pc[p] = "lock" -> (locked[t] \cup shared[t]) \ {p}
    [] pc[p] = "recheck" -> IF Clashing(p) # {} THEN RequestLockers(p) ELSE {}
    [] pc[p] = "insert" ->
         Undecided(p) \cup (IF p \in Approvers THEN RequestLockers(p) ELSE {})
    [] pc[p] = "key" -> locked[t] \ {p}
    [] pc[p] = "commit" -> IF p \in Finalizers THEN RequestLockers(p) ELSE {}
    [] pc[p] = "record" -> RequestLockers(p)

(* p is on a cycle of transactions that wait for each other.                *)
Deadlocked(p) ==
  \E S \in SUBSET Procs :
    /\ p \in S
    /\ \A q \in S : WaitsFor(q) \cap S # {}
    /\ \A q \in S : \E o \in S : q \in WaitsFor(o)

------------------------------------------------------------------------------
Release(p) ==
  /\ locked' = [t \in Technicians |-> locked[t] \ {p}]
  /\ shared' = [t \in Technicians |-> shared[t] \ {p}]

GoTo(p, s) == pc' = [pc EXCEPT ![p] = s]

End(p, o) ==
  /\ GoTo(p, "done")
  /\ outcome' = [outcome EXCEPT ![p] = o]

SetStatus(p, s) == status' = [status EXCEPT ![job[p].request] = s]

Committed(p) == row[p] \in {"live", "cancelled"}

(* The latest committed appointment of p's request blocks its slot.         *)
HasLiveLatest(p) ==
  \E i \in DOMAIN inserted :
    /\ SameRequest(p, inserted[i])
    /\ row[inserted[i]] = "live"
    /\ \A j \in DOMAIN inserted :
         SameRequest(p, inserted[j]) /\ Committed(inserted[j]) => j <= i

Init ==
  /\ job \in [Procs -> Jobs]
  /\ \A p, q \in Finalizers : SameRequest(p, q) => job[p] = job[q]
  /\ pc = [p \in Procs |-> "begin"]
  /\ row = [p \in Procs |-> "none"]
  /\ inserted = <<>>
  /\ locked = [t \in Technicians |-> {}]
  /\ shared = [t \in Technicians |-> {}]
  /\ prior = [p \in Procs |-> {}]
  /\ outcome = [p \in Procs |-> "none"]
  /\ status = [r \in Requests |-> "created"]

------------------------------------------------------------------------------
(* finalize_appointment                                                     *)

(* 1. An appointment of this request that blocks its slot is returned.      *)
CheckExisting(p) ==
  /\ pc[p] = "begin"
  /\ IF HasLiveLatest(p)
     THEN End(p, "existing")
     ELSE GoTo(p, "lock") /\ UNCHANGED outcome
  /\ UNCHANGED <<job, row, inserted, locked, shared, prior, status>>

(* Mutant of LockTechnician: a SELECT without FOR UPDATE.                   *)
ReadTechnician(p) ==
  /\ pc[p] = "lock"
  /\ GoTo(p, "recheck")
  /\ UNCHANGED <<job, row, inserted, locked, shared, prior, outcome, status>>

(* 2. SELECT ... FOR UPDATE on the technician.                              *)
LockTechnician(p) ==
  /\ pc[p] = "lock"
  /\ WaitsFor(p) = {}
  /\ locked' = [locked EXCEPT ![job[p].technician] = @ \cup {p}]
  /\ GoTo(p, "recheck")
  /\ UNCHANGED <<job, row, inserted, shared, prior, outcome, status>>

(* Mutant of Recheck: the outcome of a conflict is the request's status.    *)
RecheckStatus(p) ==
  /\ pc[p] = "recheck"
  /\ WaitsFor(p) = {}
  /\ IF Clashing(p) # {}
     THEN /\ End(p, "needs_rescheduling")
          /\ Release(p)
          /\ SetStatus(p, "needs_rescheduling")
     ELSE GoTo(p, "insert") /\ UNCHANGED <<locked, shared, outcome, status>>
  /\ UNCHANGED <<job, row, inserted, prior>>

(* 3. The slot is checked again; a conflict is recorded and committed.      *)
Recheck(p) ==
  /\ pc[p] = "recheck"
  /\ WaitsFor(p) = {}
  /\ IF Clashing(p) # {}
     THEN End(p, "conflict") /\ Release(p) /\ SetStatus(p, "needs_rescheduling")
     ELSE GoTo(p, "insert") /\ UNCHANGED <<locked, shared, outcome, status>>
  /\ UNCHANGED <<job, row, inserted, prior>>

(* 4b. After the constraint refused the row: the conflict is recorded in a  *)
(* transaction of its own.  (See FinalizerNeverRefused.)                    *)
RecordConflict(p) ==
  /\ pc[p] = "record"
  /\ WaitsFor(p) = {}
  /\ End(p, "conflict")
  /\ SetStatus(p, "needs_rescheduling")
  /\ UNCHANGED <<job, row, inserted, locked, shared, prior>>

------------------------------------------------------------------------------
(* The approval endpoint                                                    *)

(* 1. The status of the request is read; nothing is locked.                 *)
ReadRequest(p) ==
  /\ pc[p] = "begin"
  /\ IF status[job[p].request] \in {"created", "needs_rescheduling"}
     THEN GoTo(p, "slot") /\ UNCHANGED outcome
     ELSE End(p, "error")
  /\ UNCHANGED <<job, row, inserted, locked, shared, prior, status>>

(* 2. The slot is checked against the appointments of other requests.       *)
CheckSlot(p) ==
  /\ pc[p] = "slot"
  /\ WaitsFor(p) = {}
  /\ IF ClashingOthers(p) # {}
     THEN End(p, "conflict") /\ SetStatus(p, "conflict")
     ELSE GoTo(p, "prior") /\ UNCHANGED <<outcome, status>>
  /\ UNCHANGED <<job, row, inserted, locked, shared, prior>>

(* 3. The appointments of the request that are to be superseded are read.   *)
ReadPrior(p) ==
  /\ pc[p] = "prior"
  /\ prior' = [prior EXCEPT ![p] =
                 {q \in Procs : row[q] = "live" /\ SameRequest(p, q)}]
  /\ GoTo(p, "insert")
  /\ UNCHANGED <<job, row, inserted, locked, shared, outcome, status>>

(* 5. The foreign key of the inserted row locks the technician FOR KEY      *)
(* SHARE, which a FOR UPDATE holder keeps waiting.                          *)
TakeKeyShare(p) ==
  /\ pc[p] = "key"
  /\ WaitsFor(p) = {}
  /\ shared' = [shared EXCEPT ![job[p].technician] = @ \cup {p}]
  /\ GoTo(p, "commit")
  /\ UNCHANGED <<job, row, inserted, locked, prior, outcome, status>>

------------------------------------------------------------------------------
(* Both                                                                     *)

(* Mutant of InsertRow: the constraint does not cover the new row's status. *)
InsertUnconstrained(p) ==
  /\ pc[p] = "insert"
  /\ WaitsFor(p) = {}
  /\ row' = [row EXCEPT ![p] = "uncommitted"]
  /\ inserted' = Append(inserted, p)
  /\ GoTo(p, IF p \in Finalizers THEN "commit" ELSE "key")
  /\ UNCHANGED <<job, locked, shared, prior, outcome, status>>

(* 4. The row is inserted, unless the exclusion constraint refuses it; what *)
(* the same transaction supersedes no longer counts.                        *)
InsertRow(p) ==
  /\ pc[p] = "insert"
  /\ WaitsFor(p) = {}
  /\ IF Exclusion /\ Clashing(p) \ prior[p] # {}
     THEN /\ IF p \in Finalizers
             THEN GoTo(p, "record") /\ UNCHANGED outcome
             ELSE End(p, "error")
          /\ Release(p)
          /\ UNCHANGED <<row, inserted>>
     ELSE /\ row' = [row EXCEPT ![p] = "uncommitted"]
          /\ inserted' = Append(inserted, p)
          /\ GoTo(p, IF p \in Finalizers THEN "commit" ELSE "key")
          /\ UNCHANGED <<outcome, locked, shared>>
  /\ UNCHANGED <<job, prior, status>>

(* Mutant of Commit: the session is not closed and keeps its locks.         *)
CommitKeepsLocks(p) ==
  /\ pc[p] = "commit"
  /\ WaitsFor(p) = {}
  /\ row' = [q \in Procs |-> IF q = p THEN "live"
                             ELSE IF q \in prior[p] THEN "cancelled"
                             ELSE row[q]]
  /\ SetStatus(p, "scheduled")
  /\ End(p, "created")
  /\ UNCHANGED <<job, inserted, prior, locked, shared>>

Commit(p) ==
  /\ pc[p] = "commit"
  /\ WaitsFor(p) = {}
  /\ row' = [q \in Procs |-> IF q = p THEN "live"
                             ELSE IF q \in prior[p] THEN "cancelled"
                             ELSE row[q]]
  /\ SetStatus(p, "scheduled")
  /\ Release(p)
  /\ End(p, "created")
  /\ UNCHANGED <<job, inserted, prior>>

Rollback(p) ==
  /\ row' = [row EXCEPT ![p] = IF InFlight(p) THEN "none" ELSE @]
  /\ Release(p)
  /\ End(p, "error")
  /\ UNCHANGED <<job, inserted, prior, status>>

(* The process or its connection dies.                                      *)
Crash(p) == pc[p] # "done" /\ Rollback(p)

(* The engine picks a victim on a cycle of waiting transactions.            *)
AbortVictim(p) == Deadlocked(p) /\ Rollback(p)

(* An operator cancels a committed appointment and its request, once no     *)
(* other transaction holds the rows.                                        *)
CancelBooked(p) ==
  /\ row[p] = "live"
  /\ RequestLockers(p) = {}
  /\ \A q \in Procs : InFlight(q) => p \notin prior[q]
  /\ row' = [row EXCEPT ![p] = "cancelled"]
  /\ SetStatus(p, "cancelled")
  /\ UNCHANGED <<job, pc, inserted, locked, shared, prior, outcome>>

------------------------------------------------------------------------------
Finalize(p) ==
  CheckExisting(p) \/ LockTechnician(p) \/ Recheck(p) \/ RecordConflict(p)

Approve(p) ==
  ReadRequest(p) \/ CheckSlot(p) \/ ReadPrior(p) \/ TakeKeyShare(p)

Step(p) ==
  \/ p \in Finalizers /\ Finalize(p)
  \/ p \in Approvers /\ Approve(p)
  \/ InsertRow(p)
  \/ Commit(p)

Finished == (\A p \in Procs : pc[p] = "done") /\ UNCHANGED vars

Next ==
  \/ \E p \in Procs : Step(p) \/ Crash(p) \/ AbortVictim(p) \/ CancelBooked(p)
  \/ Finished

(* A transaction that can take its next step is run by its server process,  *)
(* and the engine's deadlock timeout fires.                                 *)
Fairness ==
  \A p \in Procs : WF_vars(Step(p)) /\ WF_vars(AbortVictim(p))

Spec == Init /\ [][Next]_vars

FairSpec == Spec /\ Fairness

------------------------------------------------------------------------------
(* Properties                                                               *)

TypeOK ==
  /\ job \in [Procs -> Jobs]
  /\ pc \in [Procs -> Steps]
  /\ row \in [Procs -> RowStates]
  /\ inserted \in Seq(Procs)
  /\ locked \in [Technicians -> SUBSET Procs]
  /\ shared \in [Technicians -> SUBSET Procs]
  /\ prior \in [Procs -> SUBSET Procs]
  /\ outcome \in [Procs -> Outcomes]
  /\ status \in [Requests -> Statuses]

(* Two committed appointments never claim one technician at one instant.    *)
(* With the exclusion constraint this holds for every mix of transactions;  *)
(* without it, as long as every booking goes through finalize_appointment,  *)
(* by the technician lock and the second check.                             *)
Instants(w) == w.start .. (w.end - 1)

NoDoubleBooking ==
  \A p, q \in Procs :
    /\ p # q
    /\ row[p] = "live"
    /\ row[q] = "live"
    /\ job[p].technician = job[q].technician
    => Instants(job[p].window) \cap Instants(job[q].window) = {}

(* The exclusion constraint never refuses the row of a finalizer: whoever   *)
(* books the technician has to lock the technician's key, and that waits    *)
(* while a finalizer goes from its second check to its commit.              *)
FinalizerNeverRefused == \A p \in Finalizers : pc[p] # "record"

(* No booking attempt waits for ever: locks are given up on every way out   *)
(* and cycles of waiting transactions are broken.                           *)
EveryAttemptEnds == \A p \in Procs : <>(pc[p] = "done")

(* The committed rows are a calendar of the technicians: see                *)
(* TechnicianCalendar.                                                      *)
Bookings ==
  {[appointment |-> p, technician |-> job[p].technician,
    window |-> job[p].window] : p \in {q \in Procs : row[q] = "live"}}

Used == {p \in Procs : Committed(p)}

Calendar == INSTANCE TechnicianCalendar
              WITH bookings <- Bookings, used <- Used

ImplementsCalendar == Calendar!Spec

------------------------------------------------------------------------------
(* A statement of the documentation that the code does not keep             *)

(* docs/reliability.md: when two operators approve simultaneously, only one *)
(* appointment is created.                                                  *)
OneAppointmentPerRequest ==
  \A p, q \in Procs :
    p # q /\ SameRequest(p, q) /\ row[p] = "live" => row[q] # "live"

==============================================================================
