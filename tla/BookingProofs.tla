---------------------------- MODULE BookingProofs ----------------------------
(****************************************************************************)
(* Type correctness of Booking, and that no two committed appointments      *)
(* claim one technician at one instant, for any number of transactions,     *)
(* requests, technicians and windows.                                       *)
(*                                                                          *)
(* Two mechanisms protect the calendar, and the inductive invariant has one *)
(* part for each: what a finalizer knows once it holds the technician and   *)
(* has rechecked the slot, and what the exclusion constraint has decided    *)
(* about rows that are not committed yet.  A third mechanism, the reading   *)
(* of the request's own appointments, makes them one per request only where *)
(* the attempts come one after the other.  The last section is about the    *)
(* locks themselves: they never leave all attempts waiting.                 *)
(****************************************************************************)
EXTENDS Booking, SequenceTheorems, FiniteSetTheorems, WellFoundedInduction, TLAPS

(* A row exists exactly while its transaction is between its insert and its *)
(* commit; a committed row belongs to a transaction that has ended.         *)
RowsFollowSteps ==
  \A p \in Procs :
    /\ row[p] = "uncommitted" <=> pc[p] \in {"key", "commit"}
    /\ Committed(p) => pc[p] = "done"

(* Only committed rows are superseded.                                      *)
PriorCommitted == \A p \in Procs : \A q \in prior[p] : Committed(q)

(* A finalizer holds its technician from the second check to the commit,    *)
(* an approver that may commit has locked the key, and a technician has one *)
(* holder or else holders of its key.                                       *)
LocksHeld ==
  /\ \A p \in Finalizers :
       pc[p] \in {"recheck", "insert", "commit"} =>
         p \in locked[job[p].technician]
  /\ \A p \in Approvers :
       pc[p] = "commit" => p \in shared[job[p].technician]
  /\ \A t \in Technicians :
       /\ locked[t] \subseteq Finalizers
       /\ shared[t] \subseteq Approvers
       /\ locked[t] = {} \/ shared[t] = {}
       /\ \A p, q \in locked[t] : p = q

(* The slot that a finalizer found free stays free while it holds the lock. *)
SlotStaysFree ==
  \A p \in Finalizers : pc[p] \in {"insert", "commit"} => Clashing(p) = {}

(* With the constraint, an uncommitted row clashes with no other one, and   *)
(* with no committed row but those it supersedes.                           *)
ConstraintDecided ==
  Exclusion =>
    \A p, q \in Procs :
      InFlight(p) /\ Compete(p, q) =>
        /\ ~ InFlight(q)
        /\ row[q] = "live" => q \in prior[p]

LiveRowsApart ==
  \A p, q \in Procs : row[p] = "live" /\ row[q] = "live" => ~ Compete(p, q)

IInv ==
  /\ TypeOK
  /\ RowsFollowSteps
  /\ PriorCommitted
  /\ LocksHeld
  /\ SlotStaysFree
  /\ ConstraintDecided
  /\ LiveRowsApart
  /\ FinalizerNeverRefused

------------------------------------------------------------------------------
(* Competing for a technician is mutual: Overlaps is symmetric.             *)
LEMMA CompeteSymmetric ==
  ASSUME TypeOK, NEW p \in Procs, NEW q \in Procs, Compete(p, q)
  PROVE  Compete(q, p)
  BY WindowsAssumption DEF TypeOK, Jobs, Compete, Overlaps

(* The two ways InsertRow ends.                                             *)
Refused(p) ==
  /\ Clashing(p) # {}
  /\ \/ p \in Finalizers /\ GoTo(p, "record") /\ UNCHANGED outcome
     \/ p \notin Finalizers /\ End(p, "error")
  /\ Release(p)
  /\ UNCHANGED <<job, row, inserted, prior, status>>

Accepted(p) ==
  /\ Exclusion => Clashing(p) \ prior[p] = {}
  /\ row' = [row EXCEPT ![p] = "uncommitted"]
  /\ inserted' = Append(inserted, p)
  /\ \/ p \in Finalizers /\ GoTo(p, "commit")
     \/ GoTo(p, "key")
  /\ UNCHANGED <<job, locked, shared, prior, outcome, status>>

(* InsertRow is one of the two.                                             *)
LEMMA InsertOutcomes ==
  ASSUME NEW p \in Procs, InsertRow(p)
  PROVE  Refused(p) \/ Accepted(p)
<1>1. CASE Exclusion /\ Clashing(p) \ prior[p] # {}
  <2>1. CASE p \in Finalizers
    BY <1>1, <2>1 DEF InsertRow, Refused
  <2>2. CASE p \notin Finalizers
    BY <1>1, <2>2 DEF InsertRow, Refused
  <2> QED
    BY <2>1, <2>2
<1>2. CASE ~ (Exclusion /\ Clashing(p) \ prior[p] # {})
  <2>1. CASE p \in Finalizers
    BY <1>2, <2>1 DEF InsertRow, Accepted
  <2>2. CASE p \notin Finalizers
    BY <1>2, <2>2 DEF InsertRow, Accepted
  <2> QED
    BY <2>1, <2>2
<1> QED
  BY <1>1, <1>2

(* The initial state has the types of TypeOK.                               *)
LEMMA InitTypeOK == Init => TypeOK
  BY DEF Init, TypeOK, Jobs, Steps, RowStates, Outcomes, Statuses

(* Every step keeps the types of TypeOK.                                    *)
LEMMA StepTypeOK == TypeOK /\ [Next]_vars => TypeOK'
<1> SUFFICES ASSUME TypeOK, [Next]_vars PROVE TypeOK'
  OBVIOUS
<1> USE DEF TypeOK, Jobs, Steps, RowStates, Outcomes, Statuses, GoTo, End,
            Release, SetStatus
<1>1. ASSUME NEW p \in Procs, CheckExisting(p) PROVE TypeOK'
  BY <1>1 DEF CheckExisting
<1>2. ASSUME NEW p \in Procs, LockTechnician(p) PROVE TypeOK'
  BY <1>2 DEF LockTechnician
<1>3. ASSUME NEW p \in Procs, Recheck(p) PROVE TypeOK'
  <2>1. CASE Clashing(p) # {}
    <3>1. /\ End(p, "conflict") /\ Release(p) /\ SetStatus(p, "needs_rescheduling")
          /\ UNCHANGED <<job, row, inserted, prior>>
      BY <1>3, <2>1 DEF Recheck
    <3> QED
      BY <3>1
  <2>2. CASE ~ (Clashing(p) # {})
    <3>1. /\ GoTo(p, "insert")
          /\ UNCHANGED <<job, row, inserted, prior, locked, shared, outcome,
                         status>>
      BY <1>3, <2>2 DEF Recheck
    <3> QED
      BY <3>1
  <2> QED
    BY <2>1, <2>2
<1>4. ASSUME NEW p \in Procs, RecordConflict(p) PROVE TypeOK'
  BY <1>4 DEF RecordConflict
<1>5. ASSUME NEW p \in Procs, ReadRequest(p) PROVE TypeOK'
  BY <1>5 DEF ReadRequest
<1>6. ASSUME NEW p \in Procs, CheckSlot(p) PROVE TypeOK'
  BY <1>6 DEF CheckSlot
<1>7. ASSUME NEW p \in Procs, ReadPrior(p) PROVE TypeOK'
  BY <1>7 DEF ReadPrior
<1>8. ASSUME NEW p \in Procs, TakeKeyShare(p) PROVE TypeOK'
  BY <1>8 DEF TakeKeyShare
<1>9. ASSUME NEW p \in Procs, InsertRow(p) PROVE TypeOK'
  <2>1. CASE Refused(p)
    BY <2>1 DEF Refused
  <2>2. CASE Accepted(p)
    <3>1. inserted' \in Seq(Procs)
      BY <2>2, AppendProperties DEF Accepted
    <3>2. /\ row' = [row EXCEPT ![p] = "uncommitted"]
          /\ GoTo(p, "commit") \/ GoTo(p, "key")
          /\ UNCHANGED <<job, locked, shared, prior, outcome, status>>
      BY <2>2 DEF Accepted
    <3> QED
      BY <3>1, <3>2
  <2> QED
    BY <1>9, <2>1, <2>2, InsertOutcomes
<1>10. ASSUME NEW p \in Procs, Commit(p) PROVE TypeOK'
  BY <1>10 DEF Commit
<1>11. ASSUME NEW p \in Procs, Rollback(p) PROVE TypeOK'
  BY <1>11 DEF Rollback
<1>12. ASSUME NEW p \in Procs, CancelBooked(p) PROVE TypeOK'
  BY <1>12 DEF CancelBooked
<1>13. CASE UNCHANGED vars
  BY <1>13 DEF vars
<1> QED
  BY <1>1, <1>2, <1>3, <1>4, <1>5, <1>6, <1>7, <1>8, <1>9, <1>10, <1>11,
     <1>12, <1>13
  DEF Next, Step, Finalize, Approve, Crash, AbortVictim, Finished

(* Type correctness: every reachable state of the booking transactions has  *)
(* the types that TypeOK gives.                                             *)
THEOREM TypeCorrect == Spec => []TypeOK
  BY InitTypeOK, StepTypeOK, PTL DEF Spec

------------------------------------------------------------------------------
(* The initial state satisfies the inductive invariant.                     *)
LEMMA InitIInv == Init => IInv
<1> SUFFICES ASSUME Init PROVE IInv
  OBVIOUS
<1>1. TypeOK
  BY InitTypeOK
<1>2. \A p \in Procs : pc[p] = "begin" /\ row[p] = "none" /\ prior[p] = {}
  BY DEF Init
<1>3. \A t \in Technicians : locked[t] = {} /\ shared[t] = {}
  BY DEF Init
<1> QED
  BY <1>1, <1>2, <1>3
  DEF IInv, RowsFollowSteps, PriorCommitted, LocksHeld, SlotStaysFree,
      ConstraintDecided, LiveRowsApart, FinalizerNeverRefused, Committed,
      InFlight, Procs

(* A step that only moves a transaction between steps at which it has no    *)
(* row and no lock, or ends it there, keeps the invariant.                  *)
LEMMA QuietStep ==
  ASSUME IInv, TypeOK', NEW p \in Procs, NEW s \in Steps,
         pc[p] \notin {"key", "commit", "done"},
         s \notin {"recheck", "insert", "key", "commit", "record"},
         pc' = [pc EXCEPT ![p] = s],
         UNCHANGED <<job, row, locked, shared, prior>>
  PROVE  IInv'
<1> USE DEF TypeOK
<1>1. RowsFollowSteps'
  BY DEF IInv, RowsFollowSteps, Committed
<1>2. PriorCommitted'
  BY DEF IInv, PriorCommitted, Committed
<1>3. LocksHeld'
  BY DEF IInv, LocksHeld, Procs
<1>4. SlotStaysFree'
  BY DEF IInv, SlotStaysFree, Clashing, Compete
<1>5. ConstraintDecided'
  BY DEF IInv, ConstraintDecided, InFlight, Compete
<1>6. LiveRowsApart'
  BY DEF IInv, LiveRowsApart, Compete
<1>9. FinalizerNeverRefused'
  BY DEF IInv, FinalizerNeverRefused, Procs
<1> QED
  BY <1>1, <1>2, <1>3, <1>4, <1>5, <1>6, <1>9 DEF IInv

(* A transaction that gives up its locks and what it has not committed      *)
(* keeps the invariant.                                                     *)
LEMMA GiveUpStep ==
  ASSUME IInv, TypeOK', NEW p \in Procs,
         pc[p] # "done",
         pc' = [pc EXCEPT ![p] = "done"],
         \A q \in Procs :
           row'[q] = IF q = p /\ row[p] = "uncommitted" THEN "none" ELSE row[q],
         Release(p),
         UNCHANGED <<job, prior>>
  PROVE  IInv'
<1> USE DEF TypeOK
<1>1. RowsFollowSteps'
  BY DEF IInv, RowsFollowSteps, Committed
<1>2. PriorCommitted'
  BY DEF IInv, PriorCommitted, Committed
<1>3. LocksHeld'
  <2>1. \A q \in Procs : job[q].technician \in Technicians
    BY DEF IInv, Jobs
  <2>2. \A t \in Technicians : /\ locked'[t] = locked[t] \ {p}
                               /\ shared'[t] = shared[t] \ {p}
    BY DEF Release
  <2>3. \A q \in Procs \ {p} : pc'[q] = pc[q]
    BY DEF IInv
  <2>4. pc'[p] = "done"
    BY DEF IInv
  <2> QED
    BY <2>1, <2>2, <2>3, <2>4 DEF IInv, LocksHeld, Procs
<1>4. SlotStaysFree'
  BY DEF IInv, SlotStaysFree, Clashing, Compete
<1>5. ConstraintDecided'
  BY DEF IInv, ConstraintDecided, InFlight, Compete
<1>6. LiveRowsApart'
  BY DEF IInv, LiveRowsApart, Compete
<1>9. FinalizerNeverRefused'
  BY DEF IInv, FinalizerNeverRefused, Procs
<1> QED
  BY <1>1, <1>2, <1>3, <1>4, <1>5, <1>6, <1>9 DEF IInv

(* FOR UPDATE is granted when nobody else holds the technician.             *)
LEMMA LockStep ==
  ASSUME IInv, TypeOK', NEW p \in Finalizers, LockTechnician(p)
  PROVE  IInv'
<1> USE DEF TypeOK
<1>0. p \in Procs /\ p \notin Approvers
  BY ProcessesAssumption DEF Procs
<1>1. locked[job[p].technician] \cup shared[job[p].technician] \subseteq {p}
  BY DEF LockTechnician, WaitsFor
<1>2. RowsFollowSteps'
  BY DEF IInv, RowsFollowSteps, Committed, LockTechnician, GoTo
<1>3. PriorCommitted'
  BY DEF IInv, PriorCommitted, Committed, LockTechnician
<1>4. LocksHeld'
  <2>1. job[p].technician \in Technicians
    BY <1>0 DEF IInv, Jobs
  <2>2. shared[job[p].technician] = {}
    BY <1>0, <1>1, <2>1 DEF IInv, LocksHeld
  <2> QED
    BY <1>0, <1>1, <2>1, <2>2 DEF IInv, LocksHeld, Procs, LockTechnician, GoTo
<1>5. SlotStaysFree'
  BY DEF IInv, SlotStaysFree, Clashing, Compete, LockTechnician, GoTo
<1>6. ConstraintDecided'
  BY DEF IInv, ConstraintDecided, InFlight, Compete, LockTechnician
<1>7. LiveRowsApart'
  BY DEF IInv, LiveRowsApart, Compete, LockTechnician
<1>9. FinalizerNeverRefused'
  BY DEF IInv, FinalizerNeverRefused, Procs, LockTechnician, GoTo
<1> QED
  BY <1>2, <1>3, <1>4, <1>5, <1>6, <1>7, <1>9 DEF IInv

(* The second check moves on only when the slot is free.                    *)
LEMMA RecheckStep ==
  ASSUME IInv, TypeOK', NEW p \in Finalizers, Recheck(p)
  PROVE  IInv'
<1> USE DEF TypeOK
<1>0. p \in Procs
  BY DEF Procs
<1>1. CASE Clashing(p) # {}
  <2>1. /\ pc' = [pc EXCEPT ![p] = "done"]
        /\ Release(p)
        /\ UNCHANGED <<job, row, prior>>
    BY <1>1 DEF Recheck, End, GoTo
  <2>2. pc[p] = "recheck" /\ row[p] # "uncommitted"
    BY <1>0 DEF Recheck, IInv, RowsFollowSteps
  <2> QED
    BY <1>0, <2>1, <2>2, GiveUpStep
<1>2. CASE Clashing(p) = {}
  <2>1. /\ pc[p] = "recheck"
        /\ pc' = [pc EXCEPT ![p] = "insert"]
        /\ UNCHANGED <<job, row, prior, locked, shared>>
    BY <1>2 DEF Recheck, GoTo
  <2>2. RowsFollowSteps'
    BY <1>0, <2>1 DEF IInv, RowsFollowSteps, Committed
  <2>3. PriorCommitted'
    BY <2>1 DEF IInv, PriorCommitted, Committed
  <2>4. LocksHeld'
    BY <1>0, <2>1 DEF IInv, LocksHeld, Procs
  <2>5. SlotStaysFree'
    BY <1>0, <1>2, <2>1 DEF IInv, SlotStaysFree, Clashing, Compete
  <2>6. ConstraintDecided'
    BY <2>1 DEF IInv, ConstraintDecided, InFlight, Compete
  <2>7. LiveRowsApart'
    BY <2>1 DEF IInv, LiveRowsApart, Compete
  <2>9. FinalizerNeverRefused'
    BY <2>1 DEF IInv, FinalizerNeverRefused, Procs
  <2> QED
    BY <2>2, <2>3, <2>4, <2>5, <2>6, <2>7, <2>9 DEF IInv
<1> QED
  BY <1>1, <1>2

(* An approver reads the committed rows that it will supersede.             *)
LEMMA ReadPriorStep ==
  ASSUME IInv, TypeOK', NEW p \in Approvers, ReadPrior(p)
  PROVE  IInv'
<1> USE DEF TypeOK
<1>0. p \in Procs /\ p \notin Finalizers
  BY ProcessesAssumption DEF Procs
<1>1. /\ pc[p] = "prior"
      /\ pc' = [pc EXCEPT ![p] = "insert"]
      /\ prior' = [prior EXCEPT ![p] =
                     {q \in Procs : row[q] = "live" /\ SameRequest(p, q)}]
      /\ UNCHANGED <<job, row, locked, shared>>
  BY DEF ReadPrior, GoTo
<1>2. RowsFollowSteps'
  BY <1>0, <1>1 DEF IInv, RowsFollowSteps, Committed
<1>3. PriorCommitted'
  BY <1>0, <1>1 DEF IInv, PriorCommitted, Committed
<1>4. LocksHeld'
  BY <1>0, <1>1 DEF IInv, LocksHeld, Procs
<1>5. SlotStaysFree'
  BY <1>0, <1>1 DEF IInv, SlotStaysFree, Clashing, Compete, Procs
<1>6. ConstraintDecided'
  <2>1. row[p] # "uncommitted"
    BY <1>0, <1>1 DEF IInv, RowsFollowSteps
  <2> QED
    BY <1>0, <1>1, <2>1 DEF IInv, ConstraintDecided, InFlight, Compete
<1>7. LiveRowsApart'
  BY <1>1 DEF IInv, LiveRowsApart, Compete
<1>9. FinalizerNeverRefused'
  BY <1>1 DEF IInv, FinalizerNeverRefused, Procs
<1> QED
  BY <1>2, <1>3, <1>4, <1>5, <1>6, <1>7, <1>9 DEF IInv

(* Waiting for the foreign key touches no row.                              *)
LEMMA KeyShareStep ==
  ASSUME IInv, TypeOK', NEW p \in Approvers, TakeKeyShare(p)
  PROVE  IInv'
<1> USE DEF TypeOK
<1>0. p \in Procs /\ p \notin Finalizers
  BY ProcessesAssumption DEF Procs
<1>1. /\ pc[p] = "key"
      /\ pc' = [pc EXCEPT ![p] = "commit"]
      /\ shared' = [shared EXCEPT ![job[p].technician] = @ \cup {p}]
      /\ UNCHANGED <<job, row, locked, prior>>
  BY DEF TakeKeyShare, GoTo
<1>2. RowsFollowSteps'
  BY <1>0, <1>1 DEF IInv, RowsFollowSteps, Committed
<1>3. PriorCommitted'
  BY <1>1 DEF IInv, PriorCommitted, Committed
<1>4. LocksHeld'
  <2>1. job[p].technician \in Technicians
    BY <1>0 DEF IInv, Jobs
  <2>2. locked[job[p].technician] \subseteq {p}
    BY <1>1 DEF TakeKeyShare, WaitsFor
  <2>3. locked[job[p].technician] = {}
    BY <1>0, <2>1, <2>2 DEF IInv, LocksHeld
  <2> QED
    BY <1>0, <1>1, <2>1, <2>3 DEF IInv, LocksHeld, Procs
<1>5. SlotStaysFree'
  BY <1>0, <1>1 DEF IInv, SlotStaysFree, Clashing, Compete, Procs
<1>6. ConstraintDecided'
  BY <1>1 DEF IInv, ConstraintDecided, InFlight, Compete
<1>7. LiveRowsApart'
  BY <1>1 DEF IInv, LiveRowsApart, Compete
<1>9. FinalizerNeverRefused'
  BY <1>1 DEF IInv, FinalizerNeverRefused, Procs
<1> QED
  BY <1>2, <1>3, <1>4, <1>5, <1>6, <1>7, <1>9 DEF IInv

(* The row is inserted when the constraint has nothing left to wait for.    *)
LEMMA InsertStep ==
  ASSUME IInv, TypeOK', NEW p \in Procs, InsertRow(p)
  PROVE  IInv'
<1> USE DEF TypeOK
<1>0. pc[p] = "insert" /\ row[p] = "none"
  BY DEF InsertRow, IInv, RowsFollowSteps, Committed, RowStates
<1>1. CASE Refused(p)
  <2>1. p \notin Finalizers
    BY <1>0, <1>1 DEF Refused, IInv, SlotStaysFree
  <2>2. pc' = [pc EXCEPT ![p] = "done"]
    BY <1>1, <2>1 DEF Refused, End, GoTo
  <2>3. Release(p) /\ UNCHANGED <<job, row, prior>>
    BY <1>1 DEF Refused
  <2> QED
    BY <1>0, <2>2, <2>3, GiveUpStep
<1>2. CASE Accepted(p)
  <2>1. /\ row' = [row EXCEPT ![p] = "uncommitted"]
        /\ UNCHANGED <<job, locked, shared, prior>>
    BY <1>2 DEF Accepted
  <2>2. PICK s \in {"key", "commit"} :
          /\ pc' = [pc EXCEPT ![p] = s]
          /\ s = "commit" => p \in Finalizers
    BY <1>2 DEF Accepted, GoTo
  <2>3. RowsFollowSteps'
    BY <1>0, <2>1, <2>2 DEF IInv, RowsFollowSteps, Committed
  <2>4. PriorCommitted'
    BY <1>0, <2>1 DEF IInv, PriorCommitted, Committed
  <2>5. LocksHeld'
    <3>1. \A q \in Procs \ {p} : pc'[q] = pc[q]
      BY <2>2 DEF IInv
    <3>2. /\ pc'[p] \in {"key", "commit"}
          /\ pc'[p] = "commit" => p \in Finalizers
      BY <2>2 DEF IInv
    <3>3. p \in Finalizers => p \notin Approvers
      BY ProcessesAssumption
    <3>4. p \in Finalizers => p \in locked[job[p].technician]
      BY <1>0 DEF IInv, LocksHeld
    <3>5. \A q \in Finalizers :
            pc'[q] \in {"recheck", "insert", "commit"} =>
              q \in locked[job[q].technician]
      BY <3>1, <3>4 DEF IInv, LocksHeld, Procs
    <3>6. \A q \in Approvers :
            pc'[q] = "commit" => q \in shared[job[q].technician]
      BY <3>1, <3>2, <3>3 DEF IInv, LocksHeld, Procs
    <3> QED
      BY <2>1, <3>5, <3>6 DEF IInv, LocksHeld
  <2>6. SlotStaysFree'
    BY <1>0, <2>1, <2>2 DEF IInv, SlotStaysFree, Clashing, Compete
  <2>7. ConstraintDecided'
    <3> SUFFICES ASSUME Exclusion, NEW q \in Procs, NEW r \in Procs,
                        InFlight(q)', Compete(q, r)'
                 PROVE  /\ ~ InFlight(r)'
                        /\ row'[r] = "live" => r \in prior'[q]
      BY DEF ConstraintDecided
    <3>1. Compete(q, r) /\ Compete(r, q)
      BY <2>1, CompeteSymmetric DEF IInv, Compete
    <3>2. Undecided(p) = {}
      BY <1>0 DEF InsertRow, WaitsFor
    <3>3. Clashing(p) \ prior[p] = {}
      BY <1>2 DEF Accepted
    <3>4. CASE q # p /\ r # p
      BY <2>1, <3>1, <3>4 DEF IInv, ConstraintDecided, InFlight
    <3>5. CASE q = p
      <4>1. r # p
        BY <3>1, <3>5 DEF Compete
      <4>2. ~ InFlight(r)
        BY <3>1, <3>2, <3>5 DEF Undecided
      <4>3. row[r] = "live" => r \in prior[p]
        BY <3>1, <3>3, <3>5 DEF Clashing, Compete, Overlaps
      <4> QED
        BY <2>1, <3>5, <4>1, <4>2, <4>3 DEF InFlight
    <3>6. CASE r = p /\ q # p
      <4>1. InFlight(q)
        BY <2>1, <3>6 DEF InFlight
      <4> QED
        BY <3>1, <3>2, <3>6, <4>1 DEF Undecided
    <3> QED
      BY <3>4, <3>5, <3>6
  <2>8. LiveRowsApart'
    BY <1>0, <2>1 DEF IInv, LiveRowsApart, Compete
  <2>9. FinalizerNeverRefused'
    BY <2>2 DEF IInv, FinalizerNeverRefused, Procs
  <2> QED
    BY <2>3, <2>4, <2>5, <2>6, <2>7, <2>8, <2>9 DEF IInv
<1> QED
  BY <1>1, <1>2, InsertOutcomes

(* The commit makes the row count and what it supersedes not.               *)
LEMMA CommitStep ==
  ASSUME IInv, TypeOK', NEW p \in Procs, Commit(p),
         Exclusion \/ Approvers = {}
  PROVE  IInv'
<1> USE DEF TypeOK
<1>0. pc[p] = "commit" /\ row[p] = "uncommitted"
  BY DEF Commit, IInv, RowsFollowSteps
<1>1. /\ pc' = [pc EXCEPT ![p] = "done"]
      /\ row' = [q \in Procs |-> IF q = p THEN "live"
                                 ELSE IF q \in prior[p] THEN "cancelled"
                                 ELSE row[q]]
      /\ Release(p)
      /\ UNCHANGED <<job, prior>>
  BY DEF Commit, End, GoTo
<1>2. RowsFollowSteps'
  BY <1>0, <1>1 DEF IInv, RowsFollowSteps, PriorCommitted, Committed
<1>3. PriorCommitted'
  BY <1>0, <1>1 DEF IInv, PriorCommitted, Committed
<1>4. LocksHeld'
  BY <1>1 DEF IInv, LocksHeld, Procs, Release, Jobs
<1>5. SlotStaysFree'
  <2> SUFFICES ASSUME NEW q \in Finalizers, NEW r \in Procs,
                      pc'[q] \in {"insert", "commit"},
                      row'[r] = "live", Compete(q, r)'
               PROVE  FALSE
    BY DEF SlotStaysFree, Clashing
  <2>1. /\ q \in Procs /\ q # p
        /\ pc[q] \in {"insert", "commit"}
        /\ Compete(q, r)
    BY <1>1 DEF Compete, Procs
  <2>2. CASE r = p
    <3>1. /\ job[p].technician = job[q].technician
          /\ job[p].technician \in Technicians
      BY <2>1, <2>2 DEF IInv, Jobs, Compete
    <3>2. q \in locked[job[q].technician]
      BY <2>1 DEF IInv, LocksHeld
    <3>3. CASE p \in Finalizers
      BY <1>0, <2>1, <3>1, <3>2, <3>3 DEF IInv, LocksHeld
    <3>4. CASE p \in Approvers
      BY <1>0, <3>1, <3>2, <3>4 DEF IInv, LocksHeld
    <3> QED
      BY <3>3, <3>4 DEF Procs
  <2>3. CASE r # p
    BY <1>1, <2>1, <2>3 DEF IInv, SlotStaysFree, Clashing
  <2> QED
    BY <2>2, <2>3
<1>6. ConstraintDecided'
  <2> SUFFICES ASSUME Exclusion, NEW q \in Procs, NEW r \in Procs,
                      InFlight(q)', Compete(q, r)'
               PROVE  /\ ~ InFlight(r)'
                      /\ row'[r] = "live" => r \in prior'[q]
    BY DEF ConstraintDecided
  <2>1. q # p /\ InFlight(q) /\ Compete(q, r) /\ Compete(r, q)
    BY <1>1, CompeteSymmetric DEF IInv, InFlight, Compete
  <2>2. r # p
    BY <1>0, <2>1 DEF IInv, ConstraintDecided, InFlight
  <2> QED
    BY <1>1, <2>1, <2>2 DEF IInv, ConstraintDecided, InFlight
<1>7. LiveRowsApart'
  <2> SUFFICES ASSUME NEW q \in Procs, NEW r \in Procs,
                      row'[q] = "live", row'[r] = "live", Compete(q, r)'
               PROVE  FALSE
    BY DEF LiveRowsApart
  <2>1. Compete(q, r) /\ Compete(r, q)
    BY <1>1, CompeteSymmetric DEF IInv, Compete
  <2>2. CASE q # p /\ r # p
    BY <1>1, <2>1, <2>2 DEF IInv, LiveRowsApart
  <2>3. ASSUME NEW o \in Procs, o # p, row'[o] = "live", Compete(p, o)
        PROVE  FALSE
    <3>1. row[o] = "live" /\ o \notin prior[p]
      BY <1>1, <2>3
    <3>2. CASE Exclusion
      BY <1>0, <2>3, <3>1, <3>2 DEF IInv, ConstraintDecided, InFlight
    <3>3. CASE Approvers = {}
      BY <1>0, <2>3, <3>1, <3>3 DEF IInv, SlotStaysFree, Clashing, Procs
    <3> QED
      BY <3>2, <3>3
  <2> QED
    BY <2>1, <2>2, <2>3 DEF Compete
<1>9. FinalizerNeverRefused'
  BY <1>1 DEF IInv, FinalizerNeverRefused, Procs
<1> QED
  BY <1>2, <1>3, <1>4, <1>5, <1>6, <1>7, <1>9 DEF IInv

(* Cancelling a committed appointment frees its slot.                       *)
LEMMA CancelStep ==
  ASSUME IInv, TypeOK', NEW p \in Procs, CancelBooked(p)
  PROVE  IInv'
<1> USE DEF TypeOK
<1>1. /\ row[p] = "live"
      /\ row' = [row EXCEPT ![p] = "cancelled"]
      /\ UNCHANGED <<job, pc, locked, shared, prior>>
  BY DEF CancelBooked
<1>2. RowsFollowSteps'
  BY <1>1 DEF IInv, RowsFollowSteps, Committed
<1>3. PriorCommitted'
  BY <1>1 DEF IInv, PriorCommitted, Committed
<1>4. LocksHeld'
  BY <1>1 DEF IInv, LocksHeld
<1>5. SlotStaysFree'
  BY <1>1 DEF IInv, SlotStaysFree, Clashing, Compete
<1>6. ConstraintDecided'
  BY <1>1 DEF IInv, ConstraintDecided, InFlight, Compete
<1>7. LiveRowsApart'
  BY <1>1 DEF IInv, LiveRowsApart, Compete
<1>9. FinalizerNeverRefused'
  BY <1>1 DEF IInv, FinalizerNeverRefused, Procs
<1> QED
  BY <1>2, <1>3, <1>4, <1>5, <1>6, <1>7, <1>9 DEF IInv

(* Every step keeps the inductive invariant.                                *)
LEMMA StepIInv ==
  ASSUME Exclusion \/ Approvers = {}
  PROVE  IInv /\ [Next]_vars => IInv'
<1> SUFFICES ASSUME IInv, [Next]_vars PROVE IInv'
  OBVIOUS
<1>0. TypeOK /\ TypeOK'
  BY StepTypeOK DEF IInv
<1> USE DEF Steps
<1>1. ASSUME NEW p \in Procs, CheckExisting(p) PROVE IInv'
  <2>1. \E s \in {"done", "lock"} : pc' = [pc EXCEPT ![p] = s]
    BY <1>1 DEF CheckExisting, End, GoTo
  <2>2. pc[p] = "begin" /\ UNCHANGED <<job, row, locked, shared, prior>>
    BY <1>1 DEF CheckExisting
  <2> QED
    BY <1>0, <2>1, <2>2, QuietStep
<1>2. ASSUME NEW p \in Procs, RecordConflict(p) PROVE IInv'
  <2>1. pc' = [pc EXCEPT ![p] = "done"]
    BY <1>2 DEF RecordConflict, End, GoTo
  <2>2. pc[p] = "record" /\ UNCHANGED <<job, row, locked, shared, prior>>
    BY <1>2 DEF RecordConflict
  <2> QED
    BY <1>0, <2>1, <2>2, QuietStep
<1>3. ASSUME NEW p \in Procs, ReadRequest(p) PROVE IInv'
  <2>1. \E s \in {"done", "slot"} : pc' = [pc EXCEPT ![p] = s]
    BY <1>3 DEF ReadRequest, End, GoTo
  <2>2. pc[p] = "begin" /\ UNCHANGED <<job, row, locked, shared, prior>>
    BY <1>3 DEF ReadRequest
  <2> QED
    BY <1>0, <2>1, <2>2, QuietStep
<1>4. ASSUME NEW p \in Procs, CheckSlot(p) PROVE IInv'
  <2>1. \E s \in {"done", "prior"} : pc' = [pc EXCEPT ![p] = s]
    BY <1>4 DEF CheckSlot, End, GoTo
  <2>2. pc[p] = "slot" /\ UNCHANGED <<job, row, locked, shared, prior>>
    BY <1>4 DEF CheckSlot
  <2> QED
    BY <1>0, <2>1, <2>2, QuietStep
<1>5. ASSUME NEW p \in Procs, pc[p] # "done", Rollback(p) PROVE IInv'
  <2>1. /\ pc' = [pc EXCEPT ![p] = "done"]
        /\ Release(p)
        /\ UNCHANGED <<job, prior>>
    BY <1>5 DEF Rollback, End, GoTo
  <2>2. \A q \in Procs :
          row'[q] = IF q = p /\ row[p] = "uncommitted" THEN "none" ELSE row[q]
    BY <1>0, <1>5 DEF Rollback, InFlight, TypeOK
  <2> QED
    BY <1>0, <1>5, <2>1, <2>2, GiveUpStep
<1>6. ASSUME NEW p \in Procs, AbortVictim(p) PROVE IInv'
  <2>1. WaitsFor(p) # {}
    BY <1>6 DEF AbortVictim, Deadlocked
  <2>2. pc[p] # "done"
    BY <2>1 DEF WaitsFor
  <2> QED
    BY <1>5, <1>6, <2>2 DEF AbortVictim
<1>7. CASE UNCHANGED vars
  <2>1. LocksHeld'
    BY <1>7 DEF vars, IInv, LocksHeld
  <2>2. SlotStaysFree'
    BY <1>7 DEF vars, IInv, SlotStaysFree, Clashing, Compete
  <2> QED
    BY <1>0, <1>7, <2>1, <2>2
    DEF vars, IInv, RowsFollowSteps, PriorCommitted, ConstraintDecided,
        LiveRowsApart, FinalizerNeverRefused, Committed, InFlight, Compete
<1> QED
  BY <1>0, <1>1, <1>2, <1>3, <1>4, <1>5, <1>6, <1>7, LockStep, RecheckStep,
     ReadPriorStep, KeyShareStep, InsertStep, CommitStep, CancelStep
  DEF Next, Step, Finalize, Approve, Crash, Finished, Procs

(* Live rows that do not compete share no instant.                          *)
LEMMA LiveRowsShareNoInstant == IInv => NoDoubleBooking
<1> SUFFICES ASSUME IInv, NEW p \in Procs, NEW q \in Procs, p # q,
                    row[p] = "live", row[q] = "live",
                    job[p].technician = job[q].technician
             PROVE  Instants(job[p].window) \cap Instants(job[q].window) = {}
  BY DEF NoDoubleBooking
<1>1. ~ Overlaps(job[p].window, job[q].window)
  BY DEF IInv, LiveRowsApart, Compete
<1>2. /\ job[p].window \in [start : Nat, end : Nat]
      /\ job[q].window \in [start : Nat, end : Nat]
  BY WindowsAssumption DEF IInv, TypeOK, Jobs
<1> QED
  BY <1>1, <1>2 DEF Overlaps, Instants

(* No technician is booked twice at one instant by committed appointments,  *)
(* however the transactions of finalize_appointment and of the approval     *)
(* endpoint interleave, crash or deadlock: with the exclusion constraint    *)
(* always, without it when finalize_appointment is the only way to book.    *)
THEOREM NeverDoubleBooked ==
  ASSUME Exclusion \/ Approvers = {}
  PROVE  Spec => []NoDoubleBooking
<1>1. Init => IInv
  BY InitIInv
<1>2. IInv /\ [Next]_vars => IInv'
  BY StepIInv
<1>3. IInv => NoDoubleBooking
  BY LiveRowsShareNoInstant
<1> QED
  BY <1>1, <1>2, <1>3, PTL DEF Spec

(* The refusal of a finalizer's row by the exclusion constraint, and with it *)
(* the branch of finalize_appointment that records it, never happens.       *)
THEOREM ConstraintSparesFinalizers ==
  ASSUME Exclusion \/ Approvers = {}
  PROVE  Spec => []FinalizerNeverRefused
<1>1. Init => IInv
  BY InitIInv
<1>2. IInv /\ [Next]_vars => IInv'
  BY StepIInv
<1>3. IInv => FinalizerNeverRefused
  BY DEF IInv
<1> QED
  BY <1>1, <1>2, <1>3, PTL DEF Spec

------------------------------------------------------------------------------
(* The committed rows refine the calendar of the technicians                *)

(* The booking that the committed row of p stands for.                      *)
BookingOf(p) ==
  [appointment |-> p, technician |-> job[p].technician,
   window |-> job[p].window]

(* The calendar starts empty.                                               *)
LEMMA InitCalendar == Init => Calendar!Init
  BY DEF Init, Calendar!Init, Bookings, Used, Committed

(* A step that leaves the jobs and the committed rows alone is not seen in  *)
(* the calendar.                                                            *)
LEMMA HiddenStep ==
  ASSUME job' = job,
         \A q \in Procs : /\ row'[q] = "live" <=> row[q] = "live"
                          /\ row'[q] = "cancelled" <=> row[q] = "cancelled"
  PROVE  UNCHANGED <<Bookings, Used>>
  BY DEF Bookings, Used, Committed

(* A commit takes one booking, under an id that was never used, in a place  *)
(* that is free once the superseded ones are gone.                          *)
LEMMA CommitBooks ==
  ASSUME IInv, IInv', NEW p \in Procs, Commit(p)
  PROVE  Calendar!Next
<1> DEFINE kept == {c \in Bookings : c.appointment \notin prior[p]}
<1>1. /\ row[p] = "uncommitted"
      /\ row' = [q \in Procs |-> IF q = p THEN "live"
                                 ELSE IF q \in prior[p] THEN "cancelled"
                                 ELSE row[q]]
      /\ UNCHANGED <<job, prior>>
  BY DEF Commit, IInv, RowsFollowSteps
<1>2. Bookings' = kept \cup {BookingOf(p)}
  <2>1. ASSUME NEW c \in Bookings' PROVE c \in kept \cup {BookingOf(p)}
    <3>1. PICK q \in Procs : row'[q] = "live" /\ c = BookingOf(q)'
      BY <2>1 DEF Bookings, BookingOf
    <3>2. CASE q = p
      BY <1>1, <3>1, <3>2 DEF BookingOf
    <3>3. CASE q # p
      <4>1. row[q] = "live" /\ q \notin prior[p] /\ c = BookingOf(q)
        BY <1>1, <3>1, <3>3 DEF BookingOf
      <4> QED
        BY <4>1 DEF Bookings, BookingOf
    <3> QED
      BY <3>2, <3>3
  <2>2. ASSUME NEW c \in kept PROVE c \in Bookings'
    <3>1. PICK q \in Procs : row[q] = "live" /\ c = BookingOf(q)
      BY <2>2 DEF Bookings, BookingOf
    <3>2. q # p /\ q \notin prior[p]
      BY <1>1, <2>2, <3>1 DEF BookingOf
    <3>3. row'[q] = "live"
      BY <1>1, <3>1, <3>2
    <3> QED
      BY <1>1, <3>1, <3>3 DEF Bookings, BookingOf
  <2>3. BookingOf(p) \in Bookings'
    BY <1>1 DEF Bookings, BookingOf
  <2> QED
    BY <2>1, <2>2, <2>3
<1>3. \A c \in kept : ~ Calendar!Clash(BookingOf(p), c)
  <2> SUFFICES ASSUME NEW c \in kept PROVE ~ Calendar!Clash(BookingOf(p), c)
    OBVIOUS
  <2>1. PICK q \in Procs : row[q] = "live" /\ c = BookingOf(q)
    BY DEF Bookings, BookingOf
  <2>2. q # p /\ q \notin prior[p]
    BY <1>1, <2>1 DEF BookingOf
  <2>3. row'[q] = "live" /\ row'[p] = "live"
    BY <1>1, <2>1, <2>2
  <2>4. ~ Compete(p, q)
    BY <1>1, <2>3 DEF IInv, LiveRowsApart, Compete
  <2> QED
    BY <2>1, <2>2, <2>4
    DEF Calendar!Clash, Calendar!Overlaps, Compete, Overlaps, BookingOf
<1>4. /\ p \notin Used
      /\ Used' = Used \cup {p}
  BY <1>1 DEF IInv, PriorCommitted, Used, Committed
<1>5. /\ job[p].technician \in Technicians
      /\ job[p].window \in Windows
      /\ kept \in SUBSET Bookings
  BY DEF IInv, TypeOK, Jobs
<1>6. Calendar!Book(BookingOf(p), kept)
  BY <1>2, <1>3, <1>4 DEF Calendar!Book, BookingOf
<1> HIDE DEF kept
<1> QED
  BY <1>4, <1>5, <1>6 DEF Calendar!Next, BookingOf

(* A cancellation gives one booking up.                                     *)
LEMMA CancelReleases ==
  ASSUME IInv, NEW p \in Procs, CancelBooked(p)
  PROVE  Calendar!Next
<1>1. /\ row[p] = "live"
      /\ row' = [row EXCEPT ![p] = "cancelled"]
      /\ job' = job
      /\ row \in [Procs -> RowStates]
  BY DEF CancelBooked, IInv, TypeOK
<1>2. Bookings' \subseteq Bookings
  BY <1>1 DEF Bookings
<1>3. UNCHANGED Used
  BY <1>1 DEF Used, Committed
<1> QED
  BY <1>2, <1>3 DEF Calendar!Next, Calendar!Release

(* Every step of the transactions is a step of the calendar or is hidden.   *)
LEMMA StepCalendar ==
  ASSUME IInv, IInv', [Next]_vars
  PROVE  [Calendar!Next]_<<Bookings, Used>>
<1>1. ASSUME UNCHANGED <<job, row>>
      PROVE  UNCHANGED <<Bookings, Used>>
  BY <1>1, HiddenStep
<1>2. ASSUME NEW p \in Procs, InsertRow(p)
      PROVE  UNCHANGED <<Bookings, Used>>
  <2>1. pc[p] = "insert" /\ row[p] = "none" /\ row \in [Procs -> RowStates]
    BY <1>2 DEF InsertRow, IInv, TypeOK, RowsFollowSteps, Committed, RowStates
  <2>2. job' = job /\ (row' = row \/ row' = [row EXCEPT ![p] = "uncommitted"])
    BY <1>2, InsertOutcomes DEF Refused, Accepted
  <2> QED
    BY <2>1, <2>2, HiddenStep
<1>3. ASSUME NEW p \in Procs, Rollback(p)
      PROVE  UNCHANGED <<Bookings, Used>>
  <2>1. job' = job
    BY <1>3 DEF Rollback
  <2>2. \A q \in Procs : /\ row'[q] = "live" <=> row[q] = "live"
                         /\ row'[q] = "cancelled" <=> row[q] = "cancelled"
    BY <1>3 DEF Rollback, InFlight, IInv, TypeOK
  <2> QED
    BY <2>1, <2>2, HiddenStep
<1> QED
  BY <1>1, <1>2, <1>3, CommitBooks, CancelReleases
  DEF Next, Step, Finalize, Approve, Crash, AbortVictim, Finished, vars,
      CheckExisting, LockTechnician, Recheck, RecordConflict, ReadRequest,
      CheckSlot, ReadPrior, TakeKeyShare, Procs

(* The committed appointments are a calendar in the sense of                *)
(* TechnicianCalendar: a slot is taken only where the technician is free,   *)
(* one at a time, and never under an id that was used before.               *)
THEOREM BookingImplementsCalendar ==
  ASSUME Exclusion \/ Approvers = {}
  PROVE  Spec => ImplementsCalendar
<1>1. Init => IInv /\ Calendar!Init
  BY InitIInv, InitCalendar
<1>2. IInv /\ [Next]_vars => IInv'
  BY StepIInv
<1>3. IInv /\ IInv' /\ [Next]_vars =>
        [Calendar!Next]_<<Bookings, Used>>
  BY StepCalendar
<1> QED
  BY <1>1, <1>2, <1>3, PTL DEF Spec, ImplementsCalendar, Calendar!Spec

------------------------------------------------------------------------------
(* One appointment per request                                              *)

(* However often the thread of a request is resumed with an approval, by    *)
(* however many callers at once, at most one of the finalizers' rows        *)
(* stands: they all want the same slot.                                     *)
THEOREM FinalizedOnce ==
  ASSUME Exclusion \/ Approvers = {}
  PROVE  Spec => [](\A p, q \in Finalizers :
                      p # q /\ SameRequest(p, q) /\ row[p] = "live" => row[q] # "live")
<1> DEFINE SameJobs == \A p, q \in Finalizers : SameRequest(p, q) => job[p] = job[q]
           Once == \A p, q \in Finalizers :
                     p # q /\ SameRequest(p, q) /\ row[p] = "live" => row[q] # "live"
<1>1. Init => IInv /\ SameJobs
  BY InitIInv DEF Init
<1>2. IInv /\ [Next]_vars => IInv'
  BY StepIInv
<1>3. SameJobs /\ [Next]_vars => SameJobs'
  <2>1. [Next]_vars => job' = job
    BY DEF Next, Step, Finalize, Approve, Crash, AbortVictim, Finished, vars, CheckExisting,
      LockTechnician, Recheck, RecordConflict, ReadRequest, CheckSlot, ReadPrior,
      TakeKeyShare, InsertRow, Commit, Rollback, CancelBooked
  <2> QED
    BY <2>1 DEF SameRequest
<1>4. IInv /\ SameJobs => Once
  <2> SUFFICES ASSUME IInv, SameJobs, NEW p \in Finalizers, NEW q \in Finalizers, p # q,
                      SameRequest(p, q), row[p] = "live", row[q] = "live"
               PROVE  FALSE
    OBVIOUS
  <2>1. p \in Procs /\ q \in Procs /\ job[p] = job[q]
    BY DEF Procs
  <2>2. job[p].window \in Windows
    BY <2>1 DEF IInv, TypeOK, Jobs
  <2>3. Overlaps(job[p].window, job[q].window)
    BY <2>1, <2>2, WindowsAssumption DEF Overlaps
  <2> QED
    BY <2>1, <2>3 DEF IInv, LiveRowsApart, Compete
<1> QED
  BY <1>1, <1>2, <1>3, <1>4, PTL DEF Spec

(* A booking attempt is under way, and only one of each request is.         *)
Active(p) == pc[p] \notin {"begin", "done"}

OneAtATime ==
  \A p, q \in Procs : p # q /\ SameRequest(p, q) /\ Active(p) => ~ Active(q)

(* The row of a transaction was the i-th to get a primary key.              *)
Place(p, i) == i \in DOMAIN inserted /\ inserted[i] = p

(* The order of the rows: what is in flight comes after all, and what is    *)
(* live after all else that was committed for its request.                  *)
InOrder ==
  /\ \A p \in Procs, i \in Nat : Place(p, i) => pc[p] \in {"key", "commit", "done"}
  /\ \A p \in Procs : row[p] # "none" => \E i \in Nat : Place(p, i)
  /\ \A p \in Procs, i, j \in Nat : Place(p, i) /\ Place(p, j) => i = j
  /\ \A p, q \in Procs, i, j \in Nat :
       Place(p, i) /\ Place(q, j) /\ SameRequest(p, q) /\ Committed(q)
       => /\ InFlight(p) => j < i
          /\ row[p] = "live" => j <= i

(* What a transaction that may still commit knows of its request.           *)
Knows ==
  \A p, q \in Procs :
    /\ pc[p] \in {"lock", "recheck", "insert", "key", "commit"}
    /\ row[q] = "live" /\ SameRequest(p, q)
    => q \in prior[p]

LEMMA OrderedIsOne ==
  ASSUME TypeOK, InOrder
  PROVE  OneAppointmentPerRequest
<1> SUFFICES ASSUME NEW p \in Procs, NEW q \in Procs, p # q, SameRequest(p, q),
                    row[p] = "live", row[q] = "live"
             PROVE  FALSE
  BY DEF OneAppointmentPerRequest
<1>1. PICK i \in Nat : Place(p, i)
  BY DEF InOrder
<1>2. PICK j \in Nat : Place(q, j)
  BY DEF InOrder
<1>3. j <= i /\ i <= j
  BY <1>1, <1>2 DEF InOrder, Committed, SameRequest
<1> QED
  BY <1>1, <1>2, <1>3 DEF Place

(* The latest row that is not live is the reason to book.                   *)
LEMMA NoneLives ==
  ASSUME TypeOK, InOrder, NEW p \in Procs, ~ HasLiveLatest(p), NEW q \in Procs,
         SameRequest(p, q)
  PROVE  row[q] # "live"
<1> SUFFICES ASSUME row[q] = "live" PROVE FALSE
  OBVIOUS
<1>1. PICK i \in Nat : Place(q, i)
  BY DEF InOrder
<1>2. ASSUME NEW j \in DOMAIN inserted, SameRequest(p, inserted[j]), Committed(inserted[j])
      PROVE  j <= i
  <2>1. inserted[j] \in Procs /\ j \in Nat
    BY DEF TypeOK
  <2>2. Place(inserted[j], j) /\ SameRequest(q, inserted[j])
    BY <1>2, <2>1 DEF Place, SameRequest
  <2> QED
    BY <1>1, <1>2, <2>1, <2>2 DEF InOrder
<1> QED
  BY <1>1, <1>2 DEF HasLiveLatest, Place

(* A step that inserts and commits nothing.                                 *)
LEMMA OrderStays ==
  ASSUME InOrder, UNCHANGED <<job, inserted>>,
         \A q \in Procs :
           /\ pc[q] \in {"key", "commit", "done"} => pc'[q] \in {"key", "commit", "done"}
           /\ row'[q] # "none" => row[q] # "none"
           /\ Committed(q)' => Committed(q)
           /\ InFlight(q)' => InFlight(q)
           /\ row'[q] = "live" => row[q] = "live"
  PROVE  InOrder'
<1>1. \A p, q \in Procs : SameRequest(p, q)' <=> SameRequest(p, q)
  BY DEF SameRequest
<1>2. \A q \in Procs, i \in Nat : Place(q, i)' <=> Place(q, i)
  BY DEF Place
<1> QED
  BY <1>1, <1>2 DEF InOrder

LEMMA InsertOrders ==
  ASSUME IInv, InOrder, NEW p \in Procs, InsertRow(p)
  PROVE  InOrder'
<1>0. /\ pc[p] = "insert" /\ pc \in [Procs -> Steps] /\ row \in [Procs -> RowStates]
      /\ inserted \in Seq(Procs)
  BY DEF InsertRow, IInv, TypeOK
<1>1. CASE Refused(p)
  <2>1. PICK s \in {"record", "done"} : GoTo(p, s)
    BY <1>1 DEF Refused, End
  <2>2. \A q \in Procs \ {p} : pc'[q] = pc[q]
    BY <1>0, <2>1 DEF GoTo
  <2>3. UNCHANGED <<job, inserted, row>>
    BY <1>1 DEF Refused
  <2> QED
    BY <1>0, <2>2, <2>3, OrderStays DEF Committed, InFlight
<1>2. CASE Accepted(p)
  <2> DEFINE n == Len(inserted) + 1
  <2>1. /\ \A q \in Procs \ {p}, i \in Nat : Place(q, i)' <=> Place(q, i)
        /\ \A i \in Nat : Place(p, i)' <=> i = n
        /\ \A q \in Procs, i \in Nat : Place(q, i) => i < n
        /\ n \in Nat
    <3>1. inserted' = Append(inserted, p) /\ Len(inserted) \in Nat
      BY <1>0, <1>2 DEF Accepted
    <3>2. /\ DOMAIN inserted = 1 .. n - 1 /\ DOMAIN inserted' = 1 .. n
          /\ inserted'[n] = p
          /\ \A i \in 1 .. n - 1 : inserted'[i] = inserted[i]
      BY <1>0, <3>1, AppendProperties, LenProperties
    <3>3. \A i \in Nat : ~ Place(p, i)
      BY <1>0 DEF InOrder
    <3> QED
      BY <3>1, <3>2, <3>3 DEF Place
  <2>2. /\ row'[p] = "uncommitted" /\ pc'[p] \in {"key", "commit"}
        /\ \A q \in Procs \ {p} : row'[q] = row[q] /\ pc'[q] = pc[q]
        /\ job' = job
    BY <1>0, <1>2 DEF Accepted, GoTo
  <2> HIDE DEF n
  <2>3. \A q \in Procs, i \in Nat : Place(q, i)' => pc'[q] \in {"key", "commit", "done"}
    BY <2>1, <2>2 DEF InOrder
  <2>4. \A q \in Procs : row'[q] # "none" => \E i \in Nat : Place(q, i)'
    BY <2>1, <2>2 DEF InOrder
  <2>5. \A q \in Procs, i, j \in Nat : Place(q, i)' /\ Place(q, j)' => i = j
    BY <2>1 DEF InOrder
  <2>6. ASSUME NEW o \in Procs, NEW q \in Procs, NEW i \in Nat, NEW j \in Nat,
               Place(o, i)', Place(q, j)', SameRequest(o, q)', Committed(q)'
        PROVE  /\ InFlight(o)' => j < i
               /\ row'[o] = "live" => j <= i
    <3>1. q # p /\ Place(q, j) /\ Committed(q)
      BY <2>1, <2>2, <2>6 DEF Committed
    <3>2. CASE o = p
      BY <2>1, <2>2, <2>6, <3>1, <3>2
    <3>3. CASE o # p
      BY <2>1, <2>2, <2>6, <3>1, <3>3 DEF InOrder, InFlight, SameRequest
    <3> QED
      BY <3>2, <3>3
  <2> QED
    BY <2>3, <2>4, <2>5, <2>6 DEF InOrder
<1> QED
  BY <1>1, <1>2, InsertOutcomes

LEMMA CommitOrders ==
  ASSUME IInv, InOrder, Knows, OneAtATime, NEW p \in Procs, Commit(p)
  PROVE  InOrder'
<1>1. /\ pc[p] = "commit" /\ row[p] = "uncommitted"
      /\ row' = [q \in Procs |-> IF q = p THEN "live"
                                 ELSE IF q \in prior[p] THEN "cancelled"
                                 ELSE row[q]]
      /\ UNCHANGED <<job, inserted>>
  BY DEF Commit, IInv, RowsFollowSteps, InFlight
<1>2. pc'[p] = "done" /\ \A q \in Procs \ {p} : pc'[q] = pc[q]
  BY DEF Commit, End, GoTo, IInv, TypeOK
<1>3. \A q \in prior[p] : Committed(q)
  BY DEF IInv, PriorCommitted
<1>4. /\ \A q \in Procs, i \in Nat : Place(q, i)' <=> Place(q, i)
      /\ \A q, o \in Procs : SameRequest(q, o)' <=> SameRequest(q, o)
  BY <1>1 DEF Place, SameRequest
<1>5. \A q \in Procs : row'[q] # "none" => row[q] # "none"
  BY <1>1, <1>3 DEF Committed
<1>6. \A q \in Procs \ {p} : Committed(q)' => Committed(q)
  BY <1>1, <1>3 DEF Committed
<1>7. \A q \in Procs : SameRequest(p, q) /\ row'[q] = "live" => q = p
  BY <1>1 DEF Knows
<1>8. \A q \in Procs : InFlight(q)' => InFlight(q) /\ ~ SameRequest(p, q)
  <2> SUFFICES ASSUME NEW q \in Procs, InFlight(q)'
               PROVE  InFlight(q) /\ ~ SameRequest(p, q)
    OBVIOUS
  <2>1. InFlight(q) /\ q # p
    BY <1>1 DEF InFlight
  <2>2. Active(p) /\ Active(q)
    BY <1>1, <2>1 DEF IInv, RowsFollowSteps, Active, InFlight
  <2> QED
    BY <2>1, <2>2 DEF OneAtATime
<1>9. ASSUME NEW o \in Procs, NEW q \in Procs, NEW i \in Nat, NEW j \in Nat,
             Place(o, i), Place(q, j), SameRequest(o, q), Committed(q)'
      PROVE  /\ InFlight(o)' => j < i
             /\ row'[o] = "live" => j <= i
  <2>1. CASE o = p
    <3>1. ~ InFlight(o)'
      BY <1>1, <2>1 DEF InFlight
    <3>2. q = p \/ Committed(q)
      BY <1>6, <1>9
    <3>3. Committed(q) => j < i
      BY <1>1, <1>9, <2>1 DEF InOrder, InFlight
    <3>4. q = p => j = i
      BY <1>9, <2>1 DEF InOrder
    <3> QED
      BY <3>1, <3>2, <3>3, <3>4
  <2>2. CASE o # p
    <3>1. SameRequest(p, o) => ~ InFlight(o)' /\ row'[o] # "live"
      BY <1>7, <1>8, <2>2
    <3>2. q = p => SameRequest(p, o)
      BY <1>9 DEF SameRequest
    <3>3. row'[o] = "live" => row[o] = "live"
      BY <1>1, <2>2
    <3>4. q # p => Committed(q)
      BY <1>6, <1>9
    <3> QED
      BY <1>8, <1>9, <3>1, <3>2, <3>3, <3>4 DEF InOrder
  <2> QED
    BY <2>1, <2>2
<1>10. \A q \in Procs, i \in Nat : Place(q, i)' => pc'[q] \in {"key", "commit", "done"}
  BY <1>2, <1>4 DEF InOrder
<1> QED
  BY <1>4, <1>5, <1>9, <1>10 DEF InOrder

LEMMA CancelOrders ==
  ASSUME IInv, InOrder, NEW p \in Procs, CancelBooked(p)
  PROVE  InOrder'
<1>1. /\ row[p] = "live" /\ row' = [row EXCEPT ![p] = "cancelled"]
      /\ UNCHANGED <<job, pc, inserted>>
      /\ row \in [Procs -> RowStates]
  BY DEF CancelBooked, IInv, TypeOK
<1> QED
  BY <1>1, OrderStays DEF IInv, Committed, InFlight

(* Nobody learns of a new live row of its request while it is under way.    *)
LEMMA KnowsStays ==
  ASSUME TypeOK, Knows, NEW p \in Procs, UNCHANGED job,
         \A q \in Procs \ {p} : prior'[q] = prior[q] /\ pc'[q] = pc[q],
         \A q \in Procs : row'[q] = "live" => row[q] = "live",
         pc'[p] \in {"lock", "recheck", "insert", "key", "commit"} =>
           \A q \in Procs : row[q] = "live" /\ SameRequest(p, q) => q \in prior'[p]
  PROVE  Knows'
  BY DEF Knows, SameRequest

LEMMA StepKnows ==
  ASSUME IInv, InOrder, Knows, OneAtATime, [Next]_vars
  PROVE  Knows'
<1> DEFINE Late == {"lock", "recheck", "insert", "key", "commit"}
<1>0. /\ pc \in [Procs -> Steps] /\ row \in [Procs -> RowStates]
      /\ prior \in [Procs -> SUBSET Procs] /\ TypeOK
  BY DEF IInv, TypeOK
<1>1. ASSUME NEW p \in Procs, NEW s, GoTo(p, s), s \in Late => pc[p] \in Late,
             UNCHANGED <<job, prior>>, \A q \in Procs : row'[q] = "live" => row[q] = "live"
      PROVE  Knows'
  <2>1. pc'[p] = s /\ \A q \in Procs \ {p} : pc'[q] = pc[q]
    BY <1>0, <1>1 DEF GoTo
  <2> QED
    BY <1>0, <1>1, <2>1, KnowsStays DEF Knows
<1>2. ASSUME NEW p \in Procs, CheckExisting(p) PROVE Knows'
  <2>1. CASE HasLiveLatest(p)
    BY <1>1, <1>2, <2>1 DEF CheckExisting, End
  <2>2. CASE ~ HasLiveLatest(p)
    <3>1. \A q \in Procs : SameRequest(p, q) => row[q] # "live"
      BY <1>0, <2>2, NoneLives
    <3>2. GoTo(p, "lock") /\ UNCHANGED <<job, row, prior>>
      BY <1>2, <2>2 DEF CheckExisting
    <3> QED
      BY <1>0, <3>1, <3>2, KnowsStays DEF GoTo
  <2> QED
    BY <2>1, <2>2
<1>3. ASSUME NEW p \in Procs, ReadPrior(p) PROVE Knows'
  <2>1. prior'[p] = {q \in Procs : row[q] = "live" /\ SameRequest(p, q)}
    BY <1>0, <1>3 DEF ReadPrior
  <2> QED
    BY <1>0, <1>3, <2>1, KnowsStays DEF ReadPrior, GoTo
<1>4. ASSUME NEW p \in Procs, InsertRow(p) PROVE Knows'
  <2>1. pc[p] = "insert" /\ \E s : GoTo(p, s)
    BY <1>4 DEF InsertRow, End
  <2>2. \A q \in Procs : row'[q] = "live" => row[q] = "live"
    BY <1>0, <1>4 DEF InsertRow
  <2> QED
    BY <1>1, <1>4, <2>1, <2>2 DEF InsertRow
<1>5. ASSUME NEW p \in Procs, Commit(p) PROVE Knows'
  <2>1. /\ pc[p] = "commit" /\ GoTo(p, "done") /\ UNCHANGED <<job, prior>>
        /\ \A q \in Procs \ {p} : row'[q] = "live" => row[q] = "live"
    BY <1>5 DEF Commit, End
  <2>2. pc'[p] = "done" /\ \A q \in Procs \ {p} : pc'[q] = pc[q]
    BY <1>0, <2>1 DEF GoTo
  <2>3. \A q \in Procs \ {p} : pc[q] \in Late => ~ SameRequest(q, p)
    BY <2>1 DEF OneAtATime, Active
  <2>4. \A q, o : SameRequest(q, o)' <=> SameRequest(q, o)
    BY <2>1 DEF SameRequest
  <2> QED
    BY <2>1, <2>2, <2>3, <2>4 DEF Knows
<1>6. ASSUME NEW p \in Procs, Rollback(p) PROVE Knows'
  <2>1. \A q \in Procs : row'[q] = "live" => row[q] = "live"
    BY <1>0, <1>6 DEF Rollback
  <2> QED
    BY <1>1, <1>6, <2>1 DEF Rollback, End
<1>7. ASSUME NEW p \in Procs, CancelBooked(p) PROVE Knows'
  <2>1. \A q \in Procs : row'[q] = "live" => row[q] = "live"
    BY <1>0, <1>7 DEF CancelBooked
  <2> QED
    BY <1>7, <2>1 DEF CancelBooked, Knows, SameRequest
<1>8. ASSUME NEW p \in Procs,
             \/ LockTechnician(p) \/ Recheck(p) \/ RecordConflict(p)
             \/ ReadRequest(p) \/ CheckSlot(p) \/ TakeKeyShare(p)
      PROVE  Knows'
  <2>1. PICK s : GoTo(p, s) /\ (s \in Late => pc[p] \in Late) /\ UNCHANGED <<job, row, prior>>
    BY <1>8 DEF LockTechnician, Recheck, RecordConflict, ReadRequest, CheckSlot, TakeKeyShare, End
  <2> QED
    BY <1>1, <2>1
<1>9. CASE UNCHANGED vars
  BY <1>9 DEF vars, Knows, SameRequest
<1> QED
  BY <1>2, <1>3, <1>4, <1>5, <1>6, <1>7, <1>8, <1>9
  DEF Next, Step, Finalize, Approve, Crash, AbortVictim, Finished

LEMMA StepOrders ==
  ASSUME IInv, InOrder, Knows, OneAtATime, [Next]_vars
  PROVE  InOrder'
<1>0. pc \in [Procs -> Steps] /\ row \in [Procs -> RowStates] /\ TypeOK
  BY DEF IInv, TypeOK
<1>1. ASSUME NEW p \in Procs, NEW s, GoTo(p, s), pc[p] = "key" => s \in {"key", "commit", "done"},
             pc[p] = "commit" => s = "done", pc[p] = "done" => s = "done",
             UNCHANGED <<job, inserted>>,
             row' = row \/ row' = [row EXCEPT ![p] = "none"]
      PROVE  InOrder'
  <2>1. pc'[p] = s /\ \A q \in Procs \ {p} : pc'[q] = pc[q]
    BY <1>0, <1>1 DEF GoTo
  <2>2. \A q \in Procs : pc[q] \in {"key", "commit", "done"}
                          => pc'[q] \in {"key", "commit", "done"}
    BY <1>1, <2>1
  <2> QED
    BY <1>0, <1>1, <2>2, OrderStays DEF Committed, InFlight
<1>2. ASSUME NEW p \in Procs,
             \/ CheckExisting(p) \/ LockTechnician(p) \/ Recheck(p) \/ RecordConflict(p)
             \/ ReadRequest(p) \/ CheckSlot(p) \/ ReadPrior(p) \/ TakeKeyShare(p)
      PROVE  InOrder'
  <2>1. PICK s : /\ GoTo(p, s) /\ UNCHANGED <<job, row, inserted>>
                 /\ pc[p] \notin {"commit", "done"} /\ (pc[p] = "key" => s = "commit")
    BY <1>2 DEF CheckExisting, LockTechnician, Recheck, RecordConflict, ReadRequest, CheckSlot,
      ReadPrior, TakeKeyShare, End
  <2> QED
    BY <1>1, <2>1
<1>3. ASSUME NEW p \in Procs, Rollback(p) PROVE InOrder'
  <2>1. row' = row \/ row' = [row EXCEPT ![p] = "none"]
    BY <1>0, <1>3 DEF Rollback
  <2> QED
    BY <1>1, <1>3, <2>1 DEF Rollback, End
<1>4. CASE UNCHANGED vars
  BY <1>0, <1>4, OrderStays DEF vars, Committed, InFlight
<1> QED
  BY <1>2, <1>3, <1>4, InsertOrders, CommitOrders, CancelOrders
  DEF Next, Step, Finalize, Approve, Crash, AbortVictim, Finished

(* What docs/reliability.md says of two operators who approve at once does  *)
(* hold when they do not: as long as the booking attempts of a request come *)
(* one after the other, whatever those of other requests do, the request    *)
(* has one committed appointment.  It is only that nothing in the approval  *)
(* endpoint makes them do so, see find_two_approvals.                       *)
THEOREM OneAfterTheOther ==
  ASSUME Exclusion \/ Approvers = {}
  PROVE  Spec /\ []OneAtATime => []OneAppointmentPerRequest
<1> DEFINE Serial == IInv /\ InOrder /\ Knows
<1>1. Init => Serial
  <2> SUFFICES ASSUME Init PROVE InOrder /\ Knows
    BY InitIInv
  <2>1. \A p \in Procs : pc[p] = "begin" /\ row[p] = "none"
    BY DEF Init
  <2>2. inserted = <<>>
    BY DEF Init
  <2> QED
    BY <2>1, <2>2 DEF InOrder, Knows, Place, Committed
<1>2. Serial /\ OneAtATime /\ [Next]_vars => Serial'
  BY StepIInv, StepOrders, StepKnows
<1>3. Serial => OneAppointmentPerRequest
  BY OrderedIsOne DEF IInv
<1> QED
  BY <1>1, <1>2, <1>3, PTL DEF Spec

------------------------------------------------------------------------------
(* Nobody waits for what never comes                                        *)

FinalizerSteps == {"begin", "lock", "recheck", "insert", "commit", "record"}

ApproverSteps == {"begin", "slot", "prior", "insert", "key", "commit"}

(* An attempt keeps to the statements of its own transaction, and has rows  *)
(* and locks only while it is under way.  Nothing of this needs the         *)
(* exclusion constraint.                                                    *)
Orderly ==
  /\ TypeOK
  /\ RowsFollowSteps
  /\ PriorCommitted
  /\ \A p \in Finalizers : pc[p] \in FinalizerSteps \cup {"done"}
  /\ \A p \in Approvers : pc[p] \in ApproverSteps \cup {"done"}
  /\ \A t \in Technicians :
       /\ \A p \in locked[t] :
            p \in Finalizers /\ pc[p] \in {"recheck", "insert", "commit"}
       /\ \A p \in shared[t] : pc[p] = "commit"

(* The guards of the next statement of p hold.                              *)
CanGoOn(p) ==
  /\ pc[p] \in (IF p \in Finalizers THEN FinalizerSteps ELSE ApproverSteps)
  /\ WaitsFor(p) = {}

(* All attempts have ended, or one can take its next step, or the engine    *)
(* finds one on a cycle and aborts it.                                      *)
SomebodyMoves ==
  \/ \A p \in Procs : pc[p] = "done"
  \/ \E p \in Procs : CanGoOn(p)
  \/ \E p \in Procs : pc[p] # "done" /\ Deadlocked(p)

(* Rows follow the steps whether or not the constraint is installed.        *)
LEMMA StepRows ==
  ASSUME Orderly, [Next]_vars
  PROVE  RowsFollowSteps' /\ PriorCommitted'
<1>0. /\ pc \in [Procs -> Steps] /\ row \in [Procs -> RowStates]
      /\ prior \in [Procs -> SUBSET Procs]
      /\ RowsFollowSteps /\ PriorCommitted
  BY DEF Orderly, TypeOK
<1> USE DEF RowsFollowSteps, PriorCommitted, Committed
<1>1. ASSUME NEW p \in Procs, NEW s, GoTo(p, s), UNCHANGED row,
             pc[p] \notin {"key", "commit", "done"}, s \notin {"key", "commit"}
      PROVE  RowsFollowSteps'
  BY <1>0, <1>1 DEF GoTo
<1>2. ASSUME NEW p \in Procs,
             \/ CheckExisting(p) \/ LockTechnician(p) \/ Recheck(p) \/ RecordConflict(p)
             \/ ReadRequest(p) \/ CheckSlot(p)
      PROVE  RowsFollowSteps' /\ PriorCommitted'
  <2>1. PICK s \in {"done", "lock", "recheck", "insert", "slot", "prior"} : GoTo(p, s)
    BY <1>2 DEF CheckExisting, LockTechnician, Recheck, RecordConflict, ReadRequest,
      CheckSlot, End
  <2>2. UNCHANGED <<row, prior>> /\ pc[p] \notin {"key", "commit", "done"}
    BY <1>2 DEF CheckExisting, LockTechnician, Recheck, RecordConflict, ReadRequest, CheckSlot
  <2> QED
    BY <1>0, <1>1, <2>1, <2>2
<1>3. ASSUME NEW p \in Procs, ReadPrior(p) PROVE RowsFollowSteps' /\ PriorCommitted'
  <2>1. RowsFollowSteps'
    BY <1>1, <1>3 DEF ReadPrior
  <2>2. PriorCommitted'
    BY <1>0, <1>3 DEF ReadPrior
  <2> QED
    BY <2>1, <2>2
<1>4. ASSUME NEW p \in Procs, TakeKeyShare(p) PROVE RowsFollowSteps' /\ PriorCommitted'
  BY <1>0, <1>4 DEF TakeKeyShare, GoTo
<1>5. ASSUME NEW p \in Procs, InsertRow(p) PROVE RowsFollowSteps' /\ PriorCommitted'
  <2>1. pc[p] = "insert"
    BY <1>5 DEF InsertRow
  <2>2. CASE Refused(p)
    BY <1>0, <2>1, <2>2 DEF Refused, End, GoTo
  <2>3. CASE Accepted(p)
    <3>1. \A q \in Procs \ {p} : pc'[q] = pc[q] /\ row'[q] = row[q]
      BY <1>0, <2>3 DEF Accepted, GoTo
    <3>2. row'[p] = "uncommitted" /\ pc'[p] \in {"key", "commit"} /\ prior' = prior
      BY <1>0, <2>3 DEF Accepted, GoTo
    <3> QED
      BY <1>0, <2>1, <3>1, <3>2
  <2> QED
    BY <1>5, <2>2, <2>3, InsertOutcomes
<1>6. ASSUME NEW p \in Procs, Commit(p) PROVE RowsFollowSteps' /\ PriorCommitted'
  BY <1>0, <1>6 DEF Commit, End, GoTo
<1>7. ASSUME NEW p \in Procs, Rollback(p), pc[p] # "done" PROVE RowsFollowSteps' /\ PriorCommitted'
  BY <1>0, <1>7 DEF Rollback, End, GoTo, InFlight
<1>8. ASSUME NEW p \in Procs, CancelBooked(p) PROVE RowsFollowSteps' /\ PriorCommitted'
  BY <1>0, <1>8 DEF CancelBooked
<1>9. CASE UNCHANGED vars
  BY <1>0, <1>9 DEF vars
<1>10. ASSUME NEW p \in Procs, Deadlocked(p) PROVE pc[p] # "done"
  BY <1>10 DEF Deadlocked, WaitsFor
<1> QED
  BY <1>2, <1>3, <1>4, <1>5, <1>6, <1>7, <1>8, <1>9, <1>10
  DEF Next, Step, Finalize, Approve, Crash, AbortVictim, Finished

(* Every step keeps the transactions orderly.                               *)
LEMMA StepOrderly ==
  ASSUME Orderly, [Next]_vars
  PROVE  Orderly'
<1> DEFINE OwnSteps ==
             /\ \A p \in Finalizers : pc[p] \in FinalizerSteps \cup {"done"}
             /\ \A p \in Approvers : pc[p] \in ApproverSteps \cup {"done"}
           LocksUnderWay ==
             \A t \in Technicians :
               /\ \A p \in locked[t] :
                    p \in Finalizers /\ pc[p] \in {"recheck", "insert", "commit"}
               /\ \A p \in shared[t] : pc[p] = "commit"
           Tidy == OwnSteps /\ LocksUnderWay
<1>0. /\ pc \in [Procs -> Steps] /\ job \in [Procs -> Jobs]
      /\ locked \in [Technicians -> SUBSET Procs]
      /\ shared \in [Technicians -> SUBSET Procs]
      /\ \A p \in Finalizers : p \notin Approvers
      /\ \A p \in Procs : job[p].technician \in Technicians
      /\ Tidy
  BY ProcessesAssumption DEF Orderly, TypeOK, Jobs
<1>1. ASSUME NEW p \in Procs, NEW s, GoTo(p, s), Release(p),
             p \in Finalizers => s \in FinalizerSteps \cup {"done"},
             p \in Approvers => s \in ApproverSteps \cup {"done"}
      PROVE  Tidy'
  <2>1. pc'[p] = s /\ \A q \in Procs \ {p} : pc'[q] = pc[q]
    BY <1>0, <1>1 DEF GoTo
  <2>2. \A t \in Technicians : locked'[t] = locked[t] \ {p} /\ shared'[t] = shared[t] \ {p}
    BY <1>1 DEF Release
  <2>3. OwnSteps'
    BY <1>0, <1>1, <2>1 DEF Procs
  <2>4. LocksUnderWay'
    BY <1>0, <2>1, <2>2
  <2> QED
    BY <2>3, <2>4
<1>2. ASSUME NEW p \in Procs, NEW s, GoTo(p, s), UNCHANGED <<locked, shared>>,
             p \in Finalizers => s \in FinalizerSteps \cup {"done"},
             p \in Approvers => s \in ApproverSteps \cup {"done"},
             pc[p] \in {"recheck", "insert"} => s \in {"insert", "commit", "key"},
             pc[p] # "commit"
      PROVE  Tidy'
  <2>1. pc'[p] = s /\ \A q \in Procs \ {p} : pc'[q] = pc[q]
    BY <1>0, <1>2 DEF GoTo
  <2>2. \A t \in Technicians : p \in locked[t] => s \in {"recheck", "insert", "commit"}
    BY <1>0, <1>2 DEF FinalizerSteps
  <2>3. \A t \in Technicians : p \notin shared[t]
    BY <1>0, <1>2
  <2>4. OwnSteps'
    BY <1>0, <1>2, <2>1 DEF Procs
  <2>5. LocksUnderWay'
    BY <1>0, <1>2, <2>1, <2>2, <2>3
  <2> QED
    BY <2>4, <2>5
<1>3. ASSUME NEW p \in Finalizers, Finalize(p) PROVE Tidy'
  <2>0. p \in Procs /\ p \notin Approvers
    BY <1>0 DEF Procs
  <2>1. CASE LockTechnician(p)
    <3>1. /\ pc'[p] = "recheck" /\ \A q \in Procs \ {p} : pc'[q] = pc[q]
          /\ UNCHANGED shared
          /\ \A t \in Technicians : locked'[t] \subseteq locked[t] \cup {p}
          /\ \A t \in Technicians : p \notin shared[t]
      BY <1>0, <2>0, <2>1 DEF LockTechnician, GoTo
    <3>2. OwnSteps'
      BY <1>0, <2>0, <3>1 DEF Procs, FinalizerSteps
    <3>3. LocksUnderWay'
      BY <1>0, <2>0, <3>1
    <3> QED
      BY <3>2, <3>3
  <2>2. CASE CheckExisting(p)
    BY <1>0, <1>2, <2>0, <2>2 DEF CheckExisting, End, FinalizerSteps
  <2>3. CASE Recheck(p)
    <3>1. CASE Clashing(p) # {}
      BY <1>1, <2>0, <2>3, <3>1 DEF Recheck, End
    <3>2. CASE Clashing(p) = {}
      BY <1>2, <2>0, <2>3, <3>2 DEF Recheck, FinalizerSteps
    <3> QED
      BY <3>1, <3>2
  <2>4. CASE RecordConflict(p)
    BY <1>0, <1>2, <2>0, <2>4 DEF RecordConflict, End, FinalizerSteps
  <2> QED
    BY <1>3, <2>1, <2>2, <2>3, <2>4 DEF Finalize
<1>4. ASSUME NEW p \in Approvers, Approve(p) PROVE Tidy'
  <2>0. p \in Procs /\ p \notin Finalizers
    BY <1>0 DEF Procs
  <2>1. CASE TakeKeyShare(p)
    <3>1. /\ pc'[p] = "commit" /\ \A q \in Procs \ {p} : pc'[q] = pc[q]
          /\ UNCHANGED locked
          /\ \A t \in Technicians : shared'[t] \subseteq shared[t] \cup {p}
      BY <1>0, <2>0, <2>1 DEF TakeKeyShare, GoTo
    <3>2. OwnSteps'
      BY <1>0, <2>0, <3>1 DEF Procs, ApproverSteps
    <3>3. LocksUnderWay'
      BY <1>0, <2>0, <3>1
    <3> QED
      BY <3>2, <3>3
  <2>2. CASE ReadRequest(p)
    BY <1>0, <1>2, <2>0, <2>2 DEF ReadRequest, End, ApproverSteps
  <2>3. CASE CheckSlot(p)
    BY <1>0, <1>2, <2>0, <2>3 DEF CheckSlot, End, ApproverSteps
  <2>4. CASE ReadPrior(p)
    BY <1>0, <1>2, <2>0, <2>4 DEF ReadPrior, ApproverSteps
  <2> QED
    BY <1>4, <2>1, <2>2, <2>3, <2>4 DEF Approve
<1>5. ASSUME NEW p \in Procs, InsertRow(p) PROVE Tidy'
  <2>1. CASE Exclusion /\ Clashing(p) \ prior[p] # {}
    <3>1. CASE p \in Finalizers
      BY <1>0, <1>1, <1>5, <2>1, <3>1 DEF InsertRow, FinalizerSteps
    <3>2. CASE p \notin Finalizers
      BY <1>0, <1>1, <1>5, <2>1, <3>2 DEF InsertRow, End
    <3> QED
      BY <3>1, <3>2
  <2>2. CASE ~ (Exclusion /\ Clashing(p) \ prior[p] # {})
    <3>1. /\ GoTo(p, IF p \in Finalizers THEN "commit" ELSE "key")
          /\ UNCHANGED <<locked, shared>> /\ pc[p] = "insert"
      BY <1>5, <2>2 DEF InsertRow
    <3>2. CASE p \in Finalizers
      BY <1>0, <1>2, <3>1, <3>2 DEF FinalizerSteps
    <3>3. CASE p \notin Finalizers
      BY <1>0, <1>2, <3>1, <3>3 DEF ApproverSteps
    <3> QED
      BY <3>2, <3>3
  <2> QED
    BY <2>1, <2>2
<1>6. ASSUME NEW p \in Procs, Commit(p) \/ Rollback(p) PROVE Tidy'
  BY <1>1, <1>6 DEF Commit, Rollback, End
<1>7. ASSUME UNCHANGED <<pc, locked, shared>> PROVE Tidy'
  <2>1. OwnSteps'
    BY <1>0, <1>7
  <2>2. LocksUnderWay'
    BY <1>0, <1>7
  <2> QED
    BY <2>1, <2>2
<1>8. Tidy'
  <2> HIDE DEF Tidy
  <2> QED
    BY <1>3, <1>4, <1>5, <1>6, <1>7
    DEF Next, Step, Crash, AbortVictim, CancelBooked, Finished, vars
<1>9. TypeOK' /\ RowsFollowSteps' /\ PriorCommitted'
  BY StepTypeOK, StepRows DEF Orderly
<1> QED
  BY <1>8, <1>9 DEF Orderly

(* Whom an attempt waits for is under way, and is not the attempt itself.   *)
LEMMA WaitsForTheLiving ==
  ASSUME Orderly, NEW p \in Procs, NEW q \in WaitsFor(p)
  PROVE  q \in Procs /\ q # p /\ pc[q] # "done"
<1>0. /\ job[p].technician \in Technicians
      /\ pc[p] \in Steps
      /\ \A t \in Technicians : locked[t] \cup shared[t] \subseteq Procs
      /\ \A t \in Technicians : \A o \in locked[t] \cup shared[t] : pc[o] # "done"
  BY DEF Orderly, TypeOK, Jobs
<1>1. ASSUME NEW o \in Procs, InFlight(o) PROVE pc[o] \in {"key", "commit"}
  BY <1>1 DEF Orderly, RowsFollowSteps, InFlight
<1>2. ASSUME q \in RequestLockers(p) PROVE q \in Procs /\ q # p /\ pc[q] # "done"
  BY <1>1, <1>2 DEF RequestLockers, Procs
<1>3. ASSUME q \in Undecided(p), pc[p] = "insert" PROVE q \in Procs /\ q # p /\ pc[q] # "done"
  <2>1. q \in Procs /\ InFlight(q)
    BY <1>3 DEF Undecided
  <2>2. pc[q] \in {"key", "commit"}
    BY <1>1, <2>1
  <2> QED
    BY <1>3, <2>1, <2>2
<1>4. ASSUME q \in (locked[job[p].technician] \cup shared[job[p].technician]) \ {p}
      PROVE  q \in Procs /\ q # p /\ pc[q] # "done"
  BY <1>0, <1>4
<1> QED
  BY <1>0, <1>2, <1>3, <1>4 DEF WaitsFor, Steps

(* A least set of transactions that wait among themselves is a cycle.       *)
LEMMA SomeCycle ==
  ASSUME IsFiniteSet(Procs), NEW U \in SUBSET Procs, U # {},
         \A p \in U : WaitsFor(p) \cap U # {} /\ p \notin WaitsFor(p)
  PROVE  \E p \in U : Deadlocked(p)
<1> DEFINE Knots == {S \in SUBSET U : S # {} /\ \A q \in S : WaitsFor(q) \cap S # {}}
           Sizes == {Cardinality(S) : S \in Knots}
<1>1. \A S \in SUBSET U : IsFiniteSet(S) /\ Cardinality(S) \in Nat
  BY FS_Subset, FS_CardinalityType
<1>2. U \in Knots
  OBVIOUS
<1>3. PICK n \in Sizes : \A k \in Sizes : n <= k
  <2>1. Sizes \in SUBSET Nat /\ Sizes # {}
    BY <1>1, <1>2
  <2> HIDE DEF Sizes
  <2>2. PICK n \in Sizes : \A k \in Sizes : ~ (<<k, n>> \in OpToRel(<, Nat))
    BY <2>1, NatLessThanWellFounded, WFMin
  <2>3. \A k \in Sizes : ~ (k < n)
    BY <2>1, <2>2 DEF OpToRel
  <2> QED
    BY <2>1, <2>3
<1>4. PICK S \in Knots : Cardinality(S) = n
  OBVIOUS
<1>5. ASSUME NEW q \in S PROVE \E o \in S : q \in WaitsFor(o)
  <2> SUFFICES ASSUME \A o \in S : q \notin WaitsFor(o) PROVE FALSE
    OBVIOUS
  <2>1. \A o \in S \ {q} : WaitsFor(o) \cap (S \ {q}) # {}
    <3> SUFFICES ASSUME NEW o \in S \ {q} PROVE WaitsFor(o) \cap (S \ {q}) # {}
      OBVIOUS
    <3>1. WaitsFor(o) \cap S # {} /\ q \notin WaitsFor(o)
      BY <1>4
    <3> QED
      BY <3>1
  <2>2. S \ {q} # {}
    <3>1. WaitsFor(q) \cap S # {} /\ q \notin WaitsFor(q)
      BY <1>4
    <3> QED
      BY <3>1
  <2>3. S \ {q} \in Knots
    BY <2>1, <2>2
  <2>4. IsFiniteSet(S) /\ Cardinality(S) \in Nat /\ Cardinality(S \ {q}) = Cardinality(S) - 1
    BY <1>1, <1>4, FS_RemoveElement
  <2>5. Cardinality(S \ {q}) \in Sizes
    BY <2>3
  <2> HIDE DEF Sizes, Knots
  <2>6. n \in Nat /\ n <= Cardinality(S \ {q})
    BY <1>3, <1>4, <2>4, <2>5
  <2> QED
    BY <1>4, <2>4, <2>6
<1>6. PICK p \in S : TRUE
  BY <1>4
<1>7. S \in SUBSET Procs /\ \A q \in S : WaitsFor(q) \cap S # {}
  BY <1>4
<1>8. Deadlocked(p)
  BY <1>5, <1>6, <1>7 DEF Deadlocked
<1> QED
  BY <1>4, <1>6, <1>8

(* The safety half of EveryAttemptEnds: in every state in which an attempt  *)
(* is under way, one of them waits for nobody, or the engine finds one of   *)
(* them on a cycle.  No mix of the two lock orders, no crash and no refused *)
(* row leaves all of them waiting for what never comes.                     *)
THEOREM NeverStuck ==
  ASSUME IsFiniteSet(Procs)
  PROVE  Spec => []SomebodyMoves
<1>1. Init => Orderly
  <2> SUFFICES ASSUME Init PROVE Orderly
    OBVIOUS
  <2>1. TypeOK /\ RowsFollowSteps /\ PriorCommitted
    BY InitIInv DEF IInv
  <2>2. \A p \in Procs : pc[p] = "begin"
    BY DEF Init
  <2>3. \A t \in Technicians : locked[t] = {} /\ shared[t] = {}
    BY DEF Init
  <2> QED
    BY <2>1, <2>2, <2>3 DEF Orderly, Procs, FinalizerSteps, ApproverSteps
<1>2. Orderly /\ [Next]_vars => Orderly'
  BY StepOrderly
<1>3. Orderly => SomebodyMoves
  <2> SUFFICES ASSUME Orderly, \A p \in Procs : ~ CanGoOn(p)
               PROVE  SomebodyMoves
    BY DEF SomebodyMoves
  <2> DEFINE U == {p \in Procs : pc[p] # "done"}
  <2>1. CASE U = {}
    BY <2>1 DEF SomebodyMoves
  <2>2. CASE U # {}
    <3>1. \A p \in U : WaitsFor(p) # {}
      BY DEF Orderly, CanGoOn, Procs
    <3>2. ASSUME NEW p \in U PROVE WaitsFor(p) \cap U # {} /\ p \notin WaitsFor(p)
      <4>1. PICK q : q \in WaitsFor(p)
        BY <3>1
      <4>2. \A o \in WaitsFor(p) : o \in U /\ o # p
        BY WaitsForTheLiving
      <4> QED
        BY <4>1, <4>2
    <3>3. \E p \in U : Deadlocked(p)
      BY <2>2, <3>2, SomeCycle
    <3> QED
      BY <3>3 DEF SomebodyMoves
  <2> QED
    BY <2>1, <2>2
<1> QED
  BY <1>1, <1>2, <1>3, PTL DEF Spec

==============================================================================
