------------------------------ MODULE Scheduling ------------------------------
(****************************************************************************)
(* The algorithms of dispatching: which technicians can do a job, what      *)
(* window the customer's words mean, which slots of it are free, which one  *)
(* is proposed, and how technicians are ranked for a direct approval.       *)
(*                                                                          *)
(* Time is in hours from some midnight.  A visit is a record with its       *)
(* technician, its start and whether it blocks others; it lasts Duration,   *)
(* as every visit the algorithms choose does.                               *)
(****************************************************************************)
EXTENDS Integers, FiniteSets

CONSTANTS
  Duration,      \* DEFAULT_APPOINTMENT_DURATION_MINUTES, in hours
  Step           \* DEFAULT_SLOT_STEP_MINUTES, in hours

ASSUME SchedulingAssumption == Duration \in Nat \ {0} /\ Step \in Nat \ {0}

------------------------------------------------------------------------------
(* Matching                                                                 *)

NoArea == "no area"

(* The technicians that are active, in the area and have every skill; none  *)
(* if the area or the skills are missing.                                   *)
match_technicians(roster, area, skills) ==
  {t \in DOMAIN roster : /\ area # NoArea
                         /\ skills # {}
                         /\ roster[t].status = "active"
                         /\ roster[t].area = area
                         /\ skills \subseteq roster[t].skills}

------------------------------------------------------------------------------
(* Windows and slots                                                        *)

NoWindow == [start |-> 0, end |-> 0]

PartOfDay ==
  [morning |-> [start |-> 9, end |-> 12], afternoon |-> [start |-> 13, end |-> 17],
   evening |-> [start |-> 17, end |-> 20]]

(* A part of this day or of the next, a given hour, or nothing known.       *)
parse(preferred_time, now) ==
  CASE preferred_time.kind = "relative" ->
         LET midnight == 24 * (now \div 24 + preferred_time.day)
             part == PartOfDay[preferred_time.part]
         IN [start |-> midnight + part.start, end |-> midnight + part.end]
    [] preferred_time.kind = "explicit" ->
         [start |-> preferred_time.at, end |-> preferred_time.at + Duration]
    [] OTHER -> NoWindow

(* Mutant of generate_candidate_slots: a slot has only to begin within.     *)
SlotsMayOverrun(window) ==
  {s \in window.start .. window.end - 1 : (s - window.start) % Step = 0}

has_time_conflict(s, e, existing_s, existing_e) ==
  existing_s < e /\ existing_e > s

(* The starts of the slots that fit into the window.                        *)
generate_candidate_slots(window) ==
  {s \in window.start .. window.end - Duration : (s - window.start) % Step = 0}

Overlaps(start, visit) ==
  has_time_conflict(start, start + Duration, visit.start, visit.start + Duration)

(* The free slots of each candidate.  Visits outside of the window overlap  *)
(* none of its slots.                                                       *)
check_availability(candidates, window, visits) ==
  {o \in [technician : candidates, start : generate_candidate_slots(window)] :
     \A v \in visits :
       v.technician = o.technician /\ v.blocks => ~ Overlaps(o.start, v)}

(* The sort key: start_time, then technician_id.                            *)
Before(o, p) ==
  \/ o.start < p.start
  \/ o.start = p.start /\ o.technician <= p.technician

NoProposal == [technician |-> 0, start |-> 0]

select_proposal(options) ==
  IF options = {} THEN NoProposal
  ELSE CHOOSE o \in options : \A p \in options : Before(o, p)

------------------------------------------------------------------------------
(* Ranking                                                                  *)

Least(x, y) == IF x < y THEN x ELSE y
Most(x, y) == IF x > y THEN x ELSE y

Jobs(t, visits) ==
  Cardinality({v \in visits : v.technician = t /\ v.status = "scheduled"})

(* Mutant of WorkloadTenths: the more jobs the better.                      *)
WorkloadRewarded(weights, jobs) == 10 * Least(weights.workload, jobs * 5)

(* In tenths of a point, which are cut off at the end.                      *)
WorkloadTenths(weights, jobs) ==
  10 * (IF jobs = 0 THEN weights.workload
        ELSE Most(0, weights.workload - jobs * 5))

(* A technician without a limit of his own, written 0, has room for five.   *)
DailyLimit(max_jobs) == IF max_jobs = 0 THEN 5 ELSE max_jobs

Tenths(t, request, visits, weights) ==
  200
  + (IF request.service \in t.skills THEN 10 ELSE 3) * weights.sla
  + (IF t.area = request.area THEN 10 ELSE 2) * weights.travel
  + WorkloadTenths(weights, Jobs(t.id, visits))
  + 10 * (IF Jobs(t.id, visits) < DailyLimit(t.max_jobs) THEN weights.capacity
          ELSE 0 - weights.overtime)

Score(t, request, visits, weights) ==
  Least(1000, Most(100, Tenths(t, request, visits, weights))) \div 10

WithId(roster, t) ==
  [id |-> t, area |-> roster[t].area, skills |-> roster[t].skills,
   max_jobs |-> roster[t].max_jobs]

(* The first of the ranking: an active technician that none outscores.      *)
TopRanked(roster, request, visits, weights) ==
  LET active == {t \in DOMAIN roster : roster[t].status = "active"}
      score(t) == Score(WithId(roster, t), request, visits, weights)
  IN {t \in active : \A u \in active : score(u) <= score(t)}
=============================================================================
