------------------------------- MODULE Dispatch -------------------------------
(****************************************************************************)
(* The roster of technicians, as administrators change it, while the        *)
(* workflow, operators and reassignment choose technicians from it and book *)
(* them later: a choice is a plan from when the roster was read to when the *)
(* visit is written.                                                        *)
(*                                                                          *)
(* The statuses of requests are left to Lifecycle: here any order may be    *)
(* matched, approved, reassigned or moved at any time it has the visit for. *)
(****************************************************************************)
EXTENDS Scheduling

CONSTANTS
  Technicians,   \* technicians.id
  Orders,        \* service requests
  Requests,      \* what each order asks for
  Profiles,      \* areas, skills and limits that technicians can have
  Policies,      \* weights of dispatch policies
  Hours,         \* bound: the hours at which the clock is read
  MaxChoices,    \* bound: choices of a technician
  MaxUpdates     \* bound: creations and changes of technicians' profiles

ASSUME DispatchAssumption ==
  /\ Technicians \subseteq Nat \ {0}
  /\ IsFiniteSet(Orders)
  /\ \A o \in Orders :
       LET time == Requests[o].preferred_time IN
       /\ time.kind = "relative" => time.day \in Nat /\ time.part \in DOMAIN PartOfDay
       /\ time.kind = "explicit" => time.at \in Nat
  /\ \A p \in Profiles : p.area # NoArea /\ p.max_jobs \in Nat
  /\ \A w \in Policies :
       {w.workload, w.capacity, w.sla, w.travel, w.overtime} \subseteq Nat
  /\ Hours \subseteq Nat
  /\ MaxChoices \in Nat /\ MaxUpdates \in Nat

VARIABLES
  roster,        \* technicians: profile and status
  closing,       \* deactivations between their count and their commit
  matched,       \* candidate_technician_ids in each order's thread
  plans,         \* technicians chosen and not booked yet
  visits,        \* the latest appointment of each order
  now,           \* the hour
  updates,       \* profile changes so far
  choices,       \* choices of a technician so far
  excused        \* history: <<order, technician>> chosen before a deactivation
                 \* ended, or by hand

vars == <<roster, closing, matched, plans, visits, now, updates, choices, excused>>

------------------------------------------------------------------------------
Absent == [area |-> NoArea, skills |-> {}, max_jobs |-> 0, status |-> "absent"]

WithStatus(profile, status) ==
  [area |-> profile.area, skills |-> profile.skills,
   max_jobs |-> profile.max_jobs, status |-> status]

Staff ==
  {Absent} \cup {WithStatus(p, s) : p \in Profiles, s \in {"active", "inactive"}}

Plan(o, by, t, start) == [order |-> o, by |-> by, technician |-> t, start |-> start]

Plans ==
  [order : Orders, by : {"finalize", "approve", "reassign"},
   technician : Technicians, start : Nat]

NoVisit == [technician |-> 0, start |-> 0, status |-> "none"]

Visits ==
  {NoVisit} \cup
  [technician : Technicians, start : Nat,
   status : {"scheduled", "in_progress", "ended"}]

Blocking(status) == status \in {"scheduled", "in_progress"}

(* The rows of the orders in a set, as the queries see them.                *)
Rows(os) ==
  {[order |-> o, technician |-> visits[o].technician, start |-> visits[o].start,
    status |-> visits[o].status, blocks |-> Blocking(visits[o].status)] :
     o \in {p \in os : visits[p] # NoVisit}}

(* Whether a visit of t at start overlaps one of the given orders.          *)
Clash(os, t, start) ==
  \E r \in Rows(os) : r.technician = t /\ r.blocks /\ Overlaps(start, r)

IsFuture(o, t) ==
  /\ visits[o].technician = t
  /\ visits[o].status = "scheduled"
  /\ visits[o].start >= now

ChoiceMade == choices < MaxChoices /\ choices' = choices + 1

Init ==
  /\ roster = [t \in Technicians |-> Absent]
  /\ closing = {}
  /\ matched = [o \in Orders |-> {}]
  /\ plans = {}
  /\ visits = [o \in Orders |-> NoVisit]
  /\ now \in Hours
  /\ updates = 0
  /\ choices = 0
  /\ excused = {}

------------------------------------------------------------------------------
(* The administrator                                                        *)

(* A technician is created, active or not, or its profile changed.          *)
create_technician_admin(t) ==
  /\ roster[t] = Absent
  /\ updates < MaxUpdates
  /\ updates' = updates + 1
  /\ \E p \in Profiles, s \in {"active", "inactive"} :
       roster' = [roster EXCEPT ![t] = WithStatus(p, s)]
  /\ UNCHANGED <<closing, matched, plans, visits, now, choices, excused>>

update_technician_admin(t) ==
  /\ roster[t] # Absent
  /\ updates < MaxUpdates
  /\ updates' = updates + 1
  /\ \E p \in Profiles : roster' = [roster EXCEPT ![t] = WithStatus(p, @.status)]
  /\ UNCHANGED <<closing, matched, plans, visits, now, choices, excused>>

activate_technician_admin(t) ==
  /\ roster[t] # Absent
  /\ roster' = [roster EXCEPT ![t].status = "active"]
  /\ excused' = {e \in excused : e[2] # t}
  /\ UNCHANGED <<closing, matched, plans, visits, now, updates, choices>>

(* Mutant of CountFuture: every status but scheduled counts.                *)
CountStarted(t) ==
  /\ roster[t].status = "active"
  /\ \A o \in Orders : ~ (visits[o].technician = t /\ visits[o].status = "in_progress")
  /\ closing' = closing \cup {[technician |-> t, known |-> {o \in Orders : IsFuture(o, t)}]}
  /\ UNCHANGED <<roster, matched, plans, visits, now, updates, choices, excused>>

(* A deactivation counts the technician's future visits.  A history keeps   *)
(* which it knew.                                                           *)
CountFuture(t) ==
  /\ roster[t].status = "active"
  /\ \A o \in Orders : ~ IsFuture(o, t)
  /\ closing' = closing \cup {[technician |-> t, known |-> {o \in Orders : IsFuture(o, t)}]}
  /\ UNCHANGED <<roster, matched, plans, visits, now, updates, choices, excused>>

(* The orders whose choice of t was under way when t was deactivated.       *)
UnderWay(t, known) ==
  {o \in Orders : \/ t \in matched[o]
                  \/ \E p \in plans : p.order = o /\ p.technician = t
                  \/ IsFuture(o, t) /\ o \notin known}

deactivate_technician_admin(c) ==
  LET t == c.technician IN
  /\ closing' = closing \ {c}
  /\ roster' = [roster EXCEPT ![t].status = "inactive"]
  /\ excused' = excused \cup {<<o, t>> : o \in UnderWay(t, c.known)}
  /\ UNCHANGED <<matched, plans, visits, now, updates, choices>>

------------------------------------------------------------------------------
(* The workflow's proposal                                                  *)

Match(o) ==
  /\ matched' = [matched EXCEPT ![o] =
                   match_technicians(roster, Requests[o].area, Requests[o].skills)]
  /\ UNCHANGED <<roster, closing, plans, visits, now, updates, choices, excused>>

Options(o, candidates) ==
  check_availability(candidates, parse(Requests[o].preferred_time, now), Rows(Orders))

(* Mutant of Propose: whether there are options is not asked.               *)
ProposeUnasked(o) ==
  LET s == select_proposal(Options(o, matched[o])) IN
  /\ matched[o] # {}
  /\ ChoiceMade
  /\ plans' = plans \cup {Plan(o, "finalize", s.technician, s.start)}
  /\ matched' = [matched EXCEPT ![o] = {}]
  /\ UNCHANGED <<roster, closing, visits, now, updates, excused>>

(* The schedule is checked later than the match.  Without options the       *)
(* thread ends.                                                             *)
Propose(o) ==
  LET s == select_proposal(Options(o, matched[o])) IN
  /\ matched[o] # {}
  /\ ChoiceMade
  /\ plans' = IF s = NoProposal THEN plans
              ELSE plans \cup {Plan(o, "finalize", s.technician, s.start)}
  /\ matched' = [matched EXCEPT ![o] = {}]
  /\ UNCHANGED <<roster, closing, visits, now, updates, excused>>

(* A proposal is rejected, or a transaction with a plan fails.              *)
Drop(p) ==
  /\ plans' = plans \ {p}
  /\ UNCHANGED <<roster, closing, matched, visits, now, updates, choices, excused>>

SetVisit(o, t, start) ==
  visits' = [visits EXCEPT ![o] =
               [technician |-> t, start |-> start, status |-> "scheduled"]]

(* An approved proposal is booked unless the order has a blocking visit or  *)
(* the technician has one then; the roster is not read again.               *)
finalize_appointment(p) ==
  /\ p.by = "finalize"
  /\ plans' = plans \ {p}
  /\ IF Blocking(visits[p.order].status) \/ Clash(Orders, p.technician, p.start)
     THEN UNCHANGED visits
     ELSE SetVisit(p.order, p.technician, p.start)
  /\ UNCHANGED <<roster, closing, matched, now, updates, choices, excused>>

------------------------------------------------------------------------------
(* Operators                                                                *)

(* Without a thread the top-ranked technician is to come in two hours,      *)
(* unless another order has the technician then.                            *)
ChooseTopRanked(o) ==
  \E weights \in Policies :
    \E t \in TopRanked(roster, Requests[o], Rows(Orders), weights) :
      /\ ~ Clash(Orders \ {o}, t, now + 2)
      /\ ChoiceMade
      /\ plans' = plans \cup {Plan(o, "approve", t, now + 2)}
      /\ UNCHANGED <<roster, closing, matched, visits, now, updates, excused>>

(* Written with no second look, but for the exclusion constraint; the       *)
(* order's earlier visit is superseded.                                     *)
ApproveDirectly(p) ==
  /\ p.by = "approve"
  /\ plans' = plans \ {p}
  /\ IF Clash(Orders \ {p.order}, p.technician, p.start) THEN UNCHANGED visits
     ELSE SetVisit(p.order, p.technician, p.start)
  /\ UNCHANGED <<roster, closing, matched, now, updates, choices, excused>>

(* A named technician, or the first other one, if active.                   *)
ChooseSubstitute(o) ==
  /\ visits[o].status = "scheduled"
  /\ ChoiceMade
  /\ \E t \in {u \in Technicians : roster[u].status = "active"} :
       plans' = plans \cup {Plan(o, "reassign", t, visits[o].start)}
  /\ UNCHANGED <<roster, closing, matched, visits, now, updates, excused>>

(* Only the row's technician is written; the constraint minds blocking rows.*)
reassign_technician(p) ==
  LET v == visits[p.order] IN
  /\ p.by = "reassign"
  /\ plans' = plans \ {p}
  /\ IF \/ v.start # p.start
        \/ Blocking(v.status) /\ Clash(Orders \ {p.order}, p.technician, v.start)
     THEN UNCHANGED visits
     ELSE visits' = [visits EXCEPT ![p.order].technician = p.technician]
  /\ UNCHANGED <<roster, closing, matched, now, updates, choices, excused>>

(* A reschedule is approved for any technician and hour the operator names; *)
(* the new row is written while the old one still blocks.                   *)
approve_reschedule(o) ==
  /\ visits[o] # NoVisit
  /\ \E t \in {u \in Technicians : roster[u] # Absent}, start \in Hours :
       /\ ~ Clash(Orders, t, start)
       /\ ChoiceMade
       /\ SetVisit(o, t, start)
       /\ excused' = excused \cup {<<o, t>>}
  /\ UNCHANGED <<roster, closing, matched, plans, now, updates>>

(* The visit is begun, or ended: completed or cancelled.                    *)
EndVisit(o) ==
  /\ Blocking(visits[o].status)
  /\ \E s \in {"in_progress", "ended"} :
       visits' = [visits EXCEPT ![o].status = s]
  /\ UNCHANGED <<roster, closing, matched, plans, now, updates, choices, excused>>

Tick ==
  /\ now' \in {h \in Hours : h > now}
  /\ UNCHANGED <<roster, closing, matched, plans, visits, updates, choices, excused>>

------------------------------------------------------------------------------
Administer(t) ==
  \/ create_technician_admin(t) \/ update_technician_admin(t)
  \/ activate_technician_admin(t) \/ CountFuture(t)

Choose(o) == Match(o) \/ Propose(o) \/ ChooseTopRanked(o) \/ ChooseSubstitute(o)

Carry(p) ==
  Drop(p) \/ finalize_appointment(p) \/ ApproveDirectly(p) \/ reassign_technician(p)

Next ==
  \/ \E t \in Technicians : Administer(t)
  \/ \E c \in closing : deactivate_technician_admin(c)
  \/ \E o \in Orders : Choose(o) \/ approve_reschedule(o) \/ EndVisit(o)
  \/ \E p \in plans : Carry(p)
  \/ Tick

Spec == Init /\ [][Next]_vars

------------------------------------------------------------------------------
(* Every variable has its type.                                             *)
TypeOK ==
  /\ roster \in [Technicians -> Staff]
  /\ closing \subseteq [technician : Technicians, known : SUBSET Orders]
  /\ matched \in [Orders -> SUBSET Technicians]
  /\ plans \subseteq Plans
  /\ visits \in [Orders -> Visits]
  /\ now \in Nat
  /\ updates \in 0 .. MaxUpdates
  /\ choices \in 0 .. MaxChoices
  /\ excused \subseteq Orders \X Technicians

(* A technician who was deactivated has no visit to come but those that     *)
(* were under way in between: matched, proposed, chosen or booked after the *)
(* deactivation had counted, or put there by an operator who named the      *)
(* technician.                                                              *)
InactiveIsIdle ==
  \A o \in Orders, t \in Technicians :
    roster[t].status = "inactive" /\ IsFuture(o, t) => <<o, t>> \in excused

\* Whether t is at no visit in any hour of one that would start at start.
FreeAt(t, start) ==
  \A h \in start .. start + Duration - 1, o \in Orders :
    ~ /\ visits[o].technician = t
      /\ Blocking(visits[o].status)
      /\ h \in visits[o].start .. visits[o].start + Duration - 1

\* The starts in steps from the window's, of visits that end within it.
Fits(w, start) ==
  /\ \E k \in 0 .. w.end : start = w.start + k * Step
  /\ start + Duration <= w.end

\* Who can do what an order asks for, and the visits that they are free for.
Able(o) ==
  {t \in Technicians : /\ roster[t].status = "active"
                       /\ roster[t].area = Requests[o].area
                       /\ Requests[o].skills \ roster[t].skills = {}}

FreeFor(o) ==
  LET w == parse(Requests[o].preferred_time, now) IN
  {f \in Able(o) \X (w.start .. w.end) : Fits(w, f[2]) /\ FreeAt(f[1], f[2])}

\* What would be proposed if the order was matched and scheduled now.
ProposalNow(o) ==
  select_proposal(Options(o, match_technicians(roster, Requests[o].area,
                                               Requests[o].skills)))

(* Whatever the roster and the calendars, the proposal is a free visit in   *)
(* the window by someone who can do it; no one who can is free earlier, and *)
(* no one with a lower id as early; and nothing is proposed only if nobody  *)
(* who can is free in the window.                                           *)
ProposalIsBest ==
  \A o \in Orders :
    LET s == ProposalNow(o) IN
    IF s = NoProposal THEN Requests[o].skills = {} \/ FreeFor(o) = {}
    ELSE /\ <<s.technician, s.start>> \in FreeFor(o)
         /\ \A f \in FreeFor(o) : \/ f[2] > s.start
                                  \/ f[2] = s.start /\ f[1] >= s.technician

(* Under every policy, a technician who is no worse in skill, area, number  *)
(* of jobs and capacity than another is not ranked below the other.         *)
RankingIsMonotone ==
  \A o \in Orders, weights \in Policies, t, u \in Technicians :
    LET r == Requests[o]
        rows == Rows(Orders)
        jobs(x) == Jobs(x, rows)
        limit(x) == DailyLimit(roster[x].max_jobs)
    IN /\ r.service \in roster[u].skills => r.service \in roster[t].skills
       /\ roster[u].area = r.area => roster[t].area = r.area
       /\ jobs(t) <= jobs(u)
       /\ jobs(u) < limit(u) => jobs(t) < limit(t)
       => Score(WithId(roster, t), r, rows, weights)
            >= Score(WithId(roster, u), r, rows, weights)
=============================================================================
