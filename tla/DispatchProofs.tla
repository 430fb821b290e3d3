---------------------------- MODULE DispatchProofs ----------------------------
(****************************************************************************)
(* Type correctness of Dispatch, that a deactivated technician has no visit *)
(* to come and none is double booked, and what the algorithms of Scheduling *)
(* compute, for any roster, orders, profiles, policies and lengths of       *)
(* visits and steps.                                                        *)
(****************************************************************************)
EXTENDS Dispatch, FiniteSetTheorems, WellFoundedInduction, TLAPS

------------------------------------------------------------------------------
(* Windows and slots                                                        *)

Windows == [start : Nat, end : Nat]

LEMMA WindowIsKnown ==
  ASSUME NEW time, NEW hour \in Nat,
         time.kind = "relative" => time.day \in Nat /\ time.part \in DOMAIN PartOfDay,
         time.kind = "explicit" => time.at \in Nat
  PROVE  parse(time, hour) \in Windows
<1>1. ASSUME NEW s \in Nat, NEW e \in Nat PROVE [start |-> s, end |-> e] \in Windows
  BY DEF Windows
<1>2. CASE time.kind = "relative"
  <2> DEFINE midnight == 24 * (hour \div 24 + time.day)
             part == PartOfDay[time.part]
  <2>1. midnight \in Nat
    BY <1>2
  <2>2. part.start \in Nat /\ part.end \in Nat
    BY <1>2 DEF PartOfDay
  <2>3. parse(time, hour) = [start |-> midnight + part.start, end |-> midnight + part.end]
    BY <1>2 DEF parse
  <2> HIDE DEF midnight, part
  <2>4. midnight + part.start \in Nat /\ midnight + part.end \in Nat
    BY <2>1, <2>2
  <2> QED
    BY <1>1, <2>3, <2>4
<1>3. CASE time.kind = "explicit"
  <2>1. parse(time, hour) = [start |-> time.at, end |-> time.at + Duration]
    BY <1>3 DEF parse
  <2>2. time.at \in Nat /\ time.at + Duration \in Nat
    BY <1>3, SchedulingAssumption
  <2> QED
    BY <1>1, <2>1, <2>2
<1>4. CASE time.kind \notin {"relative", "explicit"}
  <2>1. parse(time, hour) = NoWindow
    BY <1>4 DEF parse
  <2> QED
    BY <1>1, <2>1 DEF NoWindow
<1> QED
  BY <1>2, <1>3, <1>4

LEMMA SlotFacts ==
  ASSUME NEW w \in Windows, NEW s \in generate_candidate_slots(w)
  PROVE  /\ s \in Nat /\ w.start <= s /\ s + Duration <= w.end
         /\ (s - w.start) % Step = 0
  BY SchedulingAssumption DEF generate_candidate_slots, Windows

(* The slots are the starts that the customer's window has room for.        *)
LEMMA SlotsFit ==
  ASSUME NEW w \in Windows, NEW s \in w.start .. w.end
  PROVE  s \in generate_candidate_slots(w) <=> Fits(w, s)
<1> USE SchedulingAssumption
<1>1. w.start \in Nat /\ w.end \in Nat /\ s \in Nat /\ s - w.start \in 0 .. w.end
  BY DEF Windows
<1>2. ASSUME (s - w.start) % Step = 0
      PROVE  \E k \in 0 .. w.end : s = w.start + k * Step
  <2> DEFINE d == s - w.start
             k == d \div Step
  <2>1. d \in Nat /\ d <= w.end
    BY <1>1
  <2>2. k \in Nat /\ d = k * Step
    BY <1>2, <2>1
  <2>3. k <= d
    BY <2>1, <2>2
  <2> QED
    BY <1>1, <2>1, <2>2, <2>3
<1>3. ASSUME NEW k \in 0 .. w.end, s = w.start + k * Step
      PROVE  (s - w.start) % Step = 0
  BY <1>1, <1>3
<1> QED
  BY <1>1, <1>2, <1>3 DEF Fits, generate_candidate_slots

------------------------------------------------------------------------------
(* The proposal                                                             *)

LEMMA LeastNumber ==
  ASSUME NEW T \in SUBSET Nat, T # {}
  PROVE  \E n \in T : \A m \in T : n <= m
<1>1. PICK n \in T : \A m \in T : ~ (<<m, n>> \in OpToRel(<, Nat))
  BY NatLessThanWellFounded, WFMin
<1>2. \A m \in T : ~ (m < n)
  BY <1>1 DEF OpToRel
<1> QED
  BY <1>2

(* One of the options comes before the others, and it is selected.          *)
LEMMA SelectedIsFirst ==
  ASSUME NEW options, options # {},
         \A o \in options : o.start \in Nat /\ o.technician \in Nat
  PROVE  /\ select_proposal(options) \in options
         /\ \A p \in options : Before(select_proposal(options), p)
<1>1. PICK s \in {o.start : o \in options} : \A i \in {o.start : o \in options} : s <= i
  <2>1. {o.start : o \in options} \in SUBSET Nat /\ {o.start : o \in options} # {}
    OBVIOUS
  <2> QED
    BY <2>1, LeastNumber
<1> DEFINE early == {o \in options : o.start = s}
<1>2. PICK t \in {o.technician : o \in early} : \A u \in {o.technician : o \in early} : t <= u
  <2>1. {o.technician : o \in early} \in SUBSET Nat /\ {o.technician : o \in early} # {}
    BY <1>1
  <2> QED
    BY <2>1, LeastNumber
<1>3. PICK o \in options : o.start = s /\ o.technician = t
  BY <1>2
<1>4. \A p \in options : Before(o, p)
  <2> SUFFICES ASSUME NEW p \in options PROVE Before(o, p)
    OBVIOUS
  <2>1. s <= p.start /\ (p.start = s => t <= p.technician)
    BY <1>1, <1>2
  <2> QED
    BY <1>3, <2>1 DEF Before
<1> QED
  BY <1>4 DEF select_proposal

(* What is free for the candidates in the window of an order.               *)
LEMMA OptionFacts ==
  ASSUME now \in Nat, NEW o \in Orders, NEW candidates \in SUBSET Technicians,
         NEW w, w = parse(Requests[o].preferred_time, now)
  PROVE  /\ w \in Windows
         /\ \A s \in Options(o, candidates) :
              /\ s.technician \in candidates /\ s.technician \in Nat \ {0}
              /\ s.start \in generate_candidate_slots(w) /\ s.start \in Nat
         /\ \A t \in candidates, start \in generate_candidate_slots(w) :
              [technician |-> t, start |-> start] \in Options(o, candidates) <=>
                ~ Clash(Orders, t, start)
<1>1. w \in Windows
  BY DispatchAssumption, WindowIsKnown
<1>2. \A start \in generate_candidate_slots(w) : start \in Nat
  BY <1>1, SlotFacts
<1>3. Options(o, candidates) =
        {s \in [technician : candidates, start : generate_candidate_slots(w)] :
           \A v \in Rows(Orders) :
             v.technician = s.technician /\ v.blocks => ~ Overlaps(s.start, v)}
  BY DEF Options, check_availability
<1>4. \A t \in candidates, start \in generate_candidate_slots(w) :
        [technician |-> t, start |-> start] \in Options(o, candidates) <=>
          ~ Clash(Orders, t, start)
  BY <1>3 DEF Clash
<1> QED
  BY <1>1, <1>2, <1>3, <1>4, DispatchAssumption

LEMMA ProposalFacts ==
  ASSUME now \in Nat, NEW o \in Orders, NEW candidates \in SUBSET Technicians,
         NEW s, s = select_proposal(Options(o, candidates))
  PROVE  /\ s = NoProposal <=> Options(o, candidates) = {}
         /\ s # NoProposal => /\ s \in Options(o, candidates)
                              /\ s.technician \in candidates /\ s.start \in Nat
                              /\ \A p \in Options(o, candidates) : Before(s, p)
<1>1. \A p \in Options(o, candidates) :
        p.technician \in candidates /\ p.technician \in Nat \ {0} /\ p.start \in Nat
  BY OptionFacts
<1>2. CASE Options(o, candidates) = {}
  BY <1>2 DEF select_proposal
<1>3. CASE Options(o, candidates) # {}
  <2>1. s \in Options(o, candidates) /\ \A p \in Options(o, candidates) : Before(s, p)
    BY <1>1, <1>3, SelectedIsFirst
  <2> QED
    BY <1>1, <1>3, <2>1 DEF NoProposal
<1> QED
  BY <1>2, <1>3

------------------------------------------------------------------------------
(* Visits                                                                   *)

LEMMA VisitFacts ==
  ASSUME NEW v \in Visits
  PROVE  /\ v.start \in Nat /\ v.technician \in Technicians \cup {0}
         /\ v.status \in {"none", "scheduled", "in_progress", "ended"}
         /\ v.status = "none" <=> v = NoVisit
         /\ v # NoVisit => v.technician \in Technicians
  BY DEF Visits, NoVisit

LEMMA ClashIsOverlap ==
  ASSUME NEW os, NEW t, NEW start
  PROVE  Clash(os, t, start) <=>
           \E q \in os : /\ visits[q].technician = t /\ Blocking(visits[q].status)
                         /\ visits[q].start < start + Duration
                         /\ visits[q].start + Duration > start
<1> DEFINE row(q) == [order |-> q, technician |-> visits[q].technician,
                      start |-> visits[q].start, status |-> visits[q].status,
                      blocks |-> Blocking(visits[q].status)]
<1>1. Rows(os) = {row(q) : q \in {p \in os : visits[p] # NoVisit}}
  BY DEF Rows
<1>2. \A q : Overlaps(start, row(q)) <=> /\ visits[q].start < start + Duration
                                         /\ visits[q].start + Duration > start
  BY DEF Overlaps, has_time_conflict
<1>3. \A q : Blocking(visits[q].status) => visits[q] # NoVisit
  BY DEF Blocking, NoVisit
<1>4. \A q : row(q).technician = visits[q].technician
             /\ row(q).blocks = Blocking(visits[q].status)
  OBVIOUS
<1> HIDE DEF row
<1> QED
  BY <1>1, <1>2, <1>3, <1>4 DEF Clash

(* Two visits clash if they have an hour in common.                         *)
LEMMA FreeIsNoClash ==
  ASSUME TypeOK, NEW t, NEW start \in Nat
  PROVE  FreeAt(t, start) <=> ~ Clash(Orders, t, start)
<1> USE SchedulingAssumption
<1>1. \A q \in Orders : visits[q].start \in Nat
  BY VisitFacts DEF TypeOK
<1>2. ASSUME NEW q \in Orders
      PROVE  visits[q].start < start + Duration /\ visits[q].start + Duration > start <=>
             \E h \in start .. start + Duration - 1 :
                   h \in visits[q].start .. visits[q].start + Duration - 1
  <2> DEFINE v == visits[q].start
  <2>1. v \in Nat
    BY <1>1
  <2> HIDE DEF v
  <2>2. ASSUME v < start + Duration, v + Duration > start
        PROVE  \E h \in start .. start + Duration - 1 : h \in v .. v + Duration - 1
    <3>1. CASE v <= start
      <4>1. start \in start .. start + Duration - 1 /\ start \in v .. v + Duration - 1
        BY <2>1, <2>2, <3>1
      <4> QED
        BY <4>1
    <3>2. CASE v > start
      <4>1. v \in start .. start + Duration - 1 /\ v \in v .. v + Duration - 1
        BY <2>1, <2>2, <3>2
      <4> QED
        BY <4>1
    <3> QED
      BY <2>1, <3>1, <3>2
  <2>3. ASSUME NEW h \in start .. start + Duration - 1, h \in v .. v + Duration - 1
        PROVE  v < start + Duration /\ v + Duration > start
    BY <2>1, <2>3
  <2> QED
    BY <2>2, <2>3 DEF v
<1> QED
  BY <1>2, ClashIsOverlap DEF FreeAt

------------------------------------------------------------------------------
(* Staff                                                                    *)

LEMMA StaffFacts ==
  ASSUME NEW s \in Staff
  PROVE  /\ s.status \in {"absent", "active", "inactive"} /\ s.max_jobs \in Nat
         /\ s.status = "absent" <=> s = Absent
         /\ s # Absent => /\ s.area # NoArea
                          /\ [s EXCEPT !.status = "active"] \in Staff \ {Absent}
                          /\ [s EXCEPT !.status = "inactive"] \in Staff \ {Absent}
                          /\ \A p \in Profiles : WithStatus(p, s.status) \in Staff \ {Absent}
<1>1. CASE s = Absent
  BY <1>1 DEF Absent
<1>2. CASE s # Absent
  <2>1. PICK p \in Profiles, status \in {"active", "inactive"} : s = WithStatus(p, status)
    BY <1>2 DEF Staff
  <2>2. /\ [s EXCEPT !.status = "active"] = WithStatus(p, "active")
        /\ [s EXCEPT !.status = "inactive"] = WithStatus(p, "inactive")
        /\ s.status = status
    BY <2>1 DEF WithStatus
  <2>3. \A q \in Profiles, v \in {"active", "inactive"} : WithStatus(q, v) \in Staff \ {Absent}
    <3>1. \A q \in Profiles, v \in {"active", "inactive"} : WithStatus(q, v) # Absent
      BY DEF WithStatus, Absent
    <3> QED
      BY <3>1 DEF Staff
  <2>4. s.max_jobs \in Nat /\ s.area # NoArea
    BY <2>1, DispatchAssumption DEF WithStatus
  <2> QED
    BY <1>2, <2>2, <2>3, <2>4
<1> QED
  BY <1>1, <1>2

LEMMA MatchedAreActive ==
  ASSUME TypeOK, NEW area, NEW skills
  PROVE  /\ match_technicians(roster, area, skills) \in SUBSET Technicians
         /\ \A t \in match_technicians(roster, area, skills) : roster[t].status = "active"
  BY DEF match_technicians, TypeOK

(* Whatever the roster and the calendars, the proposal is a free visit in   *)
(* the window by someone who can do it, the first by time and then by id,   *)
(* and there is none only if nobody who can is free in the window.          *)
LEMMA BestIsProposed ==
  ASSUME TypeOK
  PROVE  ProposalIsBest
<1> SUFFICES ASSUME NEW o \in Orders, NEW s, s = ProposalNow(o)
             PROVE  IF s = NoProposal THEN Requests[o].skills = {} \/ FreeFor(o) = {}
                    ELSE /\ <<s.technician, s.start>> \in FreeFor(o)
                         /\ \A f \in FreeFor(o) : \/ f[2] > s.start
                                                  \/ f[2] = s.start /\ f[1] >= s.technician
  BY DEF ProposalIsBest
<1>1. PICK w : w = parse(Requests[o].preferred_time, now)
  OBVIOUS
<1>2. PICK candidates :
        candidates = match_technicians(roster, Requests[o].area, Requests[o].skills)
  OBVIOUS
<1>3. /\ s = select_proposal(Options(o, candidates))
      /\ FreeFor(o) = {f \in Able(o) \X (w.start .. w.end) :
                         Fits(w, f[2]) /\ FreeAt(f[1], f[2])}
  BY <1>1, <1>2 DEF ProposalNow, FreeFor
<1>4. now \in Nat /\ candidates \in SUBSET Technicians /\ w \in Windows
  BY <1>1, <1>2, MatchedAreActive, OptionFacts DEF TypeOK
<1>5. candidates \subseteq Able(o) /\ (Requests[o].skills # {} => candidates = Able(o))
  <2>1. DOMAIN roster = Technicians
    BY DEF TypeOK
  <2>2. \A t \in Technicians : roster[t].status = "active" => roster[t].area # NoArea
    BY StaffFacts DEF TypeOK, Absent
  <2> QED
    BY <1>2, <2>1, <2>2 DEF match_technicians, Able
<1>6. \A t \in candidates, start \in w.start .. w.end :
        [technician |-> t, start |-> start] \in Options(o, candidates) <=>
          <<t, start>> \in FreeFor(o)
  <2> SUFFICES ASSUME NEW t \in candidates, NEW start \in w.start .. w.end
               PROVE  [technician |-> t, start |-> start] \in Options(o, candidates) <=>
                        <<t, start>> \in FreeFor(o)
    OBVIOUS
  <2>1. start \in generate_candidate_slots(w) <=> Fits(w, start)
    BY <1>4, SlotsFit
  <2>2. start \in Nat
    BY <1>4 DEF Windows
  <2>3. <<t, start>> \in FreeFor(o) <=> Fits(w, start) /\ FreeAt(t, start)
    BY <1>3, <1>5
  <2>4. FreeAt(t, start) <=> ~ Clash(Orders, t, start)
    BY <2>2, FreeIsNoClash
  <2>5. [technician |-> t, start |-> start] \in Options(o, candidates) =>
          start \in generate_candidate_slots(w)
    <3> DEFINE x == [technician |-> t, start |-> start]
    <3>1. x \in Options(o, candidates) => x.start \in generate_candidate_slots(w)
      BY <1>1, <1>4, OptionFacts
    <3> QED
      BY <3>1
  <2>6. start \in generate_candidate_slots(w) =>
          ([technician |-> t, start |-> start] \in Options(o, candidates) <=>
             ~ Clash(Orders, t, start))
    BY <1>1, <1>4, OptionFacts
  <2> QED
    BY <2>1, <2>3, <2>4, <2>5, <2>6
<1>7. \A p \in Options(o, candidates) :
        /\ p = [technician |-> p.technician, start |-> p.start]
        /\ p.technician \in candidates /\ p.start \in w.start .. w.end
  <2>1. \A p \in Options(o, candidates) : p = [technician |-> p.technician, start |-> p.start]
    BY DEF Options, check_availability
  <2>2. \A p \in Options(o, candidates) :
          p.technician \in candidates /\ p.start \in generate_candidate_slots(w)
    BY <1>1, <1>4, OptionFacts
  <2>3. generate_candidate_slots(w) \subseteq w.start .. w.end
    BY <1>4, SlotFacts, SchedulingAssumption DEF Windows
  <2> QED
    BY <2>1, <2>2, <2>3
<1>8. CASE s = NoProposal
  <2> SUFFICES ASSUME Requests[o].skills # {}, NEW f \in FreeFor(o) PROVE FALSE
    BY <1>8
  <2>1. PICK t \in candidates, start \in w.start .. w.end : f = <<t, start>>
    BY <1>3, <1>5
  <2>2. Options(o, candidates) = {}
    BY <1>3, <1>4, <1>8, ProposalFacts
  <2> QED
    BY <1>6, <2>1, <2>2
<1>9. CASE s # NoProposal
  <2>1. s \in Options(o, candidates) /\ \A p \in Options(o, candidates) : Before(s, p)
    BY <1>3, <1>4, <1>9, ProposalFacts
  <2>2. <<s.technician, s.start>> \in FreeFor(o)
    BY <1>6, <1>7, <2>1
  <2>3. ASSUME NEW f \in FreeFor(o)
        PROVE  \/ f[2] > s.start
               \/ f[2] = s.start /\ f[1] >= s.technician
    <3>1. Requests[o].skills # {}
      BY <1>2, <1>7, <2>1 DEF match_technicians
    <3>2. PICK t \in candidates, start \in w.start .. w.end : f = <<t, start>>
      BY <1>3, <1>5, <3>1
    <3>3. Before(s, [technician |-> t, start |-> start])
      BY <1>6, <2>1, <3>2
    <3>4. /\ t \in Nat /\ start \in Nat /\ s.technician \in Nat /\ s.start \in Nat
      BY <1>4, <1>7, <2>1, DispatchAssumption DEF Windows
    <3> QED
      BY <3>2, <3>3, <3>4 DEF Before
  <2> QED
    BY <1>9, <2>2, <2>3
<1> QED
  BY <1>8, <1>9
------------------------------------------------------------------------------
(* Ranking                                                                  *)

LEMMA FiniteImage ==
  ASSUME NEW S, IsFiniteSet(S), NEW T, NEW f \in [S -> T],
         \A y \in T : \E x \in S : f[x] = y
  PROVE  IsFiniteSet(T)
<1>1. PICK n \in Nat : ExistsSurjection(1 .. n, S)
  BY FS_NatSurjection
<1>2. PICK g \in [1 .. n -> S] : \A x \in S : \E i \in 1 .. n : g[i] = x
  BY <1>1 DEF ExistsSurjection, Surjection
<1> DEFINE h == [i \in 1 .. n |-> f[g[i]]]
<1>3. h \in Surjection(1 .. n, T)
  <2>1. h \in [1 .. n -> T]
    BY <1>2
  <2>2. ASSUME NEW y \in T PROVE \E i \in 1 .. n : h[i] = y
    BY <1>2
  <2> QED
    BY <2>1, <2>2 DEF Surjection
<1> QED
  BY <1>3, FS_NatSurjection DEF ExistsSurjection

LEMMA JobsAreCounted ==
  ASSUME NEW t
  PROVE  Jobs(t, Rows(Orders)) \in Nat
<1> DEFINE S == {o \in Orders : visits[o] # NoVisit}
           row(o) == [order |-> o, technician |-> visits[o].technician,
                      start |-> visits[o].start, status |-> visits[o].status,
                      blocks |-> Blocking(visits[o].status)]
           f == [o \in S |-> row(o)]
<1>1. Rows(Orders) = {row(o) : o \in S}
  BY DEF Rows
<1>2. IsFiniteSet(S)
  BY DispatchAssumption, FS_Subset
<1>3. IsFiniteSet(Rows(Orders))
  <2> HIDE DEF S, row
  <2>1. f \in [S -> Rows(Orders)] /\ \A y \in Rows(Orders) : \E x \in S : f[x] = y
    BY <1>1
  <2> HIDE DEF f
  <2> QED
    BY <1>2, <2>1, FiniteImage
<1>4. IsFiniteSet({v \in Rows(Orders) : v.technician = t /\ v.status = "scheduled"})
  BY <1>3, FS_Subset
<1> QED
  BY <1>4, FS_CardinalityType DEF Jobs

LEMMA ScoreIsMonotone ==
  ASSUME NEW weights,
         {weights.workload, weights.capacity, weights.sla, weights.travel,
          weights.overtime} \subseteq Nat,
         NEW a, NEW b, NEW r, NEW rows,
         Jobs(a.id, rows) \in Nat, Jobs(b.id, rows) \in Nat,
         a.max_jobs \in Nat, b.max_jobs \in Nat,
         r.service \in b.skills => r.service \in a.skills,
         b.area = r.area => a.area = r.area,
         Jobs(a.id, rows) <= Jobs(b.id, rows),
         Jobs(b.id, rows) < DailyLimit(b.max_jobs) =>
           Jobs(a.id, rows) < DailyLimit(a.max_jobs)
  PROVE  Score(a, r, rows, weights) >= Score(b, r, rows, weights)
<1>1. \A j, k \in Nat : j <= k => WorkloadTenths(weights, j) >= WorkloadTenths(weights, k)
  BY DEF WorkloadTenths, Most
<1>2. \A j \in Nat : WorkloadTenths(weights, j) \in Int
  BY DEF WorkloadTenths, Most
<1> DEFINE Skill(x) == (IF r.service \in x.skills THEN 10 ELSE 3) * weights.sla
           Travel(x) == (IF x.area = r.area THEN 10 ELSE 2) * weights.travel
           Load(x) == WorkloadTenths(weights, Jobs(x.id, rows))
           Room(x) == 10 * (IF Jobs(x.id, rows) < DailyLimit(x.max_jobs) THEN weights.capacity
                            ELSE 0 - weights.overtime)
<1>3. Skill(a) >= Skill(b) /\ Skill(a) \in Int /\ Skill(b) \in Int
  OBVIOUS
<1>4. Travel(a) >= Travel(b) /\ Travel(a) \in Int /\ Travel(b) \in Int
  OBVIOUS
<1>5. Load(a) >= Load(b) /\ Load(a) \in Int /\ Load(b) \in Int
  BY <1>1, <1>2
<1>6. Room(a) >= Room(b) /\ Room(a) \in Int /\ Room(b) \in Int
  OBVIOUS
<1>7. /\ Tenths(a, r, rows, weights) = 200 + Skill(a) + Travel(a) + Load(a) + Room(a)
      /\ Tenths(b, r, rows, weights) = 200 + Skill(b) + Travel(b) + Load(b) + Room(b)
  BY DEF Tenths
<1> HIDE DEF Skill, Travel, Load, Room
<1> DEFINE m == Tenths(a, r, rows, weights)
           n == Tenths(b, r, rows, weights)
<1>8. m \in Int /\ n \in Int /\ m >= n
  BY <1>3, <1>4, <1>5, <1>6, <1>7
<1> HIDE DEF m, n
<1>9. \A x, y \in Int : x >= y => x \div 10 >= y \div 10
  OBVIOUS
<1>10. /\ Least(1000, Most(100, m)) \in Int /\ Least(1000, Most(100, n)) \in Int
       /\ Least(1000, Most(100, m)) >= Least(1000, Most(100, n))
  BY <1>8 DEF Least, Most
<1> QED
  BY <1>9, <1>10 DEF Score, m, n

(* Under every policy, a technician who is no worse in skill, area, number  *)
(* of jobs and capacity than another is not ranked below the other.         *)
LEMMA NoWorseIsNotBelow ==
  ASSUME TypeOK
  PROVE  RankingIsMonotone
<1> SUFFICES ASSUME NEW o \in Orders, NEW weights \in Policies,
                    NEW t \in Technicians, NEW u \in Technicians,
                    Requests[o].service \in roster[u].skills =>
                      Requests[o].service \in roster[t].skills,
                    roster[u].area = Requests[o].area => roster[t].area = Requests[o].area,
                    Jobs(t, Rows(Orders)) <= Jobs(u, Rows(Orders)),
                    Jobs(u, Rows(Orders)) < DailyLimit(roster[u].max_jobs) =>
                      Jobs(t, Rows(Orders)) < DailyLimit(roster[t].max_jobs)
             PROVE  Score(WithId(roster, t), Requests[o], Rows(Orders), weights)
                      >= Score(WithId(roster, u), Requests[o], Rows(Orders), weights)
  BY DEF RankingIsMonotone
<1>1. \A x \in Technicians :
        /\ WithId(roster, x).id = x /\ WithId(roster, x).area = roster[x].area
        /\ WithId(roster, x).skills = roster[x].skills
        /\ WithId(roster, x).max_jobs = roster[x].max_jobs
  BY DEF WithId
<1>2. \A x \in Technicians : roster[x].max_jobs \in Nat
  BY StaffFacts DEF TypeOK
<1>3. {weights.workload, weights.capacity, weights.sla, weights.travel, weights.overtime}
        \subseteq Nat
  BY DispatchAssumption
<1>4. Jobs(t, Rows(Orders)) \in Nat /\ Jobs(u, Rows(Orders)) \in Nat
  BY JobsAreCounted
<1> QED
  BY <1>1, <1>2, <1>3, <1>4, ScoreIsMonotone

------------------------------------------------------------------------------
(* The invariant                                                            *)

(* A technician is engaged for an order from the match to the visit.        *)
Engaged(o, t) ==
  \/ t \in matched[o]
  \/ \E p \in plans : p.order = o /\ p.technician = t
  \/ IsFuture(o, t)

Idle ==
  \A o \in Orders, t \in Technicians :
    roster[t].status # "active" /\ Engaged(o, t) => <<o, t>> \in excused

(* A deactivation is of a technician who exists, and has counted no visit.  *)
Counted == \A c \in closing : c.known = {} /\ roster[c.technician] # Absent

(* A substitute is chosen for a visit.                                      *)
Substitutes == \A p \in plans : p.by = "reassign" => visits[p.order] # NoVisit

IInv == TypeOK /\ Idle /\ Counted /\ Substitutes

LEMMA InitHolds ==
  ASSUME Init
  PROVE  IInv
<1>1. TypeOK
  <2>1. \A h \in Hours : h \in Nat
    BY DispatchAssumption
  <2>2. 0 \in 0 .. MaxUpdates /\ 0 \in 0 .. MaxChoices
    BY DispatchAssumption
  <2> QED
    BY <2>1, <2>2 DEF Init, TypeOK, Staff, Visits
<1>2. Idle
  BY DEF Init, Idle, Engaged, IsFuture, NoVisit
<1> QED
  BY <1>1, <1>2 DEF IInv, Init, Counted, Substitutes

(* A step that keeps the roster, and engages nobody who is not active but   *)
(* with an excuse.                                                          *)
LEMMA RosterStays ==
  ASSUME IInv, UNCHANGED roster, excused \subseteq excused',
         \A o \in Orders, t \in Technicians :
           Engaged(o, t)' =>
             Engaged(o, t) \/ roster[t].status = "active" \/ <<o, t>> \in excused'
  PROVE  Idle'
  BY DEF IInv, Idle

------------------------------------------------------------------------------
(* The administrator                                                        *)

LEMMA RosterFacts ==
  ASSUME TypeOK, NEW t \in Technicians
  PROVE  /\ roster[t] \in Staff /\ roster[t].status \in {"absent", "active", "inactive"}
         /\ roster[t].status = "absent" <=> roster[t] = Absent
         /\ DOMAIN roster = Technicians
  BY StaffFacts DEF TypeOK

LEMMA CountUpdate ==
  ASSUME TypeOK, updates < MaxUpdates, updates' = updates + 1
  PROVE  updates' \in 0 .. MaxUpdates
  BY DispatchAssumption DEF TypeOK

(* Nothing but one technician's row changes, and an active one stays.       *)
LEMMA RowChanges ==
  ASSUME IInv, NEW t \in Technicians, NEW s \in Staff \ {Absent},
         roster' = [roster EXCEPT ![t] = s],
         s.status = "active" \/ s.status = roster[t].status \/ roster[t] = Absent,
         UNCHANGED <<closing, matched, plans, visits, now>>,
         \A o \in Orders, u \in Technicians \ {t} :
           <<o, u>> \in excused => <<o, u>> \in excused',
         excused' = excused \/ s.status = "active"
  PROVE  /\ roster' \in [Technicians -> Staff]
         /\ Idle' /\ Counted' /\ Substitutes'
<1>1. /\ roster' \in [Technicians -> Staff] /\ roster'[t] = s
      /\ \A u \in Technicians \ {t} : roster'[u] = roster[u]
  BY DEF IInv, TypeOK
<1>2. roster[t].status # "active" \/ s.status = "active"
  BY RosterFacts DEF IInv, Absent
<1>3. Idle'
  <2> SUFFICES ASSUME NEW o \in Orders, NEW u \in Technicians,
                      roster'[u].status # "active", Engaged(o, u)'
               PROVE  <<o, u>> \in excused'
    BY DEF Idle
  <2>1. Engaged(o, u)
    BY DEF Engaged, IsFuture
  <2>2. roster[u].status # "active"
    BY <1>1, <1>2
  <2>3. <<o, u>> \in excused
    BY <2>1, <2>2 DEF IInv, Idle
  <2> QED
    BY <1>1, <2>3
<1>4. Counted'
  <2>1. \A c \in closing : c.technician \in Technicians
    BY DEF IInv, TypeOK
  <2> QED
    BY <1>1, <2>1 DEF IInv, Counted
<1>5. Substitutes'
  BY DEF IInv, Substitutes
<1> QED
  BY <1>1, <1>3, <1>4, <1>5

LEMMA CreateKeeps ==
  ASSUME IInv, NEW t \in Technicians, create_technician_admin(t)
  PROVE  IInv'
<1>1. PICK p \in Profiles, status \in {"active", "inactive"} :
        roster' = [roster EXCEPT ![t] = WithStatus(p, status)]
  BY DEF create_technician_admin
<1>2. WithStatus(p, status) \in Staff \ {Absent}
  BY DEF Staff, WithStatus, Absent
<1>3. roster' \in [Technicians -> Staff] /\ Idle' /\ Counted' /\ Substitutes'
  BY <1>1, <1>2, RowChanges DEF create_technician_admin
<1>4. updates' \in 0 .. MaxUpdates
  BY CountUpdate DEF IInv, create_technician_admin
<1>5. TypeOK'
  BY <1>3, <1>4 DEF IInv, TypeOK, create_technician_admin
<1> QED
  BY <1>3, <1>5 DEF IInv

LEMMA UpdateKeeps ==
  ASSUME IInv, NEW t \in Technicians, update_technician_admin(t)
  PROVE  IInv'
<1>1. PICK p \in Profiles : roster' = [roster EXCEPT ![t] = WithStatus(p, roster[t].status)]
  BY DEF update_technician_admin
<1> DEFINE s == WithStatus(p, roster[t].status)
<1>2. s \in Staff \ {Absent}
  BY RosterFacts, StaffFacts DEF update_technician_admin, IInv
<1>3. s.status = roster[t].status
  BY DEF WithStatus
<1> HIDE DEF s
<1>4. roster' \in [Technicians -> Staff] /\ Idle' /\ Counted' /\ Substitutes'
  <2>1. roster' = [roster EXCEPT ![t] = s]
    BY <1>1 DEF s
  <2> QED
    BY <1>2, <1>3, <2>1, RowChanges DEF update_technician_admin
<1>5. updates' \in 0 .. MaxUpdates
  BY CountUpdate DEF IInv, update_technician_admin
<1>6. TypeOK'
  BY <1>4, <1>5 DEF IInv, TypeOK, update_technician_admin
<1> QED
  BY <1>4, <1>6 DEF IInv

LEMMA ActivateKeeps ==
  ASSUME IInv, NEW t \in Technicians, activate_technician_admin(t)
  PROVE  IInv'
<1> DEFINE s == [roster[t] EXCEPT !.status = "active"]
<1>1. s \in Staff \ {Absent}
  BY RosterFacts, StaffFacts DEF activate_technician_admin, IInv
<1>2. s.status = "active"
  BY <1>1, RosterFacts DEF IInv, activate_technician_admin, Staff, WithStatus, Absent
<1>3. roster' = [roster EXCEPT ![t] = s]
  BY DEF activate_technician_admin
<1> HIDE DEF s
<1>4. /\ \A o \in Orders, u \in Technicians \ {t} :
           <<o, u>> \in excused => <<o, u>> \in excused'
      /\ UNCHANGED <<closing, matched, plans, visits, now, updates, choices>>
      /\ excused' \subseteq excused
  BY DEF activate_technician_admin
<1>5. roster' \in [Technicians -> Staff] /\ Idle' /\ Counted' /\ Substitutes'
  BY <1>1, <1>2, <1>3, <1>4, RowChanges
<1>6. TypeOK'
  BY <1>4, <1>5 DEF IInv, TypeOK
<1> QED
  BY <1>5, <1>6 DEF IInv

LEMMA CountKeeps ==
  ASSUME IInv, NEW t \in Technicians, CountFuture(t)
  PROVE  IInv'
<1>1. /\ closing' = closing \cup {[technician |-> t, known |-> {}]}
      /\ roster[t] # Absent
  <2>1. {o \in Orders : IsFuture(o, t)} = {}
    BY DEF CountFuture
  <2> QED
    BY <2>1 DEF CountFuture, Absent
<1>2. UNCHANGED <<roster, matched, plans, visits, now, updates, choices, excused>>
  BY DEF CountFuture
<1>3. TypeOK'
  <2>1. [technician |-> t, known |-> {}] \in [technician : Technicians, known : SUBSET Orders]
    OBVIOUS
  <2> QED
    BY <1>1, <1>2, <2>1 DEF IInv, TypeOK
<1>4. Idle'
  BY <1>2 DEF IInv, Idle, Engaged, IsFuture
<1>5. Counted'
  BY <1>1, <1>2 DEF IInv, Counted
<1>6. Substitutes'
  BY <1>2 DEF IInv, Substitutes
<1> QED
  BY <1>3, <1>4, <1>5, <1>6 DEF IInv

(* All that was under way is excused, since no visit was known.             *)
LEMMA DeactivateKeeps ==
  ASSUME IInv, NEW c \in closing, deactivate_technician_admin(c)
  PROVE  IInv'
<1> DEFINE t == c.technician
           s == [roster[t] EXCEPT !.status = "inactive"]
<1>1. t \in Technicians /\ c.known = {} /\ roster[t] # Absent
  BY DEF IInv, TypeOK, Counted
<1>2. s \in Staff \ {Absent}
  BY <1>1, RosterFacts, StaffFacts DEF IInv
<1>3. /\ roster' = [roster EXCEPT ![t] = s] /\ closing' = closing \ {c}
      /\ excused' = excused \cup {<<o, t>> : o \in UnderWay(t, {})}
      /\ UNCHANGED <<matched, plans, visits, now, updates, choices>>
  BY <1>1 DEF deactivate_technician_admin
<1> HIDE DEF s, t
<1>4. /\ roster' \in [Technicians -> Staff] /\ roster'[t] = s
      /\ \A u \in Technicians \ {t} : roster'[u] = roster[u]
  BY <1>1, <1>2, <1>3 DEF IInv, TypeOK
<1>5. UnderWay(t, {}) = {o \in Orders : Engaged(o, t)}
  BY DEF UnderWay, Engaged
<1>6. Idle'
  <2> SUFFICES ASSUME NEW o \in Orders, NEW u \in Technicians,
                      roster'[u].status # "active", Engaged(o, u)'
               PROVE  <<o, u>> \in excused'
    BY DEF Idle
  <2>1. Engaged(o, u)
    BY <1>3 DEF Engaged, IsFuture
  <2>2. CASE u = t
    BY <1>3, <1>5, <2>1, <2>2
  <2>3. CASE u # t
    BY <1>3, <1>4, <2>1, <2>3 DEF IInv, Idle
  <2> QED
    BY <2>2, <2>3
<1>7. TypeOK'
  <2>1. excused' \subseteq Orders \X Technicians
    BY <1>1, <1>3, <1>5 DEF IInv, TypeOK
  <2> QED
    BY <1>3, <1>4, <2>1 DEF IInv, TypeOK
<1>8. Counted'
  <2>1. \A d \in closing : d.technician \in Technicians
    BY DEF IInv, TypeOK
  <2> QED
    BY <1>2, <1>3, <1>4, <2>1 DEF IInv, Counted
<1>9. Substitutes'
  BY <1>3 DEF IInv, Substitutes
<1> QED
  BY <1>6, <1>7, <1>8, <1>9 DEF IInv

------------------------------------------------------------------------------
(* From the match to the visit                                              *)

LEMMA CountChoice ==
  ASSUME TypeOK, ChoiceMade
  PROVE  choices' \in 0 .. MaxChoices
  BY DispatchAssumption DEF TypeOK, ChoiceMade

(* Nobody is engaged in place of another, or anew.                          *)
LEMMA NobodyEngaged ==
  ASSUME IInv, UNCHANGED <<roster, closing, updates, excused>>,
         TypeOK', Substitutes',
         \A o \in Orders, t \in Technicians :
           Engaged(o, t)' => Engaged(o, t) \/ roster[t].status = "active"
  PROVE  IInv'
<1>1. Idle'
  BY RosterStays
<1>2. Counted'
  BY DEF IInv, Counted
<1> QED
  BY <1>1, <1>2 DEF IInv

LEMMA MatchKeeps ==
  ASSUME IInv, NEW o \in Orders, Match(o)
  PROVE  IInv'
<1>1. PICK m \in SUBSET Technicians :
        matched' = [matched EXCEPT ![o] = m] /\ \A t \in m : roster[t].status = "active"
  BY MatchedAreActive DEF Match, IInv
<1>2. UNCHANGED <<roster, closing, plans, visits, now, updates, choices, excused>>
  BY DEF Match
<1>3. TypeOK' /\ Substitutes'
  BY <1>1, <1>2 DEF IInv, TypeOK, Substitutes
<1>4. \A q \in Orders, t \in Technicians :
        Engaged(q, t)' => Engaged(q, t) \/ roster[t].status = "active"
  BY <1>1, <1>2 DEF Engaged, IsFuture, IInv, TypeOK
<1> QED
  BY <1>2, <1>3, <1>4, NobodyEngaged

(* A plan is made for someone active, or already matched.                   *)
LEMMA PlanKeeps ==
  ASSUME IInv, NEW o \in Orders, NEW by \in {"finalize", "approve", "reassign"},
         NEW t \in Technicians, NEW start \in Nat,
         plans' = plans \cup {Plan(o, by, t, start)}, ChoiceMade,
         matched' = matched \/ matched' = [matched EXCEPT ![o] = {}],
         UNCHANGED <<roster, closing, visits, now, updates, excused>>,
         roster[t].status = "active" \/ t \in matched[o],
         by = "reassign" => visits[o] # NoVisit
  PROVE  IInv'
<1> DEFINE p == Plan(o, by, t, start)
<1>1. p \in Plans /\ p.order = o /\ p.technician = t /\ p.by = by
  BY DEF Plan, Plans
<1> HIDE DEF p
<1>2. plans' = plans \cup {p}
  BY DEF p
<1>3. /\ matched' \in [Orders -> SUBSET Technicians]
      /\ \A q \in Orders : matched'[q] \subseteq matched[q]
  BY DEF IInv, TypeOK
<1>4. TypeOK'
  BY <1>1, <1>2, <1>3, CountChoice DEF IInv, TypeOK
<1>5. Substitutes'
  BY <1>1, <1>2 DEF IInv, Substitutes
<1>6. \A q \in Orders, u \in Technicians :
        Engaged(q, u)' => Engaged(q, u) \/ roster[u].status = "active"
  BY <1>1, <1>2, <1>3 DEF Engaged, IsFuture
<1> QED
  BY <1>4, <1>5, <1>6, NobodyEngaged

LEMMA ProposeKeeps ==
  ASSUME IInv, NEW o \in Orders, Propose(o)
  PROVE  IInv'
<1>1. PICK s : s = select_proposal(Options(o, matched[o]))
  OBVIOUS
<1>2. s # NoProposal => s.technician \in matched[o] /\ s.start \in Nat
  BY <1>1, ProposalFacts DEF IInv, TypeOK
<1>3. CASE s = NoProposal
  <2>1. /\ UNCHANGED <<plans, roster, closing, visits, now, updates, excused>> /\ ChoiceMade
        /\ matched' = [matched EXCEPT ![o] = {}]
    BY <1>1, <1>3 DEF Propose
  <2>2. matched' \in [Orders -> SUBSET Technicians]
        /\ \A q \in Orders : matched'[q] \subseteq matched[q]
    BY <2>1 DEF IInv, TypeOK
  <2>3. TypeOK' /\ Substitutes'
    BY <2>1, <2>2, CountChoice DEF IInv, TypeOK, Substitutes
  <2>4. \A q \in Orders, t \in Technicians : Engaged(q, t)' => Engaged(q, t)
    BY <2>1, <2>2 DEF Engaged, IsFuture
  <2> QED
    BY <2>1, <2>3, <2>4, NobodyEngaged
<1>4. CASE s # NoProposal
  <2>1. /\ plans' = plans \cup {Plan(o, "finalize", s.technician, s.start)} /\ ChoiceMade
        /\ UNCHANGED <<roster, closing, visits, now, updates, excused>>
        /\ matched' = [matched EXCEPT ![o] = {}]
    BY <1>1, <1>4 DEF Propose
  <2>2. s.technician \in Technicians
    BY <1>2, <1>4 DEF IInv, TypeOK
  <2> QED
    BY <1>2, <1>4, <2>1, <2>2, PlanKeeps
<1> QED
  BY <1>3, <1>4

LEMMA TopRankedKeeps ==
  ASSUME IInv, NEW o \in Orders, ChooseTopRanked(o)
  PROVE  IInv'
<1>1. PICK weights \in Policies :
        \E t \in TopRanked(roster, Requests[o], Rows(Orders), weights) :
          /\ plans' = plans \cup {Plan(o, "approve", t, now + 2)} /\ ChoiceMade
          /\ UNCHANGED <<roster, closing, matched, visits, now, updates, excused>>
  BY DEF ChooseTopRanked
<1>2. PICK t \in TopRanked(roster, Requests[o], Rows(Orders), weights) :
        /\ plans' = plans \cup {Plan(o, "approve", t, now + 2)} /\ ChoiceMade
        /\ UNCHANGED <<roster, closing, matched, visits, now, updates, excused>>
  BY <1>1
<1>3. t \in Technicians /\ roster[t].status = "active" /\ now + 2 \in Nat
  BY <1>2 DEF TopRanked, IInv, TypeOK
<1> QED
  BY <1>2, <1>3, PlanKeeps

LEMMA SubstituteKeeps ==
  ASSUME IInv, NEW o \in Orders, ChooseSubstitute(o)
  PROVE  IInv'
<1>1. PICK t \in Technicians :
        /\ roster[t].status = "active"
        /\ plans' = plans \cup {Plan(o, "reassign", t, visits[o].start)} /\ ChoiceMade
        /\ UNCHANGED <<roster, closing, matched, visits, now, updates, excused>>
  BY DEF ChooseSubstitute
<1>2. visits[o] # NoVisit /\ visits[o].start \in Nat
  BY VisitFacts DEF ChooseSubstitute, NoVisit, IInv, TypeOK
<1> QED
  BY <1>1, <1>2, PlanKeeps

(* A plan is dropped, or it becomes the visit of its order.                 *)
LEMMA PlanEnds ==
  ASSUME IInv, NEW p \in plans, plans' = plans \ {p}, NEW v \in Visits \ {NoVisit},
         visits' = visits \/ visits' = [visits EXCEPT ![p.order] = v],
         v.technician = p.technician,
         UNCHANGED <<roster, closing, matched, now, updates, choices, excused>>
  PROVE  IInv'
<1>1. p.order \in Orders /\ p.technician \in Technicians
  BY DEF IInv, TypeOK, Plans
<1>2. /\ visits' \in [Orders -> Visits]
      /\ \A q \in Orders : visits'[q] = visits[q] \/ (q = p.order /\ visits'[q] = v)
  BY <1>1 DEF IInv, TypeOK
<1>3. TypeOK' /\ Substitutes'
  BY <1>2 DEF IInv, TypeOK, Substitutes, Plans
<1>4. \A q \in Orders, t \in Technicians : Engaged(q, t)' => Engaged(q, t)
  BY <1>2 DEF Engaged, IsFuture
<1> QED
  BY <1>3, <1>4, NobodyEngaged

LEMMA CarryKeeps ==
  ASSUME IInv, NEW p \in plans, Carry(p)
  PROVE  IInv'
<1>1. /\ p.order \in Orders /\ p.technician \in Technicians /\ p.start \in Nat
      /\ visits[p.order] \in Visits
  BY DEF IInv, TypeOK, Plans
<1> DEFINE v == [technician |-> p.technician, start |-> p.start, status |-> "scheduled"]
<1>2. v \in Visits \ {NoVisit} /\ v.technician = p.technician
  BY <1>1 DEF Visits, NoVisit
<1>3. CASE Drop(p)
  BY <1>2, <1>3, PlanEnds DEF Drop
<1>4. CASE finalize_appointment(p) \/ ApproveDirectly(p)
  BY <1>2, <1>4, PlanEnds DEF finalize_appointment, ApproveDirectly, SetVisit
<1>5. CASE reassign_technician(p)
  <2> DEFINE w == [visits[p.order] EXCEPT !.technician = p.technician]
  <2>1. visits[p.order] # NoVisit
    BY <1>5 DEF reassign_technician, IInv, Substitutes
  <2>2. w \in Visits \ {NoVisit} /\ w.technician = p.technician
    <3>1. w.technician = p.technician /\ w.start = visits[p.order].start
          /\ w.status = visits[p.order].status
          /\ w = [technician |-> p.technician, start |-> visits[p.order].start,
                  status |-> visits[p.order].status]
      BY <1>1, <2>1 DEF Visits
    <3>2. visits[p.order].status \in {"scheduled", "in_progress", "ended"}
          /\ visits[p.order].start \in Nat
      BY <1>1, <2>1 DEF Visits
    <3> HIDE DEF w
    <3> QED
      BY <1>1, <3>1, <3>2 DEF Visits, NoVisit
  <2>3. visits' = visits \/ visits' = [visits EXCEPT ![p.order] = w]
    BY <1>5 DEF reassign_technician
  <2> HIDE DEF w
  <2> QED
    BY <1>5, <2>2, <2>3, PlanEnds DEF reassign_technician
<1> QED
  BY <1>3, <1>4, <1>5 DEF Carry

LEMMA RescheduleKeeps ==
  ASSUME IInv, NEW o \in Orders, approve_reschedule(o)
  PROVE  IInv'
<1>1. PICK t \in Technicians, start \in Hours :
        /\ ChoiceMade /\ SetVisit(o, t, start) /\ excused' = excused \cup {<<o, t>>}
        /\ UNCHANGED <<roster, closing, matched, plans, now, updates>>
  BY DEF approve_reschedule
<1> DEFINE v == [technician |-> t, start |-> start, status |-> "scheduled"]
<1>2. v \in Visits \ {NoVisit} /\ v.technician = t
  BY DispatchAssumption DEF Visits, NoVisit
<1>3. visits' = [visits EXCEPT ![o] = v]
  BY <1>1 DEF SetVisit
<1> HIDE DEF v
<1>4. /\ visits' \in [Orders -> Visits] /\ visits'[o] = v
      /\ \A q \in Orders \ {o} : visits'[q] = visits[q]
  BY <1>2, <1>3 DEF IInv, TypeOK
<1>5. TypeOK'
  BY <1>1, <1>4, CountChoice DEF IInv, TypeOK
<1>6. Substitutes'
  BY <1>1, <1>2, <1>4 DEF IInv, TypeOK, Substitutes, Plans
<1>7. \A q \in Orders, u \in Technicians :
        Engaged(q, u)' => Engaged(q, u) \/ <<q, u>> \in excused'
  BY <1>1, <1>2, <1>4 DEF Engaged, IsFuture
<1>8. Idle'
  BY <1>1, <1>7, RosterStays
<1> QED
  BY <1>1, <1>5, <1>6, <1>8 DEF IInv, Counted

LEMMA EndKeeps ==
  ASSUME IInv, NEW o \in Orders, EndVisit(o)
  PROVE  IInv'
<1>1. PICK s \in {"in_progress", "ended"} : visits' = [visits EXCEPT ![o].status = s]
  BY DEF EndVisit
<1>2. UNCHANGED <<roster, closing, matched, plans, now, updates, choices, excused>>
  BY DEF EndVisit
<1> DEFINE v == [visits[o] EXCEPT !.status = s]
<1>3. v \in Visits \ {NoVisit} /\ v.status = s
  <2>1. visits[o] \in Visits \ {NoVisit}
    BY DEF EndVisit, Blocking, NoVisit, IInv, TypeOK
  <2> QED
    BY <2>1 DEF Visits, NoVisit
<1>4. visits' = [visits EXCEPT ![o] = v]
  BY <1>1
<1> HIDE DEF v
<1>5. /\ visits' \in [Orders -> Visits] /\ visits'[o] = v
      /\ \A q \in Orders \ {o} : visits'[q] = visits[q]
  BY <1>3, <1>4 DEF IInv, TypeOK
<1>6. TypeOK' /\ Substitutes'
  BY <1>2, <1>3, <1>5 DEF IInv, TypeOK, Substitutes, Plans
<1>7. \A q \in Orders, t \in Technicians : Engaged(q, t)' => Engaged(q, t)
  BY <1>2, <1>3, <1>5 DEF Engaged, IsFuture
<1> QED
  BY <1>2, <1>6, <1>7, NobodyEngaged

LEMMA TickKeeps ==
  ASSUME IInv, Tick
  PROVE  IInv'
<1>1. /\ now' \in Nat /\ now' > now
      /\ UNCHANGED <<roster, closing, matched, plans, visits, updates, choices, excused>>
  BY DispatchAssumption DEF Tick
<1>2. TypeOK' /\ Substitutes'
  BY <1>1 DEF IInv, TypeOK, Substitutes
<1>3. \A q \in Orders, t \in Technicians : Engaged(q, t)' => Engaged(q, t)
  <2>1. now \in Nat /\ \A q \in Orders : visits[q].start \in Nat
    BY VisitFacts DEF IInv, TypeOK
  <2>2. \A q \in Orders : visits[q].start >= now' => visits[q].start >= now
    BY <1>1, <2>1
  <2> QED
    BY <1>1, <2>2 DEF Engaged, IsFuture
<1> QED
  BY <1>1, <1>2, <1>3, NobodyEngaged

------------------------------------------------------------------------------
LEMMA NextKeeps ==
  ASSUME IInv, [Next]_vars
  PROVE  IInv'
<1>1. CASE UNCHANGED vars
  <2>1. /\ UNCHANGED <<roster, closing, matched, plans, visits, now, updates>>
        /\ UNCHANGED <<choices, excused>>
    BY <1>1 DEF vars
  <2>2. TypeOK' /\ Substitutes' /\ Counted'
    BY <2>1 DEF IInv, TypeOK, Substitutes, Counted
  <2>3. Idle'
    BY <2>1 DEF IInv, Idle, Engaged, IsFuture
  <2> QED
    BY <2>2, <2>3 DEF IInv
<1> QED
  BY <1>1, CreateKeeps, UpdateKeeps, ActivateKeeps, CountKeeps, DeactivateKeeps, MatchKeeps,
     ProposeKeeps, TopRankedKeeps, SubstituteKeeps, CarryKeeps, RescheduleKeeps, EndKeeps,
     TickKeeps
  DEF Next, Administer, Choose

LEMMA Invariant == Spec => []IInv
<1>1. Init => IInv
  BY InitHolds
<1>2. IInv /\ [Next]_vars => IInv'
  BY NextKeeps
<1> QED
  BY <1>1, <1>2, PTL DEF Spec

(* Every variable keeps its type: what the algorithms choose is a           *)
(* technician and an hour.                                                  *)
THEOREM TypeCorrect == Spec => []TypeOK
<1>1. IInv => TypeOK
  BY DEF IInv
<1> QED
  BY <1>1, Invariant, PTL

(* A technician who was deactivated has no visit to come but those that     *)
(* were under way meanwhile, or that an operator put there by hand.         *)
THEOREM DeactivatedIsIdle == Spec => []InactiveIsIdle
<1>1. IInv => InactiveIsIdle
  BY DEF IInv, Idle, Engaged, InactiveIsIdle
<1> QED
  BY <1>1, Invariant, PTL

(* In every state that is reached, the algorithm proposes the first free    *)
(* visit of those who can do it, if there is one.                           *)
THEOREM BestProposed == Spec => []ProposalIsBest
<1>1. TypeOK => ProposalIsBest
  BY BestIsProposed
<1> QED
  BY <1>1, TypeCorrect, PTL

(* In every state that is reached, the ranking never puts one who is no     *)
(* worse below another.                                                     *)
THEOREM RankedMonotonely == Spec => []RankingIsMonotone
<1>1. TypeOK => RankingIsMonotone
  BY NoWorseIsNotBelow
<1> QED
  BY <1>1, TypeCorrect, PTL

------------------------------------------------------------------------------
(* Plans made from a stale roster or calendar                               *)

Apart ==
  \A o, p \in Orders :
    /\ o # p
    /\ Blocking(visits[o].status) /\ Blocking(visits[p].status)
    /\ visits[o].technician = visits[p].technician
    => ~ /\ visits[o].start < visits[p].start + Duration
         /\ visits[o].start + Duration > visits[p].start

(* One visit is written, where it clashes with no other if it blocks.       *)
LEMMA WrittenApart ==
  ASSUME TypeOK, Apart, NEW o \in Orders, NEW v \in Visits,
         visits' = [visits EXCEPT ![o] = v],
         Blocking(v.status) => ~ Clash(Orders \ {o}, v.technician, v.start)
  PROVE  Apart'
<1>1. visits'[o] = v /\ \A q \in Orders \ {o} : visits'[q] = visits[q]
  BY DEF TypeOK
<1>2. \A q \in Orders : visits[q].start \in Nat
  BY VisitFacts DEF TypeOK
<1>3. v.start \in Nat /\ Duration \in Nat
  BY VisitFacts, SchedulingAssumption
<1>4. ASSUME NEW q \in Orders \ {o}, Blocking(v.status), Blocking(visits[q].status),
             visits[q].technician = v.technician
      PROVE  ~ /\ visits[q].start < v.start + Duration
               /\ visits[q].start + Duration > v.start
  BY <1>4, ClashIsOverlap
<1>5. ASSUME NEW p \in Orders, NEW q \in Orders, p # q,
             Blocking(visits'[p].status), Blocking(visits'[q].status),
             visits'[p].technician = visits'[q].technician
      PROVE  ~ /\ visits'[p].start < visits'[q].start + Duration
               /\ visits'[p].start + Duration > visits'[q].start
  <2>1. CASE p = o
    BY <1>1, <1>2, <1>3, <1>4, <1>5, <2>1
  <2>2. CASE q = o
    BY <1>1, <1>2, <1>3, <1>4, <1>5, <2>2
  <2>3. CASE p # o /\ q # o
    BY <1>1, <1>5, <2>3 DEF Apart
  <2> QED
    BY <2>1, <2>2, <2>3
<1>6. \A q \in Orders : Blocking(visits[q].status)' <=> Blocking(visits'[q].status)
  BY DEF Blocking
<1> QED
  BY <1>5, <1>6 DEF Apart

LEMMA CarryApart ==
  ASSUME TypeOK, Apart, NEW p \in plans, Carry(p)
  PROVE  Apart'
<1>1. p \in Plans /\ p.order \in Orders
  BY DEF TypeOK, Plans
<1> DEFINE o == p.order
           v == [technician |-> p.technician, start |-> p.start, status |-> "scheduled"]
           w == [visits[o] EXCEPT !.technician = p.technician]
<1>2. v \in Visits /\ v.technician = p.technician /\ v.start = p.start
  BY <1>1 DEF Plans, Visits
<1>3. CASE UNCHANGED visits
  BY <1>3 DEF Apart, Blocking
<1>4. CASE visits' = [visits EXCEPT ![o] = v] /\ ~ Clash(Orders \ {o}, p.technician, p.start)
  <2> HIDE DEF v
  <2> QED
    BY <1>1, <1>2, <1>4, WrittenApart
<1>5. CASE /\ reassign_technician(p)
           /\ Blocking(visits[o].status) => ~ Clash(Orders \ {o}, p.technician, visits[o].start)
           /\ visits' = [visits EXCEPT ![o].technician = p.technician]
  <2>1. visits[o] \in Visits
    BY <1>1 DEF TypeOK
  <2>2. CASE visits[o] = NoVisit
    <3>1. \A q \in Orders : visits'[q].status = visits[q].status
      BY <1>1, <1>5, <2>1 DEF TypeOK
    <3>2. \A q \in Orders : Blocking(visits[q].status) => q # o
      BY <2>2 DEF Blocking, NoVisit
    <3>3. \A q \in Orders \ {o} : visits'[q] = visits[q]
      BY <1>5 DEF TypeOK
    <3> QED
      BY <3>1, <3>2, <3>3 DEF Apart, Blocking
  <2>3. CASE visits[o] # NoVisit
    <3>1. /\ w.technician = p.technician /\ w.start = visits[o].start
          /\ w.status = visits[o].status
          /\ w = [technician |-> p.technician, start |-> visits[o].start,
                  status |-> visits[o].status]
      BY <2>1, <2>3 DEF Visits
    <3>2. w \in Visits
      BY <1>1, <2>1, <2>3, <3>1, VisitFacts DEF Visits, Plans
    <3>3. visits' = [visits EXCEPT ![o] = w]
      BY <1>5
    <3> HIDE DEF w, o
    <3> QED
      BY <1>1, <1>5, <3>1, <3>2, <3>3, WrittenApart DEF o
  <2> QED
    BY <2>2, <2>3
<1>6. ~ Clash(Orders, p.technician, p.start) => ~ Clash(Orders \ {o}, p.technician, p.start)
  BY ClashIsOverlap
<1> QED
  BY <1>3, <1>4, <1>5, <1>6
  DEF Carry, Drop, finalize_appointment, ApproveDirectly, reassign_technician, SetVisit

LEMMA StepApart ==
  ASSUME TypeOK, Apart, [Next]_vars
  PROVE  Apart'
<1>1. ASSUME UNCHANGED visits PROVE Apart'
  BY <1>1 DEF Apart, Blocking
<1>2. ASSUME NEW o \in Orders, approve_reschedule(o) PROVE Apart'
  <2>1. PICK t \in Technicians, start \in Hours :
          ~ Clash(Orders, t, start) /\ SetVisit(o, t, start)
    BY <1>2 DEF approve_reschedule
  <2> DEFINE v == [technician |-> t, start |-> start, status |-> "scheduled"]
  <2>2. v \in Visits /\ v.technician = t /\ v.start = start
    BY DispatchAssumption DEF Visits
  <2>3. ~ Clash(Orders \ {o}, t, start)
    BY <2>1, ClashIsOverlap
  <2>4. visits' = [visits EXCEPT ![o] = v]
    BY <2>1 DEF SetVisit
  <2> HIDE DEF v
  <2> QED
    BY <2>2, <2>3, <2>4, WrittenApart
<1>3. ASSUME NEW o \in Orders, EndVisit(o) PROVE Apart'
  <2>1. PICK s \in {"in_progress", "ended"} : visits' = [visits EXCEPT ![o].status = s]
    BY <1>3 DEF EndVisit
  <2> DEFINE v == [visits[o] EXCEPT !.status = s]
  <2>2. visits[o] \in Visits \ {NoVisit} /\ Blocking(visits[o].status)
    BY <1>3 DEF EndVisit, Blocking, NoVisit, TypeOK
  <2>3. v \in Visits /\ v.technician = visits[o].technician /\ v.start = visits[o].start
    BY <2>2 DEF Visits
  <2>4. visits' = [visits EXCEPT ![o] = v]
    BY <2>1
  <2> HIDE DEF v
  <2>5. ASSUME Clash(Orders \ {o}, v.technician, v.start) PROVE FALSE
    <3>1. PICK q \in Orders \ {o} :
            /\ visits[q].technician = v.technician /\ Blocking(visits[q].status)
            /\ visits[q].start < v.start + Duration /\ visits[q].start + Duration > v.start
      BY <2>5, ClashIsOverlap
    <3> QED
      BY <2>2, <2>3, <3>1 DEF Apart
  <2> QED
    BY <2>3, <2>4, <2>5, WrittenApart
<1> QED
  BY <1>1, <1>2, <1>3, CarryApart
  DEF Next, vars, Administer, Choose, Tick, create_technician_admin, update_technician_admin,
    activate_technician_admin, CountFuture, deactivate_technician_admin, Match, Propose,
    ChooseTopRanked, ChooseSubstitute

(* However old the roster and the calendars were from which a technician    *)
(* was chosen, and whoever chose, no technician has two visits in one hour. *)
THEOREM NeverDoubleBooked ==
  Spec => [](\A o, p \in Orders :
               /\ o # p
               /\ Blocking(visits[o].status) /\ Blocking(visits[p].status)
               /\ visits[o].technician = visits[p].technician
               => (visits[o].start .. visits[o].start + Duration - 1)
                    \cap (visits[p].start .. visits[p].start + Duration - 1) = {})
<1> DEFINE NoDoubleBooking ==
      \A o, p \in Orders :
        /\ o # p
        /\ Blocking(visits[o].status) /\ Blocking(visits[p].status)
        /\ visits[o].technician = visits[p].technician
        => (visits[o].start .. visits[o].start + Duration - 1)
             \cap (visits[p].start .. visits[p].start + Duration - 1) = {}
<1>1. Init => Apart
  BY DEF Init, Apart, NoVisit, Blocking
<1>2. TypeOK /\ Apart /\ [Next]_vars => Apart'
  BY StepApart
<1>3. TypeOK /\ Apart => NoDoubleBooking
  <2> SUFFICES ASSUME TypeOK, Apart, NEW o \in Orders, NEW p \in Orders, o # p,
                      Blocking(visits[o].status), Blocking(visits[p].status),
                      visits[o].technician = visits[p].technician,
                      NEW h \in visits[o].start .. visits[o].start + Duration - 1,
                      h \in visits[p].start .. visits[p].start + Duration - 1
               PROVE  FALSE
    OBVIOUS
  <2>1. visits[o].start \in Nat /\ visits[p].start \in Nat /\ Duration \in Nat
    BY VisitFacts, SchedulingAssumption DEF TypeOK
  <2>2. visits[o].start < visits[p].start + Duration
        /\ visits[o].start + Duration > visits[p].start
    BY <2>1
  <2> QED
    BY <2>2 DEF Apart
<1> QED
  BY <1>1, <1>2, <1>3, TypeCorrect, PTL DEF Spec

==============================================================================
