------------------------------ MODULE MCDispatch ------------------------------
(* Dispatch with two technicians and two orders.                            *)
EXTENDS Dispatch

CONSTANTS o1, o2

TwoTechnicians == {1, 2}
TwoOrders == {o1, o2}

\* Any hour of the morning, and a request without the skills it needs, which
\* only an operator can book.
TwoRequests ==
  [o \in TwoOrders |->
     [area |-> "north", skills |-> IF o = o1 THEN {"hvac"} ELSE {}, service |-> "hvac",
      preferred_time |-> [kind |-> "relative", day |-> 0, part |-> "morning"]]]

\* One who can do the jobs, and one who cannot, is not there and has no limit.
TwoProfiles ==
  {[area |-> "north", skills |-> {"hvac"}, max_jobs |-> 1],
   [area |-> "south", skills |-> {"roof"}, max_jobs |-> 0]}

Weights(w, c, s, t, p) ==
  [workload |-> w, capacity |-> c, sla |-> s, travel |-> t, overtime |-> p]

\* The default weights, and a policy that rewards an empty day most.
TwoPolicies == {Weights(20, 20, 40, 10, 10), Weights(60, 10, 10, 10, 10)}

\* A direct approval at eight means ten o'clock.
SomeHours == {8, 10}
=============================================================================
