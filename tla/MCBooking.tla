------------------------------ MODULE MCBooking ------------------------------
(* Values of the constants of Booking for TLC.                              *)
EXTENDS Booking, TLC

OneWindow == {[start |-> 1, end |-> 3]}
TwoWindows == {[start |-> 1, end |-> 3], [start |-> 2, end |-> 4]}

Symmetry ==
  Permutations(Finalizers) \cup Permutations(Approvers)
    \cup Permutations(Requests) \cup Permutations(Technicians)

==============================================================================
