---------------------------- MODULE MCCalendarSync ----------------------------
(* Values of the constants of CalendarSync for TLC.                         *)
EXTENDS CalendarSync, TLC

Symmetry == Permutations(Publishers) \cup Permutations(Workers)

==============================================================================
