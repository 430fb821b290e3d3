----------------------------- MODULE MCLifecycle -----------------------------
(* Values of the constants of Lifecycle for TLC.                            *)
EXTENDS Lifecycle, TLC

(* One window, or two that overlap without being equal.                     *)
OneWindow == {[start |-> 1, end |-> 3]}
TwoWindows == {[start |-> 1, end |-> 3], [start |-> 2, end |-> 4]}

Symmetry == Permutations(Requests) \cup Permutations(Technicians)

==============================================================================
