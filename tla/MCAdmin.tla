------------------------------- MODULE MCAdmin -------------------------------
(* Admin with calls and users alike.                                        *)
EXTENDS Admin, TLC

Symmetry == Permutations(Calls) \cup Permutations(Users)
=============================================================================
