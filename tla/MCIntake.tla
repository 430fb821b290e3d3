------------------------------ MODULE MCIntake ------------------------------
(* Intake with small sets of calls.                                         *)
EXTENDS Intake, TLC

CONSTANTS c1, c2, c3, c4, m1, k1, p1, p2

ThreeCalls == {c1, c2, c3}
FourCalls == {c1, c2, c3, c4}
OneMessage == {m1}
NoMessage == {}
OneKey == {k1}
NoKeys == {}
OnePayload == {p1}
TwoPayloads == {p1, p2}

Symmetry3 == Permutations(ThreeCalls) \cup Permutations(TwoPayloads)
Symmetry4 == Permutations(FourCalls)
=============================================================================
