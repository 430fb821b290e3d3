\* Two calls of any kind, three users and two versions of each policy.
SPECIFICATION Spec
CONSTANTS
  Calls = {c1, c2}
  Users = {u1, u2, u3}
  Roles = {"admin", "operator"}
  MaxRows = 2
SYMMETRY Symmetry
INVARIANTS
  TypeOK
  AdminRemains
  OnePolicyInEffect
CHECK_DEADLOCK FALSE
