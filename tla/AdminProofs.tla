----------------------------- MODULE AdminProofs -----------------------------
(****************************************************************************)
(* What the console keeps true for any number of calls, users, roles and    *)
(* versions: an administrator remains and one version of each policy is in  *)
(* effect, as long as the calls that could take them away did not overlap.  *)
(****************************************************************************)
EXTENDS Admin, SequenceTheorems, FiniteSetTheorems, TLAPS

USE AdminAssumption

UserOps == {"create", "activate", "deactivate", "change_role"}
PolicySteps == {"policy", "locking", "locked"}

\* Versions are the places of their rows, and some row is active.
PoliciesInOrder ==
  \A t \in Tables :
    /\ Len(policies[t]) <= MaxRows
    /\ \A i \in DOMAIN policies[t] : policies[t][i].version = i
    /\ policies[t] # <<>> => Active(t) # {}

\* A call to activate a version knows one that exists, or at most the next.
VersionKnown(x) ==
  /\ x.version <= Len(policies[x.table]) + 1
  /\ x.op = "activate" => x.version <= Len(policies[x.table])

VersionsKnown ==
  \A c \in Calls : calls[c].step \in PolicySteps => VersionKnown(calls[c])

\* The rows a call has found are all that are active, if not overtaken.
FoundAll(x) == x.step \in {"locking", "locked"} => x.rows = Active(x.table)

FreshFoundAll == \A c \in Calls \ overtaken : FoundAll(calls[c])

OneActive ==
  \A t \in Tables \ switchedTwice : \A i, j \in Active(t) : i = j

\* A call that is to revoke leaves another administrator, if not overtaken.
LeavesAnother(x) ==
  x.step = "user"
    /\ (x.op = "deactivate" \/ (x.op = "change_role" /\ x.role # "admin"))
    => OtherAdmins(x.user) # {}

\* A call that is to change a user has found one.
UserFound(x) == x.step = "user" /\ x.op # "create" => users[x.user] # NoUser

UsersFound == \A c \in Calls : UserFound(calls[c])

AdminLeft ==
  revokedTwice \/ /\ \E u \in Users : IsAdmin(u)
                  /\ \A c \in Calls \ overtaken : LeavesAnother(calls[c])

IInv ==
  /\ TypeOK
  /\ PoliciesInOrder
  /\ VersionsKnown
  /\ FreshFoundAll
  /\ OneActive
  /\ UsersFound
  /\ AdminLeft

------------------------------------------------------------------------------
(* The calls                                                                *)

LEMMA UserFields ==
  ASSUME NEW x \in CallSet, x.step = "user"
  PROVE  x.op \in UserOps /\ x.user \in Users /\ x.role \in Roles
  BY DEF CallSet, UserOps

LEMMA UserCallTyped ==
  ASSUME NEW op \in UserOps, NEW u \in Users, NEW r \in Roles
  PROVE  /\ UserCall(op, u, r) \in CallSet
         /\ UserCall(op, u, r).step = "user" /\ UserCall(op, u, r).op = op
         /\ UserCall(op, u, r).user = u /\ UserCall(op, u, r).role = r
  BY DEF CallSet, UserCall, UserOps

LEMMA PolicyFields ==
  ASSUME NEW x \in CallSet, x.step \in PolicySteps
  PROVE  /\ x.table \in Tables
         /\ x.op \in {"create", "activate"}
         /\ x.version \in 1 .. MaxRows + 1
         /\ x.rows \in SUBSET (1 .. MaxRows)
  BY DEF CallSet, PolicySteps

LEMMA PolicyCallTyped ==
  ASSUME NEW s \in PolicySteps, NEW op \in {"create", "activate"}, NEW t \in Tables,
         NEW v \in 1 .. MaxRows + 1, NEW rows \in SUBSET (1 .. MaxRows)
  PROVE  LET x == PolicyCall(s, op, t, v, rows)
         IN /\ x \in CallSet
            /\ x.step = s /\ x.op = op /\ x.table = t /\ x.version = v /\ x.rows = rows
  BY DEF CallSet, PolicySteps, PolicyCall

------------------------------------------------------------------------------
(* The rows                                                                 *)

Row == [version : Nat, active : BOOLEAN]

LEMMA ActiveRows ==
  ASSUME TypeOK, PoliciesInOrder, NEW t \in Tables
  PROVE  /\ policies[t] \in Seq(Row)
         /\ Len(policies[t]) \in Nat
         /\ DOMAIN policies[t] = 1 .. Len(policies[t])
         /\ Active(t) \in SUBSET (1 .. MaxRows)
         /\ Versions(t) = 1 .. Len(policies[t])
<1>1. /\ policies[t] \in Seq(Row)
      /\ Len(policies[t]) \in Nat
      /\ DOMAIN policies[t] = 1 .. Len(policies[t])
  BY DEF TypeOK, Row
<1>2. Active(t) \in SUBSET (1 .. MaxRows)
  BY <1>1 DEF Active, PoliciesInOrder
<1>3. Versions(t) = 1 .. Len(policies[t])
  BY <1>1 DEF Versions, PoliciesInOrder
<1> QED
  BY <1>1, <1>2, <1>3

(* The initial state has users and nothing else.                            *)
LEMMA InitIInv == Init => IInv
<1> SUFFICES ASSUME Init PROVE IInv
  OBVIOUS
<1>1. TypeOK
  <2>1. calls \in [Calls -> CallSet]
    BY DEF Init, CallSet, Idle
  <2>2. policies = [t \in Tables |-> <<>>]
    BY DEF Init
  <2>3. \A t \in Tables : policies[t] \in Seq([version : Nat, active : BOOLEAN])
    BY <2>2
  <2> QED
    BY <2>1, <2>2, <2>3 DEF Init, TypeOK
<1>2. PoliciesInOrder
  BY DEF Init, PoliciesInOrder, Tables
<1>3. VersionsKnown /\ FreshFoundAll
  BY DEF Init, VersionsKnown, FreshFoundAll, FoundAll, Idle, PolicySteps
<1>4. OneActive
  BY DEF Init, OneActive, Active, Tables
<1>5. AdminLeft
  BY DEF Init, AdminLeft, LeavesAnother, Idle
<1>6. UsersFound
  BY DEF Init, UsersFound, UserFound, Idle
<1> QED
  BY <1>1, <1>2, <1>3, <1>4, <1>5, <1>6 DEF IInv

------------------------------------------------------------------------------
(* Steps                                                                    *)

LEMMA IdleTyped ==
  /\ Idle \in CallSet /\ Authorized \in CallSet
  /\ \A x \in {Idle, Authorized} :
       x.step \notin PolicySteps /\ FoundAll(x) /\ UserFound(x) /\ LeavesAnother(x)
  BY DEF CallSet, Idle, Authorized, FoundAll, UserFound, LeavesAnother, PolicySteps

(* A call that goes on and writes nothing keeps the invariant if what it    *)
(* remembers now is right.                                                  *)
LEMMA GoesOn ==
  ASSUME IInv, NEW c \in Calls, NEW x \in CallSet,
         calls' = [calls EXCEPT ![c] = x], UNCHANGED <<users, policies, history>>,
         overtaken' \subseteq overtaken, overtaken \ {c} \subseteq overtaken',
         x.step \in PolicySteps => VersionKnown(x), UserFound(x),
         c \notin overtaken' => FoundAll(x),
         c \notin overtaken' => (revokedTwice \/ LeavesAnother(x))
  PROVE  IInv'
<1> USE DEF history
<1>1. /\ \A d \in Calls : calls'[d] = IF d = c THEN x ELSE calls[d]
      /\ calls' \in [Calls -> CallSet]
  BY DEF IInv, TypeOK
<1>2. TypeOK'
  BY <1>1 DEF IInv, TypeOK
<1>3. \A t \in Tables : Active(t)' = Active(t)
  BY DEF Active
<1>4. \A u \in Users : IsAdmin(u)' <=> IsAdmin(u)
  BY DEF IsAdmin
<1>5. PoliciesInOrder'
  BY <1>3 DEF IInv, PoliciesInOrder
<1>6. VersionsKnown'
  BY <1>1 DEF IInv, VersionsKnown, VersionKnown
<1>7. FreshFoundAll'
  <2> SUFFICES ASSUME NEW d \in Calls, d \notin overtaken' PROVE FoundAll(calls[d])'
    BY DEF FreshFoundAll
  <2>1. FoundAll(calls'[d])
    BY <1>1 DEF IInv, FreshFoundAll
  <2>2. calls'[d] \in CallSet
    BY <1>1
  <2> QED
    BY <2>1, <2>2, <1>3, PolicyFields DEF FoundAll, PolicySteps
<1>8. OneActive'
  BY <1>3 DEF IInv, OneActive
<1>9. AdminLeft'
  <2> SUFFICES ASSUME ~ revokedTwice PROVE AdminLeft'
    BY DEF AdminLeft
  <2>1. \E u \in Users : IsAdmin(u)'
    BY <1>4 DEF IInv, AdminLeft
  <2>2. ASSUME NEW d \in Calls, d \notin overtaken'
        PROVE  LeavesAnother(calls[d])'
    <3>1. calls'[d] \in CallSet
      BY <1>1
    <3>2. LeavesAnother(calls'[d])
      BY <1>1, <2>2 DEF IInv, AdminLeft
    <3>3. \A u \in Users : OtherAdmins(u)' = OtherAdmins(u)
      BY <1>4 DEF OtherAdmins
    <3> QED
      BY <3>1, <3>2, <3>3, UserFields DEF LeavesAnother
  <2> QED
    BY <2>1, <2>2 DEF AdminLeft
<1>10. UsersFound'
  BY <1>1 DEF IInv, UsersFound, UserFound
<1> QED
  BY <1>2, <1>5, <1>6, <1>7, <1>8, <1>9, <1>10 DEF IInv

LEMMA AuthorizedStep ==
  ASSUME IInv, NEW c \in Calls, get_current_admin(c)
  PROVE  IInv'
  BY GoesOn, IdleTyped DEF get_current_admin, GoTo

LEMMA FailStep ==
  ASSUME IInv, NEW c \in Calls, Fail(c)
  PROVE  IInv'
  BY GoesOn, IdleTyped DEF Fail, EndOvertaking

(* Every handler of users remembers a revocation only if another            *)
(* administrator is there.                                                  *)
LEMMA ReadsStep ==
  ASSUME IInv, NEW c \in Calls, NEW op \in UserOps, NEW u \in Users, NEW r \in Roles,
         GoTo(c, UserCall(op, u, r)),
         op # "create" => users[u] # NoUser,
         op = "deactivate" \/ (op = "change_role" /\ r # "admin")
           => (IsAdmin(u) => OtherAdmins(u) # {})
  PROVE  IInv'
<1> DEFINE x == UserCall(op, u, r)
<1>1. /\ x \in CallSet
      /\ x.step = "user" /\ x.op = op /\ x.user = u /\ x.role = r
  BY UserCallTyped
<1>2. revokedTwice \/ LeavesAnother(x)
  BY <1>1 DEF IInv, AdminLeft, LeavesAnother, OtherAdmins
<1>3. x.step \notin PolicySteps /\ FoundAll(x) /\ UserFound(x)
  BY <1>1 DEF PolicySteps, FoundAll, UserFound
<1>4. GoTo(c, x)
  OBVIOUS
<1> HIDE DEF x
<1> QED
  BY <1>1, <1>2, <1>3, <1>4, GoesOn DEF GoTo

LEMMA UserReads ==
  ASSUME IInv, NEW c \in Calls,
         \/ create_internal_user(c) \/ activate_internal_user(c)
         \/ deactivate_internal_user(c) \/ change_user_role(c)
  PROVE  IInv'
<1>1. \A u \in Users : users[u] # NoUser => users[u].role \in Roles
  BY DEF IInv, TypeOK, UserSet
<1>2. CASE create_internal_user(c)
  BY <1>2, ReadsStep DEF create_internal_user, UserOps
<1>3. CASE activate_internal_user(c)
  BY <1>1, <1>3, ReadsStep DEF activate_internal_user, UserOps
<1>4. CASE deactivate_internal_user(c)
  BY <1>1, <1>4, ReadsStep DEF deactivate_internal_user, UserOps
<1>5. CASE change_user_role(c)
  BY <1>5, ReadsStep DEF change_user_role, UserOps
<1> QED
  BY <1>2, <1>3, <1>4, <1>5

(* A version to create is the next one, and one to activate exists.         *)
LEMMA PolicyReads ==
  ASSUME IInv, NEW c \in Calls, NEW t \in Tables, Create(c, t) \/ Activate(c, t)
  PROVE  IInv'
<1> DEFINE n == Len(policies[t])
<1>1. n \in Nat /\ n <= MaxRows /\ Versions(t) = 1 .. n
  BY ActiveRows DEF IInv, PoliciesInOrder
<1>2. ASSUME NEW op \in {"create", "activate"}, NEW v \in 1 .. MaxRows + 1,
             v <= n + 1, op = "activate" => v <= n,
             GoTo(c, PolicyCall("policy", op, t, v, {}))
      PROVE  IInv'
  <2> DEFINE x == PolicyCall("policy", op, t, v, {})
  <2>1. /\ x \in CallSet
        /\ x.step = "policy" /\ x.op = op /\ x.table = t /\ x.version = v
    BY PolicyCallTyped DEF PolicySteps
  <2>2. VersionKnown(x)
    BY <2>1, <1>2 DEF VersionKnown
  <2>3. FoundAll(x) /\ UserFound(x) /\ LeavesAnother(x)
    BY <2>1 DEF FoundAll, UserFound, LeavesAnother
  <2>4. GoTo(c, x)
    BY <1>2
  <2> HIDE DEF x
  <2> QED
    BY <2>1, <2>2, <2>3, <2>4, GoesOn DEF GoTo
<1>3. CASE Create(c, t)
  <2>1. PICK m \in Versions(t) \cup {0} :
          /\ \A v \in Versions(t) : v <= m
          /\ GoTo(c, PolicyCall("policy", "create", t, m + 1, {}))
    BY <1>3 DEF Create
  <2>2. m \in 0 .. n
    BY <2>1, <1>1
  <2> QED
    BY <1>1, <1>2, <2>1, <2>2
<1>4. CASE Activate(c, t)
  BY <1>1, <1>2, <1>4 DEF Activate
<1> QED
  BY <1>3, <1>4

LEMMA SwitchStep ==
  ASSUME IInv, NEW c \in Calls, FindActive(c) \/ LockActive(c)
  PROVE  IInv'
<1> DEFINE x == calls[c]
<1>1. /\ x \in CallSet /\ x.step \in PolicySteps
      /\ VersionKnown(x)
      /\ c \notin overtaken => FoundAll(x)
  BY DEF FindActive, LockActive, PolicySteps, IInv, TypeOK, VersionsKnown, FreshFoundAll
<1>2. /\ x.table \in Tables /\ x.op \in {"create", "activate"}
      /\ x.version \in 1 .. MaxRows + 1 /\ x.rows \in SUBSET (1 .. MaxRows)
  BY <1>1, PolicyFields
<1>3. ASSUME NEW s \in {"locking", "locked"}, NEW rows \in SUBSET (1 .. MaxRows),
             c \notin overtaken => rows = Active(x.table),
             GoTo(c, PolicyCall(s, x.op, x.table, x.version, rows))
      PROVE  IInv'
  <2> DEFINE y == PolicyCall(s, x.op, x.table, x.version, rows)
  <2>1. /\ y \in CallSet
        /\ y.step = s /\ y.op = x.op /\ y.table = x.table /\ y.version = x.version
        /\ y.rows = rows
    BY <1>2, PolicyCallTyped DEF PolicySteps
  <2>2. VersionKnown(y)
    BY <1>1, <2>1 DEF VersionKnown
  <2>3. UserFound(y) /\ LeavesAnother(y) /\ (c \notin overtaken => FoundAll(y))
    BY <1>3, <2>1 DEF FoundAll, UserFound, LeavesAnother
  <2>4. GoTo(c, y)
    BY <1>3
  <2> HIDE DEF x, y
  <2> QED
    BY <2>1, <2>2, <2>3, <2>4, GoesOn DEF GoTo
<1>4. Active(x.table) \in SUBSET (1 .. MaxRows)
  BY <1>2, ActiveRows DEF IInv
<1>5. CASE FindActive(c)
  BY <1>3, <1>4, <1>5 DEF FindActive
<1>6. CASE LockActive(c)
  <2>1. c \notin overtaken => x.rows \cap Active(x.table) = Active(x.table)
    BY <1>1, <1>6 DEF FoundAll, LockActive
  <2>2. x.rows \cap Active(x.table) \in SUBSET (1 .. MaxRows)
    BY <1>4
  <2> QED
    BY <1>3, <1>6, <2>1, <2>2 DEF LockActive
<1> QED
  BY <1>5, <1>6

(* A commit that revokes nothing leaves every administrator, and one that   *)
(* revokes leaves another unless it was overtaken.                          *)
LEMMA UserCommits ==
  ASSUME IInv, NEW c \in Calls, CommitUser(c)
  PROVE  IInv'
<1> DEFINE call == calls[c]
           u == call.user
<1> USE DEF EndOvertaking
<1>1. call \in CallSet /\ call.step = "user" /\ UserFound(call)
  BY DEF CommitUser, UserCalls, IInv, TypeOK, UsersFound
<1>2. call.op \in UserOps /\ u \in Users /\ call.role \in Roles
  BY <1>1, UserFields
<1>3. /\ users' = [users EXCEPT ![u] = Written(@, call)]
      /\ call.op = "create" => users[u] = NoUser
      /\ calls' = [calls EXCEPT ![c] = Idle]
      /\ overtaken' = (overtaken \cup (IF Revokes(call) THEN UserCalls ELSE {})) \ {c}
      /\ revokedTwice' = (revokedTwice \/ (Revokes(call) /\ c \in overtaken))
      /\ UNCHANGED <<policies, switchedTwice>>
  BY DEF CommitUser
<1>4. users[u] \in UserSet
  BY <1>2 DEF IInv, TypeOK
<1>5. Written(users[u], call) \in UserSet \ {NoUser}
  <2>1. users[u] # NoUser => users[u].role \in Roles
    BY <1>4 DEF UserSet
  <2>2. CASE call.op = "create"
    BY <1>2, <2>2 DEF Written, UserSet, NoUser
  <2>3. CASE call.op # "create"
    <3>1. users[u] \in [role : Roles, active : BOOLEAN]
      BY <1>1, <1>4, <2>3 DEF UserFound, UserSet
    <3> QED
      BY <1>2, <2>3, <3>1 DEF Written, UserSet, NoUser, UserOps
  <2> QED
    BY <2>2, <2>3
<1>6. \A v \in Users : users'[v] = IF v = u THEN Written(users[u], call) ELSE users[v]
  BY <1>3, <1>2 DEF IInv, TypeOK
<1>7. \A d \in Calls : calls'[d] = IF d = c THEN Idle ELSE calls[d]
  BY <1>3 DEF IInv, TypeOK
<1> HIDE DEF call, u
<1>8. TypeOK'
  <2>1. users' \in [Users -> UserSet]
    BY <1>3, <1>5 DEF IInv, TypeOK
  <2>2. calls' \in [Calls -> CallSet]
    BY <1>3, IdleTyped DEF IInv, TypeOK
  <2>3. revokedTwice' \in BOOLEAN
    BY <1>3, Zenon DEF IInv, TypeOK
  <2>4. overtaken' \subseteq Calls
    BY <1>3 DEF IInv, TypeOK, UserCalls
  <2> QED
    BY <1>3, <2>1, <2>2, <2>3, <2>4 DEF IInv, TypeOK
<1>9. \A t \in Tables : Active(t)' = Active(t)
  BY <1>3 DEF Active
<1>10. PoliciesInOrder' /\ OneActive'
  BY <1>3, <1>9 DEF IInv, PoliciesInOrder, OneActive
<1>11. VersionsKnown'
  BY <1>3, <1>7, IdleTyped DEF IInv, VersionsKnown, VersionKnown
<1>12. FreshFoundAll'
  <2> SUFFICES ASSUME NEW d \in Calls, d \notin overtaken' PROVE FoundAll(calls[d])'
    BY DEF FreshFoundAll
  <2>1. FoundAll(calls'[d])
    BY <1>3, <1>7, IdleTyped DEF IInv, FreshFoundAll
  <2>2. calls'[d] \in CallSet
    BY <1>8 DEF TypeOK
  <2> QED
    BY <2>1, <2>2, <1>9, PolicyFields DEF FoundAll, PolicySteps
<1>13. UsersFound'
  <2> SUFFICES ASSUME NEW d \in Calls PROVE UserFound(calls[d])'
    BY DEF UsersFound
  <2>1. UserFound(calls'[d]) /\ calls'[d] \in CallSet
    BY <1>7, <1>8, IdleTyped DEF IInv, UsersFound, TypeOK
  <2> QED
    BY <2>1, <1>5, <1>6, UserFields DEF UserFound
<1>14. AdminLeft'
  <2> SUFFICES ASSUME ~ revokedTwice' PROVE AdminLeft'
    BY DEF AdminLeft
  <2>1. ~ revokedTwice /\ ~ (Revokes(call) /\ c \in overtaken)
    BY <1>3
  <2>2. /\ \E v \in Users : IsAdmin(v)
        /\ \A d \in Calls \ overtaken : LeavesAnother(calls[d])
    BY <2>1 DEF IInv, AdminLeft
  <2>3. CASE Revokes(call)
    <3>1. PICK v \in Users : v # u /\ IsAdmin(v)
      BY <2>1, <2>2, <2>3, <1>1 DEF LeavesAnother, Revokes, OtherAdmins, call, u
    <3>2. IsAdmin(v)'
      BY <3>1, <1>6 DEF IsAdmin
    <3>3. ASSUME NEW d \in Calls, d \notin overtaken' PROVE LeavesAnother(calls[d])'
      <4>1. calls'[d].step # "user"
        BY <1>3, <1>7, <2>3, <3>3 DEF UserCalls, Idle
      <4> QED
        BY <4>1 DEF LeavesAnother
    <3> QED
      BY <3>2, <3>3 DEF AdminLeft
  <2>4. CASE ~ Revokes(call)
    <3>1. ASSUME NEW v \in Users, IsAdmin(v) PROVE IsAdmin(v)'
      <4>1. CASE v # u
        BY <3>1, <4>1, <1>6 DEF IsAdmin
      <4>2. CASE v = u
        <5>1. users[u].role = "admin" /\ users[u].active
          BY <3>1, <4>2 DEF IsAdmin
        <5>2. users[u] \in [role : Roles, active : BOOLEAN]
          BY <5>1, <1>4 DEF UserSet, NoUser
        <5>3. call.op = "activate" \/ (call.op = "change_role" /\ call.role = "admin")
          <6>1. call.op # "create"
            BY <1>3, <5>1 DEF NoUser
          <6>2. IsAdmin(u)
            BY <3>1, <4>2
          <6> QED
            BY <6>1, <6>2, <2>4, <1>2 DEF Revokes, UserOps, u
        <5>4. users'[u] = Written(users[u], call)
          BY <1>2, <1>6
        <5>5. CASE call.op = "activate"
          BY <5>1, <5>2, <5>4, <5>5, <4>2 DEF Written, IsAdmin
        <5>6. CASE call.op = "change_role" /\ call.role = "admin"
          BY <5>1, <5>2, <5>4, <5>6, <4>2 DEF Written, IsAdmin
        <5> QED
          BY <5>3, <5>5, <5>6
      <4> QED
        BY <4>1, <4>2
    <3>2. ASSUME NEW d \in Calls, d \notin overtaken' PROVE LeavesAnother(calls[d])'
      <4>1. LeavesAnother(calls'[d]) /\ calls'[d] \in CallSet
        BY <1>3, <1>7, <1>8, <2>2, <3>2, IdleTyped DEF TypeOK
      <4>2. \A v \in Users : OtherAdmins(v) \subseteq OtherAdmins(v)'
        BY <3>1 DEF OtherAdmins
      <4> QED
        BY <4>1, <4>2, UserFields DEF LeavesAnother
    <3> QED
      BY <2>2, <3>1, <3>2 DEF AdminLeft
  <2> QED
    BY <2>3, <2>4
<1> QED
  BY <1>8, <1>10, <1>11, <1>12, <1>13, <1>14 DEF IInv

(* The rows that a commit leaves, of rows in order.                         *)
LEMMA SwitchedRows ==
  ASSUME NEW rows \in Seq(Row), \A i \in DOMAIN rows : rows[i].version = i,
         NEW call, call.op \in {"create", "activate"}, call.version \in Nat \ {0},
         call.op = "create" => call.version = Len(rows) + 1,
         call.op = "activate" => call.version <= Len(rows)
  PROVE  LET after == Switched(rows, call)
         IN /\ after \in Seq(Row)
            /\ Len(after) = IF call.op = "create" THEN Len(rows) + 1 ELSE Len(rows)
            /\ \A i \in DOMAIN after : after[i].version = i
            /\ {i \in DOMAIN after : after[i].active}
                 = {i \in DOMAIN rows : rows[i].active /\ i \notin call.rows}
                     \cup {call.version}
<1> DEFINE n == Len(rows)
           closed == Deactivated(rows, call.rows)
           after == Switched(rows, call)
<1>1. n \in Nat /\ DOMAIN rows = 1 .. n /\ \A i \in 1 .. n : rows[i] \in Row
  OBVIOUS
<1>2. closed = [i \in 1 .. n |-> IF i \in call.rows THEN [rows[i] EXCEPT !.active = FALSE]
                                 ELSE rows[i]]
  BY <1>1 DEF Deactivated
<1>3. \A i \in 1 .. n : /\ closed[i] \in Row /\ closed[i].version = i
                        /\ closed[i].active <=> rows[i].active /\ i \notin call.rows
  <2> TAKE i \in 1 .. n
  <2>1. rows[i] \in Row /\ rows[i].version = i
    BY <1>1
  <2>2. CASE i \in call.rows
    BY <1>2, <2>1, <2>2 DEF Row
  <2>3. CASE i \notin call.rows
    BY <1>2, <2>1, <2>3 DEF Row
  <2> QED
    BY <2>2, <2>3
<1>4. closed \in Seq(Row) /\ Len(closed) = n /\ DOMAIN closed = 1 .. n
  <2>1. closed \in [1 .. n -> Row]
    BY <1>2, <1>3
  <2> HIDE DEF closed
  <2> QED
    BY <2>1, <1>1
<1> HIDE DEF closed
<1>5. CASE call.op = "create"
  <2> DEFINE row == [version |-> call.version, active |-> TRUE]
  <2>1. after = Append(closed, row)
    BY <1>5 DEF Switched, Activated, closed
  <2>2. row \in Row /\ row.version = n + 1 /\ row.active
    BY <1>5 DEF Row
  <2> HIDE DEF row, after
  <2>3. /\ after \in Seq(Row) /\ Len(after) = n + 1
        /\ \A i \in 1 .. n : after[i] = closed[i]
        /\ after[n + 1] = row
    BY <2>1, <2>2, <1>4
  <2>4. DOMAIN after = 1 .. n + 1
    BY <2>3, <1>1
  <2>5. \A i \in 1 .. n + 1 : /\ after[i].version = i
                              /\ after[i].active <=> i = n + 1 \/ closed[i].active
    <3> TAKE i \in 1 .. n + 1
    <3>1. CASE i = n + 1
      BY <3>1, <2>2, <2>3
    <3>2. CASE i \in 1 .. n
      BY <3>2, <2>3, <1>3, <1>1
    <3> QED
      BY <3>1, <3>2, <1>1
  <2>6. {i \in DOMAIN after : after[i].active}
          = {i \in DOMAIN rows : rows[i].active /\ i \notin call.rows} \cup {call.version}
    BY <2>4, <2>5, <1>1, <1>3, <1>5
  <2> QED
    BY <2>3, <2>4, <2>5, <2>6, <1>5 DEF after
<1>6. CASE call.op = "activate"
  <2> DEFINE v == call.version
  <2>1. after = [i \in 1 .. n |-> IF closed[i].version = v
                                  THEN [closed[i] EXCEPT !.active = TRUE] ELSE closed[i]]
    BY <1>4, <1>6 DEF Switched, Activated, closed
  <2>2. \A i \in 1 .. n : /\ after[i] \in Row /\ after[i].version = i
                          /\ after[i].active <=> i = v \/ closed[i].active
    <3> TAKE i \in 1 .. n
    <3>1. CASE i = v
      <4>1. closed[i] \in Row /\ closed[i].version = v
        BY <3>1, <1>3
      <4>2. after[i] = [closed[i] EXCEPT !.active = TRUE]
        BY <2>1, <4>1
      <4>3. after[i] = [version |-> closed[i].version, active |-> TRUE]
        BY <4>1, <4>2 DEF Row
      <4>4. after[i].active
        BY <4>3
      <4>5. after[i] \in Row /\ after[i].version = i
        BY <3>1, <4>1, <4>3 DEF Row
      <4> QED
        BY <3>1, <4>4, <4>5
    <3>2. CASE i # v
      BY <3>2, <2>1, <1>3
    <3> QED
      BY <3>1, <3>2
  <2>3. after \in [1 .. n -> Row]
    BY <2>1, <2>2
  <2> HIDE DEF after
  <2>4. after \in Seq(Row) /\ Len(after) = n /\ DOMAIN after = 1 .. n
    BY <2>3, <1>1
  <2>5. {i \in DOMAIN after : after[i].active}
          = {i \in DOMAIN rows : rows[i].active /\ i \notin call.rows} \cup {call.version}
    <3>1. v \in 1 .. n
      BY <1>1, <1>6
    <3> QED
      BY <3>1, <2>2, <2>4, <1>1, <1>3
  <2> QED
    BY <2>2, <2>4, <2>5, <1>6 DEF after
<1> QED
  BY <1>5, <1>6

(* A commit that was not overtaken deactivates all that was active.         *)
LEMMA PolicyCommits ==
  ASSUME IInv, NEW c \in Calls, CommitPolicy(c)
  PROVE  IInv'
<1> DEFINE call == calls[c]
           t == call.table
           n == Len(policies[t])
           after == Switched(policies[t], call)
<1>1. /\ call \in CallSet /\ call.step = "locked" /\ VersionKnown(call)
      /\ c \notin overtaken => FoundAll(call)
  BY DEF CommitPolicy, IInv, TypeOK, VersionsKnown, FreshFoundAll, PolicySteps
<1>2. /\ t \in Tables /\ call.op \in {"create", "activate"}
      /\ call.version \in 1 .. MaxRows + 1 /\ call.rows \in SUBSET (1 .. MaxRows)
  BY <1>1, PolicyFields DEF PolicySteps
<1>3. /\ policies' = [policies EXCEPT ![t] = after]
      /\ calls' = [calls EXCEPT ![c] = Idle]
      /\ overtaken' = (overtaken \cup Switching(t, {"locking", "locked"})) \ {c}
      /\ switchedTwice' = IF c \in overtaken THEN switchedTwice \cup {t} ELSE switchedTwice
      /\ UNCHANGED <<users, revokedTwice>>
  BY DEF CommitPolicy, EndOvertaking
<1>4. /\ policies[t] \in Seq(Row) /\ n \in Nat /\ DOMAIN policies[t] = 1 .. n
      /\ Versions(t) = 1 .. n
  BY <1>2, ActiveRows DEF IInv
<1>5. /\ call.version <= n + 1 /\ (call.op = "activate" => call.version <= n)
      /\ call.op = "create" => call.version = n + 1 /\ n < MaxRows
  BY <1>1, <1>2, <1>4 DEF CommitPolicy, VersionKnown, Refused
<1>6. \A i \in DOMAIN policies[t] : policies[t][i].version = i
  BY <1>2 DEF IInv, PoliciesInOrder
<1>7. /\ after \in Seq(Row)
      /\ Len(after) = IF call.op = "create" THEN n + 1 ELSE n
      /\ \A i \in DOMAIN after : after[i].version = i
      /\ {i \in DOMAIN after : after[i].active}
           = {i \in DOMAIN policies[t] : policies[t][i].active /\ i \notin call.rows}
               \cup {call.version}
  <2>1. call.version \in Nat \ {0}
    BY <1>2
  <2>2. call.op = "create" => call.version = Len(policies[t]) + 1
    BY <1>5
  <2>3. call.op = "activate" => call.version <= Len(policies[t])
    BY <1>5
  <2>4. policies[t] \in Seq(Row) /\ call.op \in {"create", "activate"}
    BY <1>2, <1>4
  <2> HIDE DEF call, t
  <2> QED
    BY <2>1, <2>2, <2>3, <2>4, <1>6, SwitchedRows
<1> HIDE DEF after
<1>8. /\ \A s \in Tables : policies'[s] = IF s = t THEN after ELSE policies[s]
      /\ DOMAIN policies' = Tables
  BY <1>2, <1>3 DEF IInv, TypeOK
<1>9. \A d \in Calls : calls'[d] = IF d = c THEN Idle ELSE calls[d]
  BY <1>3 DEF IInv, TypeOK
<1> HIDE DEF call, t
<1>10. \A s \in Tables : Active(s)' = IF s = t THEN (Active(t) \ call.rows) \cup {call.version}
                                      ELSE Active(s)
  <2> TAKE s \in Tables
  <2>1. CASE s = t
    BY <2>1, <1>7, <1>8 DEF Active
  <2>2. CASE s # t
    BY <2>2, <1>8 DEF Active
  <2> QED
    BY <2>1, <2>2
<1>11. TypeOK'
  <2>1. \A s \in Tables : policies'[s] \in Seq([version : Nat, active : BOOLEAN])
    BY <1>7, <1>8 DEF IInv, TypeOK, Row
  <2>2. calls' \in [Calls -> CallSet]
    BY <1>3, IdleTyped DEF IInv, TypeOK
  <2>3. overtaken' \subseteq Calls
    BY <1>3 DEF IInv, TypeOK, Switching
  <2> QED
    BY <1>2, <1>3, <1>8, <2>1, <2>2, <2>3 DEF IInv, TypeOK
<1>12. PoliciesInOrder'
  <2> SUFFICES ASSUME NEW s \in Tables
               PROVE  /\ Len(policies'[s]) <= MaxRows
                      /\ \A i \in DOMAIN policies'[s] : policies'[s][i].version = i
                      /\ policies'[s] # <<>> => Active(s)' # {}
    BY DEF PoliciesInOrder
  <2>1. CASE s = t
    <3>1. n <= MaxRows
      BY <1>2 DEF IInv, PoliciesInOrder
    <3>2. policies'[s] = after /\ Active(s)' # {}
      BY <2>1, <1>8, <1>10
    <3>3. Len(after) <= MaxRows
      BY <3>1, <1>2, <1>4, <1>5, <1>7
    <3> QED
      BY <3>2, <3>3, <1>7
  <2>2. CASE s # t
    BY <2>2, <1>8, <1>10 DEF IInv, PoliciesInOrder
  <2> QED
    BY <2>1, <2>2
<1>13. VersionsKnown'
  <2> SUFFICES ASSUME NEW d \in Calls, calls'[d].step \in PolicySteps
               PROVE  VersionKnown(calls[d])'
    BY DEF VersionsKnown
  <2>1. d # c /\ calls'[d] = calls[d]
    BY <1>9 DEF PolicySteps, Idle
  <2>2. VersionKnown(calls[d]) /\ calls[d] \in CallSet /\ calls[d].step \in PolicySteps
    BY <2>1 DEF IInv, VersionsKnown, TypeOK
  <2>3. /\ calls[d].table \in Tables
        /\ calls[d].version \in Nat
    BY <2>2, PolicyFields
  <2>4. /\ Len(policies[calls[d].table]) \in Nat /\ Len(policies'[calls[d].table]) \in Nat
        /\ Len(policies[calls[d].table]) <= Len(policies'[calls[d].table])
    <3>1. CASE calls[d].table = t
      BY <3>1, <2>3, <1>4, <1>7, <1>8
    <3>2. CASE calls[d].table # t
      BY <3>2, <2>3, <1>8 DEF IInv, TypeOK
    <3> QED
      BY <3>1, <3>2
  <2> DEFINE before == Len(policies[calls[d].table])
             later == Len(policies'[calls[d].table])
             v == calls[d].version
  <2>5. before \in Nat /\ later \in Nat /\ before <= later /\ v \in Nat
    BY <2>3, <2>4
  <2>6. v <= before + 1 /\ (calls[d].op = "activate" => v <= before)
    BY <2>2 DEF VersionKnown
  <2> HIDE DEF before, later, v
  <2>7. v <= later + 1 /\ (calls[d].op = "activate" => v <= later)
    BY <2>5, <2>6
  <2> QED
    BY <2>1, <2>7, Zenon DEF VersionKnown, later, v
<1>14. FreshFoundAll'
  <2> SUFFICES ASSUME NEW d \in Calls, d \notin overtaken',
                      calls'[d].step \in {"locking", "locked"}
               PROVE  (calls[d].rows = Active(calls[d].table))'
    BY DEF FreshFoundAll, FoundAll
  <2>1. d # c /\ calls'[d] = calls[d]
    BY <1>9 DEF Idle
  <2>2. d \notin overtaken /\ calls[d].table # t
    BY <1>3, <2>1 DEF Switching
  <2>3. calls[d].table \in Tables
    BY <2>1, PolicyFields DEF PolicySteps, IInv, TypeOK
  <2>4. calls[d].rows = Active(calls[d].table)
    BY <2>1, <2>2 DEF IInv, FreshFoundAll, FoundAll
  <2> QED
    BY <2>1, <2>2, <2>3, <2>4, <1>10
<1>15. OneActive'
  <2> SUFFICES ASSUME NEW s \in Tables, s \notin switchedTwice',
                      NEW i \in Active(s)', NEW j \in Active(s)'
               PROVE  i = j
    BY DEF OneActive
  <2>1. s \notin switchedTwice
    BY <1>3
  <2>2. CASE s = t
    <3>1. c \notin overtaken
      BY <2>2, <1>3
    <3>2. call.rows = Active(t)
      BY <3>1, <1>1 DEF FoundAll, t
    <3> QED
      BY <2>2, <3>2, <1>10
  <2>3. CASE s # t
    BY <2>1, <2>3, <1>10 DEF IInv, OneActive
  <2> QED
    BY <2>2, <2>3
<1>16. UsersFound'
  BY <1>3, <1>9, IdleTyped DEF IInv, UsersFound, UserFound
<1>17. AdminLeft'
  <2> SUFFICES ASSUME ~ revokedTwice' PROVE AdminLeft'
    BY DEF AdminLeft
  <2>1. /\ \E u \in Users : IsAdmin(u)
        /\ \A d \in Calls \ overtaken : LeavesAnother(calls[d])
    BY <1>3 DEF IInv, AdminLeft
  <2>2. \A u \in Users : (IsAdmin(u)' <=> IsAdmin(u)) /\ OtherAdmins(u)' = OtherAdmins(u)
    BY <1>3 DEF IsAdmin, OtherAdmins
  <2>3. ASSUME NEW d \in Calls, d \notin overtaken' PROVE LeavesAnother(calls[d])'
    <3>1. LeavesAnother(calls'[d]) /\ calls'[d] \in CallSet
      BY <1>3, <1>9, <1>11, <2>1, <2>3, IdleTyped DEF TypeOK
    <3> QED
      BY <3>1, <2>2, UserFields DEF LeavesAnother
  <2> QED
    BY <2>1, <2>2, <2>3 DEF AdminLeft
<1> QED
  BY <1>11, <1>12, <1>13, <1>14, <1>15, <1>16, <1>17 DEF IInv

------------------------------------------------------------------------------
LEMMA NextIInv == IInv /\ [Next]_vars => IInv'
<1> SUFFICES ASSUME IInv, [Next]_vars PROVE IInv'
  OBVIOUS
<1>1. ASSUME NEW c \in Calls, Step(c) PROVE IInv'
  <2>1. CASE get_current_admin(c) \/ Fail(c)
    BY <2>1, AuthorizedStep, FailStep
  <2>2. CASE \/ create_internal_user(c) \/ activate_internal_user(c)
             \/ deactivate_internal_user(c) \/ change_user_role(c)
    BY <2>2, UserReads
  <2>3. CASE CommitUser(c)
    BY <2>3, UserCommits
  <2>4. CASE \/ create_dispatch_policy(c) \/ activate_dispatch_policy_version(c)
             \/ create_sla_policy(c) \/ activate_sla_policy_version(c)
    BY <2>4, PolicyReads DEF create_dispatch_policy, activate_dispatch_policy_version,
         create_sla_policy, activate_sla_policy_version, Tables
  <2>5. CASE FindActive(c) \/ LockActive(c)
    BY <2>5, SwitchStep
  <2>6. CASE CommitPolicy(c)
    BY <2>6, PolicyCommits
  <2> QED
    BY <1>1, <2>1, <2>2, <2>3, <2>4, <2>5, <2>6 DEF Step
<1>2. CASE UNCHANGED vars
  <2>1. UNCHANGED <<users, policies, calls, overtaken, revokedTwice, switchedTwice>>
    BY <1>2 DEF vars, history
  <2>2. TypeOK' /\ UsersFound'
    BY <2>1 DEF IInv, TypeOK, UsersFound, UserFound
  <2>3. \A t \in Tables : Active(t)' = Active(t)
    BY <2>1 DEF Active
  <2>4. PoliciesInOrder' /\ OneActive'
    BY <2>1, <2>3 DEF IInv, PoliciesInOrder, OneActive
  <2>5. VersionsKnown'
    BY <2>1 DEF IInv, VersionsKnown, VersionKnown
  <2>6. FreshFoundAll'
    BY <2>1 DEF IInv, FreshFoundAll, FoundAll, Active
  <2>7. AdminLeft'
    BY <2>1 DEF IInv, AdminLeft, LeavesAnother, OtherAdmins, IsAdmin
  <2> QED
    BY <2>2, <2>4, <2>5, <2>6, <2>7 DEF IInv
<1> QED
  BY <1>1, <1>2 DEF Next

(* The invariant holds in every state.                                      *)
THEOREM Invariance == Spec => []IInv
<1>1. Init => IInv
  BY InitIInv
<1>2. IInv /\ [Next]_vars => IInv'
  BY NextIInv
<1> QED
  BY <1>1, <1>2, PTL DEF Spec

(* Every variable of the console has its type.                              *)
THEOREM TypeCorrect == Spec => []TypeOK
<1>1. IInv => TypeOK
  BY DEF IInv
<1> QED
  BY <1>1, Invariance, PTL

(* The console keeps an active administrator, unless two revocations that   *)
(* had not seen each other were both committed.                             *)
THEOREM AdminStays == Spec => []AdminRemains
<1>1. IInv => AdminRemains
  BY DEF IInv, AdminLeft, AdminRemains
<1> QED
  BY <1>1, Invariance, PTL

(* Versions of policies are created without a gap, some version is in       *)
(* effect from the first on, and only one, unless two activations that had  *)
(* not seen each other were both committed.                                 *)
THEOREM OneInEffect == Spec => []OnePolicyInEffect
<1>1. ASSUME IInv PROVE OnePolicyInEffect
  <2> SUFFICES ASSUME NEW t \in Tables, t \notin switchedTwice
               PROVE  Cardinality(Active(t)) <= 1
    BY <1>1 DEF IInv, PoliciesInOrder, OnePolicyInEffect
  <2>1. CASE Active(t) = {}
    BY <2>1, FS_EmptySet
  <2>2. CASE Active(t) # {}
    <3>1. PICK i \in Active(t) : TRUE
      BY <2>2
    <3>2. Active(t) = {i}
      BY <1>1, <3>1 DEF IInv, OneActive
    <3>3. Cardinality(Active(t)) = 1
      BY <3>2, FS_Singleton, Zenon
    <3> QED
      BY <3>3
  <2> QED
    BY <2>1, <2>2
<1> QED
  BY <1>1, Invariance, PTL
=============================================================================
