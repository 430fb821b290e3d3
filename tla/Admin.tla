-------------------------------- MODULE Admin --------------------------------
(****************************************************************************)
(* The administrators' console: internal users and their roles, and the     *)
(* versions of the dispatch and SLA policies.  A call is authorized against *)
(* the database in a session of its own, then reads what it decides on, and *)
(* commits later; READ COMMITTED transactions of PostgreSQL interleave in   *)
(* between.                                                                 *)
(*                                                                          *)
(* The two tables of policies have handlers of the same steps.  What a      *)
(* policy says is left out, and so are names, passwords and logins.         *)
(****************************************************************************)
EXTENDS Naturals, Sequences, FiniteSets

CONSTANTS
  Calls,         \* requests of administrators
  Users,         \* emails of internal users
  Roles,         \* RoleType
  MaxRows        \* bound: versions of a policy

ASSUME AdminAssumption ==
  "admin" \in Roles /\ "none" \notin Roles /\ MaxRows \in Nat

VARIABLES
  users,         \* internal_users: role and is_active
  policies,      \* each table's rows in the order of their ids
  calls,         \* what each call is at
  overtaken,     \* history: the calls whose reads a commit has overtaken
  revokedTwice,  \* history: whether revocations of the admin role overlapped
  switchedTwice  \* history: the tables in which activations overlapped

history == <<revokedTwice, switchedTwice>>
vars == <<users, policies, calls, overtaken, history>>

------------------------------------------------------------------------------
Tables == {"dispatch", "sla"}

NoUser == [role |-> "none", active |-> FALSE]

UserSet == {NoUser} \cup [role : Roles, active : BOOLEAN]

IsAdmin(u) == users[u].role = "admin" /\ users[u].active

(* The rows that are active.                                                *)
Active(table) == {i \in DOMAIN policies[table] : policies[table][i].active}

Versions(table) == {policies[table][i].version : i \in DOMAIN policies[table]}

Idle == [step |-> "idle"]

Authorized == [step |-> "authorized"]

(* A call that will insert a user's row, or set a column of it.             *)
UserCall(op, u, role) == [step |-> "user", op |-> op, user |-> u, role |-> role]

(* A call that will activate a version of a policy, after creating it or    *)
(* not.                                                                     *)
PolicyCall(step, op, table, version, rows) ==
  [step |-> step, op |-> op, table |-> table, version |-> version, rows |-> rows]

CallSet ==
  [step : {"idle", "authorized"}]
    \cup [step : {"user"}, op : {"create", "activate", "deactivate", "change_role"},
          user : Users, role : Roles]
    \cup [step : {"policy", "locking", "locked"}, op : {"create", "activate"},
          table : Tables, version : 1 .. MaxRows + 1, rows : SUBSET (1 .. MaxRows)]

(* A call goes on, or ends, and writes nothing.                             *)
GoTo(c, call) ==
  /\ calls' = [calls EXCEPT ![c] = call]
  /\ UNCHANGED <<users, policies, overtaken, history>>

(* A call ends with a commit that overtakes others.                         *)
EndOvertaking(c, others) ==
  /\ calls' = [calls EXCEPT ![c] = Idle]
  /\ overtaken' = (overtaken \cup others) \ {c}

(* One administrator and one operator is the least to begin with.           *)
Init ==
  /\ users \in [Users -> UserSet]
  /\ \E u \in Users : IsAdmin(u)
  /\ policies = [t \in Tables |-> <<>>]
  /\ calls = [c \in Calls |-> Idle]
  /\ overtaken = {}
  /\ revokedTwice = FALSE
  /\ switchedTwice = {}

------------------------------------------------------------------------------
(* The dependency get_current_admin: some active administrator calls.       *)
get_current_admin(c) ==
  /\ calls[c] = Idle
  /\ \E u \in Users : IsAdmin(u)
  /\ GoTo(c, Authorized)

(* A call is answered with an error, or its process dies.                   *)
Fail(c) ==
  /\ calls[c] # Idle
  /\ EndOvertaking(c, {})
  /\ UNCHANGED <<users, policies, history>>

------------------------------------------------------------------------------
(* Users                                                                    *)

OtherAdmins(u) == {v \in Users : v # u /\ IsAdmin(v)}

(* A column that has its value is not written: nothing is left of the call  *)
(* but its audit log.                                                       *)
create_internal_user(c) ==
  \E u \in Users, r \in Roles :
    /\ calls[c] = Authorized
    /\ users[u] = NoUser
    /\ GoTo(c, UserCall("create", u, r))

(* Mutant of activate_internal_user: whether there is a user is not asked.  *)
ActivateUnknown(c) ==
  \E u \in Users, r \in Roles :
    /\ calls[c] = Authorized
    /\ ~ users[u].active
    /\ GoTo(c, UserCall("activate", u, r))

activate_internal_user(c) ==
  \E u \in Users :
    /\ calls[c] = Authorized
    /\ users[u] # NoUser /\ ~ users[u].active
    /\ GoTo(c, UserCall("activate", u, users[u].role))

(* Mutant of deactivate_internal_user: the user counts too.                 *)
DeactivateCountingAll(c) ==
  \E u \in Users :
    /\ calls[c] = Authorized
    /\ users[u] # NoUser /\ users[u].active
    /\ IsAdmin(u) => {v \in Users : IsAdmin(v)} # {}
    /\ GoTo(c, UserCall("deactivate", u, users[u].role))

(* The last active administrator is not deactivated ...                     *)
deactivate_internal_user(c) ==
  \E u \in Users :
    /\ calls[c] = Authorized
    /\ users[u] # NoUser /\ users[u].active
    /\ IsAdmin(u) => OtherAdmins(u) # {}
    /\ GoTo(c, UserCall("deactivate", u, users[u].role))

(* ... nor given another role.                                              *)
change_user_role(c) ==
  \E u \in Users, r \in Roles :
    /\ calls[c] = Authorized
    /\ users[u] # NoUser /\ users[u].role # r
    /\ (IsAdmin(u) /\ r # "admin") => OtherAdmins(u) # {}
    /\ GoTo(c, UserCall("change_role", u, r))

UserCalls == {c \in Calls : calls[c].step = "user"}

(* Whether the call is to make an administrator something else.             *)
Revokes(call) ==
  /\ call.op = "deactivate" \/ (call.op = "change_role" /\ call.role # "admin")
  /\ IsAdmin(call.user)

Written(user, call) ==
  CASE call.op = "create" -> [role |-> call.role, active |-> TRUE]
    [] call.op = "activate" -> [user EXCEPT !.active = TRUE]
    [] call.op = "deactivate" -> [user EXCEPT !.active = FALSE]
    [] call.op = "change_role" -> [user EXCEPT !.role = call.role]

(* A user created in the meantime violates the unique email.  A history     *)
(* marks the revocations that have not seen this one.                       *)
CommitUser(c) ==
  LET call == calls[c] IN
  /\ c \in UserCalls
  /\ call.op = "create" => users[call.user] = NoUser
  /\ users' = [users EXCEPT ![call.user] = Written(@, call)]
  /\ EndOvertaking(c, IF Revokes(call) THEN UserCalls ELSE {})
  /\ revokedTwice' = (revokedTwice \/ (Revokes(call) /\ c \in overtaken))
  /\ UNCHANGED <<policies, switchedTwice>>

------------------------------------------------------------------------------
(* Policies                                                                 *)

(* The next version is computed ...                                         *)
Create(c, t) ==
  /\ calls[c] = Authorized
  /\ Len(policies[t]) < MaxRows
  /\ \E max_ver \in Versions(t) \cup {0} :
       /\ \A v \in Versions(t) : v <= max_ver
       /\ GoTo(c, PolicyCall("policy", "create", t, max_ver + 1, {}))

(* ... or an old one is found.                                              *)
Activate(c, t) ==
  /\ calls[c] = Authorized
  /\ \E v \in Versions(t) : GoTo(c, PolicyCall("policy", "activate", t, v, {}))

create_dispatch_policy(c) == Create(c, "dispatch")
activate_dispatch_policy_version(c) == Activate(c, "dispatch")
create_sla_policy(c) == Create(c, "sla")
activate_sla_policy_version(c) == Activate(c, "sla")

(* UPDATE ... WHERE is_active: the statement finds the rows that are active *)
(* in its snapshot,                                                         *)
FindActive(c) ==
  LET x == calls[c] IN
  /\ x.step = "policy"
  /\ GoTo(c, PolicyCall("locking", x.op, x.table, x.version, Active(x.table)))

Switching(table, steps) ==
  {c \in Calls : calls[c].step \in steps /\ calls[c].table = table}

HeldByOthers(c) ==
  UNION {calls[d].rows : d \in Switching(calls[c].table, {"locked"}) \ {c}}

(* waits for the transactions that hold them, and updates those that are    *)
(* active still.                                                            *)
LockActive(c) ==
  LET x == calls[c] IN
  /\ x.step = "locking"
  /\ x.rows \cap HeldByOthers(c) = {}
  /\ GoTo(c, PolicyCall("locked", x.op, x.table, x.version,
                        x.rows \cap Active(x.table)))

(* The rows a call leaves: those it holds inactive, and its version active. *)
Deactivated(rows, held) ==
  [i \in DOMAIN rows |-> IF i \in held THEN [rows[i] EXCEPT !.active = FALSE] ELSE rows[i]]

Activated(rows, call) ==
  IF call.op = "create" THEN Append(rows, [version |-> call.version, active |-> TRUE])
  ELSE [i \in DOMAIN rows |->
          IF rows[i].version = call.version THEN [rows[i] EXCEPT !.active = TRUE] ELSE rows[i]]

(* Mutant of Switched: the version is activated before the others are       *)
(* deactivated.                                                             *)
SwitchedBackwards(rows, call) ==
  LET activated == Activated(rows, call) IN
  Deactivated(activated, call.rows \cup
                {i \in DOMAIN activated : activated[i].version = call.version})

Switched(rows, call) == Activated(Deactivated(rows, call.rows), call)

Refused(call) == call.op = "create" /\ call.version \in Versions(call.table)

(* The insertion may violate the unique version; else all is committed.     *)
CommitPolicy(c) ==
  LET call == calls[c] IN
  /\ call.step = "locked"
  /\ ~ Refused(call)
  /\ IF call.op = "create" THEN Len(policies[call.table]) < MaxRows
     ELSE call.version \notin HeldByOthers(c)
  /\ policies' = [policies EXCEPT ![call.table] = Switched(@, call)]
  /\ EndOvertaking(c, Switching(call.table, {"locking", "locked"}))
  /\ switchedTwice' = IF c \in overtaken THEN switchedTwice \cup {call.table}
                      ELSE switchedTwice
  /\ UNCHANGED <<users, revokedTwice>>

------------------------------------------------------------------------------
Step(c) ==
  \/ get_current_admin(c) \/ Fail(c)
  \/ create_internal_user(c) \/ activate_internal_user(c)
  \/ deactivate_internal_user(c) \/ change_user_role(c) \/ CommitUser(c)
  \/ create_dispatch_policy(c) \/ activate_dispatch_policy_version(c)
  \/ create_sla_policy(c) \/ activate_sla_policy_version(c)
  \/ FindActive(c) \/ LockActive(c) \/ CommitPolicy(c)

Next == \E c \in Calls : Step(c)

Spec == Init /\ [][Next]_vars

------------------------------------------------------------------------------
(* Every variable has its type.                                             *)
TypeOK ==
  /\ users \in [Users -> UserSet]
  /\ \A t \in Tables : policies[t] \in Seq([version : Nat, active : BOOLEAN])
  /\ DOMAIN policies = Tables
  /\ calls \in [Calls -> CallSet]
  /\ overtaken \subseteq Calls
  /\ revokedTwice \in BOOLEAN
  /\ switchedTwice \subseteq Tables

(* An active administrator is left, unless two revocations that had not     *)
(* seen each other were both committed.                                     *)
AdminRemains == revokedTwice \/ \E u \in Users : IsAdmin(u)

(* Each version of a policy is created once and none is skipped; from the   *)
(* first version on some version is in effect, and no other is, unless two  *)
(* calls that had not seen each other both activated one.                   *)
OnePolicyInEffect ==
  \A t \in Tables :
    /\ \A i \in DOMAIN policies[t] : policies[t][i].version = i
    /\ policies[t] # <<>> => Active(t) # {}
    /\ t \notin switchedTwice => Cardinality(Active(t)) <= 1
=============================================================================
