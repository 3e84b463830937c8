--------------------------- MODULE Administration ---------------------------
(***************************************************************************)
(* Registration and the administrator role: auth.Service.Register,         *)
(* admin.Service.SetRole, license.RegistrationAllowed, the promotion at    *)
(* start-up in store.Migrate, and the pool of database connections they    *)
(* run on.                                                                 *)
(*                                                                         *)
(* A transaction keeps its connection until it ends, also while it waits   *)
(* for a row or an advisory lock; a statement outside a transaction needs  *)
(* a connection for the moment it runs.  Locks are not variables: who      *)
(* holds one follows from where the callers are.                           *)
(***************************************************************************)
EXTENDS Integers, FiniteSets

CONSTANTS
    Callers,        \* requests that may run at the same time
    MaxUsers,       \* bound on the users registered
    MaxConns,       \* connections of the pool: 8 in store/postgres.go
    Legacy          \* users a database of an older release may bring along

ASSUME AdministrationConstants ==
    MaxUsers \in Nat /\ MaxConns \in Nat \ {0} /\ Legacy \in 0 .. MaxUsers

VARIABLES
    role,       \* users.role; users are numbered in the order of created_at
    openToAll,  \* config AllowRegistration
    call        \* what each request is doing

administrationVars == <<role, openToAll, call>>

-----------------------------------------------------------------------------
Users     == 1 .. MaxUsers
Roles     == {"user", "admin"}
NobodyYet == "nobody"

Resting == [at |-> "idle", actor |-> 0, target |-> 0, role |-> "user"]

Registered == {u \in Users : role[u] # NobodyYet}
Admins     == {u \in Users : role[u] = "admin"}

\* Register waits at its advisory lock 872014201 and holds it up to the
\* commit; SetRole holds the row of its target and, when it takes the role
\* away, the advisory lock 741852963.
RegisterSteps == {"register", "defaultQuota", "insert", "commit"}
HoldsRegister == {"defaultQuota", "insert", "commit"}
SetRoleSteps  == {"lockRow", "lockRole", "countAdmins", "setRole"}
HoldsRow      == {"lockRole", "countAdmins", "setRole"}

AdministrationTypeOK ==
    /\ role \in [Users -> Roles \cup {NobodyYet}]
    /\ openToAll \in BOOLEAN
    /\ call \in [Callers ->
           [at : {"idle", "begin", "beginSetRole"} \cup RegisterSteps \cup SetRoleSteps,
            actor : 0 .. MaxUsers, target : 0 .. MaxUsers, role : Roles]]
    /\ \A u \in Registered : \A v \in 1 .. u : v \in Registered
    /\ \A c, d \in Callers : c # d =>
         /\ ~(call[c].at \in HoldsRegister /\ call[d].at \in HoldsRegister)
         /\ call[c].at \in HoldsRow /\ call[d].at \in HoldsRow =>
                call[c].target # call[d].target

\* Migrate: without an administrator the earliest user becomes one.
Promoted(roles) ==
    IF \E u \in Users : roles[u] = "admin" THEN roles
    ELSE [u \in Users |-> IF u = 1 /\ roles[u] # NobodyYet THEN "admin" ELSE roles[u]]

AdministrationInit ==
    /\ \E n \in {0, Legacy} :
         role = Promoted([u \in Users |-> IF u <= n THEN "user" ELSE NobodyYet])
    /\ openToAll \in BOOLEAN
    /\ call = [c \in Callers |-> Resting]

-----------------------------------------------------------------------------
(* Connections and locks *)

InTransaction == {c \in Callers : call[c].at \in RegisterSteps \cup SetRoleSteps}

\* pgxpool: a connection is acquired when one of MaxConns is free.
Available == Cardinality(InTransaction) < MaxConns

RegisterUnguarded == TRUE                                    \* mutant
RegisterUnlocked == \A c \in Callers : call[c].at \notin HoldsRegister

RowUnlocked(u) == \A c \in Callers : call[c].at \in HoldsRow => call[c].target # u

\* setRole holds the lock only if it takes the role away.
HoldsRoleLockFirst(c) ==                                     \* mutant
    call[c].at \in {"lockRow", "countAdmins", "setRole"} /\ call[c].role = "user"

HoldsRoleLock(c) ==
    \/ call[c].at = "countAdmins"
    \/ call[c].at = "setRole" /\ call[c].role = "user" /\ role[call[c].target] = "admin"

RoleUnlocked == \A c \in Callers : ~HoldsRoleLock(c)

Step(c, step) == call' = [call EXCEPT ![c].at = step]
Reply(c)     == call' = [call EXCEPT ![c] = Resting]

-----------------------------------------------------------------------------
(* Register *)

\* RegistrationAllowed counts the users before the transaction begins.
RegistrationAllowed == openToAll \/ Registered = {}

Register(c) ==
    /\ call[c] = Resting /\ Available
    /\ RegistrationAllowed
    /\ Step(c, "begin")
    /\ UNCHANGED <<role, openToAll>>

BeginRegister(c) ==
    /\ call[c].at = "begin" /\ Available
    /\ Step(c, "register")
    /\ UNCHANGED <<role, openToAll>>

LockRegister(c) ==
    /\ call[c].at = "register" /\ RegisterUnlocked
    /\ Step(c, "defaultQuota")
    /\ UNCHANGED <<role, openToAll>>

\* defaultQuotaBytes asks s.db, not the transaction: a second connection.
defaultQuotaBytes(c) ==
    /\ call[c].at = "defaultQuota" /\ Available
    /\ Step(c, "insert")
    /\ UNCHANGED <<role, openToAll>>

\* insert into users: the role is decided by what is committed at this moment.
RoleOfNew == IF Admins # {} THEN "user" ELSE "admin"

InsertUser(c) ==
    /\ call[c].at = "insert"
    /\ Registered # Users
    /\ call' = [call EXCEPT ![c].at = "commit", ![c].role = RoleOfNew]
    /\ UNCHANGED <<role, openToAll>>

CommitRegister(c) ==
    /\ call[c].at = "commit"
    /\ \E u \in Users :
         /\ u \notin Registered /\ \A v \in 1 .. u - 1 : v \in Registered
         /\ role' = [role EXCEPT ![u] = call[c].role]
    /\ Reply(c)
    /\ UNCHANGED openToAll

-----------------------------------------------------------------------------
(* SetRole *)

\* RequireAdmin and Handler.SetRole: the role of the actor was read when the
\* request came in.
SetRole(c) ==
    /\ call[c] = Resting /\ Available
    /\ \E actor \in Admins, u \in Registered, r \in Roles :
         call' = [call EXCEPT ![c] = [at |-> "beginSetRole", actor |-> actor,
                                      target |-> u, role |-> r]]
    /\ UNCHANGED <<role, openToAll>>

BeginSetRole(c) ==
    /\ call[c].at = "beginSetRole" /\ Available
    /\ Step(c, "lockRow")
    /\ UNCHANGED <<role, openToAll>>

\* select role ... for update
LockRow(c) ==
    /\ call[c].at = "lockRow" /\ RowUnlocked(call[c].target)
    /\ Step(c, IF role[call[c].target] = "admin" /\ call[c].role = "user"
               THEN "lockRole" ELSE "setRole")
    /\ UNCHANGED <<role, openToAll>>

LockRole(c) ==
    /\ call[c].at = "lockRole" /\ RoleUnlocked
    /\ Step(c, "countAdmins")
    /\ UNCHANGED <<role, openToAll>>

\* adminCount > 1; the target is one of those counted.
AnyRemain(u) == Admins # {}                                  \* mutant
OthersRemain(u) == Admins \ {u} # {}

CountAdmins(c) ==
    /\ call[c].at = "countAdmins"
    /\ IF OthersRemain(call[c].target) /\ call[c].actor # call[c].target
       THEN Step(c, "setRole") ELSE Reply(c)
    /\ UNCHANGED <<role, openToAll>>

CommitRole(c) ==
    /\ call[c].at = "setRole"
    /\ role' = [role EXCEPT ![call[c].target] = call[c].role]
    /\ Reply(c)
    /\ UNCHANGED openToAll

-----------------------------------------------------------------------------
\* A statement or a commit fails, or the client goes away: rollback.
Rollback(c) ==
    /\ call[c] # Resting
    /\ Reply(c)
    /\ UNCHANGED <<role, openToAll>>

\* The server stops, and Migrate runs before it serves again.
Restart ==
    /\ call' = [c \in Callers |-> Resting]
    /\ role' = Promoted(role)
    /\ UNCHANGED openToAll

Proceed(c) ==
    \/ BeginRegister(c) \/ LockRegister(c) \/ defaultQuotaBytes(c)
    \/ InsertUser(c) \/ CommitRegister(c)
    \/ BeginSetRole(c) \/ LockRow(c) \/ LockRole(c) \/ CountAdmins(c) \/ CommitRole(c)

AdministrationNext ==
    \/ \E c \in Callers : Register(c) \/ SetRole(c) \/ Proceed(c) \/ Rollback(c)
    \/ Restart

AdministrationSpec == AdministrationInit /\ [][AdministrationNext]_administrationVars

-----------------------------------------------------------------------------
(* Properties *)

\* What is committed is what the same requests would have done one after the
\* other (Register's insert, SetRole's count under its locks): people join in
\* turn, the first to join is an administrator and nobody else by joining, and
\* of two administrators who dismiss each other one remains, although the
\* requests overlap, fail or are cut off by a restart.
InTurn == INSTANCE Appointments WITH MaxPeople <- MaxUsers, standing <- role

RolesChangeInTurn == InTurn!AppointmentsSpec

\* Somebody can always administer the server: registrations, promotions and
\* demotions that overlap, fail or are cut off never leave it without an
\* administrator (Register's insert, SetRole's count under its locks).
AdminRemains == Registered # {} => Admins # {}

\* Requests may wait for one another, but not in a circle - except that
\* registrations which hold all connections wait for one more, which
\* defaultQuotaBytes takes outside its transaction.
NoStandstill ==
    \/ \A c \in Callers : call[c] = Resting
    \/ \E c \in Callers : call[c].at = "insert" /\ Registered = Users
    \/ \E c \in Callers : ENABLED Proceed(c)
    \/ ~Available /\ \A c \in InTransaction : call[c].at \in {"register", "defaultQuota"}
=============================================================================
