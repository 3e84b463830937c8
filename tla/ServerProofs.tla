---------------------------- MODULE ServerProofs ----------------------------
(***************************************************************************)
(* Proofs about the modules of the server that share nothing but the       *)
(* process they run in, one part for each: Administration and Quota, for   *)
(* any number of requests, users, connections, files and batches; Links,   *)
(* for any number of visits and any link an owner may create; WebDAV, for  *)
(* any number of clients and paths and any life of a remembered            *)
(* credential; Drives, for any number of people, entries and requests.  At *)
(* the end, the types of whichever of them runs.                           *)
(***************************************************************************)
EXTENDS MCServer, AccountsProofs, Sums, TLAPS

(***************************************************************************)
(* Administration: why an administrator remains.  A demotion counts the    *)
(* others once it holds the lock of roles, and the next demotion may count *)
(* only when that lock is free; but the lock is held by those alone that   *)
(* take a role away, so it has to be shown that the role a transaction     *)
(* found is still there: the row is locked.  A registration that inserted  *)
(* a mere user has seen an administrator, and there has been one since.    *)
(***************************************************************************)

\* A request to set a role names a registered user, and one that waits for or
\* has passed the lock of roles takes the role away from an administrator.
TargetsKnown ==
    \A c \in Callers :
        /\ call[c].at \in {"beginSetRole"} \cup SetRoleSteps => call[c].target \in Registered
        /\ call[c].at \in {"lockRole", "countAdmins"} =>
               role[call[c].target] = "admin" /\ call[c].role = "user"

\* One demotion at a time is between counting and committing, and others than
\* its target are administrators when it has counted.
RoleLockExcludes ==
    \A c \in Callers : HoldsRoleLock(c) =>
        /\ \A d \in Callers \ {c} : ~HoldsRoleLock(d)
        /\ call[c].at = "setRole" => OthersRemain(call[c].target)

\* A user that was inserted as a mere user has seen an administrator.
InsertedBesideAdmin ==
    \A c \in Callers : call[c].at = "commit" /\ call[c].role = "user" => Admins # {}

AdministrationInv ==
    /\ AdministrationTypeOK
    /\ TargetsKnown
    /\ RoleLockExcludes
    /\ InsertedBesideAdmin
    /\ AdminRemains

-----------------------------------------------------------------------------
\* Nobody is registered, or the earliest user is the administrator.
LEMMA AdministrationInvInit == AdministrationInit => AdministrationInv
<1> SUFFICES ASSUME AdministrationInit PROVE AdministrationInv
  OBVIOUS
<1> USE AdministrationConstants
<1>1. PICK n \in {0, Legacy} :
        role = Promoted([u \in Users |-> IF u <= n THEN "user" ELSE NobodyYet])
  BY DEF AdministrationInit
<1>2. n \in 0 .. MaxUsers
  BY <1>1
<1>3. role = [u \in Users |-> IF u <= n THEN IF u = 1 THEN "admin" ELSE "user" ELSE NobodyYet]
  BY <1>1, <1>2 DEF Promoted, Users, NobodyYet
<1>4. /\ role \in [Users -> Roles \cup {NobodyYet}]
      /\ Registered = 1 .. n
      /\ n # 0 => 1 \in Admins
  BY <1>2, <1>3 DEF Users, Roles, NobodyYet, Registered, Admins
<1>5. AdministrationTypeOK
  BY <1>2, <1>4 DEF AdministrationTypeOK, AdministrationInit, Resting, Roles, HoldsRegister,
     HoldsRow
<1>6. TargetsKnown /\ RoleLockExcludes /\ InsertedBesideAdmin
  BY DEF AdministrationInit, TargetsKnown, RoleLockExcludes, InsertedBesideAdmin, Resting,
     SetRoleSteps, HoldsRoleLock
<1>7. AdminRemains
  BY <1>2, <1>4 DEF AdminRemains
<1> QED
  BY <1>5, <1>6, <1>7 DEF AdministrationInv

-----------------------------------------------------------------------------
(* The steps that leave the roles alone: what is said of the roles stays,   *)
(* and of the calls only the one that moves matters.                        *)

CallRecord ==
    [at : {"idle", "begin", "beginSetRole"} \cup RegisterSteps \cup SetRoleSteps,
     actor : 0 .. MaxUsers, target : 0 .. MaxUsers, role : Roles]

\* A call may move if it takes no lock of registrations or rows that another has.
LEMMA CallMoves ==
    ASSUME AdministrationTypeOK, NEW c \in Callers, NEW work \in CallRecord,
           call' = [call EXCEPT ![c] = work], UNCHANGED <<role, openToAll>>,
           work.at \in HoldsRegister => call[c].at \in HoldsRegister \/ RegisterUnlocked,
           work.at \in HoldsRow =>
               \/ call[c].at \in HoldsRow /\ call[c].target = work.target
               \/ RowUnlocked(work.target)
    PROVE  AdministrationTypeOK'
<1>1. call \in [Callers -> CallRecord] /\ call' \in [Callers -> CallRecord]
  BY DEF AdministrationTypeOK, CallRecord
<1>2. call'[c] = work /\ \A d \in Callers \ {c} : call'[d] = call[d]
  BY <1>1
<1>3. ASSUME NEW d \in Callers, NEW e \in Callers, d # e
      PROVE  /\ ~(call'[d].at \in HoldsRegister /\ call'[e].at \in HoldsRegister)
             /\ call'[d].at \in HoldsRow /\ call'[e].at \in HoldsRow =>
                    call'[d].target # call'[e].target
  <2>1. CASE d # c /\ e # c
    BY <1>2, <1>3, <2>1 DEF AdministrationTypeOK
  <2>2. CASE d = c
    BY <1>2, <1>3, <2>2 DEF AdministrationTypeOK, RegisterUnlocked, RowUnlocked
  <2>3. CASE e = c
    BY <1>2, <1>3, <2>3 DEF AdministrationTypeOK, RegisterUnlocked, RowUnlocked
  <2> QED
    BY <2>1, <2>2, <2>3
<1>4. role' \in [Users -> Roles \cup {NobodyYet}] /\ openToAll' \in BOOLEAN
  BY DEF AdministrationTypeOK
<1>5. \A u \in Registered' : \A v \in 1 .. u : v \in Registered'
  BY DEF AdministrationTypeOK, Registered
<1> QED
  BY <1>1, <1>3, <1>4, <1>5 DEF AdministrationTypeOK, CallRecord

\* The types, with the locks of registrations and rows.
LEMMA QuietTypes ==
    ASSUME AdministrationInv, NEW c \in Callers, UNCHANGED role,
           \/ Register(c) \/ SetRole(c) \/ BeginRegister(c) \/ LockRegister(c)
           \/ defaultQuotaBytes(c) \/ InsertUser(c) \/ BeginSetRole(c) \/ LockRow(c)
           \/ LockRole(c) \/ CountAdmins(c) \/ Rollback(c)
    PROVE  AdministrationTypeOK'
<1>1. AdministrationTypeOK /\ call[c] \in CallRecord
  BY DEF AdministrationInv, AdministrationTypeOK, CallRecord
<1>2. UNCHANGED openToAll
  BY DEF Register, SetRole, BeginRegister, LockRegister, defaultQuotaBytes, InsertUser,
     BeginSetRole, LockRow, LockRole, CountAdmins, Rollback
<1>3. Resting \in CallRecord
  BY AdministrationConstants DEF CallRecord, Resting, Roles
<1> DEFINE at(step) == [call[c] EXCEPT !.at = step]
<1>4. ASSUME NEW step \in {"begin", "beginSetRole"} \cup RegisterSteps \cup SetRoleSteps,
             Step(c, step),
             step \in HoldsRegister => call[c].at \in HoldsRegister \/ RegisterUnlocked,
             step \in HoldsRow => call[c].at \in HoldsRow \/ RowUnlocked(call[c].target)
      PROVE  AdministrationTypeOK'
  <2>1. at(step) \in CallRecord /\ at(step).at = step /\ at(step).target = call[c].target
    BY <1>1 DEF CallRecord
  <2>2. call' = [call EXCEPT ![c] = at(step)]
    BY <1>4 DEF Step
  <2> HIDE DEF at
  <2> QED
    BY <1>1, <1>2, <1>4, <2>1, <2>2, CallMoves
<1>5. ASSUME Reply(c) PROVE AdministrationTypeOK'
  BY <1>1, <1>2, <1>3, <1>5, CallMoves DEF Reply, Resting, HoldsRegister, HoldsRow
<1> HIDE DEF at
<1> USE DEF RegisterSteps, SetRoleSteps, HoldsRegister, HoldsRow
<1>6. CASE Register(c) \/ BeginRegister(c) \/ LockRegister(c) \/ defaultQuotaBytes(c)
  BY <1>4, <1>6 DEF Register, BeginRegister, LockRegister, defaultQuotaBytes
<1>7. CASE SetRole(c)
  <2>1. PICK actor \in Admins, u \in Registered, r \in Roles :
          call' = [call EXCEPT ![c] = [at |-> "beginSetRole", actor |-> actor,
                                       target |-> u, role |-> r]]
    BY <1>7 DEF SetRole
  <2>2. [at |-> "beginSetRole", actor |-> actor, target |-> u, role |-> r] \in CallRecord
    BY AdministrationConstants DEF CallRecord, Admins, Registered, Users
  <2> QED
    BY <1>1, <1>2, <2>1, <2>2, CallMoves
<1>8. CASE InsertUser(c)
  <2> DEFINE work == [call[c] EXCEPT !.at = "commit", !.role = RoleOfNew]
  <2>1. work \in CallRecord /\ work.at = "commit"
    BY <1>1 DEF CallRecord, RoleOfNew, Roles
  <2>2. call[c].at = "insert" /\ call' = [call EXCEPT ![c] = work]
    BY <1>8 DEF InsertUser
  <2> HIDE DEF work
  <2> QED
    BY <1>1, <1>2, <2>1, <2>2, CallMoves
<1>9. CASE BeginSetRole(c) \/ LockRow(c) \/ LockRole(c)
  BY <1>4, <1>9 DEF BeginSetRole, LockRow, LockRole
<1>10. CASE CountAdmins(c)
  BY <1>4, <1>5, <1>10 DEF CountAdmins
<1>11. CASE Rollback(c)
  BY <1>5, <1>11 DEF Rollback
<1> QED
  BY <1>6, <1>7, <1>8, <1>9, <1>10, <1>11

\* The names and the locks of roles, and what InsertUser has seen.
LEMMA QuietLocks ==
    ASSUME AdministrationInv, NEW c \in Callers, UNCHANGED role,
           \/ Register(c) \/ SetRole(c) \/ BeginRegister(c) \/ LockRegister(c)
           \/ defaultQuotaBytes(c) \/ InsertUser(c) \/ BeginSetRole(c) \/ LockRow(c)
           \/ LockRole(c) \/ CountAdmins(c) \/ Rollback(c)
    PROVE  TargetsKnown' /\ RoleLockExcludes' /\ InsertedBesideAdmin' /\ AdminRemains'
<1> USE AdministrationConstants DEF AdministrationInv, AdministrationTypeOK, RegisterSteps,
        SetRoleSteps, HoldsRow, Roles, Registered, Admins,
        TargetsKnown, RoleLockExcludes, InsertedBesideAdmin, AdminRemains, HoldsRoleLock,
        OthersRemain
<1>1. CASE Register(c)
  BY <1>1 DEF Register, Step
<1>2. CASE SetRole(c)
  BY <1>2 DEF SetRole, Users
<1>3. CASE BeginRegister(c)
  BY <1>3 DEF BeginRegister, Step
<1>4. CASE LockRegister(c)
  BY <1>4 DEF LockRegister, Step
<1>5. CASE defaultQuotaBytes(c)
  BY <1>5 DEF defaultQuotaBytes, Step
<1>6. CASE InsertUser(c)
  BY <1>6 DEF InsertUser, RoleOfNew
<1>7. CASE BeginSetRole(c)
  BY <1>7 DEF BeginSetRole, Step
<1>8. CASE LockRow(c)
  BY <1>8 DEF LockRow, Step, RowUnlocked
<1>9. CASE LockRole(c)
  BY <1>9 DEF LockRole, Step, RoleUnlocked
<1>10. CASE CountAdmins(c)
  BY <1>10 DEF CountAdmins, Step, Reply, Resting
<1>11. CASE Rollback(c)
  BY <1>11 DEF Rollback, Reply, Resting
<1> QED
  BY <1>1, <1>2, <1>3, <1>4, <1>5, <1>6, <1>7, <1>8, <1>9, <1>10, <1>11

-----------------------------------------------------------------------------
(* The steps that change roles *)

\* The next user in order, with the role that InsertUser chose.
LEMMA CommitRegisterStep ==
    ASSUME AdministrationInv, NEW c \in Callers, CommitRegister(c)
    PROVE  AdministrationInv'
<1> USE AdministrationConstants DEF AdministrationInv
<1>1. PICK u \in Users :
         /\ u \notin Registered /\ \A v \in 1 .. u - 1 : v \in Registered
         /\ role' = [role EXCEPT ![u] = call[c].role]
  BY DEF CommitRegister
<1>2. call' = [call EXCEPT ![c] = Resting] /\ openToAll' = openToAll
  BY DEF CommitRegister, Reply
<1>3. Registered' = Registered \cup {u}
  BY <1>1 DEF Registered, AdministrationTypeOK, Roles, NobodyYet, Users
<1>4. /\ Admins' \in {Admins, Admins \cup {u}}
      /\ call[c].role = "admin" => u \in Admins'
      /\ \A v \in Registered : role'[v] = role[v]
  BY <1>1 DEF Admins, Registered, AdministrationTypeOK, Roles, NobodyYet, Users
<1>5. AdministrationTypeOK'
  <2>1. role' \in [Users -> Roles \cup {NobodyYet}]
    BY <1>1 DEF AdministrationTypeOK
  <2>2. \A w \in Registered' : \A v \in 1 .. w : v \in Registered'
    BY <1>1, <1>3 DEF AdministrationTypeOK, Users
  <2> QED
    BY <1>2, <2>1, <2>2 DEF AdministrationTypeOK, Resting, Roles, HoldsRegister, HoldsRow
<1>6. TargetsKnown'
  BY <1>2, <1>3, <1>4 DEF TargetsKnown, Resting, SetRoleSteps, AdministrationTypeOK
<1>7. \A d \in Callers : HoldsRoleLock(d)' => d # c /\ HoldsRoleLock(d)
  BY <1>2, <1>4 DEF HoldsRoleLock, Resting, TargetsKnown, SetRoleSteps, AdministrationTypeOK
<1>8. RoleLockExcludes'
  BY <1>2, <1>4, <1>7 DEF RoleLockExcludes, OthersRemain, AdministrationTypeOK
<1>9. InsertedBesideAdmin'
  BY <1>2, <1>4 DEF InsertedBesideAdmin, Resting, AdministrationTypeOK
<1>10. AdminRemains'
  <2>1. CASE call[c].role = "admin"
    BY <1>4, <2>1 DEF AdminRemains
  <2>2. CASE call[c].role = "user"
    BY <1>4, <2>2 DEF AdminRemains, InsertedBesideAdmin, CommitRegister
  <2> QED
    BY <2>1, <2>2 DEF AdministrationTypeOK, Roles
<1> QED
  BY <1>5, <1>6, <1>8, <1>9, <1>10

\* A demotion leaves the administrators that were counted; the roles that other
\* transactions have found stay, because their rows are locked.
LEMMA CommitRoleStep ==
    ASSUME AdministrationInv, NEW c \in Callers, CommitRole(c)
    PROVE  AdministrationInv'
<1> USE AdministrationConstants DEF AdministrationInv
<1> DEFINE u == call[c].target
<1>1. /\ call[c].at = "setRole" /\ openToAll' = openToAll
      /\ call' = [call EXCEPT ![c] = Resting]
      /\ role' = [role EXCEPT ![u] = call[c].role]
  BY DEF CommitRole, Reply
<1>2. u \in Registered /\ u \in Users /\ call[c].role \in Roles
  BY <1>1 DEF TargetsKnown, SetRoleSteps, Registered, AdministrationTypeOK
<1>3. /\ Registered' = Registered
      /\ \A v \in Users \ {u} : v \in Admins' <=> v \in Admins
      /\ u \in Admins' <=> call[c].role = "admin"
      /\ Admins' \subseteq Users
  BY <1>1, <1>2 DEF Registered, Admins, AdministrationTypeOK, Roles, NobodyYet, Users
<1>4. AdministrationTypeOK'
  <2>1. role' \in [Users -> Roles \cup {NobodyYet}]
    BY <1>1, <1>2 DEF AdministrationTypeOK
  <2> QED
    BY <1>1, <1>3, <2>1 DEF AdministrationTypeOK, Resting, Roles, HoldsRegister, HoldsRow
<1>5. \A d \in Callers \ {c} :
        call[d].at \in HoldsRow => call[d].target # u /\ role'[call[d].target] = role[call[d].target]
  BY <1>1, <1>2 DEF AdministrationTypeOK, HoldsRow
<1>6. TargetsKnown'
  BY <1>1, <1>3, <1>5 DEF TargetsKnown, Resting, SetRoleSteps, HoldsRow, AdministrationTypeOK
<1>7. \A d \in Callers : HoldsRoleLock(d)' => d # c /\ HoldsRoleLock(d)
  BY <1>1, <1>5 DEF HoldsRoleLock, Resting, HoldsRow, AdministrationTypeOK
<1>8. CASE call[c].role = "user" /\ role[u] = "admin"
  <2>1. HoldsRoleLock(c)
    BY <1>1, <1>8 DEF HoldsRoleLock
  <2>2. Admins' # {}
    BY <1>1, <1>3, <2>1 DEF RoleLockExcludes, OthersRemain, Admins
  <2>3. \A d \in Callers : ~HoldsRoleLock(d)'
    BY <1>7, <2>1 DEF RoleLockExcludes
  <2> QED
    BY <1>4, <1>6, <2>2, <2>3 DEF RoleLockExcludes, InsertedBesideAdmin, AdminRemains
<1>9. CASE ~(call[c].role = "user" /\ role[u] = "admin")
  <2>1. Admins \subseteq Admins'
    BY <1>2, <1>3, <1>9 DEF Admins, Roles
  <2>2. RoleLockExcludes'
    BY <1>1, <1>7, <2>1 DEF RoleLockExcludes, OthersRemain, AdministrationTypeOK
  <2>3. InsertedBesideAdmin' /\ AdminRemains'
    BY <1>1, <1>3, <2>1 DEF InsertedBesideAdmin, AdminRemains, Resting, AdministrationTypeOK
  <2> QED
    BY <1>4, <1>6, <2>2, <2>3
<1> QED
  BY <1>8, <1>9

\* Migrate finds an administrator, or nobody at all.
LEMMA RestartStep ==
    ASSUME AdministrationInv, Restart
    PROVE  AdministrationInv'
<1> USE AdministrationConstants DEF AdministrationInv
<1>1. role' = role
  <2>1. CASE Admins # {}
    BY <2>1 DEF Restart, Promoted, Admins
  <2>2. CASE Admins = {}
    <3>1. \A u \in Users : role[u] = NobodyYet
      BY <2>2 DEF AdminRemains, Registered
    <3> QED
      BY <2>2, <3>1 DEF Restart, Promoted, Admins, AdministrationTypeOK
  <2> QED
    BY <2>1, <2>2
<1>2. AdministrationTypeOK'
  BY <1>1 DEF Restart, Resting, AdministrationTypeOK, Registered, Roles, HoldsRegister, HoldsRow
<1>3. AdminRemains'
  BY <1>1 DEF AdminRemains, Registered, Admins
<1>4. TargetsKnown' /\ RoleLockExcludes' /\ InsertedBesideAdmin'
  BY DEF Restart, Resting, TargetsKnown, RoleLockExcludes, InsertedBesideAdmin, SetRoleSteps,
     HoldsRoleLock
<1> QED
  BY <1>2, <1>3, <1>4

-----------------------------------------------------------------------------
(* Theorems *)

LEMMA AdministrationInvStep ==
    AdministrationInv /\ [AdministrationNext]_administrationVars => AdministrationInv'
<1> SUFFICES ASSUME AdministrationInv, [AdministrationNext]_administrationVars
             PROVE  AdministrationInv'
  OBVIOUS
<1>1. ASSUME NEW c \in Callers, Register(c) \/ SetRole(c) \/ Rollback(c) \/ Proceed(c)
      PROVE  AdministrationInv'
  <2>1. CASE CommitRegister(c)
    BY <2>1, CommitRegisterStep
  <2>2. CASE CommitRole(c)
    BY <2>2, CommitRoleStep
  <2>3. CASE ~CommitRegister(c) /\ ~CommitRole(c)
    <3>1. UNCHANGED role
      BY <1>1, <2>3 DEF Register, SetRole, Rollback, Proceed, BeginRegister, LockRegister,
         defaultQuotaBytes, InsertUser, BeginSetRole, LockRow, LockRole, CountAdmins
    <3> QED
      BY <1>1, <2>3, <3>1, QuietTypes, QuietLocks DEF Proceed, AdministrationInv
  <2> QED
    BY <2>1, <2>2, <2>3
<1>2. CASE Restart
  BY <1>2, RestartStep
<1>3. CASE UNCHANGED administrationVars
  BY <1>3 DEF administrationVars, AdministrationInv, AdministrationTypeOK, TargetsKnown,
     RoleLockExcludes, InsertedBesideAdmin, AdminRemains, HoldsRoleLock, OthersRemain,
     Registered, Admins
<1> QED
  BY <1>1, <1>2, <1>3 DEF AdministrationNext

\* The inductive invariant holds in every reachable state.
THEOREM AdministrationInvariant == AdministrationSpec => []AdministrationInv
  BY AdministrationInvInit, AdministrationInvStep, PTL DEF AdministrationSpec

\* Types, the order of registration, and the advisory and row locks: one
\* registration at a time, one transaction for each row (service.go:94, 262).
THEOREM AdministrationTypesHold == AdministrationSpec => []AdministrationTypeOK
<1>1. AdministrationInv => AdministrationTypeOK
  BY DEF AdministrationInv
<1> QED
  BY <1>1, AdministrationInvariant, PTL

\* For any number of overlapping registrations and role changes, cut off
\* anywhere, there is an administrator once anybody is registered.
THEOREM AdministratorRemains == AdministrationSpec => []AdminRemains
<1>1. AdministrationInv => AdminRemains
  BY DEF AdministrationInv
<1> QED
  BY <1>1, AdministrationInvariant, PTL

-----------------------------------------------------------------------------
(* What commits is what the requests would have done one after the other,  *)
(* and somebody can go on.  Both need what holds from a registration's     *)
(* insert to its commit, for which it holds the advisory lock.             *)

\* A registration about to commit has a place left for it, and is the first
\* if it found nobody; a request that does nothing has nothing in hand.
SeatsKept ==
    \A c \in Callers :
        /\ call[c].at = "idle" => call[c] = Resting
        /\ call[c].at = "commit" => Registered # Users
        /\ call[c].at = "commit" /\ call[c].role = "admin" => Admins = {}

LEMMA SeatsInit == AdministrationInit => SeatsKept
BY DEF AdministrationInit, SeatsKept, Resting

\* The step of one request changes nothing in the hands of another.
LEMMA OthersWait ==
    ASSUME AdministrationInv, NEW c \in Callers, Register(c) \/ SetRole(c) \/ Rollback(c) \/ Proceed(c)
    PROVE  \A d \in Callers \ {c} : call'[d] = call[d]
<1>1. DOMAIN call = Callers
  BY DEF AdministrationInv, AdministrationTypeOK
<1> QED
  BY <1>1 DEF Register, SetRole, Rollback, Proceed, BeginRegister, LockRegister,
     defaultQuotaBytes, InsertUser, CommitRegister, BeginSetRole, LockRow, LockRole, CountAdmins,
     CommitRole, Step, Reply

\* Roles change when a request commits, and only then.
LEMMA RolesQuiet ==
    ASSUME NEW c \in Callers, Register(c) \/ SetRole(c) \/ Rollback(c) \/ Proceed(c),
           ~CommitRegister(c), ~CommitRole(c)
    PROVE  UNCHANGED role
BY DEF Register, SetRole, Rollback, Proceed, BeginRegister, LockRegister,
   defaultQuotaBytes, InsertUser, BeginSetRole, LockRow, LockRole, CountAdmins

\* A change of role is of somebody registered, and there is an administrator.
LEMMA RoleCommits ==
    ASSUME AdministrationInv, NEW c \in Callers, CommitRole(c)
    PROVE  /\ call[c].target \in Registered
           /\ Registered' = Registered /\ Admins # {}
           /\ role' = [role EXCEPT ![call[c].target] = call[c].role]
           /\ call[c].role \in Roles
<1>1. /\ call[c].target \in Registered /\ Admins # {} /\ role \in [Users -> Roles \cup {NobodyYet}]
      /\ call[c].role \in Roles
  BY DEF CommitRole, AdministrationInv, TargetsKnown, SetRoleSteps, AdminRemains,
     AdministrationTypeOK
<1>2. role' = [role EXCEPT ![call[c].target] = call[c].role]
  BY DEF CommitRole
<1>3. Registered' = Registered
  BY <1>1, <1>2 DEF Registered, Roles, NobodyYet
<1> QED
  BY <1>1, <1>2, <1>3

LEMMA SeatsStep ==
    AdministrationInv /\ SeatsKept /\ [AdministrationNext]_administrationVars => SeatsKept'
<1> SUFFICES ASSUME AdministrationInv, SeatsKept, [AdministrationNext]_administrationVars
             PROVE  SeatsKept'
  OBVIOUS
<1>0. /\ call \in [Callers -> [at : {"idle", "begin", "beginSetRole"} \cup RegisterSteps \cup SetRoleSteps,
                               actor : 0 .. MaxUsers, target : 0 .. MaxUsers, role : Roles]]
      /\ \A c, d \in Callers : c # d => ~(call[c].at = "commit" /\ call[d].at = "commit")
      /\ Admins = {} => Registered = {}
  BY DEF AdministrationInv, AdministrationTypeOK, HoldsRegister, AdminRemains
<1>1. ASSUME NEW c \in Callers, Register(c) \/ SetRole(c) \/ Rollback(c) \/ Proceed(c)
      PROVE  SeatsKept'
  <2>1. \A d \in Callers \ {c} : call'[d] = call[d]
    BY <1>1, OthersWait
  <2>2. CASE CommitRegister(c)
    <3>1. call'[c] = Resting /\ call[c].at = "commit"
      BY <1>0, <2>2 DEF CommitRegister, Reply
    <3>2. \A d \in Callers : call'[d].at # "commit"
      BY <1>0, <2>1, <3>1 DEF Resting
    <3> QED
      BY <2>1, <3>1, <3>2 DEF SeatsKept
  <2>3. CASE CommitRole(c)
    <3>1. call'[c] = Resting
      BY <1>0, <2>3 DEF CommitRole, Reply
    <3>2. Registered' = Registered /\ Admins # {}
      BY <2>3, RoleCommits
    <3>3. Users' = Users
      BY DEF Users
    <3> QED
      BY <2>1, <3>1, <3>2, <3>3 DEF SeatsKept, Resting
  <2>4. CASE ~CommitRegister(c) /\ ~CommitRole(c)
    <3>1. role' = role /\ Registered' = Registered /\ Admins' = Admins
      BY <1>1, <2>4, RolesQuiet DEF Registered, Admins
    <3>2. call'[c].at = "idle" => call'[c] = Resting
      <4>1. CASE Rollback(c)
        BY <1>0, <4>1 DEF Rollback, Reply
      <4>2. CASE Register(c) \/ SetRole(c)
        BY <1>0, <4>2 DEF Register, SetRole, Step
      <4>3. CASE Proceed(c)
        <5>1. CASE CountAdmins(c)
          BY <1>0, <5>1 DEF CountAdmins, Step, Reply
        <5>2. CASE ~CountAdmins(c)
          BY <1>0, <2>4, <4>3, <5>2 DEF Proceed, BeginRegister, LockRegister, defaultQuotaBytes,
             InsertUser, BeginSetRole, LockRow, LockRole, Step
        <5> QED
          BY <5>1, <5>2
      <4> QED
        BY <1>1, <4>1, <4>2, <4>3
    <3>3. call'[c].at = "commit" =>
            Registered # Users /\ (call'[c].role = "admin" => Admins = {})
      <4>1. CASE InsertUser(c)
        BY <1>0, <4>1 DEF InsertUser, RoleOfNew
      <4>2. CASE ~InsertUser(c)
        BY <1>0, <1>1, <2>4, <4>2 DEF Register, SetRole, Rollback, Proceed, BeginRegister, LockRegister,
           defaultQuotaBytes, BeginSetRole, LockRow, LockRole, CountAdmins, Step, Reply, Resting
      <4> QED
        BY <4>1, <4>2
    <3> QED
      BY <2>1, <3>1, <3>2, <3>3 DEF SeatsKept
  <2> QED
    BY <2>2, <2>3, <2>4
<1>2. CASE Restart
  BY <1>2 DEF Restart, SeatsKept, Resting
<1>3. CASE UNCHANGED administrationVars
  BY <1>3 DEF administrationVars, SeatsKept, Registered, Admins
<1> QED
  BY <1>1, <1>2, <1>3 DEF AdministrationNext

\* From a registration's insert to its commit the place it took stays its own,
\* and nobody else becomes the first (Register).
THEOREM SeatsHold == AdministrationSpec => [](AdministrationInv /\ SeatsKept)
BY AdministrationInvInit, AdministrationInvStep, SeatsInit, SeatsStep, PTL DEF AdministrationSpec

LEMMA InTurnNames ==
    InTurn!Persons = Users /\ InTurn!Serving = Admins /\ InTurn!Outside = Users \ Registered
BY DEF InTurn!Persons, InTurn!Serving, InTurn!Outside, Users, Admins, Registered, NobodyYet

LEMMA InTurnStarts == AdministrationInv => InTurn!AppointmentsInit
<1> SUFFICES ASSUME AdministrationInv PROVE InTurn!AppointmentsInit
  OBVIOUS
<1> USE AdministrationConstants
<1>1. /\ role \in [Users -> {"nobody", "user", "admin"}]
      /\ \A u \in Registered : \A v \in 1 .. u : v \in Registered
      /\ Registered # {} => Admins # {}
      /\ Registered \subseteq Users
  BY DEF AdministrationInv, AdministrationTypeOK, Roles, NobodyYet, AdminRemains, Registered
<1>2. ASSUME NEW p \in Users \ Registered, NEW q \in p .. MaxUsers PROVE q \in Users \ Registered
  BY <1>1, <1>2 DEF Users
<1> QED
  BY <1>1, <1>2, InTurnNames DEF InTurn!AppointmentsInit

LEMMA InTurnStep ==
    AdministrationInv /\ SeatsKept /\ [AdministrationNext]_administrationVars
        => [InTurn!AppointmentsNext]_role
<1> SUFFICES ASSUME AdministrationInv, SeatsKept, [AdministrationNext]_administrationVars, role' # role
             PROVE  InTurn!AppointmentsNext
  BY DEF InTurn!AppointmentsNext
<1>0. role \in [Users -> Roles \cup {NobodyYet}] /\ (Registered # {} => Admins # {})
  BY DEF AdministrationInv, AdministrationTypeOK, AdminRemains
<1>1. ASSUME NEW c \in Callers, CommitRegister(c) PROVE InTurn!AppointmentsNext
  <2>1. PICK u \in Users : /\ u \notin Registered /\ \A v \in 1 .. u - 1 : v \in Registered
                           /\ role' = [role EXCEPT ![u] = call[c].role]
    BY <1>1 DEF CommitRegister
  <2>2. call[c].role = IF Admins = {} THEN "admin" ELSE "user"
    <3>1. call[c].role \in Roles /\ call[c].at = "commit"
      BY <1>1 DEF CommitRegister, AdministrationInv, AdministrationTypeOK
    <3> QED
      BY <1>1, <3>1 DEF SeatsKept, Roles, AdministrationInv, InsertedBesideAdmin
  <2>3. InTurn!Join(u)
    BY <2>1, <2>2, InTurnNames DEF InTurn!Join
  <2> QED
    BY <2>3, InTurnNames DEF InTurn!AppointmentsNext
<1>2. ASSUME NEW c \in Callers, CommitRole(c) PROVE InTurn!AppointmentsNext
  <2> DEFINE u == call[c].target
  <2>1. /\ u \in Registered /\ role' = [role EXCEPT ![u] = call[c].role] /\ call[c].role \in Roles
        /\ u \in Users /\ role[u] \in Roles
    BY <1>0, <1>2, RoleCommits DEF Registered
  <2>2. role[u] # call[c].role
    BY <1>0, <2>1
  <2>3. CASE call[c].role = "admin"
    <3>1. InTurn!Appoint(u)
      BY <2>1, <2>2, <2>3 DEF InTurn!Appoint, Roles
    <3> QED
      BY <2>1, <3>1, InTurnNames DEF InTurn!AppointmentsNext
  <2>4. CASE call[c].role = "user"
    <3>1. role[u] = "admin" /\ u \in Admins
      BY <2>1, <2>2, <2>4 DEF Roles, Admins
    <3>2. HoldsRoleLock(c) /\ call[c].at = "setRole"
      BY <1>2, <2>4, <3>1 DEF CommitRole, HoldsRoleLock
    <3>3. Admins \ {u} # {}
      BY <3>2 DEF AdministrationInv, RoleLockExcludes, OthersRemain
    <3>4. InTurn!Dismiss(u)
      BY <2>1, <2>4, <3>1, <3>3, InTurnNames DEF InTurn!Dismiss
    <3> QED
      BY <2>1, <3>4, InTurnNames DEF InTurn!AppointmentsNext
  <2> QED
    BY <2>1, <2>3, <2>4 DEF Roles
<1>3. CASE Restart
  <2>1. role' = Promoted(role)
    BY <1>3 DEF Restart
  <2>2. CASE Admins # {}
    BY <2>1, <2>2 DEF Promoted, Admins
  <2>3. CASE Admins = {}
    <3>1. \A u \in Users : role[u] = NobodyYet
      BY <1>0, <2>3 DEF Registered
    <3> QED
      BY <1>0, <2>1, <3>1 DEF Promoted
  <2> QED
    BY <2>2, <2>3
<1>4. ASSUME NEW c \in Callers, Register(c) \/ SetRole(c) \/ Rollback(c) \/ Proceed(c)
      PROVE  InTurn!AppointmentsNext
  BY <1>1, <1>2, <1>4, RolesQuiet
<1> QED
  BY <1>3, <1>4 DEF AdministrationNext, administrationVars

\* Administration implements Appointments: each commit is what one request, run
\* alone at that moment, would have done (Register, SetRole, Migrate).
THEOREM RolesInTurn == AdministrationSpec => RolesChangeInTurn
<1>1. AdministrationSpec => InTurn!AppointmentsInit
  BY AdministrationInvInit, InTurnStarts DEF AdministrationSpec
<1> QED
  BY <1>1, SeatsHold, InTurnStep, PTL DEF AdministrationSpec, RolesChangeInTurn,
     InTurn!AppointmentsSpec

-----------------------------------------------------------------------------
(* Who can go on.  A request has the guard of its next step, and that is   *)
(* all that ENABLED asks for: there is a next state in which it took it.   *)

Able(c) ==
    \/ call[c].at \in {"begin", "beginSetRole", "defaultQuota"} /\ Available
    \/ call[c].at = "register" /\ RegisterUnlocked
    \/ call[c].at = "insert" /\ Registered # Users
    \/ call[c].at = "lockRow" /\ RowUnlocked(call[c].target)
    \/ call[c].at = "lockRole" /\ RoleUnlocked
    \/ call[c].at \in {"commit", "countAdmins", "setRole"}

\* NoStandstill, with the guards for ENABLED.
SomebodyIsAble ==
    \/ \A c \in Callers : call[c] = Resting
    \/ \E c \in Callers : call[c].at = "insert" /\ Registered = Users
    \/ \E c \in Callers : Able(c)
    \/ ~Available /\ \A c \in InTransaction : call[c].at \in {"register", "defaultQuota"}

\* What the request leaves behind: the roles, and what it does next.
FirstFree(u) == u \notin Registered /\ \A v \in 1 .. u - 1 : v \in Registered

RolesAfter(c) ==
    IF call[c].at = "commit" THEN [role EXCEPT ![CHOOSE u \in Users : FirstFree(u)] = call[c].role]
    ELSE IF call[c].at = "setRole" THEN [role EXCEPT ![call[c].target] = call[c].role]
    ELSE role

CallAfter(c) ==
    LET at(step) == [call EXCEPT ![c].at = step]
        done     == [call EXCEPT ![c] = Resting]
    IN  CASE call[c].at = "begin"        -> at("register")
          [] call[c].at = "register"     -> at("defaultQuota")
          [] call[c].at = "defaultQuota" -> at("insert")
          [] call[c].at = "insert"       -> [call EXCEPT ![c].at = "commit", ![c].role = RoleOfNew]
          [] call[c].at = "beginSetRole" -> at("lockRow")
          [] call[c].at = "lockRow"      ->
               at(IF role[call[c].target] = "admin" /\ call[c].role = "user"
                  THEN "lockRole" ELSE "setRole")
          [] call[c].at = "lockRole"     -> at("countAdmins")
          [] call[c].at = "countAdmins"  ->
               IF OthersRemain(call[c].target) /\ call[c].actor # call[c].target
               THEN at("setRole") ELSE done
          [] OTHER                       -> done

\* While somebody is missing, the first of them is the next to join.
LEMMA FreeSeat ==
    ASSUME Registered # Users
    PROVE  \E u \in Users : FirstFree(u)
<1> USE AdministrationConstants
<1>1. Users \ Registered \in SUBSET Nat /\ Users \ Registered # {}
  BY DEF Registered, Users
<1>2. PICK u \in Users \ Registered : \A v \in Users \ Registered : u <= v
  BY <1>1, LeastNumber
<1>3. \A v \in 1 .. u - 1 : v \in Registered
  BY <1>2 DEF Users
<1> QED
  BY <1>2, <1>3 DEF FirstFree

\* A request that is able has a step to take: whatever the state, the next one
\* is its own if it is that of RolesAfter and CallAfter.
LEMMA AbleProceeds ==
    ASSUME SeatsKept, NEW c \in Callers, Able(c),
           role' = RolesAfter(c), call' = CallAfter(c), openToAll' = openToAll
    PROVE  Proceed(c)
<1>1. CASE call[c].at = "begin"
  BY <1>1 DEF Able, RolesAfter, CallAfter, Proceed, BeginRegister, Step
<1>2. CASE call[c].at = "register"
  BY <1>2 DEF Able, RolesAfter, CallAfter, Proceed, LockRegister, Step
<1>3. CASE call[c].at = "defaultQuota"
  BY <1>3 DEF Able, RolesAfter, CallAfter, Proceed, defaultQuotaBytes, Step
<1>4. CASE call[c].at = "insert"
  BY <1>4 DEF Able, RolesAfter, CallAfter, Proceed, InsertUser
<1>5. CASE call[c].at = "commit"
  <2> DEFINE u == CHOOSE w \in Users : FirstFree(w)
  <2>1. u \in Users /\ FirstFree(u)
    BY <1>5, FreeSeat DEF SeatsKept
  <2>2. role' = [role EXCEPT ![u] = call[c].role] /\ Reply(c)
    BY <1>5 DEF RolesAfter, CallAfter, Reply
  <2> HIDE DEF u
  <2> QED
    BY <1>5, <2>1, <2>2 DEF FirstFree, Proceed, CommitRegister
<1>6. CASE call[c].at = "beginSetRole"
  BY <1>6 DEF Able, RolesAfter, CallAfter, Proceed, BeginSetRole, Step
<1>7. CASE call[c].at = "lockRow"
  BY <1>7 DEF Able, RolesAfter, CallAfter, Proceed, LockRow, Step
<1>8. CASE call[c].at = "lockRole"
  BY <1>8 DEF Able, RolesAfter, CallAfter, Proceed, LockRole, Step
<1>9. CASE call[c].at = "countAdmins"
  BY <1>9 DEF RolesAfter, CallAfter, Proceed, CountAdmins, Step, Reply
<1>10. CASE call[c].at = "setRole"
  BY <1>10 DEF RolesAfter, CallAfter, Proceed, CommitRole, Reply
<1> QED
  BY <1>1, <1>2, <1>3, <1>4, <1>5, <1>6, <1>7, <1>8, <1>9, <1>10 DEF Able

\* In a circle nobody waits: who holds the lock of roles waits for nothing, who
\* holds a row waits for that lock at most, and who holds the advisory lock of
\* registrations for a connection at most.
LEMMA WaitsEnd == AdministrationInv /\ SeatsKept => SomebodyIsAble
<1> SUFFICES ASSUME AdministrationInv, SeatsKept, \A c \in Callers : ~Able(c),
                    ~ \E c \in Callers : call[c].at = "insert" /\ Registered = Users,
                    NEW c \in Callers, call[c] # Resting
             PROVE  ~Available /\ \A d \in InTransaction : call[d].at \in {"register", "defaultQuota"}
  BY DEF SomebodyIsAble
<1>1. \A d \in Callers : call[d].at \in {"idle", "begin", "beginSetRole"} \cup RegisterSteps \cup SetRoleSteps
  BY DEF AdministrationInv, AdministrationTypeOK
<1>2. \A d \in Callers : call[d].at \notin {"insert", "commit", "countAdmins", "setRole"}
  BY DEF Able
<1>3. \A d \in Callers : call[d].at # "lockRole"
  BY <1>2 DEF Able, RoleUnlocked, HoldsRoleLock
<1>4. \A d \in Callers : call[d].at # "lockRow"
  BY <1>2, <1>3 DEF Able, RowUnlocked, HoldsRow
<1>5. \A d \in InTransaction : call[d].at \in {"register", "defaultQuota"}
  BY <1>2, <1>3, <1>4 DEF InTransaction, RegisterSteps, SetRoleSteps
<1>6. ASSUME Available PROVE FALSE
  <2>1. \A d \in Callers : call[d].at \notin {"begin", "beginSetRole", "defaultQuota"}
    BY <1>6 DEF Able
  <2>2. call[c].at = "register"
    BY <1>1, <1>2, <1>3, <1>4, <2>1 DEF SeatsKept, RegisterSteps, SetRoleSteps
  <2>3. ~RegisterUnlocked
    BY <2>2 DEF Able
  <2> QED
    BY <1>2, <2>1, <2>3 DEF RegisterUnlocked, HoldsRegister
<1> QED
  BY <1>5, <1>6

\* As long as requests are under way one of them has the guard of its next
\* step, unless registrations hold every connection and wait for one more:
\* Register and SetRole lock in an order that has no circle.
THEOREM GuardsOpen == AdministrationSpec => []SomebodyIsAble
BY SeatsHold, WaitsEnd, PTL

-----------------------------------------------------------------------------
(* Quota.  The invariant is QuotaKept with the types; what it rests on is  *)
(* that the counters are sums, so that what is taken off one of them is    *)
(* never more than it holds and greatest(0, ...) never changes a value.    *)

QuotaInv == QuotaTypeOK /\ QuotaKept

Fits == ~squeezed /\ ~assigned => row.used + row.reserved <= Effective(row)

LEMMA TotalIsSum == \A f, S : Total(f, S) = SumOf(f, S)
BY DEF Total, SumOf

LEMMA QuotaParts ==
    QuotaInv <=> /\ QuotaTypeOK /\ Fits
                 /\ row.used = SumOf(stored, Files)
                 /\ row.reserved = SumOf(session, Sessions)
BY TotalIsSum DEF QuotaInv, QuotaKept, LedgerAdds, Fits

\* A file, or a batch, is part of its counter.
LEMMA QuotaShares ==
    ASSUME QuotaInv
    PROVE  /\ row.quota \in Nat /\ row.bonus \in Nat /\ row.used \in Nat /\ row.reserved \in Nat
           /\ MaxSize \in Nat /\ MaxQuota \in Nat
           /\ \A f \in Files : stored[f] \in Nat /\ stored[f] <= row.used
           /\ \A s \in Sessions : session[s] \in Nat /\ session[s] <= row.reserved
<1> USE QuotaConstants
<1>1. QuotaTypeOK /\ row.used = SumOf(stored, Files) /\ row.reserved = SumOf(session, Sessions)
  BY QuotaParts
<1>2. /\ row.quota \in Nat /\ row.bonus \in Nat /\ row.used \in Nat /\ row.reserved \in Nat
      /\ \A f \in Files : stored[f] \in Nat
      /\ \A s \in Sessions : session[s] \in Nat
  BY <1>1 DEF QuotaTypeOK, Quotas
<1>3. ASSUME NEW f \in Files PROVE stored[f] <= row.used
  <2>1. SumOf(stored, Files) >= stored[f]
    BY <1>2, SumElement
  <2> QED
    BY <1>1, <1>2, <2>1
<1>4. ASSUME NEW s \in Sessions PROVE session[s] <= row.reserved
  <2>1. SumOf(session, Sessions) >= session[s]
    BY <1>2, SumElement
  <2> QED
    BY <1>1, <1>2, <2>1
<1> QED
  BY <1>2, <1>3, <1>4

\* One file changes: used_bytes by as much.
LEMMA StoredSum ==
    ASSUME QuotaInv, NEW f \in Files, NEW size \in 0 .. MaxSize,
           stored' \in [Files -> 0 .. MaxSize], stored'[f] = size,
           \A x \in Files \ {f} : stored'[x] = stored[x]
    PROVE  SumOf(stored', Files) = row.used - stored[f] + size
<1>1. stored \in [Files -> 0 .. MaxSize] /\ row.used = SumOf(stored, Files)
  BY QuotaParts DEF QuotaTypeOK
<1>2. IsFiniteSet(Files) /\ \A x \in Files : stored[x] \in Nat /\ stored'[x] \in Nat
  BY <1>1, QuotaConstants
<1>3. SumOf(stored', Files) = SumOf(stored, Files) - stored[f] + stored'[f]
  BY <1>2, SumChange
<1> QED
  BY <1>1, <1>3

\* One batch changes: reserved_bytes by as much.
LEMMA SessionSum ==
    ASSUME QuotaInv, NEW s \in Sessions, NEW size \in 0 .. MaxSize,
           session' \in [Sessions -> 0 .. MaxSize], session'[s] = size,
           \A x \in Sessions \ {s} : session'[x] = session[x]
    PROVE  SumOf(session', Sessions) = row.reserved - session[s] + size
<1>1. session \in [Sessions -> 0 .. MaxSize] /\ row.reserved = SumOf(session, Sessions)
  BY QuotaParts DEF QuotaTypeOK
<1>2. IsFiniteSet(Sessions) /\ \A x \in Sessions : session[x] \in Nat /\ session'[x] \in Nat
  BY <1>1, QuotaConstants
<1>3. SumOf(session', Sessions) = SumOf(session, Sessions) - session[s] + session'[s]
  BY <1>2, SumChange
<1> QED
  BY <1>1, <1>3

LEMMA StoredChanges ==
    ASSUME QuotaInv, NEW f \in Files, NEW size \in 0 .. MaxSize,
           stored' = [stored EXCEPT ![f] = size]
    PROVE  /\ stored' \in [Files -> 0 .. MaxSize]
           /\ SumOf(stored', Files) = row.used - stored[f] + size
<1>1. /\ stored' \in [Files -> 0 .. MaxSize] /\ stored'[f] = size
      /\ \A x \in Files \ {f} : stored'[x] = stored[x]
  BY DEF QuotaInv, QuotaTypeOK
<1> QED
  BY <1>1, StoredSum

LEMMA SessionChanges ==
    ASSUME QuotaInv, NEW s \in Sessions, NEW size \in 0 .. MaxSize,
           session' = [session EXCEPT ![s] = size]
    PROVE  /\ session' \in [Sessions -> 0 .. MaxSize]
           /\ SumOf(session', Sessions) = row.reserved - session[s] + size
<1>1. /\ session' \in [Sessions -> 0 .. MaxSize] /\ session'[s] = size
      /\ \A x \in Sessions \ {s} : session'[x] = session[x]
  BY DEF QuotaInv, QuotaTypeOK
<1> QED
  BY <1>1, SessionSum

\* The row, the files and the batches after a step that leaves the plain
\* uploads and the plans alone.
LEMMA QuotaStepInv ==
    ASSUME QuotaInv,
           row' \in [quota : Nat, bonus : Quotas, used : Nat, reserved : Nat],
           freePlan' \in Quotas,
           stored' \in [Files -> 0 .. MaxSize], row'.used = SumOf(stored', Files),
           session' \in [Sessions -> 0 .. MaxSize], row'.reserved = SumOf(session', Sessions),
           writing' \in [Writers -> [at : {"idle", "saved"}, size : 0 .. MaxSize]],
           squeezed' \in BOOLEAN, assigned' \in BOOLEAN, Fits'
    PROVE  QuotaInv'
<1>1. QuotaTypeOK'
  BY DEF QuotaTypeOK, Quotas
<1>2. row'.used = SumOf(stored, Files)' /\ row'.reserved = SumOf(session, Sessions)'
  OBVIOUS
<1>3. LedgerAdds'
  BY <1>2, TotalIsSum DEF LedgerAdds
<1>4. QuotaKept'
  BY <1>3 DEF QuotaKept, Fits
<1> QED
  BY <1>1, <1>4 DEF QuotaInv

\* What is not remembered as squeezed has not been.
LEMMA NotSqueezed ==
    ASSUME NEW new, SqueezedBy(new), ~squeezed', new.used <= Effective(new),
           new.used \in Nat, new.reserved \in Nat, Effective(new) \in Nat
    PROVE  new.used + new.reserved <= Effective(new)
<1>1. ~(new.used + new.reserved > Effective(new))
  BY Zenon DEF SqueezedBy
<1> QED
  BY <1>1

LEMMA UploadKeepsQuota ==
    ASSUME QuotaInv, NEW w \in Writers, Upload(w) \/ InsertUploaded(w)
    PROVE  QuotaInv'
<1> USE QuotaConstants
<1>0. /\ QuotaTypeOK /\ Fits
      /\ row.used = SumOf(stored, Files) /\ row.reserved = SumOf(session, Sessions)
      /\ row.quota \in Nat /\ row.bonus \in Nat /\ row.used \in Nat /\ row.reserved \in Nat
      /\ \A f \in Files : stored[f] \in Nat /\ stored[f] <= row.used
      /\ writing[w].size \in 0 .. MaxSize
  BY QuotaParts, QuotaShares DEF QuotaTypeOK
<1>1. CASE Upload(w)
  <2>1. UNCHANGED <<row, freePlan, stored, session, squeezed, assigned>>
    BY <1>1 DEF Upload
  <2>2. writing' \in [Writers -> [at : {"idle", "saved"}, size : 0 .. MaxSize]]
    BY <1>0, <1>1 DEF Upload, QuotaTypeOK, Sizes
  <2> QED
    BY <1>0, <2>1, <2>2, QuotaStepInv DEF QuotaTypeOK, Fits, Effective
<1>2. CASE InsertUploaded(w)
  <2>1. UNCHANGED <<freePlan, session, assigned>>
    BY <1>2 DEF InsertUploaded
  <2>2. writing' \in [Writers -> [at : {"idle", "saved"}, size : 0 .. MaxSize]]
    BY <1>0, <1>2 DEF InsertUploaded, Absent, QuotaTypeOK
  <2>3. ASSUME NEW f \in Files, StillHasRoom(w),
               stored' = [stored EXCEPT ![f] = writing[w].size],
               row' = [row EXCEPT !.used = @ - stored[f] + writing[w].size],
               SqueezedBy(row')
        PROVE  QuotaInv'
    <3>1. /\ row'.used = row.used - stored[f] + writing[w].size /\ row'.used \in Nat
          /\ row'.reserved = row.reserved /\ Effective(row') = Effective(row)
          /\ row' \in [quota : Nat, bonus : Quotas, used : Nat, reserved : Nat]
      BY <1>0, <2>3 DEF Effective, QuotaTypeOK
    <3>2. stored' \in [Files -> 0 .. MaxSize] /\ row'.used = SumOf(stored', Files)
      BY <1>0, <2>3, <3>1, StoredChanges
    <3>3. row'.used <= Effective(row')
      BY <1>0, <2>3, <3>1 DEF StillHasRoom, HasRoom, Effective
    <3>4. Fits' /\ squeezed' \in BOOLEAN
      <4>1. ~squeezed' => row'.used + row'.reserved <= Effective(row')
        BY <1>0, <2>3, <3>1, <3>3, NotSqueezed DEF Effective
      <4>2. squeezed' \in BOOLEAN
        BY <1>0, <2>3 DEF SqueezedBy, QuotaTypeOK
      <4> QED
        BY <4>1, <4>2 DEF Fits, Effective
    <3> QED
      BY <1>0, <2>1, <2>2, <3>1, <3>2, <3>4, QuotaStepInv DEF QuotaTypeOK
  <2>4. CASE UNCHANGED <<row, stored, squeezed>>
    BY <1>0, <2>1, <2>2, <2>4, QuotaStepInv DEF QuotaTypeOK, Fits, Effective
  <2> QED
    BY <1>2, <2>3, <2>4 DEF InsertUploaded
<1> QED
  BY <1>1, <1>2

LEMMA BatchKeepsQuota ==
    ASSUME QuotaInv, NEW s \in Sessions, CreateBatch(s) \/ CompleteFile(s) \/ CloseBatch(s)
    PROVE  QuotaInv'
<1> USE QuotaConstants
<1>0. /\ QuotaTypeOK /\ Fits
      /\ row.used = SumOf(stored, Files) /\ row.reserved = SumOf(session, Sessions)
      /\ row.quota \in Nat /\ row.bonus \in Nat /\ row.used \in Nat /\ row.reserved \in Nat
      /\ \A f \in Files : stored[f] \in Nat /\ stored[f] <= row.used
      /\ session[s] \in 0 .. MaxSize /\ session[s] \in Nat /\ session[s] <= row.reserved
      /\ Effective(row) \in Nat /\ 0 \in 0 .. MaxSize
  BY QuotaParts, QuotaShares DEF QuotaTypeOK, Effective
<1>1. UNCHANGED <<freePlan, writing, squeezed, assigned>>
  BY DEF CreateBatch, CompleteFile, CloseBatch
<1>2. CASE CreateBatch(s)
  <2>1. PICK total \in Sizes :
          /\ RoomToReserve(total)
          /\ session' = [session EXCEPT ![s] = total]
          /\ row' = [row EXCEPT !.reserved = @ + total]
    BY <1>2 DEF CreateBatch
  <2>2. total \in 0 .. MaxSize /\ total \in Nat /\ stored' = stored /\ session[s] = 0
    BY <1>2 DEF CreateBatch, Sizes
  <2>3. /\ row'.used = row.used /\ row'.reserved = row.reserved + total
        /\ Effective(row') = Effective(row)
        /\ row' \in [quota : Nat, bonus : Quotas, used : Nat, reserved : Nat]
    BY <1>0, <2>1, <2>2 DEF Effective, QuotaTypeOK
  <2>4. session' \in [Sessions -> 0 .. MaxSize] /\ row'.reserved = SumOf(session', Sessions)
    <3>1. /\ session' \in [Sessions -> 0 .. MaxSize]
          /\ SumOf(session', Sessions) = row.reserved - session[s] + total
      BY <2>1, <2>2, SessionChanges
    <3> QED
      BY <1>0, <2>2, <2>3, <3>1
  <2>5. Fits'
    <3>1. row'.used + row'.reserved <= Effective(row')
      BY <1>0, <2>1, <2>2, <2>3 DEF RoomToReserve
    <3> QED
      BY <3>1 DEF Fits, Effective
  <2> QED
    BY <1>0, <1>1, <2>2, <2>3, <2>4, <2>5, QuotaStepInv DEF QuotaTypeOK
<1>3. CASE CompleteFile(s)
  <2>1. PICK f \in Files :
          /\ stored' = [stored EXCEPT ![f] = session[s]]
          /\ row' = [row EXCEPT !.used = Greatest(0, @ + session[s] - stored[f]),
                                !.reserved = Greatest(0, @ - session[s])]
    BY <1>3 DEF CompleteFile
  <2>2. session' = [session EXCEPT ![s] = 0]
    BY <1>3 DEF CompleteFile
  <2>3. /\ Greatest(0, row.used + session[s] - stored[f]) = row.used - stored[f] + session[s]
        /\ Greatest(0, row.reserved - session[s]) = row.reserved - session[s]
        /\ row.used - stored[f] + session[s] \in Nat /\ row.reserved - session[s] \in Nat
    BY <1>0 DEF Greatest
  <2> DEFINE more == row.used - stored[f] + session[s]
             less == row.reserved - session[s]
  <2>a. row' = [row EXCEPT !.used = more, !.reserved = less] /\ more \in Nat /\ less \in Nat
    BY <2>1, <2>3
  <2>4. /\ row'.used = row.used - stored[f] + session[s]
        /\ row'.reserved = row.reserved - session[s]
        /\ row'.used \in Nat /\ row'.reserved \in Nat
        /\ Effective(row') = Effective(row)
        /\ row' \in [quota : Nat, bonus : Quotas, used : Nat, reserved : Nat]
    <3> HIDE DEF more, less
    <3>1. /\ row'.used = more /\ row'.reserved = less
          /\ row'.quota = row.quota /\ row'.bonus = row.bonus
          /\ row' \in [quota : Nat, bonus : Quotas, used : Nat, reserved : Nat]
      BY <1>0, <2>a DEF QuotaTypeOK
    <3> QED
      BY <2>a, <3>1 DEF Effective, more, less
  <2>5. /\ session' \in [Sessions -> 0 .. MaxSize] /\ row'.reserved = SumOf(session', Sessions)
        /\ stored' \in [Files -> 0 .. MaxSize] /\ row'.used = SumOf(stored', Files)
    <3>1. /\ session' \in [Sessions -> 0 .. MaxSize]
          /\ SumOf(session', Sessions) = row.reserved - session[s] + 0
      BY <1>0, <2>2, SessionChanges
    <3>2. /\ stored' \in [Files -> 0 .. MaxSize]
          /\ SumOf(stored', Files) = row.used - stored[f] + session[s]
      BY <1>0, <2>1, StoredChanges
    <3> QED
      BY <1>0, <2>4, <3>1, <3>2
  <2>6. Fits'
    <3>1. row'.used + row'.reserved <= row.used + row.reserved
      BY <1>0, <2>4
    <3> QED
      BY <1>0, <1>1, <2>4, <3>1 DEF Fits, Effective
  <2> QED
    BY <1>0, <1>1, <2>4, <2>5, <2>6, QuotaStepInv DEF QuotaTypeOK
<1>4. CASE CloseBatch(s)
  <2>1. /\ row' = [row EXCEPT !.reserved = Greatest(0, @ - session[s])]
        /\ session' = [session EXCEPT ![s] = 0] /\ stored' = stored
    BY <1>4 DEF CloseBatch
  <2>2. Greatest(0, row.reserved - session[s]) = row.reserved - session[s]
    BY <1>0 DEF Greatest
  <2>3. /\ row'.used = row.used /\ row'.reserved = row.reserved - session[s]
        /\ Effective(row') = Effective(row) /\ row'.reserved \in Nat
        /\ row' \in [quota : Nat, bonus : Quotas, used : Nat, reserved : Nat]
    BY <1>0, <2>1, <2>2 DEF Effective, QuotaTypeOK
  <2>4. session' \in [Sessions -> 0 .. MaxSize] /\ row'.reserved = SumOf(session', Sessions)
    <3>1. /\ session' \in [Sessions -> 0 .. MaxSize]
          /\ SumOf(session', Sessions) = row.reserved - session[s] + 0
      BY <1>0, <2>1, SessionChanges
    <3> QED
      BY <1>0, <2>3, <3>1
  <2>5. Fits'
    BY <1>0, <1>1, <2>3 DEF Fits, Effective
  <2> QED
    BY <1>0, <1>1, <2>1, <2>3, <2>4, <2>5, QuotaStepInv DEF QuotaTypeOK
<1> QED
  BY <1>2, <1>3, <1>4

LEMMA PurgeKeepsQuota ==
    ASSUME QuotaInv, NEW f \in Files, PurgeFile(f)
    PROVE  QuotaInv'
<1> USE QuotaConstants
<1>0. /\ QuotaTypeOK /\ Fits
      /\ row.used = SumOf(stored, Files) /\ row.reserved = SumOf(session, Sessions)
      /\ row.quota \in Nat /\ row.bonus \in Nat /\ row.used \in Nat /\ row.reserved \in Nat
      /\ stored[f] \in Nat /\ stored[f] <= row.used /\ 0 \in 0 .. MaxSize
  BY QuotaParts, QuotaShares
<1>1. /\ row' = [row EXCEPT !.used = Greatest(0, @ - stored[f])]
      /\ stored' = [stored EXCEPT ![f] = 0]
      /\ UNCHANGED <<freePlan, session, writing, squeezed, assigned>>
  BY DEF PurgeFile
<1>2. Greatest(0, row.used - stored[f]) = row.used - stored[f]
  BY <1>0 DEF Greatest
<1>3. /\ row'.used = row.used - stored[f] /\ row'.reserved = row.reserved
      /\ Effective(row') = Effective(row) /\ row'.used \in Nat
      /\ row' \in [quota : Nat, bonus : Quotas, used : Nat, reserved : Nat]
  BY <1>0, <1>1, <1>2 DEF Effective, QuotaTypeOK
<1>4. stored' \in [Files -> 0 .. MaxSize] /\ row'.used = SumOf(stored', Files)
  <2>1. /\ stored' \in [Files -> 0 .. MaxSize]
        /\ SumOf(stored', Files) = row.used - stored[f] + 0
    BY <1>0, <1>1, StoredChanges
  <2> QED
    BY <1>0, <1>3, <2>1
<1>5. Fits'
  BY <1>0, <1>1, <1>3 DEF Fits, Effective
<1> QED
  BY <1>0, <1>1, <1>3, <1>4, <1>5, QuotaStepInv DEF QuotaTypeOK

\* An administrator never sets less than what is used, except by Assign, and
\* room that batches had is remembered as squeezed.
LEMMA AdminKeepsQuota ==
    ASSUME QuotaInv, SetPlan \/ SetQuota \/ SetBonusQuota \/ Assign
    PROVE  QuotaInv'
<1> USE QuotaConstants
<1>0. /\ QuotaTypeOK /\ Fits /\ freePlan \in Nat
      /\ row.used = SumOf(stored, Files) /\ row.reserved = SumOf(session, Sessions)
      /\ row.quota \in Nat /\ row.bonus \in Nat /\ row.used \in Nat /\ row.reserved \in Nat
      /\ row \in [quota : Nat, bonus : Quotas, used : Nat, reserved : Nat]
  BY QuotaParts, QuotaShares DEF QuotaTypeOK, Quotas
<1>1. UNCHANGED <<freePlan, stored, session, writing>> /\ SqueezedBy(row')
  BY DEF SetPlan, SetQuota, SetBonusQuota, Assign, Granted
<1>2. /\ row' \in [quota : Nat, bonus : Quotas, used : Nat, reserved : Nat]
      /\ row'.used = row.used /\ row'.reserved = row.reserved
      /\ row'.used <= Effective(row') \/ assigned'
      /\ assigned' \in BOOLEAN
  <2>1. CASE SetPlan
    <3>1. PlanFor(row) \in Nat /\ row.used <= PlanFor(row) + row.bonus
      BY <1>0 DEF PlanFor, Greatest
    <3>2. row' = [row EXCEPT !.quota = PlanFor(row)] /\ assigned' = assigned
      BY <2>1 DEF SetPlan, Granted
    <3> QED
      BY <1>0, <3>1, <3>2 DEF Effective, QuotaTypeOK
  <2>2. CASE SetQuota
    BY <1>0, <2>2 DEF SetQuota, Granted, Effective, QuotaTypeOK, Quotas
  <2>3. CASE SetBonusQuota
    BY <1>0, <2>3 DEF SetBonusQuota, Granted, Effective, QuotaTypeOK, Quotas
  <2>4. CASE Assign
    <3>1. PICK quota \in {freePlan, MaxQuota} :
             /\ row' = [row EXCEPT !.quota = quota]
             /\ assigned' = (assigned \/ row.used > Effective(row'))
      BY <2>4 DEF Assign
    <3>2. /\ row' \in [quota : Nat, bonus : Quotas, used : Nat, reserved : Nat]
          /\ row'.used = row.used /\ row'.reserved = row.reserved /\ Effective(row') \in Nat
      BY <1>0, <3>1 DEF Effective, Quotas
    <3>3. assigned' \in BOOLEAN
      BY <1>0, <3>1 DEF QuotaTypeOK
    <3>4. row'.used <= Effective(row') \/ assigned'
      <4>1. row.used > Effective(row') \/ row'.used <= Effective(row')
        BY <1>0, <3>2
      <4> QED
        BY <3>1, <4>1
    <3> QED
      BY <3>2, <3>3, <3>4
  <2> QED
    BY <2>1, <2>2, <2>3, <2>4
<1>3. squeezed' \in BOOLEAN
  BY <1>0, <1>1 DEF SqueezedBy, QuotaTypeOK
<1>4. Fits'
  <2>1. Effective(row') \in Nat
    BY <1>2 DEF Effective, Quotas
  <2>2. ~squeezed' /\ row'.used <= Effective(row') => row'.used + row'.reserved <= Effective(row')
    BY <1>0, <1>1, <1>2, <2>1, NotSqueezed
  <2> QED
    BY <1>2, <2>2 DEF Fits, Effective
<1> QED
  BY <1>0, <1>1, <1>2, <1>3, <1>4, QuotaStepInv DEF QuotaTypeOK

LEMMA QuotaInvInit == QuotaInit => QuotaInv
<1> USE QuotaConstants
<1> SUFFICES ASSUME QuotaInit PROVE QuotaInv
  OBVIOUS
<1>1. QuotaTypeOK /\ Fits
  <2>1. /\ MaxQuota \in Nat /\ MaxQuota \in Quotas /\ 0 \in Quotas /\ 0 \in 0 .. MaxSize
        /\ Absent \in [at : {"idle", "saved"}, size : 0 .. MaxSize]
    BY DEF Quotas, Absent
  <2>2. row \in [quota : Nat, bonus : Quotas, used : Nat, reserved : Nat]
    BY <2>1 DEF QuotaInit
  <2>3. Fits
    BY <2>1 DEF QuotaInit, Fits, Effective
  <2> QED
    BY <2>1, <2>2, <2>3 DEF QuotaInit, QuotaTypeOK
<1>2. /\ \A f \in Files : stored[f] = 0
      /\ \A s \in Sessions : session[s] = 0
      /\ row.used = 0 /\ row.reserved = 0
  BY DEF QuotaInit
<1>3. SumOf(stored, Files) = 0 /\ SumOf(session, Sessions) = 0
  BY <1>2, SumZero
<1> QED
  BY <1>1, <1>2, <1>3, QuotaParts

LEMMA QuotaInvStep == QuotaInv /\ [QuotaNext]_quotaVars => QuotaInv'
<1> USE QuotaConstants
<1> SUFFICES ASSUME QuotaInv, [QuotaNext]_quotaVars PROVE QuotaInv'
  OBVIOUS
<1>0. /\ QuotaTypeOK /\ Fits
      /\ row.used = SumOf(stored, Files) /\ row.reserved = SumOf(session, Sessions)
  BY QuotaParts
<1>1. CASE SetDefaultQuotaBytes
  BY <1>0, <1>1, QuotaStepInv DEF SetDefaultQuotaBytes, QuotaTypeOK, Fits, Effective
<1>2. CASE UNCHANGED quotaVars
  BY <1>0, <1>2, QuotaStepInv DEF quotaVars, QuotaTypeOK, Fits, Effective
<1> QED
  BY <1>1, <1>2, UploadKeepsQuota, BatchKeepsQuota, PurgeKeepsQuota, AdminKeepsQuota
  DEF QuotaNext

\* used_bytes and reserved_bytes are the sums of the files and the open batches,
\* and together they fit into the quota unless a plain upload or an
\* administrator took room that was reserved: for every number of uploads,
\* batches and files, whatever overlaps (files/service.go, admin, plans).
THEOREM QuotaHolds == QuotaSpec => []QuotaKept
<1>1. QuotaInv => QuotaKept
  BY DEF QuotaInv
<1> QED
  BY <1>1, QuotaInvInit, QuotaInvStep, PTL DEF QuotaSpec

-----------------------------------------------------------------------------
(***************************************************************************)
(* Public links: the limit of downloads holds, and an earned cookie keeps  *)
(* opening the link.                                                       *)
(***************************************************************************)

\* The columns of the row, and what a visit has read.
RowKept ==
    /\ ~link.there => link \in {NoLink, Deleted}
    /\ link.there =>
         /\ DOMAIN link = {"there", "permission", "hash", "legacy", "expired", "count", "max"}
         /\ link.there = TRUE /\ link.count \in Nat /\ link.max \in {Unlimited} \cup Nat
         /\ link.legacy \in BOOLEAN

VisitKept(w) ==
    /\ DOMAIN w = {"at", "mode", "password", "right", "proof", "hash", "count"}
    /\ w.right => w.password
    /\ w.password => w.proof = 0

VisitsKept ==
    /\ visit = [v \in Visitors |-> visit[v]]
    /\ \A v \in Visitors : VisitKept(visit[v])

(***************************************************************************)
(* Before there is a link no visit gets past its first read, nothing has   *)
(* been delivered and no cookie been earned.                               *)
(***************************************************************************)
NothingBefore ==
    link = NoLink =>
        /\ \A v \in Visitors : visit[v].at \in {"idle", "resolve"}
        /\ sent = 0 /\ proofs = {}

(***************************************************************************)
(* The limit of downloads: a visit that may deliver an attachment has been *)
(* counted already.                                                        *)
(***************************************************************************)
Serving == {v \in Visitors : visit[v].at = "serve" /\ visit[v].mode = "content"}

CountedFirst ==
    /\ sent \in Nat
    /\ link.there =>
         /\ link.permission = "download" => sent + Cardinality(Serving) <= link.count
         /\ link.permission # "download" => sent = 0
         /\ link.max # Unlimited => link.count <= link.max

(***************************************************************************)
(* The cookies: a visit that was let in by a password holds the hash of    *)
(* the row, unless a replacement of the legacy hash went wrong; and only a *)
(* legacy hash, for which no cookie was given, is ever replaced.           *)
(***************************************************************************)
HashHeld ==
    link.there /\ ~spoiled =>
        /\ proofs \subseteq {link.hash}
        /\ link.legacy => proofs = {}
        /\ \A v \in Visitors :
             /\ /\ visit[v].at \in {"count", "serve"}
                /\ visit[v].password /\ visit[v].hash # 0
                => visit[v].hash = link.hash /\ ~link.legacy
             /\ visit[v].at = "upgrade" /\ visit[v].hash = link.hash => link.legacy

LinksInv ==
    /\ RowKept
    /\ VisitsKept
    /\ NothingBefore
    /\ CountedFirst
    /\ HashHeld

-----------------------------------------------------------------------------
\* There is no link and nobody visits it.
LEMMA LinksStartInv == LinksInit => LinksInv
<1> SUFFICES ASSUME LinksInit PROVE LinksInv
  OBVIOUS
<1> USE DEF LinksInit, NoLink, Nothing
<1>1. RowKept /\ NothingBefore /\ CountedFirst /\ HashHeld
  BY DEF RowKept, NothingBefore, CountedFirst, HashHeld
<1>2. VisitsKept
  BY DEF VisitsKept, VisitKept
<1> QED
  BY <1>1, <1>2 DEF LinksInv

\* The visits that may deliver are finitely many.
LEMMA ServingFinite == IsFiniteSet(Serving) /\ Cardinality(Serving) \in Nat
<1>1. Serving \subseteq Visitors
  BY DEF Serving
<1> QED
  BY <1>1, LinksConstants, FS_Subset, FS_CardinalityType

\* What one visit becomes.
LEMMA OneVisit ==
    ASSUME VisitsKept, NEW v \in Visitors, NEW w, VisitKept(w),
           visit' = [visit EXCEPT ![v] = w]
    PROVE  /\ VisitsKept'
           /\ visit'[v] = w
           /\ \A u \in Visitors \ {v} : visit'[u] = visit[u]
           /\ Serving' = IF w.at = "serve" /\ w.mode = "content"
                         THEN Serving \cup {v} ELSE Serving \ {v}
<1>1. visit'[v] = w /\ \A u \in Visitors \ {v} : visit'[u] = visit[u]
  BY DEF VisitsKept
<1>2. VisitsKept'
  <2>1. visit' = [u \in Visitors |-> visit'[u]]
    BY DEF VisitsKept
  <2>2. \A u \in Visitors : VisitKept(visit[u])
    BY DEF VisitsKept
  <2> QED
    BY <1>1, <2>1, <2>2 DEF VisitsKept, VisitKept
<1> QED
  BY <1>1, <1>2 DEF Serving

\* The visits that serve become at most one more, and no more if the one that
\* moves does not start to deliver.
LEMMA ServingCounted ==
    ASSUME NEW v \in Visitors, Serving' \in {Serving, Serving \cup {v}, Serving \ {v}}
    PROVE  /\ Cardinality(Serving') \in Nat
           /\ Cardinality(Serving') <= Cardinality(Serving) + 1
           /\ Serving' # Serving \cup {v} => Cardinality(Serving') <= Cardinality(Serving)
           /\ v \in Serving /\ Serving' = Serving \ {v} =>
                  Cardinality(Serving') + 1 = Cardinality(Serving)
<1>1. IsFiniteSet(Serving) /\ Cardinality(Serving) \in Nat
  BY ServingFinite
<1>2. /\ IsFiniteSet(Serving \cup {v})
      /\ Cardinality(Serving \cup {v}) =
           IF v \in Serving THEN Cardinality(Serving) ELSE Cardinality(Serving) + 1
  BY <1>1, FS_AddElement
<1>3. /\ IsFiniteSet(Serving \ {v})
      /\ Cardinality(Serving \ {v}) =
           IF v \in Serving THEN Cardinality(Serving) - 1 ELSE Cardinality(Serving)
  BY <1>1, FS_RemoveElement
<1>4. v \in Serving => Cardinality(Serving) # 0
  BY <1>1, FS_EmptySet
<1>5. CASE Serving' = Serving
  BY <1>1, <1>3, <1>4, <1>5
<1>6. CASE Serving' = Serving \cup {v} /\ Serving' # Serving
  BY <1>1, <1>2, <1>6
<1>7. CASE Serving' = Serving \ {v} /\ Serving' # Serving
  BY <1>1, <1>3, <1>4, <1>7
<1> QED
  BY <1>5, <1>6, <1>7

-----------------------------------------------------------------------------
(* The owner *)

\* The visits do not move; a link that goes takes every claim with it.
LEMMA OwnerStep ==
    ASSUME LinksInv, UNCHANGED visit,
           CreateLink \/ RevokeLink \/ EntryChanges \/ Expires \/ AttemptForgotten
    PROVE  LinksInv'
<1> USE LinksConstants DEF LinksInv
<1>0. VisitsKept' /\ Serving' = Serving /\ Cardinality(Serving) \in Nat
  BY ServingFinite DEF VisitsKept, VisitKept, Serving
<1>1. CASE CreateLink
  <2>1. /\ link' \in Link /\ UNCHANGED <<proofs, sent, spoiled>>
        /\ \A v \in Visitors : visit[v].at \in {"idle", "resolve"}
        /\ sent = 0 /\ proofs = {}
    BY <1>1 DEF CreateLink, NothingBefore
  <2>2. Serving = {}
    BY <2>1 DEF Serving
  <2>3. Cardinality(Serving) = 0
    BY <2>2, FS_EmptySet
  <2>4. /\ DOMAIN link' = {"there", "permission", "hash", "legacy", "expired", "count", "max"}
        /\ link'.there = TRUE /\ link'.count = 0 /\ link'.legacy \in BOOLEAN
        /\ link'.max \in {Unlimited} \cup 1 .. MaxVisits
    BY <2>1 DEF Link
  <2>5. RowKept'
    BY <2>4 DEF RowKept
  <2>6. NothingBefore'
    BY <2>4 DEF NothingBefore, NoLink
  <2>7. CountedFirst'
    BY <1>0, <2>1, <2>3, <2>4 DEF CountedFirst, Unlimited
  <2>8. HashHeld'
    BY <2>1 DEF HashHeld
  <2> QED
    BY <1>0, <2>5, <2>6, <2>7, <2>8
<1>2. CASE link' = Deleted /\ UNCHANGED <<proofs, sent, spoiled>>
  BY <1>0, <1>2 DEF RowKept, NothingBefore, CountedFirst, HashHeld, Deleted, NoLink
<1>3. CASE UNCHANGED <<link, proofs, sent, spoiled>>
  BY <1>0, <1>3 DEF RowKept, NothingBefore, CountedFirst, HashHeld
<1>4. CASE Expires
  <2>1. /\ link.there /\ link' = [link EXCEPT !.expired = TRUE]
        /\ UNCHANGED <<proofs, sent, spoiled>>
    BY <1>4 DEF Expires
  <2>2. /\ DOMAIN link' = DOMAIN link /\ link'.there = link.there /\ link'.count = link.count
        /\ link'.max = link.max /\ link'.legacy = link.legacy /\ link'.hash = link.hash
        /\ link'.permission = link.permission
    BY <2>1 DEF RowKept
  <2>3. RowKept' /\ NothingBefore' /\ CountedFirst'
    BY <1>0, <2>1, <2>2 DEF RowKept, NothingBefore, CountedFirst, NoLink
  <2>4. HashHeld'
    BY <2>1, <2>2 DEF HashHeld
  <2> QED
    BY <1>0, <2>3, <2>4
<1>5. CASE RevokeLink
  BY <1>2, <1>5 DEF RevokeLink
<1>6. CASE EntryChanges \/ AttemptForgotten
  BY <1>2, <1>3, <1>6 DEF EntryChanges, AttemptForgotten
<1> QED
  BY <1>1, <1>4, <1>5, <1>6

-----------------------------------------------------------------------------
(* A visit *)

\* What a visit may become while the row stays: past the first read only if
\* there is a link, delivering only if it did so, and with the hash of the row.
Allowed(v, w) ==
    /\ VisitKept(w)
    /\ link = NoLink => w.at \in {"idle", "resolve"}
    /\ link.there /\ link.permission = "download" /\ w.at = "serve" /\ w.mode = "content"
       => v \in Serving
    /\ link.there /\ ~spoiled =>
         /\ w.at \in {"count", "serve"} /\ w.password /\ w.hash # 0
            => w.hash = link.hash /\ ~link.legacy
         /\ w.at = "upgrade" /\ w.hash = link.hash => link.legacy

LEMMA VisitMoves ==
    ASSUME LinksInv, NEW v \in Visitors, NEW w, Allowed(v, w),
           visit' = [visit EXCEPT ![v] = w], UNCHANGED <<link, proofs, sent, spoiled>>
    PROVE  LinksInv'
<1> USE DEF LinksInv
<1>1. /\ VisitsKept' /\ visit'[v] = w
      /\ \A u \in Visitors \ {v} : visit'[u] = visit[u]
      /\ Serving' = IF w.at = "serve" /\ w.mode = "content"
                    THEN Serving \cup {v} ELSE Serving \ {v}
  BY OneVisit DEF Allowed
<1>2. RowKept' /\ NothingBefore' /\ HashHeld'
  BY <1>1 DEF RowKept, NothingBefore, HashHeld, Allowed
<1>3. CountedFirst'
  <2>1. CASE ~link.there \/ link.permission # "download"
    BY <2>1 DEF CountedFirst
  <2>2. CASE link.there /\ link.permission = "download"
    <3>1. Serving' \in {Serving, Serving \ {v}}
      BY <1>1, <2>2 DEF Allowed
    <3>2. /\ Cardinality(Serving') \in Nat /\ Cardinality(Serving) \in Nat
          /\ Cardinality(Serving') <= Cardinality(Serving)
      <4>1. Serving' \in {Serving, Serving \cup {v}, Serving \ {v}}
        BY <3>1
      <4>2. Serving' = Serving \cup {v} => Serving' = Serving
        BY <3>1
      <4> QED
        BY <4>1, <4>2, ServingCounted, ServingFinite
    <3> QED
      BY <2>2, <3>2 DEF CountedFirst, RowKept
  <2> QED
    BY <2>1, <2>2
<1> QED
  BY <1>1, <1>2, <1>3

\* A visit that leaves or begins.
LEMMA VisitLeaves ==
    ASSUME LinksInv, NEW v \in Visitors, Leave(v), UNCHANGED <<link, proofs, sent, spoiled>>
    PROVE  LinksInv'
<1>1. Allowed(v, Nothing)
  BY DEF Allowed, Nothing, VisitKept
<1> QED
  BY <1>1, VisitMoves DEF Leave

LEMMA VisitBegins ==
    ASSUME LinksInv, NEW v \in Visitors, DownloadPublic(v)
    PROVE  LinksInv'
<1>1. PICK mode \in Modes, password, correct \in BOOLEAN, proof \in proofs \cup {0} :
        /\ password => proof = 0 /\ attempts < MaxTries
        /\ correct => password
        /\ attempts' = IF password THEN attempts + 1 ELSE attempts
        /\ visit' = [visit EXCEPT ![v] = [Nothing EXCEPT
                !.at = "resolve", !.mode = mode, !.password = password,
                !.right = correct, !.proof = proof]]
  BY DEF DownloadPublic
<1> DEFINE w == [Nothing EXCEPT !.at = "resolve", !.mode = mode, !.password = password,
                                !.right = correct, !.proof = proof]
<1>2. Allowed(v, w)
  BY <1>1 DEF Allowed, Nothing, VisitKept
<1> HIDE DEF w
<1> QED
  BY <1>1, <1>2, VisitMoves DEF DownloadPublic, w

\* What a visit becomes that has read the row or replaced its hash.
Read(v, at, hash, count) == [visit[v] EXCEPT !.at = at, !.hash = hash, !.count = count]

LEMMA ReadFields ==
    ASSUME VisitsKept, NEW v \in Visitors, NEW at, NEW hash, NEW count
    PROVE  /\ VisitKept(Read(v, at, hash, count))
           /\ Read(v, at, hash, count).at = at
           /\ Read(v, at, hash, count).hash = hash
           /\ Read(v, at, hash, count).mode = visit[v].mode
           /\ Read(v, at, hash, count).password = visit[v].password
<1>1. VisitKept(visit[v])
  BY DEF VisitsKept
<1> QED
  BY <1>1 DEF VisitKept, Read

Replaced(v, at, hash) == [visit[v] EXCEPT !.at = at, !.hash = hash]

LEMMA ReplacedFields ==
    ASSUME VisitsKept, NEW v \in Visitors, NEW at, NEW hash
    PROVE  /\ VisitKept(Replaced(v, at, hash))
           /\ Replaced(v, at, hash).at = at
           /\ Replaced(v, at, hash).hash = hash
           /\ Replaced(v, at, hash).mode = visit[v].mode
<1>1. VisitKept(visit[v])
  BY DEF VisitsKept
<1> QED
  BY <1>1 DEF VisitKept, Replaced

LEMMA VisitResolves ==
    ASSUME LinksInv, NEW v \in Visitors, Resolve(v)
    PROVE  LinksInv'
<1>0. UNCHANGED <<link, proofs, sent, spoiled>> /\ VisitsKept
  BY DEF Resolve, LinksInv
<1>a. visit[v].password => visit[v].proof = 0
  BY <1>0 DEF VisitsKept, VisitKept
<1>b. ASSUME NEW at \in {"upgrade", "count", "serve"}, link.there,
             at = "upgrade" => link.legacy,
             at # "upgrade" /\ visit[v].password /\ link.hash # 0 => ~link.legacy,
             at = "serve" /\ visit[v].mode = "content" => link.permission # "download",
             visit' = [visit EXCEPT ![v] = Read(v, at, link.hash, link.count)]
      PROVE  LinksInv'
  <2> DEFINE w == Read(v, at, link.hash, link.count)
  <2>1. /\ VisitKept(w) /\ w.at = at /\ w.hash = link.hash
        /\ w.mode = visit[v].mode /\ w.password = visit[v].password
    BY <1>0, ReadFields
  <2>2. Allowed(v, w)
    BY <1>b, <2>1 DEF Allowed, NoLink
  <2> QED
    BY <1>0, <1>b, <2>2, VisitMoves
<1>1. CASE Leave(v)
  BY <1>0, <1>1, VisitLeaves
<1>2. CASE ~Leave(v)
  <2>1. /\ link.there /\ Unlocks(v)
        /\ \/ /\ visit[v].right /\ link.hash # 0 /\ link.legacy
              /\ visit' = [visit EXCEPT ![v] = Read(v, "upgrade", link.hash, link.count)]
           \/ /\ ~(visit[v].right /\ link.hash # 0 /\ link.legacy)
              /\ LetIn(v) # "idle"
              /\ visit' = [visit EXCEPT ![v] = Read(v, LetIn(v), link.hash, link.count)]
    BY <1>2 DEF Resolve, Read
  <2>2. LetIn(v) # "idle" =>
          /\ LetIn(v) \in {"count", "serve"}
          /\ LetIn(v) = "serve" /\ visit[v].mode = "content" => link.permission # "download"
    BY DEF LetIn, Counts
  <2>3. visit[v].password /\ link.hash # 0 => visit[v].right
    BY <1>a, <2>1 DEF Unlocks
  <2> QED
    BY <1>b, <2>1, <2>2, <2>3
<1> QED
  BY <1>1, <1>2

\* A legacy hash is replaced while no cookie was given for it; who replaces
\* another spoils the cookies.
LEMMA VisitUpgrades ==
    ASSUME LinksInv, NEW v \in Visitors, UpgradeHash(v)
    PROVE  LinksInv'
<1> USE DEF LinksInv
<1>1. PICK fresh \in 1 .. MaxHash :
        /\ fresh \notin KnownHashes
        /\ \/ /\ link.there
              /\ link' = [link EXCEPT !.hash = fresh, !.legacy = FALSE]
              /\ spoiled' = (spoiled \/ link.hash # visit[v].hash)
           \/ UNCHANGED link /\ spoiled' = TRUE
        /\ \/ /\ link.there /\ LetIn(v) # "idle"
              /\ visit' = [visit EXCEPT ![v] = Replaced(v, LetIn(v), fresh)]
           \/ Leave(v)
  BY DEF UpgradeHash, HashAfterwards, Replaced
<1>2. UNCHANGED <<proofs, sent>> /\ visit[v].at = "upgrade" /\ link # NoLink
  BY DEF UpgradeHash, NothingBefore
<1>3. PICK w : /\ VisitKept(w) /\ visit' = [visit EXCEPT ![v] = w]
               /\ w.at # "upgrade"
               /\ w.at \in {"count", "serve"} => w.hash = fresh /\ link.there
               /\ link.permission = "download" => ~(w.at = "serve" /\ w.mode = "content")
  <2>1. CASE Leave(v)
    <3>1. VisitKept(Nothing) /\ Nothing.at = "idle"
      BY DEF VisitKept, Nothing
    <3> QED
      BY <2>1, <3>1 DEF Leave
  <2>2. CASE /\ link.there /\ LetIn(v) # "idle"
             /\ visit' = [visit EXCEPT ![v] = Replaced(v, LetIn(v), fresh)]
    <3>1. /\ LetIn(v) \in {"count", "serve"}
          /\ link.permission = "download" => ~(LetIn(v) = "serve" /\ visit[v].mode = "content")
      BY <2>2 DEF LetIn, Counts
    <3>2. /\ VisitKept(Replaced(v, LetIn(v), fresh))
          /\ Replaced(v, LetIn(v), fresh).at = LetIn(v)
          /\ Replaced(v, LetIn(v), fresh).hash = fresh
          /\ Replaced(v, LetIn(v), fresh).mode = visit[v].mode
      BY ReplacedFields
    <3> QED
      BY <2>2, <3>1, <3>2
  <2> QED
    BY <1>1, <2>1, <2>2
<1>4. /\ VisitsKept' /\ visit'[v] = w
      /\ \A u \in Visitors \ {v} : visit'[u] = visit[u]
      /\ Serving' = IF w.at = "serve" /\ w.mode = "content"
                    THEN Serving \cup {v} ELSE Serving \ {v}
  BY <1>3, OneVisit
<1>5. /\ link'.there = link.there /\ link' # NoLink
      /\ link.there => /\ DOMAIN link' = DOMAIN link /\ link'.count = link.count
                       /\ link'.max = link.max /\ link'.permission = link.permission
                       /\ link'.legacy \in BOOLEAN /\ link'.there = TRUE
      /\ ~link.there => link' = link
  BY <1>1, <1>2 DEF RowKept, NoLink
<1>6. RowKept' /\ NothingBefore'
  BY <1>5 DEF RowKept, NothingBefore
<1>7. CountedFirst'
  <2>1. CASE link.there /\ link.permission = "download"
    <3>1. Serving' = Serving \ {v}
      BY <1>3, <1>4, <2>1
    <3>2. /\ Cardinality(Serving') \in Nat /\ Cardinality(Serving) \in Nat
          /\ Cardinality(Serving') <= Cardinality(Serving)
      <4>1. v \notin Serving
        BY <1>2 DEF Serving
      <4>2. Serving' = Serving
        BY <3>1, <4>1
      <4> QED
        BY <4>2, ServingFinite
    <3> QED
      BY <1>2, <1>5, <2>1, <3>2 DEF CountedFirst, RowKept
  <2>2. CASE ~(link.there /\ link.permission = "download")
    BY <1>2, <1>5, <2>2 DEF CountedFirst
  <2> QED
    BY <2>1, <2>2
<1>8. HashHeld'
  <2> SUFFICES ASSUME link'.there, ~spoiled' PROVE HashHeld'
    BY DEF HashHeld
  <2>1. /\ link.there /\ ~spoiled /\ link.hash = visit[v].hash
        /\ link' = [link EXCEPT !.hash = fresh, !.legacy = FALSE]
    BY <1>1, <1>5
  <2>2. link.legacy
    BY <1>2, <2>1 DEF HashHeld
  <2>3. proofs = {}
    BY <2>1, <2>2 DEF HashHeld
  <2>4. ASSUME NEW u \in Visitors
        PROVE  /\ visit[u].at \in {"count", "serve"} /\ visit[u].password
                  => visit[u].hash = 0
               /\ visit[u].hash # fresh
    BY <1>1, <2>1, <2>2 DEF HashHeld, KnownHashes
  <2>5. link'.hash = fresh /\ ~link'.legacy
    BY <2>1 DEF RowKept
  <2>6. ASSUME NEW u \in Visitors
        PROVE  /\ /\ visit'[u].at \in {"count", "serve"}
                  /\ visit'[u].password /\ visit'[u].hash # 0
                  => visit'[u].hash = fresh
               /\ ~(visit'[u].at = "upgrade" /\ visit'[u].hash = fresh)
    <3>1. CASE u = v
      BY <1>3, <1>4, <3>1
    <3>2. CASE u # v
      <4>1. visit'[u] = visit[u]
        BY <1>4, <3>2
      <4>2. /\ visit[u].at \in {"count", "serve"} /\ visit[u].password => visit[u].hash = 0
            /\ visit[u].hash # fresh
        BY <2>4
      <4> QED
        BY <4>1, <4>2, Zenon
    <3> QED
      BY <3>1, <3>2
  <2> QED
    BY <1>2, <2>3, <2>5, <2>6 DEF HashHeld
<1> QED
  BY <1>4, <1>6, <1>7, <1>8

\* Counting and comparing are one statement.
LEMMA VisitCounts ==
    ASSUME LinksInv, NEW v \in Visitors, CountDownload(v)
    PROVE  LinksInv'
<1> USE DEF LinksInv
<1>1. CASE Leave(v) /\ UNCHANGED link
  BY <1>1, VisitLeaves DEF CountDownload
<1>2. CASE ~(Leave(v) /\ UNCHANGED link)
  <2> DEFINE w == [visit[v] EXCEPT !.at = "serve"]
  <2>1. /\ link.there /\ MayCount(v) /\ visit[v].at = "count"
        /\ link' = [link EXCEPT !.count = link.count + 1]
        /\ visit' = [visit EXCEPT ![v] = w]
        /\ UNCHANGED <<proofs, sent, spoiled>>
    BY <1>2 DEF CountDownload
  <2>2. VisitKept(w) /\ w.at = "serve" /\ w.hash = visit[v].hash /\ w.password = visit[v].password
    BY DEF VisitsKept, VisitKept
  <2>3. /\ VisitsKept' /\ visit'[v] = w
        /\ \A u \in Visitors \ {v} : visit'[u] = visit[u]
        /\ Serving' \in {Serving \cup {v}, Serving \ {v}}
    BY <2>1, <2>2, OneVisit
  <2>4. /\ DOMAIN link' = DOMAIN link /\ link'.there = link.there /\ link'.count = link.count + 1
        /\ link'.max = link.max /\ link'.legacy = link.legacy /\ link'.hash = link.hash
        /\ link'.permission = link.permission
    BY <2>1 DEF RowKept
  <2>5. RowKept' /\ NothingBefore'
    BY <2>1, <2>4 DEF RowKept, NothingBefore, NoLink
  <2>6. CountedFirst'
    <3>1. /\ Cardinality(Serving') \in Nat /\ Cardinality(Serving) \in Nat
          /\ Cardinality(Serving') <= Cardinality(Serving) + 1
      <4>1. Serving' \in {Serving, Serving \cup {v}, Serving \ {v}}
        BY <2>3
      <4> QED
        BY <4>1, ServingCounted, ServingFinite
    <3>2. link.max # Unlimited => link.count < link.max
      BY <2>1 DEF MayCount, LimitReached, RowKept, Unlimited
    <3> QED
      BY <2>1, <2>4, <3>1, <3>2 DEF CountedFirst, RowKept, Unlimited
  <2>7. HashHeld'
    BY <2>1, <2>2, <2>3, <2>4 DEF HashHeld
  <2> QED
    BY <2>3, <2>5, <2>6, <2>7
<1> QED
  BY <1>1, <1>2

\* A delivery uses up the count that was made for it, and a cookie is for the
\* hash of the row.
LEMMA VisitServes ==
    ASSUME LinksInv, NEW v \in Visitors, Serve(v)
    PROVE  LinksInv'
<1> USE DEF LinksInv
<1>1. /\ visit[v].at = "serve" /\ UNCHANGED <<link, spoiled>> /\ Leave(v)
      /\ sent' \in {sent, IF link.there /\ Attached(v) THEN sent + 1 ELSE sent}
      /\ proofs' \in {proofs, proofs \cup {visit[v].hash}}
      /\ proofs' # proofs => visit[v].password /\ visit[v].hash # 0
      /\ link # NoLink
  BY DEF Serve, NothingBefore
<1>2. VisitKept(Nothing) /\ Nothing.at = "idle"
  BY DEF VisitKept, Nothing
<1>3. /\ VisitsKept' /\ visit'[v] = Nothing
      /\ \A u \in Visitors \ {v} : visit'[u] = visit[u]
      /\ Serving' = Serving \ {v}
  BY <1>1, <1>2, OneVisit DEF Leave
<1>4. RowKept' /\ NothingBefore'
  BY <1>1 DEF RowKept, NothingBefore
<1>5. CountedFirst'
  <2>1. /\ Cardinality(Serving') \in Nat /\ Cardinality(Serving) \in Nat
        /\ Cardinality(Serving') <= Cardinality(Serving)
        /\ v \in Serving => Cardinality(Serving') + 1 = Cardinality(Serving)
    <3>1. Serving' \in {Serving, Serving \cup {v}, Serving \ {v}}
      BY <1>3
    <3>2. Serving' # Serving \cup {v}
      BY <1>3
    <3> QED
      BY <1>3, <3>1, <3>2, ServingCounted, ServingFinite
  <2>2. sent' # sent => /\ link.there /\ link.permission = "download" /\ v \in Serving
                       /\ sent' = sent + 1
    BY <1>1 DEF Attached, Counts, Serving
  <2>3. CASE sent' = sent
    BY <1>1, <2>1, <2>3 DEF CountedFirst, RowKept
  <2>4. CASE sent' # sent
    BY <1>1, <2>1, <2>2, <2>4 DEF CountedFirst, RowKept
  <2> QED
    BY <2>3, <2>4
<1>6. HashHeld'
  BY <1>1, <1>2, <1>3 DEF HashHeld
<1> QED
  BY <1>3, <1>4, <1>5, <1>6

-----------------------------------------------------------------------------
\* The row, what visits have read, the count before the delivery and the hash
\* of the cookies are kept by every step.
THEOREM LinksInvariant == LinksSpec => []LinksInv
<1>1. LinksInv /\ [LinksNext]_linksVars => LinksInv'
  <2> SUFFICES ASSUME LinksInv, [LinksNext]_linksVars PROVE LinksInv'
    OBVIOUS
  <2>1. CASE UNCHANGED linksVars
    BY <2>1 DEF linksVars, LinksInv, RowKept, VisitsKept, VisitKept, NothingBefore,
       CountedFirst, Serving, HashHeld
  <2>2. CASE CreateLink \/ RevokeLink \/ EntryChanges \/ Expires \/ AttemptForgotten
    <3>1. UNCHANGED visit
      BY <2>2 DEF CreateLink, RevokeLink, EntryChanges, Expires, AttemptForgotten
    <3> QED
      BY <2>2, <3>1, OwnerStep
  <2>3. ASSUME NEW v \in Visitors, VisitFails(v) PROVE LinksInv'
    BY <2>3, VisitLeaves DEF VisitFails
  <2> QED
    BY <2>1, <2>2, <2>3, VisitBegins, VisitResolves, VisitUpgrades, VisitCounts, VisitServes
       DEF LinksNext
<1> QED
  BY <1>1, LinksStartInv, PTL DEF LinksSpec

\* A link delivers at most as many attachments as it counts, and counts at most
\* as many as its owner allowed (Service.Resolve, the counting update).
THEOREM LimitKept == LinksSpec => []DownloadsWithinLimit
<1>1. LinksInv => DownloadsWithinLimit
  <2> SUFFICES ASSUME LinksInv, link.there PROVE DownloadsWithinLimit
    BY DEF DownloadsWithinLimit
  <2>1. Cardinality(Serving) \in Nat /\ sent \in Nat /\ link.count \in Nat
    BY ServingFinite DEF LinksInv, RowKept, CountedFirst
  <2> QED
    BY <2>1 DEF LinksInv, CountedFirst, DownloadsWithinLimit
<1> QED
  BY <1>1, LinksInvariant, PTL

\* The cookie a right password has earned keeps opening the link, unless the
\* replacement of a legacy hash went wrong (validShareUnlockProof).
THEOREM CookiesOpen == LinksSpec => []ProofsStayValid
<1>1. LinksInv => ProofsStayValid
  BY DEF LinksInv, HashHeld, ProofsStayValid
<1> QED
  BY <1>1, LinksInvariant, PTL

-----------------------------------------------------------------------------
(***************************************************************************)
(* Types of the links: what a visit holds are hashes and counts of the     *)
(* row, and proofs are hashes that visits held.                            *)
(***************************************************************************)
ShareRow ==
    [there : {TRUE}, permission : {"view", "download"},
     hash : Hashes, legacy : BOOLEAN, expired : BOOLEAN, count : 0 .. MaxVisits,
     max : {Unlimited} \cup Nat]

Visit ==
    [at : {"idle", "resolve", "upgrade", "count", "serve"}, mode : Modes,
     password : BOOLEAN, right : BOOLEAN, proof : Hashes, hash : Hashes,
     count : 0 .. MaxVisits]

LEMMA LinkRows ==
    ASSUME LinksTypeOK
    PROVE  /\ link.there => link \in ShareRow
           /\ link \in {NoLink, Deleted} \/ link \in ShareRow
           /\ visit \in [Visitors -> Visit]
<1>1. link \in {NoLink, Deleted} \/ link \in ShareRow
  BY DEF LinksTypeOK, ShareRow
<1>2. link.there => link \in ShareRow
  BY <1>1 DEF NoLink, Deleted
<1>3. visit \in [Visitors -> Visit]
  BY DEF LinksTypeOK, Visit
<1> QED
  BY <1>1, <1>2, <1>3

LEMMA NothingIsVisit == Nothing \in Visit
BY LinksConstants DEF Nothing, Visit, Hashes, Modes

\* A step that writes one visit and leaves the row.
LEMMA VisitTyped ==
    ASSUME LinksTypeOK, NEW v \in Visitors, NEW w \in Visit,
           visit' = [visit EXCEPT ![v] = w],
           attempts' \in 0 .. MaxTries, proofs' \subseteq 1 .. MaxHash, sent' \in Nat,
           spoiled' \in BOOLEAN,
           link' \in {NoLink, Deleted} \/ link' \in ShareRow, UNCHANGED shared
    PROVE  LinksTypeOK'
<1>1. visit' \in [Visitors -> Visit]
  BY LinkRows
<1> QED
  BY <1>1 DEF LinksTypeOK, ShareRow, Visit

LEMMA LinksTypesInit == LinksInit => LinksTypeOK
<1> SUFFICES ASSUME LinksInit PROVE LinksTypeOK
  OBVIOUS
<1>1. visit \in [Visitors -> Visit]
  BY NothingIsVisit DEF LinksInit
<1>2. attempts \in 0 .. MaxTries
  BY LinksConstants DEF LinksInit
<1>3. spoiled \in BOOLEAN
  BY DEF LinksInit
<1> QED
  BY <1>1, <1>2, <1>3 DEF LinksInit, LinksTypeOK, Visit

\* Every operation of the owner and of a visit keeps the types.
LEMMA LinksTypesStep == LinksTypeOK /\ [LinksNext]_linksVars => LinksTypeOK'
<1> SUFFICES ASSUME LinksTypeOK, [LinksNext]_linksVars PROVE LinksTypeOK'
  OBVIOUS
<1> USE LinksConstants
<1>0. /\ link.there => link \in ShareRow
      /\ link \in {NoLink, Deleted} \/ link \in ShareRow
      /\ visit \in [Visitors -> Visit] /\ attempts \in 0 .. MaxTries
      /\ proofs \subseteq 1 .. MaxHash /\ sent \in Nat /\ spoiled \in BOOLEAN
  BY LinkRows DEF LinksTypeOK
<1>a. ASSUME NEW v \in Visitors, Leave(v), UNCHANGED <<link, shared, attempts, spoiled>>,
             proofs' \subseteq 1 .. MaxHash, sent' \in Nat
      PROVE  LinksTypeOK'
  BY <1>0, <1>a, NothingIsVisit, VisitTyped DEF Leave
<1>1. CASE UNCHANGED linksVars
  BY <1>1 DEF linksVars, LinksTypeOK
<1>2. CASE CreateLink \/ RevokeLink \/ EntryChanges \/ Expires \/ AttemptForgotten
  <2>1. UNCHANGED <<visit, proofs, sent, spoiled>>
    BY <1>2 DEF CreateLink, RevokeLink, EntryChanges, Expires, AttemptForgotten
  <2>2. link' \in {NoLink, Deleted} \/ link' \in ShareRow
    <3>1. CASE CreateLink
      <4>1. link' \in Link
        BY <3>1 DEF CreateLink
      <4>3. 0 \in 0 .. MaxVisits /\ 1 .. MaxVisits \subseteq Nat
        OBVIOUS
      <4> HIDE LinksConstants
      <4> QED
        BY <4>1, <4>3 DEF Link, ShareRow
    <3>2. CASE Expires
      <4>1. link \in ShareRow /\ link' = [link EXCEPT !.expired = TRUE]
        BY <1>0, <3>2 DEF Expires
      <4>2. \A yes \in BOOLEAN : [link EXCEPT !.expired = yes] \in ShareRow
        BY <4>1 DEF ShareRow
      <4>3. TRUE \in BOOLEAN
        OBVIOUS
      <4> QED
        BY <4>1, <4>2, <4>3
    <3>3. CASE RevokeLink \/ EntryChanges \/ AttemptForgotten
      BY <1>0, <3>3 DEF RevokeLink, EntryChanges, AttemptForgotten
    <3> QED
      BY <1>2, <3>1, <3>2, <3>3
  <2>3. attempts' \in 0 .. MaxTries
    BY <1>0, <1>2 DEF CreateLink, RevokeLink, EntryChanges, Expires, AttemptForgotten
  <2>4. shared' \in {"live", "trashed", "gone"}
    BY <1>2 DEF CreateLink, RevokeLink, EntryChanges, Expires, AttemptForgotten, LinksTypeOK
  <2> QED
    BY <1>0, <2>1, <2>2, <2>3, <2>4 DEF LinksTypeOK, ShareRow, Visit
<1>3. ASSUME NEW v \in Visitors, DownloadPublic(v) PROVE LinksTypeOK'
  <2>1. PICK mode \in Modes, password, correct \in BOOLEAN, proof \in proofs \cup {0} :
          /\ password => proof = 0 /\ attempts < MaxTries
          /\ correct => password
          /\ attempts' = IF password THEN attempts + 1 ELSE attempts
          /\ visit' = [visit EXCEPT ![v] = [Nothing EXCEPT
                  !.at = "resolve", !.mode = mode, !.password = password,
                  !.right = correct, !.proof = proof]]
    BY <1>3 DEF DownloadPublic
  <2>2. proof \in Hashes
    BY <1>0 DEF Hashes
  <2>3. [Nothing EXCEPT !.at = "resolve", !.mode = mode, !.password = password,
                        !.right = correct, !.proof = proof] \in Visit
    BY <2>2, NothingIsVisit DEF Visit
  <2>4. attempts' \in 0 .. MaxTries
    BY <1>0, <2>1
  <2> QED
    BY <1>0, <1>3, <2>1, <2>3, <2>4, VisitTyped DEF DownloadPublic
<1>4. ASSUME NEW v \in Visitors, Resolve(v) PROVE LinksTypeOK'
  <2>1. UNCHANGED <<link, shared, attempts, proofs, sent, spoiled>>
    BY <1>4 DEF Resolve
  <2>2. CASE Leave(v)
    BY <1>0, <1>a, <2>1, <2>2
  <2>3. CASE ~Leave(v)
    <3>1. PICK step \in {"upgrade", "count", "serve"} :
            /\ link.there
            /\ visit' = [visit EXCEPT ![v].at = step, ![v].hash = link.hash,
                                      ![v].count = link.count]
      BY <1>4, <2>3 DEF Resolve, LetIn
    <3>2. link.hash \in Hashes /\ link.count \in 0 .. MaxVisits
      BY <1>0, <3>1 DEF ShareRow
    <3>3. visit[v] \in Visit
      BY <1>0
    <3>4. [visit[v] EXCEPT !.at = step, !.hash = link.hash, !.count = link.count] \in Visit
      BY <3>2, <3>3 DEF Visit
    <3>5. visit' = [visit EXCEPT ![v] =
                      [visit[v] EXCEPT !.at = step, !.hash = link.hash, !.count = link.count]]
      BY <1>0, <3>1
    <3> QED
      BY <1>0, <2>1, <3>4, <3>5, VisitTyped
  <2> QED
    BY <2>2, <2>3
<1>5. ASSUME NEW v \in Visitors, UpgradeHash(v) PROVE LinksTypeOK'
  <2>1. PICK fresh \in 1 .. MaxHash :
          /\ \/ /\ link.there
                /\ link' = [link EXCEPT !.hash = fresh, !.legacy = FALSE]
                /\ spoiled' = (spoiled \/ link.hash # visit[v].hash)
             \/ UNCHANGED link /\ spoiled' = TRUE
          /\ \/ \E step \in {"count", "serve"} :
                   visit' = [visit EXCEPT ![v].at = step, ![v].hash = fresh]
             \/ Leave(v)
    BY <1>5 DEF UpgradeHash, HashAfterwards, LetIn
  <2>2. UNCHANGED <<shared, attempts, proofs, sent>>
    BY <1>5 DEF UpgradeHash
  <2>3. fresh \in Hashes
    BY DEF Hashes
  <2>4. link' \in {NoLink, Deleted} \/ link' \in ShareRow
    <3>1. \A no \in BOOLEAN : link.there =>
            [link EXCEPT !.hash = fresh, !.legacy = no] \in ShareRow
      BY <1>0, <2>3 DEF ShareRow
    <3>2. FALSE \in BOOLEAN
      OBVIOUS
    <3> QED
      BY <1>0, <2>1, <3>1, <3>2
  <2>5. spoiled' \in BOOLEAN
    BY <2>1
  <2>6. PICK w \in Visit : visit' = [visit EXCEPT ![v] = w]
    <3>1. visit[v] \in Visit
      BY <1>0
    <3>2. CASE Leave(v)
      BY <3>2, NothingIsVisit DEF Leave
    <3>3. ASSUME NEW step \in {"count", "serve"},
                 visit' = [visit EXCEPT ![v].at = step, ![v].hash = fresh]
          PROVE  \E w \in Visit : visit' = [visit EXCEPT ![v] = w]
      <4>1. [visit[v] EXCEPT !.at = step, !.hash = fresh] \in Visit
        BY <2>3, <3>1 DEF Visit
      <4>2. visit' = [visit EXCEPT ![v] = [visit[v] EXCEPT !.at = step, !.hash = fresh]]
        BY <1>0, <3>3
      <4> QED
        BY <4>1, <4>2
    <3> QED
      BY <2>1, <3>2, <3>3
  <2> QED
    BY <1>0, <2>2, <2>4, <2>5, <2>6, VisitTyped
<1>6. ASSUME NEW v \in Visitors, CountDownload(v) PROVE LinksTypeOK'
  <2>1. UNCHANGED <<shared, attempts, proofs, sent, spoiled>>
    BY <1>6 DEF CountDownload
  <2>2. CASE Leave(v) /\ UNCHANGED link
    BY <1>0, <1>a, <2>1, <2>2
  <2>3. CASE ~(Leave(v) /\ UNCHANGED link)
    <3>1. /\ link.there /\ link.count < MaxVisits
          /\ link' = [link EXCEPT !.count = @ + 1]
          /\ visit' = [visit EXCEPT ![v].at = "serve"]
      BY <1>6, <2>3 DEF CountDownload
    <3>2. link \in ShareRow /\ link.count \in 0 .. MaxVisits
      BY <1>0, <3>1 DEF ShareRow
    <3>0. link.count + 1 \in 0 .. MaxVisits
      BY <3>1, <3>2
    <3>3. link' \in ShareRow
      BY <3>1, <3>2, <3>0 DEF ShareRow
    <3>4. [visit[v] EXCEPT !.at = "serve"] \in Visit
      BY <1>0 DEF Visit
    <3>5. visit' = [visit EXCEPT ![v] = [visit[v] EXCEPT !.at = "serve"]]
      BY <1>0, <3>1
    <3> QED
      BY <1>0, <2>1, <3>3, <3>4, <3>5, VisitTyped
  <2> QED
    BY <2>2, <2>3
<1>7. ASSUME NEW v \in Visitors, Serve(v) PROVE LinksTypeOK'
  <2>1. visit[v].hash \in Hashes
    BY <1>0 DEF Visit
  <2>2. proofs' \subseteq 1 .. MaxHash
    <3>1. visit[v].hash # 0 => visit[v].hash \in 1 .. MaxHash
      BY <2>1 DEF Hashes
    <3>2. proofs' \in {proofs, proofs \cup {visit[v].hash}}
          /\ (visit[v].hash = 0 => proofs' = proofs)
      BY <1>7 DEF Serve
    <3> QED
      BY <1>0, <3>1, <3>2
  <2>3. sent' \in Nat
    BY <1>0, <1>7 DEF Serve
  <2> QED
    BY <1>7, <1>a, <2>2, <2>3 DEF Serve
<1>8. ASSUME NEW v \in Visitors, VisitFails(v) PROVE LinksTypeOK'
  BY <1>0, <1>8, <1>a DEF VisitFails
<1> QED
  BY <1>1, <1>2, <1>3, <1>4, <1>5, <1>6, <1>7, <1>8 DEF LinksNext

\* What visits and the row hold is well formed, for any number of visits.
THEOREM LinksTypesHold == LinksSpec => []LinksTypeOK
BY LinksTypesInit, LinksTypesStep, PTL DEF LinksSpec

-----------------------------------------------------------------------------
(***************************************************************************)
(* WebDAV: what the clients and the handler may hold, and what a mounted   *)
(* drive promises.                                                         *)
(***************************************************************************)

\* What a client's request is known to be.
DavRequest ==
    [at : Outside \cup Inside, op : Methods \cup {"none"}, over : BOOLEAN,
     from : Paths \cup {NoPath}, to : Paths \cup {NoPath}, id : Ids \cup {0}]

DavRequests == dav \in [Mounters -> DavRequest]

-----------------------------------------------------------------------------
(* Credentials: what a remembered one has left and the time since it was    *)
(* revoked make up no more than its life, unless it was remembered late.    *)

CredentialAges ==
    /\ since \in 0 .. TTL + 1 /\ authC \in {Forgotten} \cup 0 .. TTL
    /\ right => since = 0
    /\ Fresh /\ ~right /\ ~overrun => authC + since <= TTL

LEMMA AgesInit == DavInit => CredentialAges
  BY WebDAVConstants DEF DavInit, CredentialAges, Forgotten, Fresh

\* Most steps leave the credential alone.
LEMMA AgesStep == CredentialAges /\ [DavNext]_davVars => CredentialAges'
<1> SUFFICES ASSUME CredentialAges, [DavNext]_davVars PROVE CredentialAges'
  OBVIOUS
<1> USE WebDAVConstants DEF CredentialAges, Fresh, Forgotten
<1>1. ASSUME NEW m \in Mounters, user(m) PROVE CredentialAges'
  BY <1>1 DEF user
<1>2. ASSUME NEW m \in Mounters, Remember(m) PROVE CredentialAges'
  BY <1>2 DEF Remember
<1>3. CASE Revoked
  BY <1>3 DEF Revoked
<1>4. CASE TimePasses
  BY <1>4 DEF TimePasses
<1>5. CASE ServerRestarts
  BY <1>5 DEF ServerRestarts
<1>6. ASSUME NEW m \in Mounters,
             \/ ServeHTTP(m) \/ Confirm(m) \/ Stat(m) \/ RemoveAll(m) \/ OpenFile(m)
             \/ Close(m) \/ Rename(m) \/ RequestFails(m)
      PROVE  UNCHANGED <<right, since, authC, overrun>>
  BY <1>6 DEF ServeHTTP, Confirm, Stat, RemoveAll, OpenFile, Close, Rename, RequestFails,
     credentialVars
<1>7. ASSUME NEW p \in Paths, Unlock(p) PROVE UNCHANGED <<right, since, authC, overrun>>
  BY <1>7 DEF Unlock, credentialVars
<1>8. ChangedElsewhere => UNCHANGED <<right, since, authC, overrun>>
  BY DEF ChangedElsewhere, credentialVars
<1>9. UNCHANGED davVars => UNCHANGED <<right, since, authC, overrun>>
  BY DEF davVars
<1>10. CASE UNCHANGED <<right, since, authC, overrun>>
  BY <1>10
<1> QED
  BY <1>1, <1>2, <1>3, <1>4, <1>5, <1>6, <1>7, <1>8, <1>9, <1>10 DEF DavNext

-----------------------------------------------------------------------------
(* Locks: what a request holds is held by it alone, and locked by no other  *)
(* client, from the moment the lock system let it pass to its end.          *)

LocksRespected ==
    /\ lock \in [Paths -> Mounters \cup {Unlocked}]
    /\ \A m \in Mounters : \A p \in Holds(m) \cap Paths :
          /\ lock[p] \in {Unlocked, m}
          /\ \A n \in Mounters \ {m} : p \notin Holds(n)

LEMMA AwayIsRequest == Away \in DavRequest
  BY DEF Away, DavRequest, Outside

\* What one client's request becomes.
LEMMA OneRequest ==
    ASSUME DavRequests, NEW m \in Mounters, NEW r \in DavRequest,
           dav' = [dav EXCEPT ![m] = r]
    PROVE  /\ DavRequests'
           /\ dav'[m] = r
           /\ \A n \in Mounters \ {m} : dav'[n] = dav[n] /\ Holds(n)' = Holds(n)
  BY DEF DavRequests, Holds, Claims

\* Setting some of its fields leaves the others.
LEMMA FieldsStay ==
    ASSUME NEW r \in DavRequest, NEW step \in Outside \cup Inside
    PROVE  /\ [r EXCEPT !.at = step] \in DavRequest
           /\ [r EXCEPT !.at = step].at = step
           /\ [r EXCEPT !.at = step].op = r.op
           /\ [r EXCEPT !.at = step].from = r.from
           /\ [r EXCEPT !.at = step].to = r.to
  BY DEF DavRequest

\* A request that holds nothing new leaves the locks respected.
LEMMA NothingNew ==
    ASSUME DavRequests, LocksRespected, UNCHANGED lock, NEW m \in Mounters,
           NEW r \in DavRequest, dav' = [dav EXCEPT ![m] = r],
           \/ r.at \in Outside
           \/ /\ dav[m].at \in Inside
              /\ r.op = dav[m].op /\ r.from = dav[m].from /\ r.to = dav[m].to
    PROVE  DavRequests' /\ LocksRespected'
<1>1. /\ DavRequests' /\ dav'[m] = r
      /\ \A n \in Mounters \ {m} : Holds(n)' = Holds(n)
  BY OneRequest
<1>2. Holds(m)' \subseteq Holds(m)
  <2>1. CASE r.at \in Outside
    BY <1>1, <2>1 DEF Holds
  <2>2. CASE dav[m].at \in Inside /\ r.op = dav[m].op /\ r.from = dav[m].from /\ r.to = dav[m].to
    BY <1>1, <2>2 DEF Holds, Claims, Inside, Outside
  <2> QED
    BY <2>1, <2>2
<1> QED
  BY <1>1, <1>2 DEF LocksRespected

\* A request that goes on holds what it held.
LEMMA GoesOn ==
    ASSUME DavRequests, LocksRespected, NEW m \in Mounters,
           dav[m].at \in Inside, UNCHANGED lock,
           \/ Leaves(m)
           \/ \E step \in Inside : Goes(m, step)
           \/ \E step \in Inside, i \in Ids : With(m, step, i)
    PROVE  DavRequests' /\ LocksRespected'
<1>1. dav[m] \in DavRequest
  BY DEF DavRequests
<1>2. CASE Leaves(m)
  BY <1>2, AwayIsRequest, NothingNew DEF Leaves, Away, Outside
<1>3. ASSUME NEW step \in Inside, Goes(m, step)
      PROVE  DavRequests' /\ LocksRespected'
  <2>1. dav' = [dav EXCEPT ![m] = [dav[m] EXCEPT !.at = step]]
    BY <1>3 DEF Goes
  <2> QED
    BY <1>1, <2>1, FieldsStay, NothingNew
<1>4. ASSUME NEW step \in Inside, NEW i \in Ids, With(m, step, i)
      PROVE  DavRequests' /\ LocksRespected'
  <2> DEFINE r == [dav[m] EXCEPT !.at = step, !.id = i]
  <2>1. dav' = [dav EXCEPT ![m] = r]
    BY <1>4 DEF With
  <2>2. r \in DavRequest /\ r.op = dav[m].op /\ r.from = dav[m].from /\ r.to = dav[m].to
    BY <1>1 DEF DavRequest
  <2> HIDE DEF r
  <2> QED
    BY <2>1, <2>2, NothingNew
<1> QED
  BY <1>2, <1>3, <1>4

LEMMA LocksInit == DavInit => DavRequests /\ LocksRespected
<1> SUFFICES ASSUME DavInit PROVE DavRequests /\ LocksRespected
  OBVIOUS
<1>1. dav = [m \in Mounters |-> Away] /\ lock = [p \in Paths |-> Unlocked]
  BY DEF DavInit
<1>2. \A m \in Mounters : Holds(m) = {}
  BY <1>1 DEF Holds, Away, Outside
<1> QED
  BY <1>1, <1>2, AwayIsRequest DEF DavRequests, LocksRespected

LEMMA LocksStep ==
    DavRequests /\ LocksRespected /\ mount \in Mount /\ [DavNext]_davVars
        => (DavRequests /\ LocksRespected)'
<1> SUFFICES ASSUME DavRequests, LocksRespected, mount \in Mount, [DavNext]_davVars
             PROVE  DavRequests' /\ LocksRespected'
  OBVIOUS
<1>1. ASSUME NEW m \in Mounters,
             Stat(m) \/ RemoveAll(m) \/ OpenFile(m) \/ Close(m) \/ Rename(m)
      PROVE  DavRequests' /\ LocksRespected'
  <2>1. dav[m].at \in Inside /\ UNCHANGED lock
    BY <1>1 DEF Stat, RemoveAll, OpenFile, Close, Rename, Inside
  <2>2. CASE Stat(m)
    BY <2>1, <2>2, GoesOn DEF Stat, Inside
  <2>3. CASE RemoveAll(m)
    <3>1. lookup(dav[m].to) \subseteq Ids
      BY DEF lookup, Live
    <3> QED
      BY <2>1, <2>3, <3>1, GoesOn DEF RemoveAll, Inside
  <2>4. CASE OpenFile(m) \/ Close(m)
    BY <2>1, <2>4, GoesOn DEF OpenFile, openWriteSpool, Close, Inside
  <2>5. CASE Rename(m)
    <3>1. lookup(dav[m].from) \subseteq Ids
      BY DEF lookup, Live
    <3> QED
      BY <2>1, <2>5, <3>1, GoesOn DEF Rename, Inside
  <2> QED
    BY <1>1, <2>2, <2>3, <2>4, <2>5
<1>2. ASSUME NEW m \in Mounters, ServeHTTP(m) \/ user(m) \/ Remember(m) \/ RequestFails(m)
      PROVE  DavRequests' /\ LocksRespected'
  <2>1. UNCHANGED lock
    BY <1>2 DEF ServeHTTP, user, Remember, RequestFails
  <2>2. dav[m] \in DavRequest
    BY DEF DavRequests
  <2>3. \E r \in DavRequest : r.at \in Outside /\ dav' = [dav EXCEPT ![m] = r]
    <3>1. CASE ServeHTTP(m)
      BY <3>1 DEF ServeHTTP, Mount, DavRequest, Outside
    <3>2. ASSUME NEW step \in Outside, Goes(m, step)
          PROVE  \E r \in DavRequest : r.at \in Outside /\ dav' = [dav EXCEPT ![m] = r]
      <4>1. dav' = [dav EXCEPT ![m] = [dav[m] EXCEPT !.at = step]]
        BY <3>2 DEF Goes
      <4> QED
        BY <2>2, <4>1, FieldsStay
    <3>3. ASSUME Leaves(m)
          PROVE  \E r \in DavRequest : r.at \in Outside /\ dav' = [dav EXCEPT ![m] = r]
      BY <3>3, AwayIsRequest DEF Leaves, Away, Outside
    <3> QED
      BY <1>2, <3>1, <3>2, <3>3 DEF user, Remember, RequestFails, Outside
  <2> QED
    BY <2>1, <2>3, NothingNew
<1>3. ASSUME NEW m \in Mounters, Confirm(m) PROVE DavRequests' /\ LocksRespected'
  <2>1. dav[m] \in DavRequest
    BY DEF DavRequests
  <2>2. ASSUME Confirmed(m)
        PROVE  \E r \in DavRequest :
                  /\ dav' = [dav EXCEPT ![m] = r]
                  /\ r.op = dav[m].op /\ r.from = dav[m].from /\ r.to = dav[m].to
    <3>1. PICK step : dav' = [dav EXCEPT ![m] = [dav[m] EXCEPT !.at = step]] /\ step = FirstStep(dav[m].op)
      BY <1>3, <2>2 DEF Confirm, Goes
    <3>2. step \in Inside
      BY <3>1 DEF FirstStep, Inside
    <3> DEFINE r == [dav[m] EXCEPT !.at = step]
    <3>3. r \in DavRequest /\ r.op = dav[m].op /\ r.from = dav[m].from /\ r.to = dav[m].to
      BY <2>1, <3>2 DEF DavRequest
    <3>4. dav' = [dav EXCEPT ![m] = r]
      BY <3>1
    <3> HIDE DEF r
    <3> QED
      BY <3>3, <3>4
  <2>3. CASE Confirmed(m)
    <3>1. PICK r \in DavRequest :
             /\ dav' = [dav EXCEPT ![m] = r]
             /\ r.op = dav[m].op /\ r.from = dav[m].from /\ r.to = dav[m].to
      BY <2>2, <2>3
    <3>2. /\ DavRequests' /\ dav'[m] = r
          /\ \A n \in Mounters \ {m} : Holds(n)' = Holds(n)
      BY <3>1, OneRequest
    <3>3. CASE dav[m].op = "LOCK"
      <4>1. Holds(m)' = {}
        BY <3>1, <3>2, <3>3 DEF Holds
      <4>2. /\ lock' \in [Paths -> Mounters \cup {Unlocked}]
            /\ \A q \in Paths \ {dav[m].from} : lock'[q] = lock[q]
        BY <1>3, <2>3, <3>3 DEF Confirm, LocksRespected
      <4>3. \A n \in Mounters \ {m} : dav[m].from \notin Holds(n)
        BY <2>3, <3>3 DEF Confirmed, Claims
      <4> QED
        BY <3>2, <4>1, <4>2, <4>3 DEF LocksRespected
    <3>4. CASE dav[m].op # "LOCK"
      <4>1. Holds(m)' \subseteq Claims(m) /\ UNCHANGED lock
        BY <1>3, <2>3, <3>1, <3>2, <3>4 DEF Confirm, Holds, Claims
      <4>2. \A p \in Claims(m) :
              lock[p] \in {Unlocked, m} /\ \A n \in Mounters \ {m} : p \notin Holds(n)
        BY <2>3, <3>4 DEF Confirmed
      <4> QED
        BY <3>2, <4>1, <4>2 DEF LocksRespected
    <3> QED
      BY <3>3, <3>4
  <2>4. CASE ~Confirmed(m)
    BY <1>3, <2>4, AwayIsRequest, NothingNew DEF Confirm, Leaves, Away, Outside
  <2> QED
    BY <2>3, <2>4
<1>4. CASE ServerRestarts
  <2>1. dav' = [m \in Mounters |-> Away] /\ lock' = [p \in Paths |-> Unlocked]
    BY <1>4 DEF ServerRestarts
  <2>2. \A m \in Mounters : Holds(m)' = {}
    BY <2>1 DEF Holds, Away, Outside
  <2> QED
    BY <2>1, <2>2, AwayIsRequest DEF DavRequests, LocksRespected
<1>5. ASSUME NEW q \in Paths, Unlock(q) PROVE DavRequests' /\ LocksRespected'
  BY <1>5 DEF Unlock, DavRequests, LocksRespected, Holds, Claims
<1>6. CASE Revoked \/ TimePasses \/ ChangedElsewhere \/ UNCHANGED davVars
  <2>1. UNCHANGED <<dav, lock>>
    BY <1>6 DEF Revoked, TimePasses, ChangedElsewhere, davVars
  <2> QED
    BY <2>1 DEF DavRequests, LocksRespected, Holds, Claims
<1> QED
  BY <1>1, <1>2, <1>3, <1>4, <1>5, <1>6 DEF DavNext

-----------------------------------------------------------------------------
(* Theorems *)

DavInv == CredentialAges /\ DavRequests /\ LocksRespected /\ mount \in Mount

LEMMA DavInvInit == DavInit => DavInv
  BY WebDAVConstants, AgesInit, LocksInit DEF DavInv, DavInit

LEMMA DavInvStep == DavInv /\ [DavNext]_davVars => DavInv'
<1> SUFFICES ASSUME DavInv, [DavNext]_davVars PROVE DavInv'
  OBVIOUS
<1>1. UNCHANGED mount
  BY DEF DavNext, ServeHTTP, user, Remember, Confirm, Stat, RemoveAll, OpenFile, Close, Rename,
     RequestFails, Revoked, TimePasses, ChangedElsewhere, ServerRestarts, Unlock, davVars
<1> QED
  BY <1>1, AgesStep, LocksStep DEF DavInv

\* The inductive invariant holds in every reachable state.
THEOREM DavInvariant == DavSpec => []DavInv
  BY DavInvInit, DavInvStep, PTL DEF DavSpec

\* A client's request moves by its own steps only, or ends with the server.
LEMMA OwnSteps ==
    ASSUME DavRequests, [DavNext]_davVars, NEW m \in Mounters, dav'[m] # dav[m]
    PROVE  \/ ServeHTTP(m) \/ user(m) \/ Remember(m) \/ Confirm(m)
           \/ Stat(m) \/ RemoveAll(m) \/ OpenFile(m) \/ Close(m) \/ Rename(m)
           \/ RequestFails(m) \/ ServerRestarts
<1>1. ASSUME NEW n \in Mounters \ {m},
             \/ ServeHTTP(n) \/ user(n) \/ Remember(n) \/ Confirm(n)
             \/ Stat(n) \/ RemoveAll(n) \/ OpenFile(n) \/ Close(n) \/ Rename(n)
             \/ RequestFails(n)
      PROVE  FALSE
  <2>1. \E r : dav' = [dav EXCEPT ![n] = r]
    BY <1>1 DEF ServeHTTP, user, Remember, Confirm, Stat, RemoveAll, OpenFile, openWriteSpool,
       Close, Rename, RequestFails, Goes, Leaves, With
  <2> QED
    BY <2>1 DEF DavRequests
<1>2. CASE Revoked \/ TimePasses \/ ChangedElsewhere \/ UNCHANGED davVars
  BY <1>2 DEF Revoked, TimePasses, ChangedElsewhere, davVars
<1>3. ASSUME NEW p \in Paths, Unlock(p) PROVE FALSE
  BY <1>3 DEF Unlock
<1> QED
  BY <1>1, <1>2, <1>3 DEF DavNext

\* A revoked password or device opens the drive for no longer than the life of
\* a remembered credential, however often it is used (handler.go:70).
THEOREM RevokedCredentialEnds == DavSpec => RevokedIsForgotten
<1> DEFINE A == \A m \in Mounters :
                  dav[m].at = "user" /\ dav'[m].at = "confirm" =>
                      right \/ since < TTL \/ overrun
<1>1. DavInv /\ [DavNext]_davVars => [A]_davVars
  <2> SUFFICES ASSUME DavInv, [DavNext]_davVars, ~UNCHANGED davVars,
                      NEW m \in Mounters, dav[m].at = "user", dav'[m].at = "confirm"
               PROVE  right \/ since < TTL \/ overrun
    OBVIOUS
  <2>1. user(m) \/ ServeHTTP(m) \/ RequestFails(m) \/ ServerRestarts
    BY OwnSteps DEF DavInv, Remember, Confirm, Stat, RemoveAll, OpenFile, Close, Rename
  <2>2. dav'[m] # Away
    BY DEF Away
  <2>3. ~ServeHTTP(m) /\ ~RequestFails(m) /\ ~ServerRestarts /\ ~Leaves(m)
    BY <2>2 DEF ServeHTTP, RequestFails, ServerRestarts, Leaves, Away, DavInv, DavRequests
  <2>4. Fresh \/ right
    BY <2>1, <2>3 DEF user
  <2> QED
    BY <2>4, WebDAVConstants DEF DavInv, CredentialAges, Fresh, Forgotten
<1> QED
  BY <1>1, DavInvariant, PTL DEF DavSpec, RevokedIsForgotten

\* No request of one client changes a file at a path it names while another
\* client has that path locked (handler.go:44).
THEOREM LockHolds == DavSpec => LockKeepsOthersOut
<1> DEFINE A == \A p \in Paths, m \in Mounters :
                  /\ p \in Claims(m) /\ dav[m].op # "LOCK" /\ dav'[m] # dav[m]
                  /\ lock[p] \notin {Unlocked, m}
                  => At(Place(p))' = At(Place(p))
<1>1. DavInv /\ [DavNext]_davVars => [A]_davVars
  <2> SUFFICES ASSUME DavInv, [DavNext]_davVars, NEW p \in Paths, NEW m \in Mounters,
                      p \in Claims(m), dav[m].op # "LOCK", dav'[m] # dav[m],
                      lock[p] \notin {Unlocked, m}
               PROVE  At(Place(p))' = At(Place(p))
    OBVIOUS
  <2>1. dav[m].at \in Outside
    BY DEF DavInv, LocksRespected, Holds
  <2>2. UNCHANGED tree
    <3>1. ~Stat(m) /\ ~RemoveAll(m) /\ ~OpenFile(m) /\ ~Close(m) /\ ~Rename(m)
      BY <2>1 DEF Stat, RemoveAll, OpenFile, Close, Rename, Outside
    <3> QED
      BY <3>1, OwnSteps DEF DavInv, ServeHTTP, user, Remember, Confirm, RequestFails,
         ServerRestarts
  <2> QED
    BY <2>2 DEF At, Live, Place
<1> QED
  BY <1>1, DavInvariant, PTL DEF DavSpec, LockKeepsOthersOut

-----------------------------------------------------------------------------
(***************************************************************************)
(* Types of the drive: one live file has a place at a time, for every      *)
(* operation that gives a file a place asks whether it is free, in the     *)
(* statement that gives it (file_entries_unique_name_idx); and a request   *)
(* names paths of the drive it has mounted.                                *)
(***************************************************************************)
RowsHaveColumns ==
    /\ tree = [i \in Ids |-> tree[i]]
    /\ \A i \in Ids : DOMAIN tree[i] = {"dir", "name", "by"}

PlacesApart == \A i, j \in Live : Place(tree[i]) = Place(tree[j]) => i = j

\* What a request is that the clients of this mount may send.
Sent(w) == w = Away \/ (w.op \in mount.ops /\ w.from \in Paths /\ w.to \in Paths)

RequestsSent == \A m \in Mounters : Sent(dav[m])

DavTyped ==
    /\ mount \in Mounts /\ right \in BOOLEAN /\ overrun \in BOOLEAN
    /\ RowsHaveColumns /\ PlacesApart /\ RequestsSent

LEMMA DavTypedInit == DavInit => DavTyped
<1> SUFFICES ASSUME DavInit PROVE DavTyped
  OBVIOUS
<1>1. RowsHaveColumns
  BY DEF DavInit, RowsHaveColumns, Missing
<1>2. PlacesApart
  BY DEF DavInit, PlacesApart, Live
<1>3. RequestsSent
  BY DEF DavInit, RequestsSent, Sent
<1> QED
  BY <1>1, <1>2, <1>3 DEF DavInit, DavTyped

\* A row that gets a place that is free, or loses the one it had.
LEMMA RowPlaced ==
    ASSUME RowsHaveColumns, PlacesApart, NEW i \in Ids, NEW after,
           DOMAIN after = {"dir", "name", "by"},
           tree' = [tree EXCEPT ![i] = after],
           \/ after \in {Missing, Trashed}
           \/ Vacant(Place(after), i)
           \/ i \in Live /\ Place(after) = Place(tree[i])
    PROVE  RowsHaveColumns' /\ PlacesApart'
<1>1. tree'[i] = after /\ \A j \in Ids \ {i} : tree'[j] = tree[j]
  BY DEF RowsHaveColumns
<1>2. RowsHaveColumns'
  BY <1>1 DEF RowsHaveColumns
<1>3. Live' \ {i} = Live \ {i}
  BY <1>1 DEF Live
<1>4. ASSUME NEW j \in Live', j # i, i \in Live', Place(tree'[j]) = Place(tree'[i])
      PROVE  FALSE
  <2>1. j \in Live \ {i} /\ tree'[j] = tree[j] /\ tree'[i] = after
    BY <1>1, <1>3, <1>4 DEF Live
  <2>2. after \notin {Missing, Trashed}
    BY <1>4, <2>1 DEF Live
  <2>3. ~Vacant(Place(after), i)
    BY <1>4, <2>1 DEF Vacant
  <2> QED
    BY <1>4, <2>1, <2>2, <2>3 DEF PlacesApart
<1>5. ASSUME NEW j \in Live', NEW k \in Live', j # i, k # i, Place(tree'[j]) = Place(tree'[k])
      PROVE  j = k
  BY <1>1, <1>3, <1>5 DEF PlacesApart, Live
<1> QED
  BY <1>2, <1>4, <1>5 DEF PlacesApart

\* The rows of the tree that a step leaves alone.
LEMMA TreeStays ==
    ASSUME RowsHaveColumns, PlacesApart, UNCHANGED tree
    PROVE  RowsHaveColumns' /\ PlacesApart'
BY DEF RowsHaveColumns, PlacesApart, Live

\* One client's request goes on, or is over.
LEMMA RequestSent ==
    ASSUME RequestsSent, DavRequests, UNCHANGED mount, NEW m \in Mounters,
           \/ UNCHANGED dav
           \/ Leaves(m)
           \/ dav[m] # Away /\ \E step : Goes(m, step)
           \/ dav[m] # Away /\ \E step, id : With(m, step, id)
    PROVE  RequestsSent'
<1>1. dav[m] # Away => dav[m].op \in mount.ops /\ dav[m].from \in Paths /\ dav[m].to \in Paths
  BY DEF RequestsSent, Sent
<1>2. ASSUME NEW w, dav' = [dav EXCEPT ![m] = w],
             w = Away \/ (w.op = dav[m].op /\ w.from = dav[m].from /\ w.to = dav[m].to
                          /\ dav[m] # Away)
      PROVE  RequestsSent'
  <2>1. \A n \in Mounters : dav'[n] = IF n = m THEN w ELSE dav[n]
    BY <1>2 DEF DavRequests
  <2> QED
    BY <1>1, <1>2, <2>1 DEF RequestsSent, Sent
<1>3. dav[m] \in DavRequest
  BY DEF DavRequests
<1>4. CASE Leaves(m)
  BY <1>2, <1>4 DEF Leaves
<1>5. ASSUME dav[m] # Away, NEW step, Goes(m, step) PROVE RequestsSent'
  <2> DEFINE w == [dav[m] EXCEPT !.at = step]
  <2>1. dav' = [dav EXCEPT ![m] = w]
    BY <1>5 DEF Goes
  <2>2. w.op = dav[m].op /\ w.from = dav[m].from /\ w.to = dav[m].to
    BY <1>3 DEF DavRequest
  <2> HIDE DEF w
  <2> QED
    BY <1>2, <1>5, <2>1, <2>2
<1>6. ASSUME dav[m] # Away, NEW step, NEW id, With(m, step, id) PROVE RequestsSent'
  <2> DEFINE w == [dav[m] EXCEPT !.at = step, !.id = id]
  <2>1. dav' = [dav EXCEPT ![m] = w]
    BY <1>6 DEF With
  <2>2. w.op = dav[m].op /\ w.from = dav[m].from /\ w.to = dav[m].to
    BY <1>3 DEF DavRequest
  <2> HIDE DEF w
  <2> QED
    BY <1>2, <1>6, <2>1, <2>2
<1> QED
  BY <1>4, <1>5, <1>6 DEF RequestsSent, Sent

\* Each operation on the tree gives a place that is free, or none.
LEMMA PlacesStep ==
    ASSUME DavTyped, DavRequests, NEW m \in Mounters,
           RemoveAll(m) \/ Close(m) \/ Rename(m)
    PROVE  RowsHaveColumns' /\ PlacesApart'
<1>0. RowsHaveColumns /\ PlacesApart /\ Live \subseteq Ids
  BY DEF DavTyped, Live
<1>a. CASE UNCHANGED tree
  BY <1>0, <1>a, TreeStays
<1>1. CASE RemoveAll(m)
  <2>1. CASE UNCHANGED tree
    BY <1>a, <2>1
  <2>2. CASE dav[m].id \in Live /\ tree' = [tree EXCEPT ![dav[m].id] = Trashed]
    <3>1. DOMAIN Trashed = {"dir", "name", "by"}
      BY DEF Trashed, Missing
    <3> QED
      BY <1>0, <2>2, <3>1, RowPlaced
  <2> QED
    BY <1>1, <2>1, <2>2 DEF RemoveAll
<1>2. CASE Close(m)
  <2>1. ASSUME NEW i \in lookup(dav[m].to), tree' = [tree EXCEPT ![i].by = m]
        PROVE  RowsHaveColumns' /\ PlacesApart'
    <3> DEFINE after == [tree[i] EXCEPT !.by = m]
    <3>1. i \in Live /\ i \in Ids
      BY <1>0, <2>1 DEF lookup
    <3>2. /\ DOMAIN after = {"dir", "name", "by"}
          /\ after.dir = tree[i].dir /\ after.name = tree[i].name
      BY <1>0, <3>1 DEF RowsHaveColumns
    <3>3. tree' = [tree EXCEPT ![i] = after]
      BY <2>1
    <3>4. Place(after) = Place(tree[i])
      BY <3>2 DEF Place
    <3> HIDE DEF after
    <3> QED
      BY <1>0, <3>1, <3>2, <3>3, <3>4, RowPlaced
  <2>2. ASSUME lookup(dav[m].to) = {}, NEW i \in Ids,
               tree' = [tree EXCEPT ![i] = [dir |-> dav[m].to.dir, name |-> dav[m].to.name,
                                            by |-> m]]
        PROVE  RowsHaveColumns' /\ PlacesApart'
    <3> DEFINE after == [dir |-> dav[m].to.dir, name |-> dav[m].to.name, by |-> m]
    <3>1. DOMAIN after = {"dir", "name", "by"} /\ Place(after) = Place(dav[m].to)
      BY DEF Place
    <3>2. Vacant(Place(after), i)
      BY <2>2, <3>1 DEF Vacant, lookup
    <3> HIDE DEF after
    <3> QED
      BY <1>0, <2>2, <3>1, <3>2, RowPlaced DEF after
  <2> QED
    BY <1>2, <1>a, <2>1, <2>2 DEF Close
<1>3. CASE Rename(m)
  <2> DEFINE i == dav[m].id
             moved   == [tree[i] EXCEPT !.dir = dav[m].to.dir]
             renamed == [tree[i] EXCEPT !.name = dav[m].to.name]
  <2>1. \/ UNCHANGED tree
        \/ /\ i \in Live /\ Vacant(<<dav[m].to.dir, tree[i].name>>, i)
           /\ tree' = [tree EXCEPT ![i] = moved]
        \/ /\ i \in Live /\ Vacant(<<tree[i].dir, dav[m].to.name>>, i)
           /\ tree' = [tree EXCEPT ![i] = renamed]
    BY <1>3 DEF Rename
  <2>2. i \in Live =>
          /\ DOMAIN moved = {"dir", "name", "by"} /\ DOMAIN renamed = {"dir", "name", "by"}
          /\ moved.dir = dav[m].to.dir /\ moved.name = tree[i].name
          /\ renamed.dir = tree[i].dir /\ renamed.name = dav[m].to.name
    BY <1>0 DEF RowsHaveColumns
  <2>3. i \in Live => /\ Place(moved) = <<dav[m].to.dir, tree[i].name>>
                      /\ Place(renamed) = <<tree[i].dir, dav[m].to.name>>
    BY <2>2 DEF Place
  <2> HIDE DEF moved, renamed
  <2> QED
    BY <1>0, <1>a, <2>1, <2>2, <2>3, RowPlaced
<1> QED
  BY <1>1, <1>2, <1>3

LEMMA PlacesElsewhere ==
    ASSUME DavTyped, ChangedElsewhere
    PROVE  RowsHaveColumns' /\ PlacesApart'
<1>0. RowsHaveColumns /\ PlacesApart /\ Live \subseteq Ids
  BY DEF DavTyped, Live
<1>1. ASSUME NEW i \in Live, tree' = [tree EXCEPT ![i] = Trashed]
      PROVE  RowsHaveColumns' /\ PlacesApart'
  <2>1. DOMAIN Trashed = {"dir", "name", "by"}
    BY DEF Trashed, Missing
  <2> QED
    BY <1>0, <1>1, <2>1, RowPlaced
<1>2. ASSUME NEW i \in Ids, NEW place \in Places, Vacant(place, i),
             tree' = [tree EXCEPT ![i].dir = place[1], ![i].name = place[2]]
      PROVE  RowsHaveColumns' /\ PlacesApart'
  <2> DEFINE after == [tree[i] EXCEPT !.dir = place[1], !.name = place[2]]
  <2>1. tree' = [tree EXCEPT ![i] = after]
    BY <1>0, <1>2 DEF RowsHaveColumns
  <2>2. DOMAIN after = {"dir", "name", "by"} /\ after.dir = place[1] /\ after.name = place[2]
    BY <1>0 DEF RowsHaveColumns
  <2>3. place = <<place[1], place[2]>>
    BY <1>2 DEF Places, Place
  <2>4. Place(after) = place
    BY <2>2, <2>3 DEF Place
  <2> HIDE DEF after
  <2> QED
    BY <1>0, <1>2, <2>1, <2>2, <2>4, RowPlaced
<1>3. ASSUME NEW i \in Live, tree' = [tree EXCEPT ![i].by = Web]
      PROVE  RowsHaveColumns' /\ PlacesApart'
  <2> DEFINE after == [tree[i] EXCEPT !.by = Web]
  <2>1. tree' = [tree EXCEPT ![i] = after] /\ i \in Ids
    BY <1>0, <1>3
  <2>2. /\ DOMAIN after = {"dir", "name", "by"}
        /\ after.dir = tree[i].dir /\ after.name = tree[i].name
    BY <1>0 DEF RowsHaveColumns
  <2>3. Place(after) = Place(tree[i])
    BY <2>2 DEF Place
  <2> HIDE DEF after
  <2> QED
    BY <1>0, <1>3, <2>1, <2>2, <2>3, RowPlaced
<1> QED
  BY <1>0, <1>1, <1>2, <1>3 DEF ChangedElsewhere

\* Every step of DavNext keeps the types.
LEMMA DavTypedStep ==
    DavTyped /\ DavRequests /\ [DavNext]_davVars => DavTyped'
<1> SUFFICES ASSUME DavTyped, DavRequests, [DavNext]_davVars PROVE DavTyped'
  OBVIOUS
<1>0. /\ mount \in Mounts /\ mount \in Mount /\ RowsHaveColumns /\ PlacesApart /\ RequestsSent
  BY WebDAVConstants DEF DavTyped
<1>c. right' \in BOOLEAN /\ overrun' \in BOOLEAN
  <2>1. right \in BOOLEAN /\ overrun \in BOOLEAN
    BY DEF DavTyped
  <2>2. right' = right \/ right' = FALSE
    BY DEF DavNext, ServeHTTP, user, Remember, Confirm, Stat, RemoveAll, OpenFile, Close,
       Rename, RequestFails, Revoked, TimePasses, ChangedElsewhere, ServerRestarts, Unlock,
       credentialVars, davVars
  <2>3. overrun' = overrun \/ overrun' = TRUE
    BY DEF DavNext, ServeHTTP, user, Remember, Confirm, Stat, RemoveAll, OpenFile, Close,
       Rename, RequestFails, Revoked, TimePasses, ChangedElsewhere, ServerRestarts, Unlock,
       credentialVars, davVars
  <2> QED
    BY <2>1, <2>2, <2>3
<1>a. ASSUME UNCHANGED <<mount, tree>>, RequestsSent' PROVE DavTyped'
  BY <1>0, <1>a, <1>c, TreeStays DEF DavTyped
<1>b. ASSUME UNCHANGED dav, UNCHANGED mount PROVE RequestsSent'
  BY <1>0, <1>b DEF RequestsSent, Sent
<1>1. ASSUME NEW m \in Mounters, ServeHTTP(m) PROVE DavTyped'
  <2>1. PICK op \in mount.ops, p \in mount.paths, q \in mount.paths, over \in BOOLEAN :
          dav' = [dav EXCEPT ![m] = [at |-> "user", op |-> op, from |-> p, to |-> q,
                                     over |-> over, id |-> 0]]
    BY <1>1 DEF ServeHTTP
  <2>2. UNCHANGED <<mount, tree>>
    BY <1>1 DEF ServeHTTP
  <2>3. op \in mount.ops /\ p \in Paths /\ q \in Paths
    BY <1>0, <2>1 DEF Mount
  <2>4. dav'[m].op = op /\ dav'[m].from = p /\ dav'[m].to = q
        /\ \A n \in Mounters \ {m} : dav'[n] = dav[n]
    BY <2>1 DEF DavRequests
  <2>5. RequestsSent'
    BY <1>0, <2>2, <2>3, <2>4 DEF RequestsSent, Sent
  <2> QED
    BY <1>a, <2>2, <2>5
<1>2. ASSUME NEW m \in Mounters,
             user(m) \/ Remember(m) \/ Confirm(m) \/ Stat(m) \/ OpenFile(m) \/ RequestFails(m)
      PROVE  DavTyped'
  <2>1. UNCHANGED <<mount, tree>>
    BY <1>2 DEF user, Remember, Confirm, Stat, OpenFile, RequestFails
  <2>2. dav[m] # Away
    <3>1. dav[m].at # "away"
      BY <1>2 DEF user, Remember, Confirm, Stat, OpenFile, RequestFails
    <3> QED
      BY <3>1 DEF Away
  <2>3. Leaves(m) \/ \E step : Goes(m, step)
    BY <1>2 DEF user, Remember, Confirm, Stat, OpenFile, RequestFails, openWriteSpool
  <2> QED
    BY <1>0, <1>a, <2>1, <2>2, <2>3, RequestSent
<1>3. ASSUME NEW m \in Mounters, RemoveAll(m) \/ Close(m) \/ Rename(m) PROVE DavTyped'
  <2>1. UNCHANGED mount
    BY <1>3 DEF RemoveAll, Close, Rename
  <2>2. dav[m] # Away
    BY <1>3 DEF RemoveAll, Close, Rename, Away
  <2>3. Leaves(m) \/ (\E step : Goes(m, step)) \/ \E step, id : With(m, step, id)
    BY <1>3 DEF RemoveAll, Close, Rename
  <2>4. RequestsSent'
    BY <1>0, <2>1, <2>2, <2>3, RequestSent
  <2> QED
    BY <1>0, <1>3, <1>c, <2>1, <2>4, PlacesStep DEF DavTyped
<1>4. CASE Revoked \/ TimePasses \/ (\E p \in Paths : Unlock(p)) \/ UNCHANGED davVars
  <2>1. UNCHANGED <<mount, tree, dav>>
    BY <1>4 DEF Revoked, TimePasses, Unlock, davVars
  <2> QED
    BY <1>a, <1>b, <2>1
<1>5. CASE ChangedElsewhere
  <2>1. UNCHANGED <<mount, dav>>
    BY <1>5 DEF ChangedElsewhere
  <2> QED
    BY <1>0, <1>5, <1>b, <1>c, <2>1, PlacesElsewhere DEF DavTyped
<1>6. CASE ServerRestarts
  <2>1. UNCHANGED <<mount, tree>> /\ dav' = [m \in Mounters |-> Away]
    BY <1>6 DEF ServerRestarts
  <2>2. RequestsSent'
    BY <2>1 DEF RequestsSent, Sent
  <2> QED
    BY <1>a, <2>1, <2>2
<1> QED
  BY <1>1, <1>2, <1>3, <1>4, <1>5, <1>6 DEF DavNext

\* What the drive, its locks and its requests are, with the other invariant.
LEMMA DavTypesFollow == DavInv /\ DavTyped => DavTypeOK
<1> SUFFICES ASSUME DavInv, DavTyped PROVE DavTypeOK
  OBVIOUS
<1>1. /\ mount \in Mounts /\ right \in BOOLEAN /\ overrun \in BOOLEAN
      /\ since \in 0 .. TTL + 1 /\ (right => since = 0)
      /\ authC \in {Forgotten} \cup 0 .. TTL
      /\ lock \in [Paths -> Mounters \cup {Unlocked}]
  BY DEF DavInv, DavTyped, CredentialAges, LocksRespected
<1>2. dav \in [Mounters -> DavRequest]
  BY DEF DavInv, DavRequests
<1>3. \A m \in Mounters : /\ dav[m].op \in mount.ops \/ dav[m] = Away
                          /\ {dav[m].from, dav[m].to} \subseteq Paths \/ dav[m] = Away
  BY DEF DavTyped, RequestsSent, Sent
<1>4. DOMAIN tree = Ids /\ \A i, j \in Live : Place(tree[i]) = Place(tree[j]) => i = j
  BY DEF DavTyped, RowsHaveColumns, PlacesApart
<1> QED
  BY <1>1, <1>2, <1>3, <1>4 DEF DavTypeOK, DavRequest

LEMMA DavTypedNext == DavInv /\ DavTyped /\ [DavNext]_davVars => DavTyped'
BY DavTypedStep DEF DavInv

\* No two files have one place, and a request names paths that were mounted,
\* for any number of clients (file_entries_unique_name_idx).
THEOREM DavTypesHold == DavSpec => []DavTypeOK
BY DavInvInit, DavInvStep, DavTypedInit, DavTypedNext, DavTypesFollow, PTL DEF DavSpec

-----------------------------------------------------------------------------
(***************************************************************************)
(* Drives.  A request carries what it was allowed to do and, for a new     *)
(* parent, the drive and the payer found when it asked.  The payer of a    *)
(* personal drive is its owner and that of the shared drive its founder,   *)
(* whatever happens in between; and once the shared drive has been deleted *)
(* no entry names it.  So what a new entry is billed to is what a purge    *)
(* would credit, except in the ways that strayed records.                  *)
(***************************************************************************)
DriveNames == People \cup {Shared, None}

EntryRow == [kind : {"file", "folder"}, by : People, parent : Folders,
             drive : DriveNames, trashed : BOOLEAN]

DriveRequests ==
    [op : Operations \cup {None}, who : People \cup {Nobody}, what : Items \cup {None},
     to : Folders \cup {None}, role : DriveRoles \cup AclRoles \cup {None},
     drive : DriveNames, bill : People \cup {Nobody}]

\* What a request of each kind names.
Named(request) ==
    /\ request.op # None => request.who \in People
    /\ request.op \in {"addMember", "removeMember", "grant", "revoke"} => request.to \in People
    /\ request.op = "addMember" => request.role \in DriveRoles
    /\ request.op = "grant" => request.role \in AclRoles
    /\ request.op \in {"grant", "revoke", "move", "trash", "restore", "purge"} =>
           request.what \in Items
    /\ request.op \in {"createFolder", "upload", "move"} =>
           /\ request.to \in Folders /\ request.bill \in People
           /\ request.drive \in People => request.bill = request.drive
           /\ request.drive = Shared => request.bill = founder

RequestsNamed ==
    /\ doing \in [Clerks -> DriveRequests]
    /\ \A c \in Clerks : Named(doing[c])

NoneOfDeleted == owner = Nobody => \A i \in Items : entry[i].drive # Shared

DrivesInv == DrivesTypeOK /\ RequestsNamed /\ NoneOfDeleted

\* An entry is billed to its drive's owner, or else to its uploader.
LEMMA ItemBill ==
    ASSUME NEW i \in Items
    PROVE  /\ UserOf(i) = entry[i].by /\ DriveOf(i) = entry[i].drive
           /\ GivesBackTo(i) = IF entry[i].drive \in People THEN entry[i].drive
                               ELSE IF entry[i].drive = Shared THEN owner ELSE entry[i].by
BY DrivesConstants DEF UserOf, DriveOf, GivesBackTo, BillUser

\* What parentContext finds of a folder that is there.
LEMMA FolderBill ==
    ASSUME DrivesInv, NEW e \in Folders, LiveFolder(e)
    PROVE  /\ DriveOf(e) \in DriveNames /\ BillUser(e) \in People
           /\ DriveOf(e) \in People => BillUser(e) = DriveOf(e)
           /\ DriveOf(e) = Shared => BillUser(e) = founder /\ owner = founder
<1> USE DrivesConstants
<1>0. /\ owner \in People \cup {Nobody} /\ founder \in People \cup {Nobody}
      /\ owner # Nobody => owner = founder
      /\ entry \in [Items -> {NoEntry} \cup EntryRow]
  BY DEF DrivesInv, DrivesTypeOK, EntryRow, DriveNames
<1>1. CASE e \in People
  BY <1>1 DEF DriveOf, BillUser, DriveNames
<1>2. CASE e = Shared
  <2>1. founder \in People /\ DriveOf(e) = IF owner = Nobody THEN None ELSE Shared
    BY <1>0, <1>2 DEF LiveFolder, DriveOf
  <2>2. UserOf(e) = founder
    BY <1>2 DEF UserOf
  <2> QED
    BY <1>0, <1>2, <2>1, <2>2 DEF BillUser, DriveNames, None, Nobody, Shared
<1>3. CASE e \in Items
  <2>1. entry[e] \in EntryRow
    BY <1>0, <1>3 DEF LiveFolder, Entries
  <2>2. entry[e].drive \in DriveNames /\ entry[e].by \in People
    BY <2>1 DEF EntryRow
  <2>3. entry[e].drive = Shared => owner # Nobody
    BY <1>3 DEF DrivesInv, NoneOfDeleted
  <2> QED
    BY <1>0, <1>3, <2>2, <2>3, ItemBill DEF GivesBackTo, DriveNames
<1> QED
  BY <1>1, <1>2, <1>3 DEF Folders

LEMMA FreeIsRequest == Free \in DriveRequests /\ Named(Free)
BY DrivesConstants DEF Free, DriveRequests, Named, DriveNames, None, Nobody, Shared

\* The record of a request before anything has been read for it.
LEMMA AskedRecord ==
    ASSUME NEW op \in Operations, NEW p \in People, NEW e \in Items \cup {None},
           NEW to \in Folders \cup {None}, NEW given \in DriveRoles \cup AclRoles \cup {None}
    PROVE  LET asked == Asked(op, p, e, to, given)
           IN  /\ asked \in DriveRequests
               /\ asked.op = op /\ asked.who = p /\ asked.what = e /\ asked.to = to
               /\ asked.role = given
BY FreeIsRequest DEF Asked, DriveRequests

LEMMA WithParentRecord ==
    ASSUME NEW request \in DriveRequests, NEW e \in Folders,
           DriveOf(e) \in DriveNames, BillUser(e) \in People
    PROVE  LET asked == WithParent(request, e)
           IN  /\ asked \in DriveRequests
               /\ asked.op = request.op /\ asked.who = request.who
               /\ asked.what = request.what /\ asked.role = request.role
               /\ asked.to = e /\ asked.drive = DriveOf(e) /\ asked.bill = BillUser(e)
BY DEF WithParent, DriveRequests

\* A request that names what it should keeps the invariant; it changes nothing
\* else.
LEMMA AskKeeps ==
    ASSUME DrivesInv, NEW c \in Clerks, NEW request \in DriveRequests, Named(request),
           Ask(c, request)
    PROVE  DrivesInv'
<1>1. doing' = [doing EXCEPT ![c] = request] /\ founder' = founder
  BY DEF Ask
<1>2. RequestsNamed'
  BY <1>1 DEF DrivesInv, RequestsNamed, Named
<1>3. DrivesTypeOK' /\ NoneOfDeleted'
  BY DEF Ask, DrivesInv, DrivesTypeOK, NoneOfDeleted, NoEntry, Folders
<1> QED
  BY <1>2, <1>3 DEF DrivesInv

LEMMA RequestsKeep ==
    ASSUME DrivesInv, NEW c \in Clerks,
           \/ DriveRequest(c) \/ PermissionRequest(c) \/ CreateRequest(c)
           \/ MoveRequest(c) \/ RemoveRequest(c)
    PROVE  DrivesInv'
<1>0. task \in Task
  BY DEF DrivesInv, DrivesTypeOK
<1>1. ASSUME DriveRequest(c) PROVE DrivesInv'
  <2>1. PICK p \in People, q \in People, r \in task.members,
             op \in Asks({"addMember", "removeMember", "deleteDrive"}) :
           Ask(c, Asked(op, p, None, IF op = "deleteDrive" THEN None ELSE q,
                        IF op = "addMember" THEN r ELSE None))
    BY <1>1 DEF DriveRequest
  <2>2. r \in DriveRoles /\ op \in {"addMember", "removeMember", "deleteDrive"}
    BY <1>0 DEF Task, Asks
  <2> DEFINE to      == IF op = "deleteDrive" THEN None ELSE q
             given   == IF op = "addMember" THEN r ELSE None
             request == Asked(op, p, None, to, given)
  <2>3. request \in DriveRequests /\ Named(request)
    <3>1. /\ op \in Operations /\ None \in Items \cup {None}
          /\ to \in Folders \cup {None} /\ given \in DriveRoles \cup AclRoles \cup {None}
      BY <2>2 DEF Operations, Folders
    <3>2. op # "deleteDrive" => to \in People
      OBVIOUS
    <3>3. op = "addMember" => given \in DriveRoles
      BY <2>2
    <3>4. /\ request \in DriveRequests
          /\ request.op = op /\ request.who = p /\ request.to = to /\ request.role = given
      BY ONLY <3>1, AskedRecord, p \in People
    <3> HIDE DEF to, given, request
    <3> QED
      BY <2>2, <3>2, <3>3, <3>4 DEF Named
  <2> QED
    BY <2>1, <2>3, AskKeeps
<1>2. ASSUME PermissionRequest(c) PROVE DrivesInv'
  <2>1. PICK op \in Asks({"grant", "revoke"}), i \in Items, p \in People, q \in People,
             r \in task.grants :
           Ask(c, Asked(op, p, i, q, IF op = "grant" THEN r ELSE None))
    BY <1>2 DEF PermissionRequest
  <2>2. r \in AclRoles /\ op \in {"grant", "revoke"}
    BY <1>0 DEF Task, Asks
  <2> DEFINE request == Asked(op, p, i, q, IF op = "grant" THEN r ELSE None)
  <2>3. request \in DriveRequests /\ Named(request)
    <3>1. op \in Operations /\ None \in Folders \cup {None}
      BY <2>2 DEF Operations
    <3> QED
      BY <2>2, <3>1, AskedRecord DEF Named, Folders
  <2> QED
    BY <2>1, <2>3, AskKeeps
<1>3. ASSUME CreateRequest(c) PROVE DrivesInv'
  <2>1. PICK op \in Asks({"createFolder", "upload"}), p \in People, e \in Folders :
           LiveFolder(e) /\ Ask(c, WithParent(Asked(op, p, None, None, None), e))
    BY <1>3 DEF CreateRequest
  <2>2. op \in {"createFolder", "upload"}
    BY DEF Asks
  <2> DEFINE asked   == Asked(op, p, None, None, None)
             request == WithParent(asked, e)
  <2>3. request \in DriveRequests /\ Named(request)
    <3>1. op \in Operations
      BY <2>2 DEF Operations
    <3>2. asked \in DriveRequests /\ asked.op = op /\ asked.who = p /\ asked.what = None
      BY <3>1, AskedRecord
    <3> HIDE DEF asked
    <3>3. /\ request \in DriveRequests
          /\ request.op = op /\ request.who = p /\ request.what = None
          /\ request.to = e /\ request.drive = DriveOf(e) /\ request.bill = BillUser(e)
      BY <2>1, <3>2, FolderBill, WithParentRecord
    <3> HIDE DEF request
    <3> QED
      BY <2>1, <2>2, <3>3, FolderBill DEF Named
  <2> QED
    BY <2>1, <2>3, AskKeeps
<1>4. ASSUME MoveRequest(c) PROVE DrivesInv'
  <2>1. PICK op \in Asks({"move"}), p \in People, i \in Items, e \in Folders :
           LiveFolder(e) /\ Ask(c, WithParent(Asked(op, p, i, None, None), e))
    BY <1>4 DEF MoveRequest
  <2>2. op = "move"
    BY DEF Asks
  <2> DEFINE asked   == Asked(op, p, i, None, None)
             request == WithParent(asked, e)
  <2>3. request \in DriveRequests /\ Named(request)
    <3>1. op \in Operations
      BY <2>2 DEF Operations
    <3>2. asked \in DriveRequests /\ asked.op = op /\ asked.who = p /\ asked.what = i
      BY <3>1, AskedRecord
    <3> HIDE DEF asked
    <3>3. /\ request \in DriveRequests
          /\ request.op = op /\ request.who = p /\ request.what = i
          /\ request.to = e /\ request.drive = DriveOf(e) /\ request.bill = BillUser(e)
      BY <2>1, <3>2, FolderBill, WithParentRecord
    <3> HIDE DEF request
    <3> QED
      BY <2>1, <2>2, <3>3, FolderBill DEF Named
  <2> QED
    BY <2>1, <2>3, AskKeeps
<1>5. ASSUME RemoveRequest(c) PROVE DrivesInv'
  <2>1. PICK op \in Asks({"trash", "restore", "purge"}), p \in People, i \in Items :
           Ask(c, Asked(op, p, i, None, None))
    BY <1>5 DEF RemoveRequest
  <2>2. op \in {"trash", "restore", "purge"}
    BY DEF Asks
  <2> DEFINE request == Asked(op, p, i, None, None)
  <2>3. request \in DriveRequests /\ Named(request)
    <3>1. op \in Operations /\ None \in Folders \cup {None}
      BY <2>2 DEF Operations
    <3> QED
      BY <2>2, <3>1, AskedRecord DEF Named, Folders
  <2> QED
    BY <2>1, <2>3, AskKeeps
<1> QED
  BY <1>1, <1>2, <1>3, <1>4, <1>5

-----------------------------------------------------------------------------
\* When a request has acted it is idle again.
LEMMA ActFrees ==
    ASSUME DrivesInv, NEW c \in Clerks, NEW op, Act(c, op) \/ doing' = [doing EXCEPT ![c] = Free],
           founder' = founder
    PROVE  RequestsNamed'
<1>1. doing' = [doing EXCEPT ![c] = Free]
  BY DEF Act
<1> QED
  BY <1>1, FreeIsRequest DEF DrivesInv, RequestsNamed, Named

\* Nobody becomes the owner of a drive that somebody has founded.
LEMMA CreateSharedKeeps ==
    ASSUME DrivesInv, CreateShared
    PROVE  DrivesInv'
<1> USE DrivesConstants
<1>1. PICK p \in People :
          owner' = p /\ founder' = p /\ member' = [member EXCEPT ![p] = "manager"]
  BY DEF CreateShared
<1>2. founder = Nobody /\ UNCHANGED <<task, entry, permission, used, doing, strayed>>
  BY DEF CreateShared
<1>3. RequestsNamed'
  BY <1>2 DEF DrivesInv, RequestsNamed, Named
<1>4. DrivesTypeOK'
  BY <1>1, <1>2 DEF DrivesInv, DrivesTypeOK, DriveRoles, NoEntry, Folders
<1>5. NoneOfDeleted'
  BY <1>1 DEF NoneOfDeleted
<1> QED
  BY <1>3, <1>4, <1>5 DEF DrivesInv

LEMMA MembersKeep ==
    ASSUME DrivesInv, NEW c \in Clerks,
           AddMember(c) \/ RemoveMember(c) \/ Grant(c) \/ Revoke(c) \/ GiveUp(c)
    PROVE  DrivesInv'
<1>1. UNCHANGED <<task, owner, founder, entry, used, strayed>>
  BY DEF AddMember, RemoveMember, Grant, Revoke, GiveUp
<1>2. RequestsNamed'
  BY <1>1, ActFrees DEF AddMember, RemoveMember, Grant, Revoke, GiveUp
<1>3. NoneOfDeleted'
  BY <1>1 DEF DrivesInv, NoneOfDeleted
<1>4. /\ Named(doing[c])
      /\ member \in [People -> DriveRoles \cup {None}]
      /\ owner = Nobody => member = [p \in People |-> None]
      /\ permission \in [Items \X People -> AclRoles \cup {None}]
  BY DEF DrivesInv, DrivesTypeOK, RequestsNamed
<1>5. /\ member' \in [People -> DriveRoles \cup {None}]
      /\ owner' = Nobody => member' = [p \in People |-> None]
  <2>1. CASE AddMember(c)
    BY <1>1, <1>4, <2>1 DEF AddMember, Act, Named
  <2>2. CASE RemoveMember(c)
    BY <1>1, <1>4, <2>2 DEF RemoveMember, Act, Named
  <2> QED
    BY <1>1, <1>4, <2>1, <2>2 DEF Grant, Revoke, GiveUp
<1>6. permission' \in [Items \X People -> AclRoles \cup {None}]
  <2>1. CASE Grant(c)
    BY <1>4, <2>1 DEF Grant, Act, Named
  <2>2. CASE Revoke(c)
    BY <1>4, <2>2 DEF Revoke, Act, Named
  <2> QED
    BY <1>4, <2>1, <2>2 DEF AddMember, RemoveMember, GiveUp
<1>7. DrivesTypeOK'
  BY <1>1, <1>5, <1>6 DEF DrivesInv, DrivesTypeOK, NoEntry, Folders
<1> QED
  BY <1>2, <1>3, <1>7 DEF DrivesInv

LEMMA DeleteDriveKeeps ==
    ASSUME DrivesInv, NEW c \in Clerks, DeleteDrive(c)
    PROVE  DrivesInv'
<1> USE DrivesConstants
<1>1. /\ UNCHANGED <<task, founder, permission, used>> /\ owner' = Nobody
      /\ member' = [p \in People |-> None]
      /\ entry' = [i \in Items |-> IF entry[i].drive = Shared
                                   THEN [entry[i] EXCEPT !.drive = None] ELSE entry[i]]
      /\ strayed' \subseteq strayed \cup Items
  BY DEF DeleteDrive
<1>2. RequestsNamed'
  BY <1>1, ActFrees DEF DeleteDrive
<1>3. entry \in [Items -> {NoEntry} \cup EntryRow] /\ NoEntry.drive # Shared
  BY DEF DrivesInv, DrivesTypeOK, EntryRow, DriveNames, NoEntry, None, Shared
<1>4. ASSUME NEW i \in Items
      PROVE  entry'[i] \in {NoEntry} \cup EntryRow /\ entry'[i].drive # Shared
  <2>1. CASE entry[i].drive = Shared
    <3>1. entry[i] \in EntryRow /\ entry'[i] = [entry[i] EXCEPT !.drive = None]
      BY <1>1, <1>3, <2>1
    <3>2. None \in DriveNames /\ None # Shared
      BY DEF DriveNames, None, Shared
    <3> QED
      BY <3>1, <3>2 DEF EntryRow
  <2> QED
    BY <1>1, <1>3, <2>1
<1>5. entry' \in [Items -> {NoEntry} \cup EntryRow]
  BY <1>1, <1>4
<1>6. DrivesTypeOK'
  BY <1>1, <1>5 DEF DrivesInv, DrivesTypeOK, EntryRow, DriveNames, NoEntry, Folders
<1> QED
  BY <1>2, <1>4, <1>6 DEF DrivesInv, NoneOfDeleted

\* Entries may be replaced by rows of their type, in a drive that is there.
LEMMA EntriesKeep ==
    ASSUME DrivesInv, RequestsNamed', UNCHANGED <<task, owner, founder, member>>,
           entry' \in [Items -> {NoEntry} \cup EntryRow],
           \A i \in Items : entry'[i].drive = Shared => owner # Nobody,
           permission' \in [Items \X People -> AclRoles \cup {None}],
           used' \in [People -> 0 .. MaxUsed],
           strayed' \subseteq Items
    PROVE  DrivesInv'
<1>1. DrivesTypeOK'
  BY DEF DrivesInv, DrivesTypeOK, EntryRow, DriveNames, NoEntry, Folders
<1>2. NoneOfDeleted'
  BY DEF NoneOfDeleted
<1> QED
  BY <1>1, <1>2 DEF DrivesInv

LEMMA DrivesTyped ==
    ASSUME DrivesInv
    PROVE  /\ entry \in [Items -> {NoEntry} \cup EntryRow]
           /\ permission \in [Items \X People -> AclRoles \cup {None}]
           /\ used \in [People -> 0 .. MaxUsed] /\ strayed \subseteq Items
           /\ owner \in People \cup {Nobody} /\ founder \in People \cup {Nobody}
           /\ owner # Nobody => owner = founder
           /\ \A i \in Items : entry[i].drive = Shared => owner # Nobody
           /\ NoEntry.kind = None /\ NoEntry.drive = None /\ NoEntry \notin EntryRow
           /\ None \notin {"file", "folder"} /\ None # Shared
BY DEF DrivesInv, DrivesTypeOK, EntryRow, DriveNames, NoneOfDeleted, NoEntry, None, Shared

\* A row is put where there is none.
LEMMA NewEntry ==
    ASSUME DrivesInv, NEW i \in Items, NEW made \in EntryRow, New(i, made),
           made.drive = Shared => owner # Nobody
    PROVE  /\ entry' \in [Items -> {NoEntry} \cup EntryRow]
           /\ entry[i] = NoEntry /\ entry'[i] = made
           /\ \A j \in Items \ {i} : entry'[j] = entry[j]
           /\ \A j \in Items : entry'[j].drive = Shared => owner # Nobody
BY DrivesTyped DEF New

LEMMA CreateEntryMade ==
    ASSUME DrivesInv, NEW c \in Clerks, CreateEntry(c), StillThere(c)
    PROVE  \E i \in Items, made \in EntryRow :
              /\ New(i, made)
              /\ made.drive = Shared => owner # Nobody
              /\ made.kind = IF doing[c].op = "upload" THEN "file" ELSE "folder"
              /\ made.by = doing[c].who /\ made.drive = doing[c].drive
              /\ strayed' = IF doing[c].op = "upload" /\ doing[c].drive = None
                               /\ doing[c].bill # doing[c].who
                            THEN strayed \cup {i} ELSE strayed
<1> DEFINE made == [kind    |-> IF doing[c].op = "upload" THEN "file" ELSE "folder",
                    by      |-> doing[c].who, parent |-> doing[c].to,
                    drive   |-> doing[c].drive, trashed |-> FALSE]
<1>1. PICK i \in Items :
          /\ New(i, made)
          /\ strayed' = IF doing[c].op = "upload" /\ doing[c].drive = None
                           /\ doing[c].bill # doing[c].who
                        THEN strayed \cup {i} ELSE strayed
  BY DEF CreateEntry
<1>2. doing[c].op \in {"createFolder", "upload"} /\ Named(doing[c])
  BY DEF CreateEntry, Act, DrivesInv, RequestsNamed
<1>3. doing[c].drive \in DriveNames
  BY DEF DrivesInv, RequestsNamed, DriveRequests
<1>4. doing[c].who \in People /\ doing[c].to \in Folders
  BY <1>2 DEF Named, None
<1>5. made \in EntryRow
  BY <1>3, <1>4 DEF EntryRow
<1>6. made.drive = Shared => owner # Nobody
  BY DEF StillThere
<1> QED
  BY <1>1, <1>5, <1>6

LEMMA CreateEntryKeeps ==
    ASSUME DrivesInv, NEW c \in Clerks, CreateEntry(c)
    PROVE  DrivesInv'
<1> USE DrivesTyped, DrivesConstants
<1>1. UNCHANGED <<task, owner, founder, member, permission>>
  BY DEF CreateEntry
<1>2. RequestsNamed'
  BY <1>1, ActFrees DEF CreateEntry
<1>3. used' \in [People -> 0 .. MaxUsed]
  <2>1. CASE doing[c].op = "upload"
    <3>1. Named(doing[c])
      BY DEF DrivesInv, RequestsNamed
    <3>2. doing[c].bill \in People /\ used[doing[c].bill] < MaxUsed
      BY <2>1, <3>1 DEF Named, CreateEntry, Act
    <3> QED
      BY <2>1, <3>2 DEF CreateEntry, Act
  <2> QED
    BY <2>1 DEF CreateEntry, Act
<1>4. CASE StillThere(c)
  <2>1. PICK i \in Items, made \in EntryRow :
            New(i, made) /\ (made.drive = Shared => owner # Nobody) /\ strayed' \subseteq Items
    BY <1>4, CreateEntryMade
  <2> QED
    BY <1>1, <1>2, <1>3, <2>1, NewEntry, EntriesKeep
<1>5. CASE ~StillThere(c)
  BY <1>1, <1>2, <1>3, <1>5, EntriesKeep DEF CreateEntry
<1> QED
  BY <1>4, <1>5

LEMMA CompleteBatchMade ==
    ASSUME DrivesInv, CompleteBatch
    PROVE  \E p \in People, i \in Items, made \in EntryRow :
              /\ New(i, made)
              /\ made.drive = Shared => owner # Nobody
              /\ made.kind = "file" /\ made.by = p
              /\ used[p] < MaxUsed /\ used' = [used EXCEPT ![p] = @ + 1]
              /\ strayed' \in {strayed, strayed \cup {i}}
              /\ strayed' = strayed =>
                    i \in strayed \/ p = IF made.drive \in People THEN made.drive
                                         ELSE IF made.drive = Shared THEN owner ELSE p
<1> USE DrivesTyped, DrivesConstants
<1>1. PICK p \in People, e \in Folders, i \in Items :
         /\ LiveFolder(e) /\ UserOf(e) = p /\ used[p] < MaxUsed
         /\ New(i, [kind |-> "file", by |-> p, parent |-> e, drive |-> DriveOf(e),
                    trashed |-> FALSE])
         /\ used' = [used EXCEPT ![p] = @ + 1]
         /\ strayed' = IF DriveOf(e) = None \/ BillUser(e) = p
                       THEN strayed ELSE strayed \cup {i}
  BY DEF CompleteBatch
<1> DEFINE made == [kind |-> "file", by |-> p, parent |-> e, drive |-> DriveOf(e),
                    trashed |-> FALSE]
<1>2. /\ DriveOf(e) \in DriveNames /\ BillUser(e) \in People
      /\ DriveOf(e) \in People => BillUser(e) = DriveOf(e)
      /\ DriveOf(e) = Shared => BillUser(e) = founder /\ owner = founder
  BY <1>1, FolderBill
<1>3. made \in EntryRow
  BY <1>2 DEF EntryRow
<1>4. made.drive = Shared => owner # Nobody
  BY <1>2
<1>5. strayed' = strayed =>
          i \in strayed \/ p = IF made.drive \in People THEN made.drive
                               ELSE IF made.drive = Shared THEN owner ELSE p
  BY <1>1, <1>2
<1> QED
  BY <1>1, <1>3, <1>4, <1>5

LEMMA CompleteBatchKeeps ==
    ASSUME DrivesInv, CompleteBatch
    PROVE  DrivesInv'
<1> USE DrivesTyped, DrivesConstants
<1>1. UNCHANGED <<task, owner, founder, member, permission, doing>>
  BY DEF CompleteBatch
<1>2. RequestsNamed'
  BY <1>1 DEF DrivesInv, RequestsNamed, Named
<1>3. PICK p \in People, i \in Items, made \in EntryRow :
          /\ New(i, made)
          /\ made.drive = Shared => owner # Nobody
          /\ used[p] < MaxUsed /\ used' = [used EXCEPT ![p] = @ + 1]
          /\ strayed' \in {strayed, strayed \cup {i}}
  BY CompleteBatchMade
<1>4. used' \in [People -> 0 .. MaxUsed] /\ strayed' \subseteq Items
  BY <1>3
<1> QED
  BY <1>1, <1>2, <1>3, <1>4, NewEntry, EntriesKeep

LEMMA MoveKeeps ==
    ASSUME DrivesInv, NEW c \in Clerks, Move(c)
    PROVE  DrivesInv'
<1> USE DrivesTyped, DrivesConstants
<1>1. UNCHANGED <<task, owner, founder, member, permission, used>>
  BY DEF Move
<1>2. RequestsNamed'
  BY <1>1, ActFrees DEF Move
<1>3. CASE entry' = entry /\ strayed' = strayed
  BY <1>1, <1>2, <1>3, EntriesKeep
<1> DEFINE w == doing[c].what
<1>4. CASE /\ entry[w] # NoEntry /\ StillThere(c) /\ entry' = Moved(c)
           /\ strayed' \in {strayed, strayed \cup {w}}
  <2>1. doing[c].op = "move" /\ Named(doing[c]) /\ doing[c] \in DriveRequests
    BY DEF Move, Act, DrivesInv, RequestsNamed
  <2>2. w \in Items /\ doing[c].to \in Folders /\ doing[c].drive \in DriveNames
    BY <2>1 DEF Named, DriveRequests
  <2>3. entry[w] \in EntryRow
    BY <1>4, <2>2
  <2>4. /\ entry'[w] \in EntryRow /\ entry'[w].drive = doing[c].drive
        /\ \A i \in Items \ {w} : entry'[i] = entry[i]
        /\ DOMAIN entry' = Items /\ entry' = [i \in Items |-> entry'[i]]
    BY <1>4, <2>2, <2>3 DEF Moved, EntryRow
  <2>5. entry' \in [Items -> {NoEntry} \cup EntryRow]
    BY <2>2, <2>4
  <2>6. \A i \in Items : entry'[i].drive = Shared => owner # Nobody
    BY <1>4, <2>4 DEF StillThere
  <2> QED
    BY <1>1, <1>2, <1>4, <2>2, <2>5, <2>6, EntriesKeep
<1> QED
  BY <1>3, <1>4 DEF Move

\* What is below an entry goes into the trash, or comes back, as it is.
SameBills ==
    \A i \in Items : /\ entry'[i].kind = entry[i].kind /\ entry'[i].by = entry[i].by
                     /\ entry'[i].drive = entry[i].drive

LEMMA TrashingKeepsBills ==
    ASSUME DrivesInv, NEW x, NEW b \in BOOLEAN,
           \/ entry' = entry
           \/ entry' = [i \in Items |-> IF i \in Below(x) THEN [entry[i] EXCEPT !.trashed = b]
                                        ELSE entry[i]]
    PROVE  SameBills /\ entry' \in [Items -> {NoEntry} \cup EntryRow]
<1> USE DrivesTyped
<1>1. CASE entry' = entry
  BY <1>1 DEF SameBills
<1>2. CASE entry' = [i \in Items |-> IF i \in Below(x) THEN [entry[i] EXCEPT !.trashed = b]
                                     ELSE entry[i]]
  <2>1. ASSUME NEW i \in Items
        PROVE  /\ entry'[i] \in {NoEntry} \cup EntryRow
               /\ entry'[i].kind = entry[i].kind /\ entry'[i].by = entry[i].by
               /\ entry'[i].drive = entry[i].drive
    <3>1. CASE i \in Below(x)
      <4>1. entry[i] \in EntryRow /\ entry'[i] = [entry[i] EXCEPT !.trashed = b]
        BY <1>2, <3>1 DEF Below
      <4> QED
        BY <4>1 DEF EntryRow
    <3> QED
      BY <1>2, <3>1
  <2> QED
    BY <1>2, <2>1 DEF SameBills
<1> QED
  BY <1>1, <1>2

LEMMA TrashOrRestore ==
    ASSUME DrivesInv, NEW c \in Clerks, Trash(c) \/ Restore(c)
    PROVE  DrivesInv' /\ SameBills
<1> USE DrivesTyped
<1>1. UNCHANGED <<task, owner, founder, member, permission, used, strayed>>
  BY DEF Trash, Restore
<1>2. RequestsNamed'
  BY <1>1, ActFrees DEF Trash, Restore
<1>3. SameBills /\ entry' \in [Items -> {NoEntry} \cup EntryRow]
  BY TrashingKeepsBills DEF Trash, Restore
<1>4. \A i \in Items : entry'[i].drive = Shared => owner # Nobody
  BY <1>3 DEF SameBills
<1> QED
  BY <1>1, <1>2, <1>3, <1>4, EntriesKeep

\* max(0, n)
LEMMA NotBelowZero ==
    ASSUME NEW n \in Int
    PROVE  Max({0, n}) = IF n < 0 THEN 0 ELSE n
<1> DEFINE m == IF n < 0 THEN 0 ELSE n
<1>1. m \in {0, n} /\ \A y \in {0, n} : m >= y
  OBVIOUS
<1>2. \A x \in {0, n} : (\A y \in {0, n} : x >= y) => x = m
  OBVIOUS
<1> QED
  BY <1>1, <1>2 DEF Max

LEMMA FilesFinite ==
    ASSUME NEW p, NEW S \in SUBSET Items
    PROVE  IsFiniteSet(FilesOf(p, S)) /\ Cardinality(FilesOf(p, S)) \in Nat
<1>1. FilesOf(p, S) \in SUBSET Items
  BY DEF FilesOf
<1> QED
  BY <1>1, DrivesConstants, FS_Subset, FS_CardinalityType

\* The entries that a purge deletes, and the row of users.
LEMMA PurgeKeeps ==
    ASSUME DrivesInv, NEW c \in Clerks, Purge(c)
    PROVE  DrivesInv'
<1> USE DrivesTyped, DrivesConstants
<1>1. UNCHANGED <<task, owner, founder, member, strayed>>
  BY DEF Purge
<1>2. RequestsNamed'
  BY <1>1, ActFrees DEF Purge
<1>3. CASE UNCHANGED <<entry, permission, used>>
  BY <1>1, <1>2, <1>3, EntriesKeep
<1> DEFINE gone == Below(doing[c].what)
<1>4. CASE /\ entry' = [i \in Items |-> IF i \in gone THEN NoEntry ELSE entry[i]]
           /\ permission' = [g \in Items \X People |->
                               IF g[1] \in gone THEN None ELSE permission[g]]
           /\ used' = [p \in People |-> Max({0, used[p] - Cardinality(FilesOf(p, gone))})]
  <2>1. gone \in SUBSET Items
    BY DEF Below
  <2> HIDE DEF gone
  <2>2. entry' \in [Items -> {NoEntry} \cup EntryRow]
    BY <1>4
  <2>3. permission' \in [Items \X People -> AclRoles \cup {None}]
    BY <1>4
  <2>4. ASSUME NEW p \in People PROVE used'[p] \in 0 .. MaxUsed
    <3>1. Cardinality(FilesOf(p, gone)) \in Nat /\ used[p] \in 0 .. MaxUsed
      BY <2>1, FilesFinite
    <3>2. used'[p] = Max({0, used[p] - Cardinality(FilesOf(p, gone))})
      BY <1>4
    <3> QED
      BY <3>1, <3>2, NotBelowZero
  <2>5. used' \in [People -> 0 .. MaxUsed]
    BY <1>4, <2>4
  <2>6. \A i \in Items : entry'[i].drive = Shared => owner # Nobody
    BY <1>4
  <2> QED
    BY <1>1, <1>2, <2>2, <2>3, <2>5, <2>6, EntriesKeep
<1> QED
  BY <1>3, <1>4 DEF Purge

LEMMA DrivesInvInit == DrivesInit => DrivesInv
BY DrivesConstants, FreeIsRequest
   DEF DrivesInit, DrivesInv, DrivesTypeOK, RequestsNamed, NoneOfDeleted, NoEntry, None, Shared, Nobody

LEMMA DrivesInvStep == DrivesInv /\ [DrivesNext]_drivesVars => DrivesInv'
<1> SUFFICES ASSUME DrivesInv, [DrivesNext]_drivesVars PROVE DrivesInv'
  OBVIOUS
<1>1. CASE UNCHANGED drivesVars
  <2>1. RequestsNamed'
    BY <1>1 DEF drivesVars, DrivesInv, RequestsNamed, Named
  <2> QED
    BY <1>1, <2>1 DEF drivesVars, DrivesInv, DrivesTypeOK, NoneOfDeleted, NoEntry, Folders
<1> QED
  BY <1>1, CreateSharedKeeps, CompleteBatchKeeps, RequestsKeep, MembersKeep, DeleteDriveKeeps,
     CreateEntryKeeps, MoveKeeps, TrashOrRestore, PurgeKeeps DEF DrivesNext

-----------------------------------------------------------------------------
(* The bill *)

LEMMA NextItemBill ==
    ASSUME NEW i \in Items
    PROVE  GivesBackTo(i)' = IF entry'[i].drive \in People THEN entry'[i].drive
                             ELSE IF entry'[i].drive = Shared THEN owner' ELSE entry'[i].by
BY DrivesConstants DEF UserOf, DriveOf, GivesBackTo, BillUser

\* Steps after which everybody has the same files to pay for.
LEMMA SameFilesSameBill ==
    ASSUME BillFollowsFiles, strayed' = {} => strayed = {}, used' = used,
           strayed' = {} =>
               \A i \in Items :
                   /\ entry'[i].kind = "file" <=> entry[i].kind = "file"
                   /\ entry[i].kind = "file" => GivesBackTo(i)' = GivesBackTo(i)
    PROVE  BillFollowsFiles'
<1> SUFFICES ASSUME strayed' = {} PROVE (\A p \in People : used[p] = Cardinality(FilesOf(p, Items)))'
  BY DEF BillFollowsFiles
<1>1. \A p \in People : FilesOf(p, Items)' = FilesOf(p, Items)
  BY DEF FilesOf
<1> QED
  BY <1>1 DEF BillFollowsFiles

\* A new file that is billed to whom a purge would credit.
LEMMA NewFileBilled ==
    ASSUME DrivesInv, BillFollowsFiles, strayed = {}, NEW i \in Items, NEW payer \in People,
           entry[i] = NoEntry, entry'[i].kind = "file", GivesBackTo(i)' = payer,
           \A j \in Items \ {i} : entry'[j] = entry[j], owner' = owner,
           used' = [used EXCEPT ![payer] = @ + 1]
    PROVE  BillFollowsFiles'
<1> USE DrivesTyped
<1>1. \A j \in Items \ {i} : GivesBackTo(j)' = GivesBackTo(j)
  BY ItemBill, NextItemBill
<1>2. i \notin FilesOf(payer, Items) /\ FilesOf(payer, Items)' = FilesOf(payer, Items) \cup {i}
  BY <1>1 DEF FilesOf
<1>3. \A p \in People \ {payer} : FilesOf(p, Items)' = FilesOf(p, Items)
  BY <1>1 DEF FilesOf
<1>4. Cardinality(FilesOf(payer, Items)') = Cardinality(FilesOf(payer, Items)) + 1
  <2>1. \A S : IsFiniteSet(S) /\ i \notin S => Cardinality(S \cup {i}) = Cardinality(S) + 1
    BY FS_AddElement
  <2>2. IsFiniteSet(FilesOf(payer, Items))
    BY FilesFinite
  <2> QED
    BY <1>2, <2>1, <2>2
<1>5. \A p \in People : used[p] = Cardinality(FilesOf(p, Items))
  BY DEF BillFollowsFiles
<1>6. \A p \in People : used'[p] = Cardinality(FilesOf(p, Items)')
  BY <1>3, <1>4, <1>5
<1> QED
  BY <1>6 DEF BillFollowsFiles

LEMMA CreateEntryBilled ==
    ASSUME DrivesInv, BillFollowsFiles, NEW c \in Clerks, CreateEntry(c)
    PROVE  BillFollowsFiles'
<1> USE DrivesTyped, DrivesConstants
<1>1. UNCHANGED <<task, owner, founder, member, permission>>
  BY DEF CreateEntry
<1>2. CASE ~StillThere(c)
  <2>1. UNCHANGED <<entry, strayed, used>>
    BY <1>2 DEF CreateEntry
  <2> QED
    BY <1>1, <2>1, ItemBill, NextItemBill, SameFilesSameBill
<1>3. CASE StillThere(c)
  <2>1. PICK i \in Items, made \in EntryRow :
           /\ New(i, made)
           /\ made.drive = Shared => owner # Nobody
           /\ made.kind = IF doing[c].op = "upload" THEN "file" ELSE "folder"
           /\ made.by = doing[c].who /\ made.drive = doing[c].drive
           /\ strayed' = IF doing[c].op = "upload" /\ doing[c].drive = None
                            /\ doing[c].bill # doing[c].who
                         THEN strayed \cup {i} ELSE strayed
    BY <1>3, CreateEntryMade
  <2>2. /\ entry[i] = NoEntry /\ entry'[i] = made
        /\ \A j \in Items \ {i} : entry'[j] = entry[j]
    BY <2>1, NewEntry
  <2>3. CASE doing[c].op = "createFolder"
    <3>1. used' = used /\ strayed' = strayed
      BY <2>1, <2>3 DEF CreateEntry, Act
    <3>2. entry[i].kind # "file" /\ entry'[i].kind # "file"
      BY <2>1, <2>2, <2>3
    <3>3. \A j \in Items \ {i} : GivesBackTo(j)' = GivesBackTo(j)
      BY <1>1, <2>2, ItemBill, NextItemBill
    <3> QED
      BY <2>2, <3>1, <3>2, <3>3, SameFilesSameBill
  <2>4. CASE doing[c].op = "upload" /\ strayed' = {}
    <3>1. Named(doing[c]) /\ doing[c].drive \in DriveNames
      BY DEF DrivesInv, RequestsNamed, DriveRequests
    <3>2. /\ doing[c].bill \in People
          /\ doing[c].drive \in People => doing[c].bill = doing[c].drive
          /\ doing[c].drive = Shared => doing[c].bill = founder
      BY <2>4, <3>1 DEF Named
    <3>3. strayed = {} /\ (doing[c].drive = None => doing[c].bill = doing[c].who)
      BY <2>1, <2>4
    <3>4. GivesBackTo(i)' = doing[c].bill
      BY <1>1, <2>1, <2>2, <3>1, <3>2, <3>3, NextItemBill DEF DriveNames
    <3>5. used' = [used EXCEPT ![doing[c].bill] = @ + 1]
      BY <1>3, <2>4 DEF CreateEntry, Act
    <3> QED
      BY <1>1, <2>1, <2>2, <2>4, <3>2, <3>3, <3>4, <3>5, NewFileBilled
  <2>5. CASE strayed' # {}
    BY <2>5 DEF BillFollowsFiles
  <2> QED
    BY <2>3, <2>4, <2>5 DEF CreateEntry, Act
<1> QED
  BY <1>2, <1>3

LEMMA CompleteBatchBilled ==
    ASSUME DrivesInv, BillFollowsFiles, CompleteBatch
    PROVE  BillFollowsFiles'
<1> USE DrivesTyped
<1>1. owner' = owner
  BY DEF CompleteBatch
<1>2. PICK p \in People, i \in Items, made \in EntryRow :
          /\ New(i, made)
          /\ made.drive = Shared => owner # Nobody
          /\ made.kind = "file" /\ made.by = p
          /\ used[p] < MaxUsed /\ used' = [used EXCEPT ![p] = @ + 1]
          /\ strayed' \in {strayed, strayed \cup {i}}
          /\ strayed' = strayed =>
                i \in strayed \/ p = IF made.drive \in People THEN made.drive
                                     ELSE IF made.drive = Shared THEN owner ELSE p
  BY CompleteBatchMade
<1>3. CASE strayed' # {}
  BY <1>3 DEF BillFollowsFiles
<1>4. CASE strayed' = {}
  <2>1. /\ entry[i] = NoEntry /\ entry'[i] = made
        /\ \A j \in Items \ {i} : entry'[j] = entry[j]
    BY <1>2, NewEntry
  <2>2. strayed = {} /\ strayed' = strayed
    BY <1>2, <1>4
  <2>3. GivesBackTo(i)' = p
    BY <1>1, <1>2, <2>1, <2>2, NextItemBill
  <2> QED
    BY <1>1, <1>2, <2>1, <2>2, <2>3, NewFileBilled
<1> QED
  BY <1>3, <1>4

LEMMA MoveBilled ==
    ASSUME DrivesInv, BillFollowsFiles, NEW c \in Clerks, Move(c)
    PROVE  BillFollowsFiles'
<1> USE DrivesTyped, DrivesConstants
<1>1. UNCHANGED <<owner, used>>
  BY DEF Move
<1>2. CASE UNCHANGED <<entry, strayed>>
  BY <1>1, <1>2, ItemBill, NextItemBill, SameFilesSameBill
<1> DEFINE w == doing[c].what
<1>3. CASE /\ entry[w] # NoEntry /\ StillThere(c) /\ entry' = Moved(c)
           /\ strayed' = IF entry[w].kind = "folder" \/ NewBill(c) = BillUser(w)
                         THEN strayed ELSE strayed \cup {w}
  <2>1. Named(doing[c]) /\ doing[c] \in DriveRequests /\ doing[c].op = "move"
    BY DEF Move, Act, DrivesInv, RequestsNamed
  <2>2. /\ w \in Items /\ doing[c].drive \in DriveNames /\ doing[c].bill \in People
        /\ doing[c].drive \in People => doing[c].bill = doing[c].drive
        /\ doing[c].drive = Shared => doing[c].bill = founder
    BY <2>1 DEF Named, DriveRequests
  <2>3. entry[w] \in EntryRow
    BY <1>3, <2>2
  <2>4. /\ entry'[w].drive = doing[c].drive /\ entry'[w].by = entry[w].by
        /\ entry'[w].kind = entry[w].kind
        /\ \A i \in Items \ {w} : entry'[i] = entry[i]
    BY <1>3, <2>2, <2>3 DEF Moved, EntryRow
  <2>5. \A i \in Items : i = w => GivesBackTo(i)' = NewBill(c)
    BY <1>1, <1>3, <2>2, <2>4, NextItemBill DEF NewBill, StillThere, DriveNames
  <2>6. \A i \in Items \ {w} : GivesBackTo(i)' = GivesBackTo(i)
    BY <1>1, <2>4, ItemBill, NextItemBill
  <2>7. strayed' = {} => strayed = {} /\ (entry[w].kind = "file" => NewBill(c) = GivesBackTo(w))
    BY <1>3 DEF GivesBackTo
  <2>8. ASSUME strayed' = {}, NEW i \in Items
        PROVE  /\ entry'[i].kind = "file" <=> entry[i].kind = "file"
               /\ entry[i].kind = "file" => GivesBackTo(i)' = GivesBackTo(i)
    <3>1. CASE i = w
      BY <2>4, <2>5, <2>7, <2>8, <3>1
    <3>2. CASE i # w
      BY <2>4, <2>6, <3>2
    <3> QED
      BY <3>1, <3>2
  <2> QED
    BY <1>1, <2>7, <2>8, SameFilesSameBill
<1> QED
  BY <1>2, <1>3 DEF Move

LEMMA PurgeBilled ==
    ASSUME DrivesInv, BillFollowsFiles, NEW c \in Clerks, Purge(c)
    PROVE  BillFollowsFiles'
<1> USE DrivesTyped
<1>1. UNCHANGED <<owner, strayed>>
  BY DEF Purge
<1>2. CASE UNCHANGED <<entry, used>>
  BY <1>1, <1>2, ItemBill, NextItemBill, SameFilesSameBill
<1> DEFINE gone == Below(doing[c].what)
<1>3. CASE /\ strayed = {}
           /\ entry' = [i \in Items |-> IF i \in gone THEN NoEntry ELSE entry[i]]
           /\ used' = [p \in People |-> Max({0, used[p] - Cardinality(FilesOf(p, gone))})]
  <2>1. gone \in SUBSET Items
    BY DEF Below
  <2> HIDE DEF gone
  <2>2. \A i \in Items \ gone : entry'[i] = entry[i] /\ GivesBackTo(i)' = GivesBackTo(i)
    BY <1>1, <1>3, ItemBill, NextItemBill
  <2>3. \A i \in gone : entry'[i].kind # "file"
    BY <1>3, <2>1
  <2>4. ASSUME NEW p \in People PROVE used'[p] = Cardinality(FilesOf(p, Items)')
    <3>1. /\ FilesOf(p, Items)' = FilesOf(p, Items) \ FilesOf(p, gone)
          /\ FilesOf(p, Items) \cap FilesOf(p, gone) = FilesOf(p, gone)
      BY <2>1, <2>2, <2>3 DEF FilesOf
    <3>2. /\ IsFiniteSet(FilesOf(p, Items)) /\ Cardinality(FilesOf(p, Items)) \in Nat
          /\ Cardinality(FilesOf(p, gone)) \in Nat
      BY <2>1, FilesFinite
    <3>3. /\ Cardinality(FilesOf(p, Items)')
                = Cardinality(FilesOf(p, Items)) - Cardinality(FilesOf(p, gone))
          /\ Cardinality(FilesOf(p, gone)) <= Cardinality(FilesOf(p, Items))
      BY <3>1, <3>2, FS_Difference, FS_Subset
    <3>4. used[p] = Cardinality(FilesOf(p, Items))
      BY <1>3 DEF BillFollowsFiles
    <3>5. used'[p] = Max({0, used[p] - Cardinality(FilesOf(p, gone))})
      BY <1>3
    <3> QED
      BY <3>2, <3>3, <3>4, <3>5, NotBelowZero
  <2> QED
    BY <2>4 DEF BillFollowsFiles
<1>4. CASE strayed # {}
  BY <1>1, <1>4 DEF BillFollowsFiles
<1> QED
  BY <1>2, <1>3, <1>4 DEF Purge

LEMMA DrivesBilled ==
    ASSUME DrivesInv, BillFollowsFiles, [DrivesNext]_drivesVars
    PROVE  BillFollowsFiles'
<1> USE DrivesTyped, DrivesConstants
<1>1. ASSUME UNCHANGED <<owner, entry, used, strayed>> PROVE BillFollowsFiles'
  BY <1>1, ItemBill, NextItemBill, SameFilesSameBill
<1>2. ASSUME CreateShared PROVE BillFollowsFiles'
  <2>1. UNCHANGED <<entry, used, strayed>> /\ owner = Nobody
    BY <1>2 DEF CreateShared, DrivesInv, DrivesTypeOK
  <2>2. \A i \in Items : GivesBackTo(i)' = GivesBackTo(i)
    BY <2>1, ItemBill, NextItemBill
  <2> QED
    BY <2>1, <2>2, SameFilesSameBill
<1>3. ASSUME NEW c \in Clerks, DeleteDrive(c) PROVE BillFollowsFiles'
  <2>1. /\ used' = used /\ owner' = Nobody
        /\ entry' = [i \in Items |-> IF entry[i].drive = Shared
                                     THEN [entry[i] EXCEPT !.drive = None] ELSE entry[i]]
        /\ strayed' = strayed \cup {i \in Items : /\ entry[i].kind = "file"
                                                /\ entry[i].drive = Shared
                                                /\ entry[i].by # owner}
    BY <1>3 DEF DeleteDrive
  <2>2. ASSUME strayed' = {}, NEW i \in Items
        PROVE  /\ entry'[i].kind = entry[i].kind
               /\ entry[i].kind = "file" => GivesBackTo(i)' = GivesBackTo(i)
    <3>1. CASE entry[i].drive = Shared
      <4>1. entry[i] \in EntryRow /\ entry'[i] = [entry[i] EXCEPT !.drive = None]
        BY <2>1, <3>1
      <4>2. entry'[i].kind = entry[i].kind /\ entry'[i].by = entry[i].by /\ entry'[i].drive = None
        BY <4>1 DEF EntryRow
      <4>3. entry[i].kind = "file" => entry[i].by = owner
        BY <2>1, <2>2, <3>1
      <4> QED
        BY <3>1, <4>2, <4>3, ItemBill, NextItemBill
    <3>2. CASE entry[i].drive # Shared
      BY <2>1, <3>2, ItemBill, NextItemBill
    <3> QED
      BY <3>1, <3>2
  <2> QED
    BY <2>1, <2>2, SameFilesSameBill
<1>4. ASSUME NEW c \in Clerks, Trash(c) \/ Restore(c) PROVE BillFollowsFiles'
  <2>1. SameBills /\ UNCHANGED <<owner, used, strayed>>
    BY <1>4, TrashOrRestore DEF Trash, Restore
  <2>2. \A i \in Items : GivesBackTo(i)' = GivesBackTo(i)
    BY <2>1, ItemBill, NextItemBill DEF SameBills
  <2> QED
    BY <2>1, <2>2, SameFilesSameBill DEF SameBills
<1>5. ASSUME NEW c \in Clerks,
             \/ DriveRequest(c) \/ PermissionRequest(c) \/ CreateRequest(c)
             \/ MoveRequest(c) \/ RemoveRequest(c)
             \/ AddMember(c) \/ RemoveMember(c) \/ Grant(c) \/ Revoke(c) \/ GiveUp(c)
      PROVE  BillFollowsFiles'
  BY <1>1, <1>5 DEF DriveRequest, PermissionRequest, CreateRequest, MoveRequest, RemoveRequest,
     Ask, AddMember, RemoveMember, Grant, Revoke, GiveUp
<1> QED
  BY <1>1, <1>2, <1>3, <1>4, <1>5, CompleteBatchBilled, CreateEntryBilled, MoveBilled, PurgeBilled
     DEF DrivesNext, drivesVars

LEMMA NothingBilledYet == DrivesInit => BillFollowsFiles
<1> SUFFICES ASSUME DrivesInit PROVE \A p \in People : used[p] = Cardinality(FilesOf(p, Items))
  BY DEF BillFollowsFiles
<1>1. \A p : FilesOf(p, Items) = {}
  BY DEF DrivesInit, FilesOf, NoEntry, None
<1> QED
  BY <1>1, FS_EmptySet DEF DrivesInit

-----------------------------------------------------------------------------
(* Who is shown an entry *)

LEMMA Greatest3 ==
    ASSUME NEW a \in Nat, NEW b \in Nat, NEW c \in Nat
    PROVE  /\ Max({a, b, c}) \in {a, b, c}
           /\ a <= Max({a, b, c}) /\ b <= Max({a, b, c}) /\ c <= Max({a, b, c})
<1>1. \E m \in {a, b, c} : \A y \in {a, b, c} : m >= y
  <2>1. CASE a >= b /\ a >= c
    BY <2>1
  <2>2. CASE b >= a /\ b >= c
    BY <2>2
  <2>3. CASE c >= a /\ c >= b
    BY <2>3
  <2> QED
    BY <2>1, <2>2, <2>3
<1> DEFINE m == CHOOSE x \in {a, b, c} : \A y \in {a, b, c} : x >= y
<1>2. Max({a, b, c}) = m
  BY DEF Max
<1>3. m \in {a, b, c} /\ \A y \in {a, b, c} : m >= y
  BY <1>1
<1> HIDE DEF m
<1> QED
  BY <1>2, <1>3

\* The role that the query over the ancestors returns is one of those granted
\* there, and the best.
LEMMA BestRole ==
    ASSUME DrivesInv, NEW p \in People, NEW e
    PROVE  LET found == {permission[i, p] : i \in Chain(e) \cap Items} \ {None}
           IN  /\ found \subseteq AclRoles
               /\ found = {} => aclRoleOnAncestors(p, e) = None
               /\ found # {} => /\ aclRoleOnAncestors(p, e) \in found
                                /\ \A q \in found : AclRank[q] <= AclRank[aclRoleOnAncestors(p, e)]
<1> DEFINE found == {permission[i, p] : i \in Chain(e) \cap Items} \ {None}
<1>1. found \subseteq AclRoles
  BY DrivesTyped
<1>2. aclRoleOnAncestors(p, e) = IF found = {} THEN None
                                 ELSE CHOOSE r \in found : \A q \in found : AclRank[q] <= AclRank[r]
  BY DEF aclRoleOnAncestors
<1> HIDE DEF found
<1>3. ASSUME found # {} PROVE \E r \in found : \A q \in found : AclRank[q] <= AclRank[r]
  <2>1. CASE "editor" \in found
    BY <1>1, <2>1 DEF AclRoles, AclRank
  <2>2. CASE "editor" \notin found /\ "commenter" \in found
    BY <1>1, <2>2 DEF AclRoles, AclRank
  <2>3. CASE "editor" \notin found /\ "commenter" \notin found
    <3>1. "viewer" \in found /\ \A q \in found : q = "viewer"
      BY <1>1, <1>3, <2>3 DEF AclRoles
    <3> QED
      BY <3>1 DEF AclRank
  <2> QED
    BY <2>1, <2>2, <2>3
<1>4. found = {} => aclRoleOnAncestors(p, e) = None
  BY <1>2
<1>5. found # {} => /\ aclRoleOnAncestors(p, e) \in found
                    /\ \A q \in found : AclRank[q] <= AclRank[aclRoleOnAncestors(p, e)]
  BY <1>2, <1>3
<1> QED
  BY <1>1, <1>4, <1>5 DEF found

LEMMA ListingFollowsAccess == DrivesInv => ListedIsAccessible
<1> SUFFICES ASSUME DrivesInv, NEW p \in People, NEW i \in Items \cap Entries
             PROVE  /\ Listed(p, i) <=> Require(p, i, "view")
                    /\ \A j \in Chain(i) \cap Items :
                          roleLevel[permission[j, p]] <= effectiveLevel(p, i)
  BY DEF ListedIsAccessible
<1> USE DrivesTyped, DrivesConstants
<1>1. entry[i] \in EntryRow
  BY DEF Entries
<1> DEFINE found == {permission[j, p] : j \in Chain(i) \cap Items} \ {None}
           best  == aclRoleOnAncestors(p, i)
           mine  == IF UserOf(i) = p THEN roleLevel["owner"] ELSE 0
<1>2. /\ found \subseteq AclRoles
      /\ found = {} => best = None
      /\ found # {} => best \in found /\ \A q \in found : AclRank[q] <= AclRank[best]
  BY BestRole
<1>3. /\ roleLevel["none"] = 0 /\ roleLevel["owner"] = 6
      /\ \A r \in AclRoles : roleLevel[r] = AclRank[r] /\ AclRank[r] \in 1 .. 3
      /\ \A r \in DriveRoles : roleLevel[r] \in 1 .. 5
  BY DEF roleLevel, AclRank, AclRoles, DriveRoles
<1>4. roleLevel[None] = 0 /\ None \notin AclRoles /\ None \notin DriveRoles
  BY <1>3 DEF None, AclRoles, DriveRoles
<1>5. /\ roleLevel[best] \in Nat
      /\ roleLevel[best] >= 1 <=> found # {}
      /\ \A q \in found : roleLevel[q] <= roleLevel[best]
  <2> HIDE DEF found, best
  <2> QED
    BY <1>2, <1>3, <1>4
<1>6. RoleInDrive(p, i) = IF entry[i].drive = Shared THEN member[p]
                          ELSE IF entry[i].drive = p THEN "manager" ELSE None
  BY ItemBill DEF RoleInDrive
<1>7. member[p] \in DriveRoles \cup {None} /\ "manager" \in DriveRoles
  BY DEF DrivesInv, DrivesTypeOK, DriveRoles
<1>8. /\ roleLevel[RoleInDrive(p, i)] \in Nat
      /\ roleLevel[RoleInDrive(p, i)] >= 1 <=>
            \/ entry[i].drive = Shared /\ member[p] # None
            \/ entry[i].drive = p
  BY <1>3, <1>4, <1>6, <1>7
<1>9. mine \in Nat /\ (mine >= 1 <=> entry[i].by = p)
  BY <1>3, ItemBill
<1>10. found # {} <=> \E j \in Chain(i) \cap Items : permission[j, p] # None
  <2>1. ASSUME NEW q \in found PROVE \E j \in Chain(i) \cap Items : permission[j, p] # None
    OBVIOUS
  <2>2. ASSUME NEW j \in Chain(i) \cap Items, permission[j, p] # None PROVE permission[j, p] \in found
    BY <2>2
  <2> HIDE DEF found
  <2> QED
    BY <2>1, <2>2
<1> DEFINE level == Max({mine, roleLevel[RoleInDrive(p, i)], roleLevel[best]})
<1>11. effectiveLevel(p, i) = level
  BY DEF effectiveLevel
<1> HIDE DEF mine, best, found
<1>12. /\ level \in {mine, roleLevel[RoleInDrive(p, i)], roleLevel[best]}
       /\ mine <= level /\ roleLevel[RoleInDrive(p, i)] <= level /\ roleLevel[best] <= level
  BY <1>5, <1>8, <1>9, Greatest3
<1> HIDE DEF level
<1>13. level \in Nat /\ (level >= 1 <=> mine >= 1 \/ roleLevel[RoleInDrive(p, i)] >= 1
                                        \/ roleLevel[best] >= 1)
  BY <1>5, <1>8, <1>9, <1>12
<1>14. Listed(p, i) <=> Require(p, i, "view")
  BY <1>5, <1>8, <1>9, <1>10, <1>11, <1>13 DEF Listed, Require, requiredLevel
<1>15. ASSUME NEW r, r = None \/ r \in found PROVE roleLevel[r] <= effectiveLevel(p, i)
  <2>1. roleLevel[r] \in Nat /\ roleLevel[r] <= roleLevel[best]
    BY <1>2, <1>3, <1>4, <1>5, <1>15
  <2> QED
    BY <1>5, <1>11, <1>12, <1>13, <2>1
<1>16. ASSUME NEW j \in Chain(i) \cap Items PROVE permission[j, p] = None \/ permission[j, p] \in found
  BY DEF found
<1> QED
  BY <1>14, <1>15, <1>16

\* The states of Drives are well formed, and a request names what it needs.
THEOREM DrivesInvariant == DrivesSpec => []DrivesInv
BY DrivesInvInit, DrivesInvStep, PTL DEF DrivesSpec

\* collab.Search and ListRecent show a user an entry exactly if internal/access
\* lets this user view it, at no less than the best role granted above it.
THEOREM ListingIsAccess == DrivesSpec => []ListedIsAccessible
BY DrivesInvariant, ListingFollowsAccess, PTL

\* used_bytes is what purging somebody's files would give back, unless a file
\* has changed hands in one of the ways that leave its bill behind.
THEOREM BillsHold == DrivesSpec => []BillFollowsFiles
BY DrivesInvariant, NothingBilledYet, DrivesBilled, PTL DEF DrivesSpec

-----------------------------------------------------------------------------
(***************************************************************************)
(* The server: one of the modules runs, the others rest.                   *)
(***************************************************************************)
ServerInv ==
    /\ part = "accounts"       => AccountsInv
    /\ part = "administration" => AdministrationInv
    /\ part = "quota"          => QuotaInv
    /\ part = "drives"         => DrivesInv
    /\ part = "links"          => LinksTypeOK
    /\ part = "webdav"         => DavInv /\ DavTyped

LEMMA ServerInvInit == ServerInit => ServerInv
BY AccountsInvInit, AdministrationInvInit, QuotaInvInit, DrivesInvInit, LinksTypesInit, DavInvInit,
   DavTypedInit DEF ServerInit, ServerInv

\* The module that runs takes its own steps.
LEMMA ServerInvStep == ServerInv /\ [ServerNext]_serverVars => ServerInv'
<1> SUFFICES ASSUME ServerInv, [ServerNext]_serverVars PROVE ServerInv'
  OBVIOUS
<1>1. UNCHANGED part
  BY DEF ServerNext, serverVars
<1>2. part = "accounts" => AccountsInv'
  <2>1. part = "accounts" => [AccountsNext]_accountVars
    BY DEF ServerNext, serverVars
  <2> QED
    BY <2>1, AccountsInvStep DEF ServerInv
<1>3. part = "administration" => AdministrationInv'
  <2>1. part = "administration" => [AdministrationNext]_administrationVars
    BY DEF ServerNext, serverVars
  <2> QED
    BY <2>1, AdministrationInvStep DEF ServerInv
<1>4. part = "quota" => QuotaInv'
  <2>1. part = "quota" => [QuotaNext]_quotaVars
    BY DEF ServerNext, serverVars
  <2> QED
    BY <2>1, QuotaInvStep DEF ServerInv
<1>5. part = "drives" => DrivesInv'
  <2>1. part = "drives" => [DrivesNext]_drivesVars
    BY DEF ServerNext, serverVars
  <2> QED
    BY <2>1, DrivesInvStep DEF ServerInv
<1>6. part = "links" => LinksTypeOK'
  <2>1. part = "links" => [LinksNext]_linksVars
    BY DEF ServerNext, serverVars
  <2> QED
    BY <2>1, LinksTypesStep DEF ServerInv
<1>7. part = "webdav" => (DavInv /\ DavTyped)'
  <2>1. part = "webdav" => [DavNext]_davVars
    BY DEF ServerNext, serverVars
  <2> QED
    BY <2>1, DavInvStep, DavTypedNext DEF ServerInv
<1> QED
  BY <1>1, <1>2, <1>3, <1>4, <1>5, <1>6, <1>7 DEF ServerInv

\* Whichever module of the server runs, its state is well formed: the rows,
\* the locks and the bounds of every counter.
THEOREM ServerTypesHold == ServerSpec => []ServerTypeOK
<1>1. ServerInv => ServerTypeOK
  BY TypesFollow, DavTypesFollow
     DEF ServerInv, ServerTypeOK, AccountsInv, AdministrationInv, QuotaInv, DrivesInv
<1> QED
  BY <1>1, ServerInvInit, ServerInvStep, PTL DEF ServerSpec

=============================================================================
