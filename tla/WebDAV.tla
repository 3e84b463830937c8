------------------------------- MODULE WebDAV --------------------------------
(***************************************************************************)
(* A user's drive mounted over WebDAV: internal/webdavx, and how it is     *)
(* driven by golang.org/x/net/webdav (external: the order of the calls and *)
(* the lock system).                                                       *)
(*                                                                         *)
(* The clients present one credential, a password or a device token, which *)
(* the handler remembers for a while.  They share a table of locks by      *)
(* path, compared letter by letter, while files are looked up without      *)
(* regard to case; the browser and the desktop client know no locks.       *)
(* Every call of internal/files is a transaction and a step of its own.    *)
(* Folders stay, and a content is known by who wrote it.                   *)
(***************************************************************************)
EXTENDS Integers, FiniteSets

CONSTANTS
    Mounters,    \* clients that have mounted the drive
    Paths,       \* [dir, name, spelled]: two spellings of a name are one file
    Ids,         \* entries that may be created
    Mounts,      \* what the clients do: see Mount
    TTL          \* life of a remembered credential: 10 minutes

VARIABLES
    mount,     \* one of Mounts
    right,     \* the credential is still right
    since,     \* the time since it is not
    authC,     \* life left to the remembered credential, see Forgotten
    overrun,   \* history: it was remembered some time after it was revoked
    lock,      \* MemLS: who has locked each path
    tree,      \* the files of the drive
    dav        \* what each client's request is doing

davVars == <<mount, right, since, authC, overrun, lock, tree, dav>>

-----------------------------------------------------------------------------
Methods == {"PUT", "DELETE", "MOVE", "COPY", "LOCK"}

Mount == [ops : SUBSET Methods, paths : SUBSET Paths,
          revocable : BOOLEAN, browser : BOOLEAN]

ASSUME WebDAVConstants ==
    /\ TTL \in Nat \ {0}
    /\ Ids = 1 .. Cardinality(Ids)
    /\ Mounts \subseteq Mount

Forgotten == -1
Unlocked  == "unlocked"
Web       == "web"
Missing   == [dir |-> "none", name |-> "none", by |-> Web]
Trashed   == [Missing EXCEPT !.dir = "trash"]
NoPath    == [dir |-> "none", name |-> "none", spelled |-> "none"]
Away      == [at |-> "away", op |-> "none", from |-> NoPath, to |-> NoPath,
              over |-> FALSE, id |-> 0]

Place(p)  == <<p.dir, p.name>>
Places    == {Place(p) : p \in Paths}
Live      == {i \in Ids : tree[i] \notin {Missing, Trashed}}
At(place) == {<<i, tree[i].by>> : i \in {j \in Live : Place(tree[j]) = place}}

\* Where a request is before the lock system lets it pass, and after.
Outside == {"away", "user", "remember", "confirm"}
Inside  == {"stat", "lookup", "delete", "open", "close", "rename", "move", "name"}

DavTypeOK ==
    /\ mount \in Mounts
    /\ right \in BOOLEAN /\ overrun \in BOOLEAN
    /\ since \in 0 .. TTL + 1 /\ (right => since = 0)
    /\ authC \in {Forgotten} \cup 0 .. TTL
    /\ lock \in [Paths -> Mounters \cup {Unlocked}]
    /\ dav \in [Mounters ->
           [at : Outside \cup Inside, op : Methods \cup {"none"}, over : BOOLEAN,
            from : Paths \cup {NoPath}, to : Paths \cup {NoPath}, id : Ids \cup {0}]]
    /\ \A m \in Mounters : dav[m].op \in mount.ops \/ dav[m] = Away
    /\ \A m \in Mounters : {dav[m].from, dav[m].to} \subseteq Paths \/ dav[m] = Away
    /\ DOMAIN tree = Ids
    /\ \A i, j \in Live : Place(tree[i]) = Place(tree[j]) => i = j

DavInit ==
    /\ mount \in Mounts
    /\ right = TRUE /\ since = 0 /\ authC = Forgotten /\ overrun = FALSE
    /\ lock = [p \in Paths |-> Unlocked]
    /\ tree = [i \in Ids |-> Missing]
    /\ dav = [m \in Mounters |-> Away]

-----------------------------------------------------------------------------
(* Who it is *)

credentialVars == <<right, since, authC, overrun>>

Goes(m, step) == dav' = [dav EXCEPT ![m].at = step]
Leaves(m)         == dav' = [dav EXCEPT ![m] = Away]

\* MOVE and COPY have a destination and may replace what is there.
ServeHTTP(m) ==
    /\ dav[m] = Away
    /\ \E op \in mount.ops, p, q \in mount.paths, over \in BOOLEAN :
         /\ IF op \in {"MOVE", "COPY"} THEN p # q ELSE p = q /\ ~over
         /\ dav' = [dav EXCEPT ![m] = [at |-> "user", op |-> op, from |-> p, to |-> q,
                                       over |-> over, id |-> 0]]
    /\ UNCHANGED <<mount, credentialVars, lock, tree>>

\* time.Now().Before(c.expires)
Remembered == authC # Forgotten                              \* mutant
Fresh      == authC > 0

\* UserByDeviceToken, or BeginDeviceLogin without a second factor
user(m) ==
    /\ dav[m].at = "user"
    /\ \/ Fresh /\ Goes(m, "confirm") /\ UNCHANGED authC
       \/ ~Fresh /\ right /\ Goes(m, "remember") /\ authC' = Forgotten
       \/ ~Fresh /\ ~right /\ Leaves(m) /\ authC' = Forgotten
    /\ UNCHANGED <<mount, right, since, overrun, lock, tree>>

Remember(m) ==
    /\ dav[m].at = "remember"
    /\ authC' = TTL
    /\ overrun' = IF since > 0 THEN TRUE ELSE overrun
    /\ Goes(m, "confirm")
    /\ UNCHANGED <<mount, right, since, lock, tree>>

\* The password is changed, or the device is revoked.
Revoked ==
    /\ right /\ mount.revocable
    /\ right' = FALSE
    /\ UNCHANGED <<mount, since, authC, overrun, lock, tree, dav>>

TimePasses ==
    /\ mount.revocable
    /\ authC' = IF Fresh THEN authC - 1 ELSE authC
    /\ since' = IF right \/ since > TTL THEN since ELSE since + 1
    /\ UNCHANGED <<mount, right, overrun, lock, tree, dav>>

-----------------------------------------------------------------------------
(* The lock system *)

\* The paths a request must hold while it runs.
Claims(m) == IF dav[m].op = "COPY" THEN {dav[m].to} ELSE {dav[m].from, dav[m].to}

Holds(m) ==
    IF dav[m].op = "LOCK" \/ dav[m].at \in Outside THEN {} ELSE Claims(m)

\* One table for all requests: a request may pass the locks of its own client.
OwnTable(m) == TRUE                   \* mutant: a new table for every request
Confirmed(m) ==
    \A p \in Claims(m) :
        /\ lock[p] \in IF dav[m].op = "LOCK" THEN {Unlocked} ELSE {Unlocked, m}
        /\ \A n \in Mounters \ {m} : p \notin Holds(n)

FirstStep(op) ==
    IF op = "PUT" THEN "open" ELSE IF op = "DELETE" THEN "lookup" ELSE "stat"

Confirm(m) ==
    /\ dav[m].at = "confirm"
    /\ IF Confirmed(m)
       THEN /\ Goes(m, FirstStep(dav[m].op))
            /\ lock' = IF dav[m].op = "LOCK" THEN [lock EXCEPT ![dav[m].from] = m] ELSE lock
       ELSE Leaves(m) /\ UNCHANGED lock
    /\ UNCHANGED <<mount, credentialVars, tree>>

\* UNLOCK, or the lock's time is over
Unlock(p) ==
    /\ lock[p] # Unlocked
    /\ lock' = [lock EXCEPT ![p] = Unlocked]
    /\ UNCHANGED <<mount, credentialVars, tree, dav>>

-----------------------------------------------------------------------------
(* driveFS: every step is one call of internal/files *)

\* lookup goes down by name, whatever its case.
lookup(p) == {i \in Live : Place(tree[i]) = Place(p)}

With(m, step, id) == dav' = [dav EXCEPT ![m].at = step, ![m].id = id]

\* Stat of the destination.  A COPY has opened its source, a MOVE has not asked
\* for it; a LOCK creates the file that is missing.
Stat(m) ==
    /\ dav[m].at = "stat"
    /\ \/ dav[m].op = "COPY" /\ lookup(dav[m].from) = {} /\ Leaves(m)
       \/ /\ dav[m].op = "COPY" => lookup(dav[m].from) # {}
          /\ IF lookup(dav[m].to) = {}
             THEN Goes(m, IF dav[m].op = "MOVE" THEN "rename" ELSE "open")
             ELSE IF dav[m].over THEN Goes(m, "lookup") ELSE Leaves(m)
    /\ UNCHANGED <<mount, credentialVars, lock, tree>>

\* RemoveAll: what a DELETE names, what a MOVE or COPY replaces
RemoveAll(m) ==
    \/ /\ dav[m].at = "lookup"
       /\ \/ \E i \in lookup(dav[m].to) : With(m, "delete", i)
          \/ /\ lookup(dav[m].to) = {}
             /\ IF dav[m].op = "COPY" THEN Goes(m, "open") ELSE Leaves(m)
       /\ UNCHANGED <<mount, credentialVars, lock, tree>>
    \/ /\ dav[m].at = "delete"
       /\ IF dav[m].id \in Live
          THEN /\ tree' = [tree EXCEPT ![dav[m].id] = Trashed]
               /\ CASE dav[m].op = "MOVE" -> Goes(m, "rename")
                    [] dav[m].op = "COPY" -> Goes(m, "open")
                    [] OTHER              -> Leaves(m)
          ELSE Leaves(m) /\ UNCHANGED tree
       /\ UNCHANGED <<mount, credentialVars, lock>>

\* The body, or the empty file of a LOCK, goes to a temporary file that keeps
\* the folder and the name it is for, not the entry that has them now.
openWriteSpool(m) == Goes(m, "close")

OpenFile(m) ==
    /\ dav[m].at = "open"
    /\ openWriteSpool(m)
    /\ UNCHANGED <<mount, credentialVars, lock, tree>>

\* file_entries_unique_name_idx
Vacant(place, i) == \A j \in Live \ {i} : Place(tree[j]) # place

Unused(i) == tree[i] = Missing /\ \A j \in 1 .. i - 1 : tree[j] # Missing

\* Close: UploadStream replaces the file that has the name by now.  A body that
\* has broken off is stored as far as it came.
Close(m) ==
    /\ dav[m].at = "close"
    /\ \/ \E i \in lookup(dav[m].to) : tree' = [tree EXCEPT ![i].by = m]
       \/ /\ lookup(dav[m].to) = {}
          /\ \E i \in Ids :
               /\ Unused(i)
               /\ tree' = [tree EXCEPT ![i] = [dir |-> dav[m].to.dir, name |-> dav[m].to.name,
                                               by |-> m]]
       \/ UNCHANGED tree                     \* refused, or it fails
    /\ Leaves(m)
    /\ UNCHANGED <<mount, credentialVars, lock>>

\* Rename: look the source up, move it if the folder changes, then rename it if
\* the name does; the calls are transactions of their own.
Rename(m) ==
    LET i == dav[m].id IN
    \/ /\ dav[m].at = "rename"
       /\ \/ \E j \in lookup(dav[m].from) :
               With(m, IF dav[m].from.dir # dav[m].to.dir THEN "move" ELSE "name", j)
          \/ lookup(dav[m].from) = {} /\ Leaves(m)
       /\ UNCHANGED <<mount, credentialVars, lock, tree>>
    \/ /\ dav[m].at = "move"
       /\ IF i \in Live /\ Vacant(<<dav[m].to.dir, tree[i].name>>, i)
          THEN /\ tree' = [tree EXCEPT ![i].dir = dav[m].to.dir]
               /\ Goes(m, "name")
          ELSE Leaves(m) /\ UNCHANGED tree
       /\ UNCHANGED <<mount, credentialVars, lock>>
    \/ /\ dav[m].at = "name"
       /\ IF dav[m].from.name # dav[m].to.name /\ i \in Live
             /\ Vacant(<<tree[i].dir, dav[m].to.name>>, i)
          THEN tree' = [tree EXCEPT ![i].name = dav[m].to.name]
          ELSE UNCHANGED tree
       /\ Leaves(m)
       /\ UNCHANGED <<mount, credentialVars, lock>>

\* The browser and the desktop client: upload, move, rename and trash.
ChangedElsewhere ==
    /\ mount.browser
    /\ \E i \in Ids :
         \/ /\ i \in Live
            /\ tree' = [tree EXCEPT ![i] = Trashed]
         \/ \E place \in Places :
              /\ i \in Live \/ Unused(i)
              /\ Vacant(place, i)
              /\ tree' = [tree EXCEPT ![i].dir = place[1], ![i].name = place[2]]
         \/ i \in Live /\ tree' = [tree EXCEPT ![i].by = Web]
    /\ UNCHANGED <<mount, credentialVars, lock, dav>>

\* A call fails or the client goes away; a body is closed all the same.
RequestFails(m) ==
    /\ dav[m].at \notin {"away", "close"}
    /\ Leaves(m)
    /\ UNCHANGED <<mount, credentialVars, lock, tree>>

\* Locks and credentials live in memory only.
ServerRestarts ==
    /\ lock' = [p \in Paths |-> Unlocked]
    /\ authC' = Forgotten
    /\ dav' = [m \in Mounters |-> Away]
    /\ UNCHANGED <<mount, right, since, overrun, tree>>

-----------------------------------------------------------------------------
DavNext ==
    \/ \E m \in Mounters :
         \/ ServeHTTP(m) \/ user(m) \/ Remember(m) \/ Confirm(m)
         \/ Stat(m) \/ RemoveAll(m) \/ OpenFile(m) \/ Close(m) \/ Rename(m) \/ RequestFails(m)
    \/ Revoked \/ TimePasses \/ ChangedElsewhere \/ ServerRestarts
    \/ \E p \in Paths : Unlock(p)

DavSpec == DavInit /\ [][DavNext]_davVars

-----------------------------------------------------------------------------
(* Properties *)

\* A credential that is not right any more lets nobody in once its remembered
\* life is over, however often it is used meanwhile - counted from when it was
\* remembered, if a request that was under way did so after the revocation.
RevokedIsForgotten ==
    [][\A m \in Mounters :
          dav[m].at = "user" /\ dav'[m].at = "confirm" =>
              right \/ since < TTL \/ overrun]_davVars

\* While a client has locked a path, no other client's request that names the
\* path as it is spelled changes the file there: not a PUT, MOVE or COPY that
\* passed its check before the lock was taken either.  (A LOCK that lasts longer
\* than its own lock is apart.)
LockKeepsOthersOut ==
    [][\A p \in Paths, m \in Mounters :
          /\ p \in Claims(m) /\ dav[m].op # "LOCK" /\ dav'[m] # dav[m]
          /\ lock[p] \notin {Unlocked, m}
          => At(Place(p))' = At(Place(p))]_davVars

=============================================================================
