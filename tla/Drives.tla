------------------------------- MODULE Drives -------------------------------
(***************************************************************************)
(* Who may do what, and who pays: internal/access, internal/drives, the    *)
(* permissions of internal/collab, and the calls of internal/files that    *)
(* put an entry into a drive or take it out.                               *)
(*                                                                         *)
(* Every user has a home, the root of a personal drive; one shared drive   *)
(* comes and goes.  A handler asks internal/access first and acts in a     *)
(* later statement, so what it was allowed to do, and the drive it has     *)
(* read for the new parent, may have changed in between.                   *)
(***************************************************************************)
EXTENDS Integers, FiniteSets, FiniteSetsExt

CONSTANTS
    People,      \* users
    Items,       \* files and folders that may be created
    Clerks,      \* requests that may run at the same time
    Tasks,       \* what clients ask for, see Task
    MaxUsed      \* bound on what is charged to a user

VARIABLES
    task,        \* one of Tasks
    owner,       \* drives.owner_user_id of the shared drive, or "nobody"
    founder,     \* file_entries.user_id of the shared drive's root
    member,      \* drive_members of the shared drive
    entry,       \* file_entries
    permission,  \* file_permissions
    used,        \* users.used_bytes; every file has one unit
    doing,       \* what each request has been allowed to do
    strayed      \* history: files whose payer the code has changed: see Strays

drivesVars == <<task, owner, founder, member, entry, permission, used, doing, strayed>>

-----------------------------------------------------------------------------
roleLevel ==
    [viewer |-> 1, commenter |-> 2, contributor |-> 3, editor |-> 3,
     content_manager |-> 4, manager |-> 5, owner |-> 6, none |-> 0]

DriveRoles == {"viewer", "commenter", "contributor", "content_manager", "manager"}
AclRoles   == {"viewer", "commenter", "editor"}

requiredLevel == [view |-> 1, comment |-> 2, edit |-> 3, manage |-> 4, admin_drive |-> 5]

Operations ==
    {"createShared", "addMember", "removeMember", "deleteDrive", "grant", "revoke",
     "createFolder", "upload", "batch", "move", "trash", "restore", "purge"}

\* The operations that clients use together, the roles they give and the
\* users who are administrators.
Task == [ops : SUBSET Operations, members : SUBSET DriveRoles, grants : SUBSET AclRoles,
         admins : SUBSET People]

None    == "none"
Nobody  == "nobody"
Shared  == "shared"             \* the shared drive, and its root folder
Folders == People \cup {Shared} \cup Items
NoEntry == [kind |-> None, by |-> Nobody, parent |-> None, drive |-> None,
            trashed |-> FALSE]
Free    == [op |-> None, who |-> Nobody, what |-> None, to |-> None, role |-> None,
            drive |-> None, bill |-> Nobody]

ASSUME DrivesConstants ==
    /\ IsFiniteSet(Items) /\ MaxUsed \in Nat
    /\ People \cap Items = {}
    /\ {None, Nobody, Shared} \cap (People \cup Items) = {}
    /\ Tasks \subseteq Task

Entries == People \cup {Shared} \cup {i \in Items : entry[i] # NoEntry}

DrivesTypeOK ==
    /\ task \in Tasks \cap Task
    /\ owner \in People \cup {Nobody} /\ founder \in People \cup {Nobody}
    /\ owner # Nobody => owner = founder
    /\ member \in [People -> DriveRoles \cup {None}]
    /\ owner = Nobody => member = [p \in People |-> None]
    /\ entry \in [Items -> {NoEntry} \cup
           [kind : {"file", "folder"}, by : People, parent : Folders,
            drive : People \cup {Shared, None}, trashed : BOOLEAN]]
    /\ permission \in [Items \X People -> AclRoles \cup {None}]
    /\ used \in [People -> 0 .. MaxUsed]
    /\ strayed \subseteq Items

DrivesInit ==
    /\ task \in Tasks
    /\ owner = Nobody /\ founder = Nobody
    /\ member = [p \in People |-> None]
    /\ entry = [i \in Items |-> NoEntry]
    /\ permission = [g \in Items \X People |-> None]
    /\ used = [p \in People |-> 0]
    /\ doing = [c \in Clerks |-> Free]
    /\ strayed = {}

-----------------------------------------------------------------------------
(* internal/access *)

UserOf(e)  == IF e \in People THEN e ELSE IF e = Shared THEN founder ELSE entry[e].by
DriveOf(e) == IF e \in People THEN e
              ELSE IF e = Shared THEN (IF owner = Nobody THEN None ELSE Shared)
              ELSE entry[e].drive

\* coalesce(d.owner_user_id, f.user_id)
BillUser(e) == IF DriveOf(e) \in People THEN DriveOf(e)
               ELSE IF DriveOf(e) = Shared THEN owner ELSE UserOf(e)

\* The recursive queries over parent_id: an entry and its ancestors.
Chain(e) ==
    LET Up(S) == S \cup {entry[i].parent : i \in S \cap Items}
        climb[n \in 0 .. Cardinality(Items) + 1] == IF n = 0 THEN {e} ELSE Up(climb[n - 1])
    IN  climb[Cardinality(Items) + 1]

AclRank == [editor |-> 3, commenter |-> 2, viewer |-> 1]

\* aclRoleOnAncestors: the first role in the order of the query
aclRoleOnEntry(p, e) ==                                      \* mutant
    IF e \in Items THEN permission[e, p] ELSE None

aclRoleOnAncestors(p, e) ==
    LET found == {permission[i, p] : i \in Chain(e) \cap Items} \ {None}
    IN  IF found = {} THEN None
        ELSE CHOOSE r \in found : \A q \in found : AclRank[q] <= AclRank[r]

RoleInDrive(p, e) == IF DriveOf(e) = Shared THEN member[p]
                     ELSE IF DriveOf(e) = p THEN "manager" ELSE None

effectiveLevel(p, e) ==
    Max({IF UserOf(e) = p THEN roleLevel["owner"] ELSE 0,
         roleLevel[RoleInDrive(p, e)],
         roleLevel[aclRoleOnAncestors(p, e)]})

Require(p, e, action) ==
    p \in task.admins \/ effectiveLevel(p, e) >= requiredLevel[action]

CanDrive(p, action) ==
    \/ p \in task.admins
    \/ /\ owner # Nobody
       /\ Max({IF owner = p THEN roleLevel["owner"] ELSE 0, roleLevel[member[p]]})
              >= requiredLevel[action]

-----------------------------------------------------------------------------
(* Requests: what is checked first *)

Idles(c) == doing[c] = Free

\* The operations of ops that the task has.
Asks(ops) == ops \cap task.ops

Ask(c, request) ==
    /\ doing' = [doing EXCEPT ![c] = request]
    /\ UNCHANGED <<task, owner, founder, member, entry, permission, used, strayed>>

Asked(op, p, e, to, role) == [Free EXCEPT !.op = op, !.who = p, !.what = e, !.to = to, !.role = role]

\* drives.AddMember, RemoveMember, Delete
DriveRequest(c) ==
    /\ Idles(c)
    /\ \E p, q \in People, r \in task.members,
          op \in Asks({"addMember", "removeMember", "deleteDrive"}) :
        /\ CanDrive(p, "admin_drive")
        /\ op = "removeMember" => q # owner
        /\ Ask(c, Asked(op, p, None, IF op = "deleteDrive" THEN None ELSE q,
                          IF op = "addMember" THEN r ELSE None))

\* collab.Grant and Revoke
PermissionRequest(c) ==
    /\ Idles(c)
    /\ \E op \in Asks({"grant", "revoke"}), i \in Items, p, q \in People, r \in task.grants :
        /\ i \in Entries /\ Require(p, i, "manage")
        /\ op = "grant" => q # p
        /\ Ask(c, Asked(op, p, i, q, IF op = "grant" THEN r ELSE None))

\* files.parentContext
WithParent(request, folder) ==
    [request EXCEPT !.to = folder, !.drive = DriveOf(folder), !.bill = BillUser(folder)]

LiveFolder(e) == e \in Entries /\ (e \in Items => entry[e].kind = "folder" /\ ~entry[e].trashed)
                               /\ (e = Shared => founder # Nobody)

\* files.CreateFolder, and Upload, UploadBytes, UploadStream
CreateRequest(c) ==
    /\ Idles(c)
    /\ \E op \in Asks({"createFolder", "upload"}), p \in People, e \in Folders :
        /\ LiveFolder(e) /\ Require(p, e, "edit")
        /\ Ask(c, WithParent(Asked(op, p, None, None, None), e))

\* files.Move: never into the entry's own subtree
MoveRequest(c) ==
    /\ Idles(c)
    /\ \E op \in Asks({"move"}), p \in People, i \in Items, e \in Folders :
        /\ i \in Entries /\ LiveFolder(e)
        /\ Require(p, i, "edit") /\ Require(p, e, "edit")
        /\ ~entry[i].trashed => i \notin Chain(e)
        /\ Ask(c, WithParent(Asked(op, p, i, None, None), e))

\* files.Delete, Restore and Purge
RemoveRequest(c) ==
    /\ Idles(c)
    /\ \E op \in Asks({"trash", "restore", "purge"}), p \in People, i \in Items :
        /\ i \in Entries /\ Require(p, i, "manage")
        /\ Ask(c, Asked(op, p, i, None, None))

-----------------------------------------------------------------------------
(* Requests: what is done afterwards *)

Act(c, op) == doing[c].op = op /\ doing' = [doing EXCEPT ![c] = Free]

\* drives.CreateShared: one transaction that nothing is asked before
CreateShared ==
    /\ "createShared" \in task.ops /\ founder = Nobody
    /\ \E p \in People :
         /\ owner' = p /\ founder' = p
         /\ member' = [member EXCEPT ![p] = "manager"]
    /\ UNCHANGED <<task, entry, permission, used, doing, strayed>>

\* The upsert may change the role of somebody who is a member already.
AddMember(c) ==
    /\ Act(c, "addMember")
    /\ member' = IF owner = Nobody THEN member
                 ELSE [member EXCEPT ![doing[c].to] = doing[c].role]
    /\ UNCHANGED <<task, owner, founder, entry, permission, used, strayed>>

RemoveMember(c) ==
    /\ Act(c, "removeMember")
    /\ member' = [member EXCEPT ![doing[c].to] = None]
    /\ UNCHANGED <<task, owner, founder, entry, permission, used, strayed>>

\* delete from drives: the members go with it, entries get drive_id null.
\* From now on their uploaders are billed.
DeleteDrive(c) ==
    /\ Act(c, "deleteDrive")
    /\ owner' = Nobody
    /\ member' = [p \in People |-> None]
    /\ entry' = [i \in Items |-> IF entry[i].drive = Shared
                                 THEN [entry[i] EXCEPT !.drive = None] ELSE entry[i]]
    /\ strayed' = strayed \cup {i \in Items : /\ entry[i].kind = "file"
                                            /\ entry[i].drive = Shared
                                            /\ entry[i].by # owner}
    /\ UNCHANGED <<task, founder, permission, used>>

Grant(c) ==
    /\ Act(c, "grant")
    /\ permission' = IF entry[doing[c].what] = NoEntry THEN permission
                     ELSE [permission EXCEPT ![<<doing[c].what, doing[c].to>>] = doing[c].role]
    /\ UNCHANGED <<task, owner, founder, member, entry, used, strayed>>

Revoke(c) ==
    /\ Act(c, "revoke")
    /\ permission' = [permission EXCEPT ![<<doing[c].what, doing[c].to>>] = None]
    /\ UNCHANGED <<task, owner, founder, member, entry, used, strayed>>

\* The foreign keys: the parent and the drive must still be there.
StillThere(c) ==
    /\ doing[c].to \in Entries
    /\ doing[c].drive = Shared => owner # Nobody

New(i, made) ==
    /\ entry[i] = NoEntry
    /\ entry' = [entry EXCEPT ![i] = made]

\* insert into file_entries; a file is billed to whom parentContext named.
CreateEntry(c) ==
    /\ \/ Act(c, "createFolder") /\ UNCHANGED used
       \/ /\ Act(c, "upload") /\ used[doing[c].bill] < MaxUsed
          /\ used' = IF StillThere(c) THEN [used EXCEPT ![doing[c].bill] = @ + 1] ELSE used
    /\ IF StillThere(c)
       THEN \E i \in Items :
              New(i, [kind    |-> IF doing[c].op = "upload" THEN "file" ELSE "folder",
                      by      |-> doing[c].who, parent |-> doing[c].to,
                      drive   |-> doing[c].drive, trashed |-> FALSE])
              /\ strayed' = IF doing[c].op = "upload" /\ doing[c].drive = None
                               /\ doing[c].bill # doing[c].who
                            THEN strayed \cup {i} ELSE strayed
       ELSE UNCHANGED <<entry, strayed>>
    /\ UNCHANGED <<task, owner, founder, member, permission>>

\* uploads.CreateBatch and CompleteFile: only into a folder of one's own, and
\* billed to oneself whatever drive the folder is in.
CompleteBatch ==
    /\ "batch" \in task.ops
    /\ \E p \in People, e \in Folders, i \in Items :
         /\ LiveFolder(e) /\ UserOf(e) = p /\ used[p] < MaxUsed
         /\ New(i, [kind |-> "file", by |-> p, parent |-> e, drive |-> DriveOf(e),
                    trashed |-> FALSE])
         /\ used' = [used EXCEPT ![p] = @ + 1]
         /\ strayed' = IF DriveOf(e) = None \/ BillUser(e) = p
                       THEN strayed ELSE strayed \cup {i}
    /\ UNCHANGED <<task, owner, founder, member, permission, doing>>

\* update file_entries set parent_id, drive_id: of this entry alone, and
\* nobody's used_bytes moves with it.
Moved(c) == [entry EXCEPT ![doing[c].what].parent = doing[c].to,
                          ![doing[c].what].drive  = doing[c].drive]

\* Whom a purge would credit for the entry once it has moved.
NewBill(c) == IF doing[c].drive = None THEN entry[doing[c].what].by ELSE doing[c].bill

Move(c) ==
    /\ Act(c, "move")
    /\ IF entry[doing[c].what] # NoEntry /\ ~entry[doing[c].what].trashed /\ StillThere(c)
       THEN /\ entry' = Moved(c)
            /\ strayed' = IF entry[doing[c].what].kind = "folder"
                             \/ NewBill(c) = BillUser(doing[c].what)
                          THEN strayed ELSE strayed \cup {doing[c].what}
       ELSE UNCHANGED <<entry, strayed>>
    /\ UNCHANGED <<task, owner, founder, member, permission, used>>

Below(i) == {j \in Items : entry[j] # NoEntry /\ i \in Chain(j)}

Trash(c) ==
    /\ Act(c, "trash")
    /\ entry' = IF entry[doing[c].what] = NoEntry \/ entry[doing[c].what].trashed THEN entry
                ELSE [i \in Items |-> IF i \in Below(doing[c].what)
                                      THEN [entry[i] EXCEPT !.trashed = TRUE] ELSE entry[i]]
    /\ UNCHANGED <<task, owner, founder, member, permission, used, strayed>>

\* Only below a parent that is not in the trash itself.
Restore(c) ==
    /\ Act(c, "restore")
    /\ entry' = IF entry[doing[c].what].trashed /\ LiveFolder(entry[doing[c].what].parent)
                THEN [i \in Items |-> IF i \in Below(doing[c].what)
                                      THEN [entry[i] EXCEPT !.trashed = FALSE] ELSE entry[i]]
                ELSE entry
    /\ UNCHANGED <<task, owner, founder, member, permission, used, strayed>>

\* Purge gives the bytes back to the drive's owner, or else the uploader.
Uploader(i) == entry[i].by                                   \* mutant
GivesBackTo(i) == BillUser(i)

FilesOf(p, S) == {i \in S : entry[i].kind = "file" /\ GivesBackTo(i) = p}

Purge(c) ==
    LET gone == Below(doing[c].what) IN
    /\ Act(c, "purge")
    /\ IF entry[doing[c].what] # NoEntry /\ entry[doing[c].what].trashed
       THEN /\ entry' = [i \in Items |-> IF i \in gone THEN NoEntry ELSE entry[i]]
            /\ permission' = [g \in Items \X People |->
                                IF g[1] \in gone THEN None ELSE permission[g]]
            /\ used' = [p \in People |-> Max({0, used[p] - Cardinality(FilesOf(p, gone))})]
       ELSE UNCHANGED <<entry, permission, used>>
    /\ UNCHANGED <<task, owner, founder, member, strayed>>

\* A statement fails or the client goes away before the request has acted.
GiveUp(c) ==
    /\ doing[c] # Free
    /\ doing' = [doing EXCEPT ![c] = Free]
    /\ UNCHANGED <<task, owner, founder, member, entry, permission, used, strayed>>

-----------------------------------------------------------------------------
DrivesNext ==
    \/ CreateShared \/ CompleteBatch
    \/ \E c \in Clerks :
         \/ DriveRequest(c) \/ PermissionRequest(c) \/ CreateRequest(c)
         \/ MoveRequest(c) \/ RemoveRequest(c)
         \/ AddMember(c) \/ RemoveMember(c) \/ DeleteDrive(c) \/ Grant(c) \/ Revoke(c)
         \/ CreateEntry(c) \/ Move(c) \/ Trash(c) \/ Restore(c) \/ Purge(c) \/ GiveUp(c)

DrivesSpec == DrivesInit /\ [][DrivesNext]_drivesVars

-----------------------------------------------------------------------------
(* Properties *)

\* collab.Search and ListRecent decide by a query of their own whom to show
\* an entry: the owner, a member of its drive, a grantee on the chain.
Listed(p, i) ==
    \/ p \in task.admins
    \/ entry[i].by = p
    \/ entry[i].drive = Shared /\ member[p] # None
    \/ entry[i].drive = p      \* personal drives: the owner is its manager
    \/ \E j \in Chain(i) \cap Items : permission[j, p] # None

\* What Search shows to a user is what internal/access lets this user view,
\* after any sequence of grants, moves, removals and drive deletions; and an
\* entry is at his best role: nothing granted on the chain is lost.
ListedIsAccessible ==
    \A p \in People, i \in Items \cap Entries :
        /\ Listed(p, i) <=> Require(p, i, "view")
        /\ \A j \in Chain(i) \cap Items :
             roleLevel[permission[j, p]] <= effectiveLevel(p, i)

\* used_bytes is the number of bytes that purging somebody's files would give
\* back, unless a file changed hands without its bill: Move between drives
\* of different owners (files/service.go:454), drives.Delete while it holds
\* files of others (drives/service.go:146), a batch uploaded into one's own
\* folder of another's drive (uploads/service.go:723), an upload into
\* another's folder that has lost its drive.
BillFollowsFiles ==
    strayed = {} =>
        \A p \in People : used[p] = Cardinality(FilesOf(p, Items))

=============================================================================
