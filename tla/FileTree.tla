------------------------------ MODULE FileTree ------------------------------
(***************************************************************************)
(* The tree of a personal drive: the file_entries rows of one user, with   *)
(* the handlers of internal/files that create, move, rename, trash,        *)
(* restore and purge them and the upload sessions of internal/uploads that *)
(* create entries long after their folder was checked.                     *)
(*                                                                         *)
(* Every handler reads first and writes later, under READ COMMITTED and    *)
(* without locking what it has read: the step that reads and the step that *)
(* commits are separate, and other requests commit in between.  Subtrees   *)
(* are read with recursive queries, which do not return on a cycle.        *)
(*                                                                         *)
(* The ids of entries, their kinds and their names are fixed in advance:   *)
(* Rename is followed as far as the feed, not to another name.  Contents,  *)
(* versions and quota are in Versions and Uploads.                         *)
(***************************************************************************)
EXTENDS FiniteSets

CONSTANTS
    Entries,   \* ids of file entries other than the root
    Folders,   \* those of kind 'folder'
    Root,      \* the root folder of the drive, never moved or trashed
    Nowhere,   \* parent_id null
    NameOf,    \* [Entries -> STRING or model values]: lower(name)
    Tasks      \* concurrent requests

ASSUME TreeConstants ==
    /\ IsFiniteSet(Entries)
    /\ Folders \subseteq Entries
    /\ Root \notin Entries
    /\ Nowhere \notin Entries
    /\ Root # Nowhere

VARIABLES
    row,       \* file_entries
    task,      \* what each request has read
    untold,    \* entries whose last change the feed does not tell
    silent,    \* folders made by CreateBatch, which tells the feed nothing
    mishaps    \* the kinds of overlap that have happened so far

vars == <<row, task, untold, silent, mishaps>>

-----------------------------------------------------------------------------
Place  == Folders \cup {Root, Nowhere}
None   == "none"

Row    == [status : {"absent", "live", "trashed", "purged"},
           parent : Place]
Absent == [status |-> "absent", parent |-> Nowhere]
Purged == [status |-> "purged", parent |-> Nowhere]

\* create, session: a folder has been checked and an entry will be inserted;
\* move, delete, restore, purge: the entries in ids have been read.
Task == [pc     : {"idle", "create", "session", "move", "delete", "restore", "purge"},
         entry  : Entries \cup {None},
         folder : Place,
         ids    : SUBSET Entries,
         late   : BOOLEAN]
Idle == [pc |-> "idle", entry |-> None, folder |-> Nowhere, ids |-> {}, late |-> FALSE]

\* stale:   an entry became live under a folder that was not live any more
\* crossed: a move committed after a folder above its target had moved
\* late:    a deletion, restoration or purge committed after the entries it
\*          had read had changed
Mishap == {"stale", "crossed", "late"}

Live     == {e \in Entries : row[e].status = "live"}
Trashed  == {e \in Entries : row[e].status = "trashed"}
Existing == Live \cup Trashed

\* Mutant: the kind of the parent is not asked for.
LiveEntry(p) == p = Root \/ p \in Live

\* A folder that requests may name as a parent.
LiveFolder(p) == p = Root \/ p \in Folders \cap Live

\* e and what lies below it, going through entries of S only: the least set with
\* e in it that is closed under children.
Below(e, S) ==
    LET Closed == {T \in SUBSET S :
                     e \in T /\ \A c \in S : row[c].parent \in T => c \in T}
    IN  {d \in S : e \in S /\ \A T \in Closed : d \in T}

\* e is below itself: a recursive query over S starting at e does not return.
OnCycle(e, S) == e \in S /\ \E c \in S : row[c].parent = e /\ e \in Below(c, S)

\* The folders from p up, as far as they exist.
Above(p) == {a \in Existing : p \in Below(a, Existing)}

\* file_entries_unique_name_idx: no two live entries of a folder share a name.
Unique(new) ==
    \A d, e \in Entries :
        /\ d # e /\ NameOf[d] = NameOf[e]
        /\ new[d].status = "live" /\ new[e].status = "live"
        => new[d].parent # new[e].parent

TypeOK ==
    /\ row \in [Entries -> Row]
    /\ task \in [Tasks -> Task]
    /\ untold \in SUBSET Entries
    /\ silent \in SUBSET Folders
    /\ mishaps \in SUBSET Mishap

Init ==
    /\ row = [e \in Entries |-> Absent]
    /\ task = [t \in Tasks |-> Idle]
    /\ untold = {}
    /\ silent = {}
    /\ mishaps = {}

-----------------------------------------------------------------------------
(* What a commit does to the other requests, and to the feed               *)

Changed(new) == {e \in Entries : new[e] # row[e]}

\* The commit of new overtakes what request u has read: for a move a change of
\* the path to its target, else any change of its entries or a new child.
Overtaken(u, new) ==
    IF task[u].pc = "move"
      THEN \E e \in task[u].ids : new[e].parent # row[e].parent
      ELSE \E e \in Changed(new) : e \in task[u].ids \/ new[e].parent \in task[u].ids

\* parent_id of an upload session: on delete set null.
FolderAfter(u, new) ==
    IF task[u].pc = "session" /\ task[u].folder \in Folders
                              /\ new[task[u].folder].status = "purged"
      THEN Nowhere ELSE task[u].folder

Reads(u, new) ==
    [task[u] EXCEPT !.late = @ \/ Overtaken(u, new), !.folder = FolderAfter(u, new)]

\* Request t, or no recorded request (None), commits new and has told the feed
\* about the entries in told.
Committed(t, new, told) ==
    /\ Unique(new)
    /\ row' = new
    /\ task' = [u \in Tasks |-> IF u = t THEN Idle ELSE Reads(u, new)]
    /\ untold' = (untold \cup Changed(new)) \ told

Free(t) == task[t].pc = "idle"

Begin(t, read) ==
    /\ task' = [task EXCEPT ![t] = read]
    /\ UNCHANGED <<row, untold, silent, mishaps>>

Note(kind, cond) == mishaps' = IF cond THEN mishaps \cup {kind} ELSE mishaps

\* Entry e becomes live, or moves, to p: p must exist, by the foreign key.
Placeable(p) == p \in {Root, Nowhere} \/ p \in Existing

-----------------------------------------------------------------------------
(* CreateFolder, Upload, UploadStream; CreateBatch and CompleteFile        *)

FolderChecked(t, p) ==
    /\ Free(t)
    /\ LiveFolder(p)
    /\ Begin(t, [Idle EXCEPT !.pc = "create", !.folder = p])

\* CreateBatch: the session will put its file into p, which exists.
SessionOpened(t, p) ==
    /\ Free(t)
    /\ LiveFolder(p)
    /\ Begin(t, [Idle EXCEPT !.pc = "session", !.folder = p])

NewRow(e, p) == [row EXCEPT ![e] = [status |-> "live", parent |-> p]]

\* ensureFolderPath: the folder of a batch is made by CreateBatch itself.
FolderEnsured(t, e) ==
    LET p == task[t].folder IN
    /\ task[t].pc = "create"
    /\ e \in Folders
    /\ row[e] = Absent
    /\ Placeable(p)
    /\ Committed(t, NewRow(e, p), {})
    /\ Note("stale", ~LiveFolder(p))
    /\ silent' = silent \cup {e}

\* The insert.  A session has kept its folder, or null after a purge of it.
Created(t, e) ==
    LET p == task[t].folder IN
    /\ task[t].pc \in {"create", "session"}
    /\ task[t].pc = "session" => e \notin Folders
    /\ row[e] = Absent
    /\ Placeable(p)
    /\ Committed(t, NewRow(e, p), {e})
    /\ Note("stale", ~LiveFolder(p))
    /\ UNCHANGED silent

-----------------------------------------------------------------------------
(* Move and Rename                                                         *)

\* Mutant: only the folder itself is asked for, not what lies below it.
NotInItselfOnly(e, p) == p # e

\* "a folder cannot be moved into itself", as far as live entries show.
NotIntoItself(e, p) == p \notin Below(e, Live)

MoveChecked(t, e, p) ==
    /\ Free(t)
    /\ e \in Existing
    /\ LiveFolder(p)
    /\ ~OnCycle(e, Live)
    /\ NotIntoItself(e, p)
    /\ Begin(t, [Idle EXCEPT !.pc = "move", !.entry = e, !.folder = p, !.ids = Above(p)])

Moved(t) ==
    LET e == task[t].entry
        p == task[t].folder
    IN  /\ task[t].pc = "move"
        /\ row[e].status = "live"
        /\ Placeable(p)
        /\ Committed(t, [row EXCEPT ![e].parent = p], {e})
        /\ mishaps' = mishaps \cup (IF LiveFolder(p) THEN {} ELSE {"stale"})
                              \cup (IF task[t].late THEN {"crossed"} ELSE {})
        /\ UNCHANGED silent

\* Its row in the feed tells name and folder of the entry.
Rename(e) ==
    /\ row[e].status = "live"
    /\ untold' = untold \ {e}
    /\ UNCHANGED <<row, task, silent, mishaps>>

-----------------------------------------------------------------------------
(* Delete, Restore, Purge                                                  *)

\* Mutant: only the entry asked for is told, not its subtree.
ToldOfEntry(t) == task[t].ids \cap {task[t].entry}

\* The rows a subtree request writes to the feed describe what it has read.
Told(t) == IF task[t].late THEN {} ELSE task[t].ids

WithStatus(S, st) == [e \in Entries |-> IF e \in S THEN [row[e] EXCEPT !.status = st] ELSE row[e]]

DeleteRead(t, e) ==
    /\ Free(t)
    /\ e \in Live
    /\ ~OnCycle(e, Live)
    /\ Begin(t, [Idle EXCEPT !.pc = "delete", !.entry = e, !.ids = Below(e, Live)])

\* Mutant: the update is not recursive.
DeletedAlone(e) == {e} \cap Live

\* The update computes the subtree anew.
Deleted(e) == Below(e, Live)

DeleteCommitted(t) ==
    /\ task[t].pc = "delete"
    /\ ~OnCycle(task[t].entry, Live)
    /\ Committed(t, WithStatus(Deleted(task[t].entry), "trashed"), Told(t))
    /\ Note("late", task[t].late)
    /\ UNCHANGED silent

\* In the trash, and its folder is not.
Restorable(e) == e \in Trashed /\ (row[e].parent \in Entries => row[e].parent \in Live)

RestoreRead(t, e) ==
    /\ Free(t)
    /\ Restorable(e)
    /\ ~OnCycle(e, Trashed)
    /\ Begin(t, [Idle EXCEPT !.pc = "restore", !.entry = e, !.ids = Below(e, Trashed)])

\* The update asks again for the entry but not for its folder.
RestoreCommitted(t) ==
    LET e == task[t].entry IN
    /\ task[t].pc = "restore"
    /\ ~OnCycle(e, Trashed)
    /\ Committed(t, WithStatus(Below(e, Trashed), "live"), Told(t))
    /\ mishaps' = mishaps \cup (IF task[t].late THEN {"late"} ELSE {})
                          \cup (IF e \in Trashed /\ ~LiveFolder(row[e].parent) THEN {"stale"} ELSE {})
    /\ UNCHANGED silent

\* Whatever its state, all that lies below e is to go with it.
PurgeRead(t, e) ==
    /\ Free(t)
    /\ e \in Trashed
    /\ ~OnCycle(e, Existing)
    /\ Begin(t, [Idle EXCEPT !.pc = "purge", !.ids = Below(e, Existing)])

\* Mutant: parent_id keeps the id of a purged folder.
RowsDangling(S) ==
    [e \in Entries |-> IF e \in S /\ e \in Existing THEN Purged ELSE row[e]]

\* delete by id; parent_id of a child left behind: on delete set null.
WithoutRows(S) ==
    [e \in Entries |->
        IF e \in S /\ e \in Existing THEN Purged
        ELSE IF row[e].parent \in S THEN [row[e] EXCEPT !.parent = Nowhere] ELSE row[e]]

PurgeCommitted(t) ==
    /\ task[t].pc = "purge"
    /\ Committed(t, WithoutRows(task[t].ids), Told(t))
    /\ Note("late", task[t].late)
    /\ UNCHANGED silent

\* Any error, and a crash: nothing is committed.
GivesUp(t) ==
    /\ task[t].pc # "idle"
    /\ task' = [task EXCEPT ![t] = Idle]
    /\ UNCHANGED <<row, untold, silent, mishaps>>

-----------------------------------------------------------------------------
Next ==
    \/ \E t \in Tasks :
          \/ \E p \in Entries \cup {Root} :
                \/ FolderChecked(t, p) \/ SessionOpened(t, p)
                \/ \E e \in Entries : MoveChecked(t, e, p)
          \/ \E e \in Entries : FolderEnsured(t, e) \/ Created(t, e)
          \/ \E e \in Entries : DeleteRead(t, e) \/ RestoreRead(t, e) \/ PurgeRead(t, e)
          \/ Moved(t) \/ DeleteCommitted(t) \/ RestoreCommitted(t) \/ PurgeCommitted(t)
          \/ GivesUp(t)
    \/ \E e \in Entries : Rename(e)

Spec == Init /\ [][Next]_vars

-----------------------------------------------------------------------------
(* Properties                                                              *)

\* What the user sees hangs together: a live entry is in a live folder, however
\* moves, deletions, restorations and purges of whole subtrees overlap, as long
\* as nothing is put into a folder that left the tree after it was checked and
\* no purge is overtaken.
LiveReachable ==
    {"stale", "late"} \cap mishaps = {} =>
        \A e \in Live : LiveFolder(row[e].parent)

\* No folder is below itself, in the trash or out of it, as long as no two moves
\* cross and nothing was put into a folder that had left the tree.
Acyclic ==
    {"stale", "crossed"} \cap mishaps = {} =>
        \A e \in Existing : ~OnCycle(e, Existing)

\* A purge destroys nothing that is not in the trash.
PurgeOnlyTrash ==
    [][{"stale", "late"} \cap mishaps' = {} =>
          \A e \in Live : row'[e].status # "purged"]_vars

\* CleanupTrash starts from entries in the trash whose folder is not: from
\* those it reaches everything in the trash, so nothing stays there for ever.
TrashIsSwept ==
    {"stale", "crossed"} \cap mishaps = {} =>
        \A d \in Trashed : \E e \in Trashed : Restorable(e) /\ d \in Below(e, Existing)

\* A sync client that follows the feed knows the tree: the last change of every
\* entry has its row in the feed, but for the folders CreateBatch makes.
FeedTellsTree == "late" \notin mishaps => untold \subseteq silent

\* "a folder cannot be moved into itself"
NeverIntoItself == \A e \in Existing : ~OnCycle(e, Existing)

\* What is in the trash can be restored: no request overlapping another, and the
\* name of the entry still free in its live folder, Restore commits.
RestorePossible ==
    mishaps = {} =>
        \A e \in Trashed :
            /\ Restorable(e)
            /\ \A d \in Live : row[d].parent = row[e].parent => NameOf[d] # NameOf[e]
            => Unique(WithStatus(Below(e, Trashed), "live"))

=============================================================================
