------------------------------ MODULE Versions ------------------------------
(***************************************************************************)
(* The content history of one file entry: its current blob, the rows of    *)
(* file_versions, the blobs on disk and the bytes it costs its owner.      *)
(*                                                                         *)
(* Four handlers change it.  CompleteFile (internal/uploads) replaces the  *)
(* content and keeps the old one as a version.  UploadStream and Upload    *)
(* (internal/files) overwrite it and delete the old blob.  RestoreVersion  *)
(* (internal/collab) points the entry back at the blob of a version.       *)
(* Delete, Restore and Purge move it through the trash.  internal/blobgc   *)
(* prunes versions and removes the blobs nothing refers to, outside any    *)
(* transaction.                                                            *)
(*                                                                         *)
(* A handler is a task; its step ends where a transaction commits, a       *)
(* statement outside a transaction runs or a file is touched.  All         *)
(* transactions but those of RestoreVersion append to file_changes, whose  *)
(* reference to users waits for the "for update" lock an overwrite holds.  *)
(* The entry belongs to a personal tree: the user billed is its owner.     *)
(***************************************************************************)
EXTENDS Integers, FiniteSets

CONSTANTS
    Tasks,       \* concurrent requests
    Sizes,       \* the sizes a blob may have
    OtherBytes,  \* what the owner's other files count
    Keep,        \* versions kept: 20 in both callers of PruneVersions
    MaxKeys,     \* bound on the blobs stored
    MaxVersion,  \* bound on content_version
    MaxFaults,   \* bound on crashes and failed statements
    MaxRestores  \* bound on the calls of RestoreVersion

ASSUME VersionConstants ==
    /\ Sizes \subseteq Nat
    /\ OtherBytes \in Nat
    /\ Keep \in Nat
    /\ MaxKeys \in Nat \ {0}
    /\ MaxVersion \in Nat \ {0}
    /\ MaxFaults \in Nat
    /\ MaxRestores \in Nat

VARIABLES
    entry,     \* the file_entries row: status, storage_key and content_version
    history,   \* its file_versions rows
    disk,      \* keys of the blobs on disk
    minted,    \* keys made so far
    used,      \* users.used_bytes of the owner
    task,      \* what each request has done and read
    faults,    \* faults so far
    botched,   \* faults that hit an overwrite between its file and its commit
    overtaken, \* purges whose entry changed between their reads and their commit
    restores   \* calls of RestoreVersion so far

faultVars == <<faults, botched, overtaken, restores>>
vars == <<entry, history, disk, minted, used, task, faultVars>>

-----------------------------------------------------------------------------
\* A storage key is a fresh UUID; the size of its blob never changes.
Key       == (1 .. MaxKeys) \X Sizes
NoKey     == <<0, 0>>
SizeOf(k) == k[2]

Version   == [version : 1 .. MaxVersion, key : Key]
NoVersion == [version |-> 0, key |-> NoKey]

Pc == {"idle",
       "saved", "found", "replaced",          \* uploadStreamInner, Upload
       "chosen", "read", "relink",            \* RestoreVersion
       "prune", "gc", "delete",               \* blobgc
       "purge"}                               \* Purge

\* key: the blob stored, restored or about to be deleted; old: the entry as
\* the request read it; todo: keys left for DeleteUnreferenced; after: where
\* the request goes on once blobgc is done.
Task == [pc : Pc, key : Key \cup {NoKey}, old : Version \cup {NoVersion},
         todo : SUBSET Key, after : {"idle", "unlock", "relink"}]
Idle == [pc |-> "idle", key |-> NoKey, old |-> NoVersion, todo |-> {}, after |-> "idle"]

Current   == [version |-> entry.version, key |-> entry.key]
Exists    == entry.status # "gone"
KeysOf(h) == {v.key : v \in h}
Greatest0(n) == IF n > 0 THEN n ELSE 0

\* lockUser of internal/uploads is held until CompleteFile has pruned.
MutexFree == \A t \in Tasks : task[t].after # "unlock"

\* Mutant: the users row is read without "for update".
NeverLocked == TRUE

\* No overwrite holds the users row, or the entry row.
UserUnlocked  == \A t \in Tasks : task[t].pc \notin {"found", "replaced"}
EntryUnlocked == \A t \in Tasks : task[t].pc # "replaced"

TypeOK ==
    /\ entry \in [status : {"live", "trashed", "gone"}, key : Key, version : 1 .. MaxVersion]
    /\ history \in SUBSET Version
    /\ disk \in SUBSET Key
    /\ minted \in 1 .. MaxKeys
    /\ used \in Int
    /\ task \in [Tasks -> Task]
    /\ faults \in 0 .. MaxFaults
    /\ botched \in 0 .. MaxFaults
    /\ overtaken \in Nat
    /\ restores \in 0 .. MaxRestores

\* The entry has just been created by an upload.
Init ==
    /\ minted = 1
    /\ \E n \in Sizes : entry = [status |-> "live", key |-> <<1, n>>, version |-> 1]
    /\ history = {}
    /\ disk = {entry.key}
    /\ used = OtherBytes + SizeOf(entry.key)
    /\ task = [t \in Tasks |-> Idle]
    /\ faults = 0
    /\ botched = 0
    /\ overtaken = 0
    /\ restores = 0

Fault == faults < MaxFaults /\ faults' = faults + 1

\* k is the next key, for a blob of any size.
Mint(k) ==
    /\ minted < MaxKeys
    /\ minted' = minted + 1
    /\ k[1] = minted'

\* Mutant: the content changes under the same version.
WithSameVersion(k) == [entry EXCEPT !.key = k]

\* The entry with content k and the next content_version.
WithContent(k) == [entry EXCEPT !.key = k, !.version = @ + 1]

GoTo(t, pc) == task' = [task EXCEPT ![t].pc = pc]
Return(t)   == task' = [task EXCEPT ![t] = Idle]

-----------------------------------------------------------------------------
(* CompleteFile with a target entry: the commit.  Its file is in Uploads.  *)

\* Mutant: the row gets the version that the change creates.
SnapshotOfNext(v) == history \cup {[v EXCEPT !.version = @ + 1]}

\* insert into file_versions ... on conflict (entry_id, version) do nothing
Snapshot(v) ==
    IF \E w \in history : w.version = v.version THEN history ELSE history \cup {v}

\* Mutant: the size of the replaced content is not given back.
UsedWithoutOld(k) == used + SizeOf(k)

UsedAfterReplace(k) == Greatest0(used + SizeOf(k) - SizeOf(entry.key))

Replace(t, k) ==
    /\ task[t].pc = "idle"
    /\ MutexFree
    /\ UserUnlocked
    /\ entry.status = "live"
    /\ entry.version < MaxVersion
    /\ Mint(k)
    /\ disk' = disk \cup {k}
    /\ history' = Snapshot(Current)
    /\ entry' = WithContent(k)
    /\ used' = UsedAfterReplace(k)
    /\ task' = [task EXCEPT ![t].pc = "prune", ![t].after = "unlock"]
    /\ UNCHANGED faultVars

-----------------------------------------------------------------------------
(* uploadStreamInner, and Upload with conflict "overwrite"                 *)

Saved(t, k) ==
    /\ task[t].pc = "idle"
    /\ Mint(k)
    /\ disk' = disk \cup {k}
    /\ task' = [task EXCEPT ![t] = [Idle EXCEPT !.pc = "saved", !.key = k]]
    /\ UNCHANGED <<entry, history, used, faultVars>>

\* The users row is locked and the entry found by its name.
Found(t) ==
    /\ task[t].pc = "saved"
    /\ UserUnlocked
    /\ entry.status = "live"
    /\ task' = [task EXCEPT ![t].pc = "found", ![t].old = Current]
    /\ UNCHANGED <<entry, history, disk, minted, used, faultVars>>

\* Over quota: the blob is deleted.  (No such entry: it becomes another
\* entry's blob and leaves this model.)
NotStored(t) ==
    /\ task[t].pc = "saved"
    /\ UserUnlocked
    /\ disk' = disk \ {task[t].key}
    /\ Return(t)
    /\ UNCHANGED <<entry, history, minted, used, faultVars>>

\* Both updates are done and the old blob is deleted, before the commit and
\* whether or not a version refers to it.
Replaced(t) ==
    /\ task[t].pc = "found"
    /\ disk' = disk \ {task[t].old.key}
    /\ GoTo(t, "replaced")
    /\ UNCHANGED <<entry, history, minted, used, faultVars>>

UsedAfterOverwrite(t) == used - SizeOf(task[t].old.key) + SizeOf(task[t].key)

Overwritten(t) ==
    /\ task[t].pc = "replaced"
    /\ entry.version < MaxVersion
    /\ entry' = WithContent(task[t].key)
    /\ used' = UsedAfterOverwrite(t)
    /\ Return(t)
    /\ UNCHANGED <<history, disk, minted, faultVars>>

\* changelog.Append or the commit fails.  Upload deletes the new blob,
\* uploadStreamInner does not; the old one is gone either way.
OverwriteFails(t) ==
    /\ Fault
    /\ task[t].pc = "replaced"
    /\ botched' = botched + 1
    /\ disk' \in {disk, disk \ {task[t].key}}
    /\ Return(t)
    /\ UNCHANGED <<entry, history, minted, used, overtaken, restores>>

-----------------------------------------------------------------------------
(* RestoreVersion: five statements, no transaction                         *)

VersionChosen(t, v) ==
    /\ task[t].pc = "idle"
    /\ restores < MaxRestores
    /\ restores' = restores + 1
    /\ v \in history
    /\ task' = [task EXCEPT ![t] = [Idle EXCEPT !.pc = "chosen", !.key = v.key]]
    /\ UNCHANGED <<entry, history, disk, minted, used, faults, botched, overtaken>>

EntryRead(t) ==
    /\ task[t].pc = "chosen"
    /\ IF Exists
         THEN task' = [task EXCEPT ![t].pc = "read", ![t].old = Current]
         ELSE Return(t)
    /\ UNCHANGED <<entry, history, disk, minted, used, faultVars>>

\* The insert violates its reference to the entry once that is purged.
SnapshotVersion(t) ==
    /\ task[t].pc = "read"
    /\ IF Exists
         THEN /\ history' = Snapshot(task[t].old)
              /\ task' = [task EXCEPT ![t].pc = "prune", ![t].after = "relink"]
         ELSE /\ UNCHANGED history
              /\ GoTo(t, "relink")
    /\ UNCHANGED <<entry, disk, minted, used, faultVars>>

\* Its error is ignored.
SnapshotFails(t) ==
    /\ Fault
    /\ task[t].pc = "read"
    /\ GoTo(t, "relink")
    /\ UNCHANGED <<entry, history, disk, minted, used, botched, overtaken, restores>>

\* The update of the entry; used_bytes stays as it is.
Relinked(t) ==
    /\ task[t].pc = "relink"
    /\ EntryUnlocked
    /\ entry.version < MaxVersion
    /\ entry' = IF Exists THEN WithContent(task[t].key) ELSE entry
    /\ Return(t)
    /\ UNCHANGED <<history, disk, minted, used, faultVars>>

-----------------------------------------------------------------------------
(* blobgc: PruneVersions and DeleteUnreferenced                            *)

\* All but the Keep newest versions of h.
BeyondKeep(h) ==
    {v \in h : Cardinality({w \in h : w.version > v.version}) >= Keep}

PruneVersions(t) ==
    /\ task[t].pc = "prune"
    /\ LET pruned == BeyondKeep(history) IN
         /\ history' = history \ pruned
         /\ task' = [task EXCEPT ![t].pc = "gc", ![t].todo = KeysOf(pruned)]
    /\ UNCHANGED <<entry, disk, minted, used, faultVars>>

PruneFails(t) ==
    /\ Fault
    /\ task[t].pc = "prune"
    /\ IF task[t].after = "relink" THEN GoTo(t, "relink") ELSE Return(t)
    /\ UNCHANGED <<entry, history, disk, minted, used, botched, overtaken, restores>>

Referenced(k) == (Exists /\ entry.key = k) \/ k \in KeysOf(history)

\* The reference check of one key, and its answer.
CheckKey(t, k) ==
    /\ task[t].pc = "gc"
    /\ k \in task[t].todo
    /\ task' = IF Referenced(k)
                 THEN [task EXCEPT ![t].todo = @ \ {k}]
                 ELSE [task EXCEPT ![t].todo = @ \ {k}, ![t].pc = "delete",
                                   ![t].old = [version |-> 1, key |-> k]]
    /\ UNCHANGED <<entry, history, disk, minted, used, faultVars>>

\* The deletion the check has decided on, whatever has happened since.
DeleteKey(t) ==
    /\ task[t].pc = "delete"
    /\ disk' = disk \ {task[t].old.key}
    /\ GoTo(t, "gc")
    /\ UNCHANGED <<entry, history, minted, used, faultVars>>

CollectionDone(t) ==
    /\ task[t].pc = "gc"
    /\ task[t].todo = {}
    /\ IF task[t].after = "relink" THEN GoTo(t, "relink") ELSE Return(t)
    /\ UNCHANGED <<entry, history, disk, minted, used, faultVars>>

-----------------------------------------------------------------------------
(* The trash: Delete, Restore and Purge of internal/files                  *)

Trash ==
    /\ UserUnlocked
    /\ entry.status = "live"
    /\ entry.version < MaxVersion
    /\ entry' = [entry EXCEPT !.status = "trashed", !.version = @ + 1]
    /\ UNCHANGED <<history, disk, minted, used, task, faultVars>>

Untrash ==
    /\ UserUnlocked
    /\ entry.status = "trashed"
    /\ entry.version < MaxVersion
    /\ entry' = [entry EXCEPT !.status = "live", !.version = @ + 1]
    /\ UNCHANGED <<history, disk, minted, used, task, faultVars>>

\* The storage keys of the entry and of its versions.
PurgedKeys == {entry.key} \cup KeysOf(history)

PurgeRead(t) ==
    /\ task[t].pc = "idle"
    /\ entry.status = "trashed"
    /\ task' = [task EXCEPT ![t] = [Idle EXCEPT !.pc = "purge", !.old = Current,
                                                !.todo = PurgedKeys]]
    /\ UNCHANGED <<entry, history, disk, minted, used, faultVars>>

\* The delete does not ask again whether the entry is still in the trash, or
\* there at all; the versions go with it.
PurgeCommitted(t) ==
    /\ task[t].pc = "purge"
    /\ UserUnlocked
    /\ overtaken' = IF Exists /\ Current = task[t].old THEN overtaken ELSE overtaken + 1
    /\ entry' = [entry EXCEPT !.status = "gone"]
    /\ history' = {}
    /\ used' = Greatest0(used - SizeOf(task[t].old.key))
    /\ GoTo(t, "gc")
    /\ UNCHANGED <<disk, minted, faults, botched, restores>>

-----------------------------------------------------------------------------
\* Transactions in flight roll back; files and committed rows stay.
Crash ==
    /\ Fault
    /\ botched' = IF EntryUnlocked THEN botched ELSE botched + 1
    /\ task' = [t \in Tasks |-> Idle]
    /\ UNCHANGED <<entry, history, disk, minted, used, overtaken, restores>>

Overwrite(t) ==
    \/ \E k \in Key : Saved(t, k)
    \/ Found(t) \/ NotStored(t) \/ Replaced(t) \/ Overwritten(t) \/ OverwriteFails(t)

RestoreVersion(t) ==
    \/ \E v \in history : VersionChosen(t, v)
    \/ EntryRead(t) \/ SnapshotVersion(t) \/ SnapshotFails(t) \/ Relinked(t)

Collect(t) ==
    \/ PruneVersions(t) \/ PruneFails(t)
    \/ \E k \in Key : CheckKey(t, k)
    \/ DeleteKey(t) \/ CollectionDone(t)

Next ==
    \/ \E t \in Tasks :
          \/ \E k \in Key : Replace(t, k)
          \/ Overwrite(t) \/ RestoreVersion(t) \/ Collect(t)
          \/ PurgeRead(t) \/ PurgeCommitted(t)
    \/ Trash
    \/ Untrash
    \/ Crash

Spec == Init /\ [][Next]_vars

-----------------------------------------------------------------------------
(* Properties                                                              *)

AllIdle == \A t \in Tasks : task[t].pc = "idle"

\* The old key of an overwrite that has deleted its blob and not committed.
BeingReplaced == {task[t].old.key : t \in {u \in Tasks : task[u].pc = "replaced"}}

\* Whatever replacements, overwrites, prunings, purges and crashes overlap, the
\* current content and every version listed have their blob, except in the
\* window an overwrite leaves open between deleting the old blob and its
\* commit.  A failed overwrite, and RestoreVersion, break this.
ReferencedOnDisk ==
    botched = 0 /\ restores = 0 =>
        \A k \in Key : Referenced(k) /\ k \notin BeingReplaced => k \in disk

\* No blob is left behind: when nothing is in flight and nothing has failed,
\* the disk holds the current content and the versions, and nothing after a
\* purge.  RestoreVersion, and a purge overtaken by another request, break this.
NoOrphanedBlob ==
    AllIdle /\ faults = 0 /\ restores = 0 /\ overtaken = 0 =>
        disk = {k \in Key : Referenced(k)}

\* Both at once: no blob too few, whatever is in flight, and none too many.
DiskMatchesDatabase == ReferencedOnDisk /\ NoOrphanedBlob

\* The owner is billed for exactly the current content, in the trash too and
\* through crashes and failures, until a purge gives it back.
UsedIsEntrySize ==
    restores = 0 /\ overtaken = 0 =>
        used = OtherBytes + IF Exists THEN SizeOf(entry.key) ELSE 0

\* The history stays within Keep: beyond it are only the row of the one
\* replacement in flight, those of restorations, and those whose pruning a
\* fault has skipped.
HistoryBounded == Cardinality(history) <= Keep + 1 + restores + faults

\* The history is bounded and tells the truth: one row per version, none newer
\* than the entry, and a row with the entry's own version holds the entry's
\* content, though RestoreVersion reads, snapshots and updates in separate
\* statements.
HistoryTruthful ==
    /\ HistoryBounded
    /\ Exists =>
        /\ \A v, w \in history : v.version = w.version => v = w
        /\ \A v \in history : v.version <= entry.version
        /\ \A v \in history : v.version = entry.version => v.key = entry.key

\* Restoring a version gives its content back: when nothing has failed and no
\* request is in flight, the entry has its blob.
RestoredHasContent == AllIdle /\ Exists /\ faults = 0 => entry.key \in disk

\* A purge gives back what the purged file counted, no less and no more.
PurgeGivesBackItsBytes == AllIdle /\ ~Exists /\ faults = 0 => used = OtherBytes

=============================================================================
