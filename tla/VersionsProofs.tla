--------------------------- MODULE VersionsProofs ---------------------------
(***************************************************************************)
(* Proofs about Versions, for every number of requests, versions and keys: *)
(* its types, the bill, the history and the disk.                          *)
(*                                                                         *)
(* The first part says what each handler's step does to the record of its  *)
(* request.  Each invariant then has a section of its own: the parts it    *)
(* needs to be inductive, the steps that leave it alone by a shape they    *)
(* share, and the steps that do not, one by one.                           *)
(***************************************************************************)
EXTENDS Versions, FiniteSetTheorems, Sums, TLAPS

-----------------------------------------------------------------------------
(* What a request's record becomes, step by step.                          *)

EntryRow == [status : {"live", "trashed", "gone"}, key : Key, version : 1 .. MaxVersion]

Work(p, k, o, d, a) == [pc |-> p, key |-> k, old |-> o, todo |-> d, after |-> a]

\* Only the record of t changes, to work.
Becomes(t, work) == task' = [task EXCEPT ![t] = work]

LEMMA BecomesElsewhere ==
    ASSUME TypeOK, NEW t \in Tasks, NEW work \in Task, Becomes(t, work)
    PROVE  /\ task' \in [Tasks -> Task] /\ task'[t] = work
           /\ \A u \in Tasks : u # t => task'[u] = task[u]
BY DEF TypeOK, Becomes

\* A record has its type when its fields have theirs.
LEMMA WorkFields ==
    ASSUME NEW p \in Pc, NEW k \in Key \cup {NoKey}, NEW o \in Version \cup {NoVersion},
           NEW d \in SUBSET Key, NEW a \in {"idle", "unlock", "relink"}
    PROVE  /\ Work(p, k, o, d, a) \in Task
           /\ Work(p, k, o, d, a).pc = p
           /\ Work(p, k, o, d, a).key = k
           /\ Work(p, k, o, d, a).old = o
           /\ Work(p, k, o, d, a).todo = d
           /\ Work(p, k, o, d, a).after = a
BY DEF Work, Task

LEMMA TaskFields ==
    ASSUME TypeOK, NEW t \in Tasks
    PROVE  /\ task[t] \in Task
           /\ task[t].pc \in Pc /\ task[t].key \in Key \cup {NoKey}
           /\ task[t].old \in Version \cup {NoVersion} /\ task[t].todo \in SUBSET Key
           /\ task[t].after \in {"idle", "unlock", "relink"}
           /\ task[t] = Work(task[t].pc, task[t].key, task[t].old, task[t].todo, task[t].after)
BY DEF TypeOK, Task, Work

LEMMA IdleIsWork == Idle = Work("idle", NoKey, NoVersion, {}, "idle") /\ Idle \in Task
BY DEF Idle, Work, Task, Pc

\* A request that moves to Work(p, k, o, d, a), the others stay as they are.
Moved(t, p, k, o, d, a) ==
    /\ task' \in [Tasks -> Task]
    /\ \A u \in Tasks : u # t => task'[u] = task[u]
    /\ task'[t].pc = p /\ task'[t].key = k /\ task'[t].old = o
    /\ task'[t].todo = d /\ task'[t].after = a

LEMMA WorkMoves ==
    ASSUME TypeOK, NEW t \in Tasks,
           NEW p \in Pc, NEW k \in Key \cup {NoKey}, NEW o \in Version \cup {NoVersion},
           NEW d \in SUBSET Key, NEW a \in {"idle", "unlock", "relink"},
           Becomes(t, Work(p, k, o, d, a))
    PROVE  Moved(t, p, k, o, d, a)
<1>1. Work(p, k, o, d, a) \in Task
  BY WorkFields
<1>2. /\ task' \in [Tasks -> Task] /\ task'[t] = Work(p, k, o, d, a)
      /\ \A u \in Tasks : u # t => task'[u] = task[u]
  BY <1>1, BecomesElsewhere
<1>3. /\ Work(p, k, o, d, a).pc = p /\ Work(p, k, o, d, a).key = k
      /\ Work(p, k, o, d, a).old = o /\ Work(p, k, o, d, a).todo = d
      /\ Work(p, k, o, d, a).after = a
  BY WorkFields
<1> QED BY <1>2, <1>3 DEF Moved

\* One field of a record changes.
LEMMA FieldChanges ==
    ASSUME NEW p, NEW k, NEW o, NEW d, NEW a
    PROVE  /\ \A x : [Work(p, k, o, d, a) EXCEPT !.pc = x] = Work(x, k, o, d, a)
           /\ \A x : [Work(p, k, o, d, a) EXCEPT !.key = x] = Work(p, x, o, d, a)
           /\ \A x : [Work(p, k, o, d, a) EXCEPT !.old = x] = Work(p, k, x, d, a)
           /\ \A x : [Work(p, k, o, d, a) EXCEPT !.todo = x] = Work(p, k, o, x, a)
           /\ \A x : [Work(p, k, o, d, a) EXCEPT !.after = x] = Work(p, k, o, d, x)
<1>1. \A x : [Work(p, k, o, d, a) EXCEPT !.pc = x] = Work(x, k, o, d, a)
  BY DEF Work
<1>2. \A x : [Work(p, k, o, d, a) EXCEPT !.key = x] = Work(p, x, o, d, a)
  BY DEF Work
<1>3. \A x : [Work(p, k, o, d, a) EXCEPT !.old = x] = Work(p, k, x, d, a)
  BY DEF Work
<1>4. \A x : [Work(p, k, o, d, a) EXCEPT !.todo = x] = Work(p, k, o, x, a)
  BY DEF Work
<1>5. \A x : [Work(p, k, o, d, a) EXCEPT !.after = x] = Work(p, k, o, d, x)
  BY DEF Work
<1> QED BY <1>1, <1>2, <1>3, <1>4, <1>5

LEMMA ReturnMoves ==
    ASSUME TypeOK, NEW t \in Tasks, Return(t)
    PROVE  Moved(t, "idle", NoKey, NoVersion, {}, "idle")
<1>1. Becomes(t, Work("idle", NoKey, NoVersion, {}, "idle"))
  BY IdleIsWork DEF Return, Becomes
<1>2. "idle" \in Pc /\ NoKey \in Key \cup {NoKey} /\ NoVersion \in Version \cup {NoVersion}
  BY DEF Pc
<1> QED BY <1>1, <1>2, WorkMoves

LEMMA GoToMoves ==
    ASSUME TypeOK, NEW t \in Tasks, NEW p \in Pc, GoTo(t, p)
    PROVE  Moved(t, p, task[t].key, task[t].old, task[t].todo, task[t].after)
<1>1. task' = [task EXCEPT ![t] = [task[t] EXCEPT !.pc = p]]
  BY DEF GoTo, TypeOK
<1>2. [task[t] EXCEPT !.pc = p] = Work(p, task[t].key, task[t].old, task[t].todo, task[t].after)
  BY TaskFields, FieldChanges
<1>3. Becomes(t, Work(p, task[t].key, task[t].old, task[t].todo, task[t].after))
  BY <1>1, <1>2 DEF Becomes
<1> QED BY <1>3, TaskFields, WorkMoves

\* Two fields at once.
LEMMA PruneMoves ==
    ASSUME TypeOK, NEW t \in Tasks, NEW a \in {"unlock", "relink"},
           task' = [task EXCEPT ![t].pc = "prune", ![t].after = a]
    PROVE  Moved(t, "prune", task[t].key, task[t].old, task[t].todo, a)
<1> DEFINE first == [task[t] EXCEPT !.pc = "prune"]
           second == [first EXCEPT !.after = a]
<1>1. task' = [task EXCEPT ![t] = second]
  BY DEF TypeOK
<1>2. first = Work("prune", task[t].key, task[t].old, task[t].todo, task[t].after)
  BY TaskFields, FieldChanges
<1> HIDE DEF first
<1>3. second = Work("prune", task[t].key, task[t].old, task[t].todo, a)
  BY <1>2, FieldChanges
<1>4. Becomes(t, Work("prune", task[t].key, task[t].old, task[t].todo, a))
  BY <1>1, <1>3 DEF Becomes
<1>5. /\ "prune" \in Pc /\ a \in {"idle", "unlock", "relink"}
      /\ task[t].key \in Key \cup {NoKey} /\ task[t].old \in Version \cup {NoVersion}
      /\ task[t].todo \in SUBSET Key
  BY TaskFields DEF Pc
<1> QED BY <1>4, <1>5, WorkMoves

LEMMA ReadMoves ==
    ASSUME TypeOK, NEW t \in Tasks, NEW p \in Pc, NEW o \in Version,
           task' = [task EXCEPT ![t].pc = p, ![t].old = o]
    PROVE  Moved(t, p, task[t].key, o, task[t].todo, task[t].after)
<1> DEFINE first == [task[t] EXCEPT !.pc = p]
           second == [first EXCEPT !.old = o]
<1>1. task' = [task EXCEPT ![t] = second]
  BY DEF TypeOK
<1>2. first = Work(p, task[t].key, task[t].old, task[t].todo, task[t].after)
  BY TaskFields, FieldChanges
<1> HIDE DEF first
<1>3. second = Work(p, task[t].key, o, task[t].todo, task[t].after)
  BY <1>2, FieldChanges
<1>4. Becomes(t, Work(p, task[t].key, o, task[t].todo, task[t].after))
  BY <1>1, <1>3 DEF Becomes
<1>5. /\ task[t].key \in Key \cup {NoKey} /\ o \in Version \cup {NoVersion}
      /\ task[t].todo \in SUBSET Key /\ task[t].after \in {"idle", "unlock", "relink"}
  BY TaskFields
<1> QED BY <1>4, <1>5, WorkMoves

LEMMA CollectMoves ==
    ASSUME TypeOK, NEW t \in Tasks, NEW d \in SUBSET Key,
           task' = [task EXCEPT ![t].pc = "gc", ![t].todo = d]
    PROVE  Moved(t, "gc", task[t].key, task[t].old, d, task[t].after)
<1> DEFINE first == [task[t] EXCEPT !.pc = "gc"]
           second == [first EXCEPT !.todo = d]
<1>1. task' = [task EXCEPT ![t] = second]
  BY DEF TypeOK
<1>2. first = Work("gc", task[t].key, task[t].old, task[t].todo, task[t].after)
  BY TaskFields, FieldChanges
<1> HIDE DEF first
<1>3. second = Work("gc", task[t].key, task[t].old, d, task[t].after)
  BY <1>2, FieldChanges
<1>4. Becomes(t, Work("gc", task[t].key, task[t].old, d, task[t].after))
  BY <1>1, <1>3 DEF Becomes
<1>5. /\ "gc" \in Pc /\ task[t].key \in Key \cup {NoKey}
      /\ task[t].old \in Version \cup {NoVersion}
      /\ task[t].after \in {"idle", "unlock", "relink"}
  BY TaskFields DEF Pc
<1> QED BY <1>4, <1>5, WorkMoves

\* Three fields.
LEMMA DeleteMoves ==
    ASSUME TypeOK, NEW t \in Tasks, NEW o \in Version, NEW d \in SUBSET Key,
           task' = [task EXCEPT ![t].todo = d, ![t].pc = "delete", ![t].old = o]
    PROVE  Moved(t, "delete", task[t].key, o, d, task[t].after)
<1> DEFINE first == [task[t] EXCEPT !.todo = d]
           second == [first EXCEPT !.pc = "delete"]
           third == [second EXCEPT !.old = o]
<1>1. task' = [task EXCEPT ![t] = third]
  BY DEF TypeOK
<1>2. first = Work(task[t].pc, task[t].key, task[t].old, d, task[t].after)
  BY TaskFields, FieldChanges
<1> HIDE DEF first
<1>3. second = Work("delete", task[t].key, task[t].old, d, task[t].after)
  BY <1>2, FieldChanges
<1> HIDE DEF second
<1>4. third = Work("delete", task[t].key, o, d, task[t].after)
  BY <1>3, FieldChanges
<1>5. Becomes(t, Work("delete", task[t].key, o, d, task[t].after))
  BY <1>1, <1>4 DEF Becomes
<1>6. /\ "delete" \in Pc /\ task[t].key \in Key \cup {NoKey}
      /\ o \in Version \cup {NoVersion}
      /\ task[t].after \in {"idle", "unlock", "relink"}
  BY TaskFields DEF Pc
<1> QED BY <1>5, <1>6, WorkMoves

LEMMA TodoMoves ==
    ASSUME TypeOK, NEW t \in Tasks, NEW d \in SUBSET Key,
           task' = [task EXCEPT ![t].todo = d]
    PROVE  Moved(t, task[t].pc, task[t].key, task[t].old, d, task[t].after)
<1> DEFINE first == [task[t] EXCEPT !.todo = d]
<1>1. task' = [task EXCEPT ![t] = first]
  BY DEF TypeOK
<1>2. first = Work(task[t].pc, task[t].key, task[t].old, d, task[t].after)
  BY TaskFields, FieldChanges
<1>3. Becomes(t, Work(task[t].pc, task[t].key, task[t].old, d, task[t].after))
  BY <1>1, <1>2 DEF Becomes
<1>4. /\ task[t].pc \in Pc /\ task[t].key \in Key \cup {NoKey}
      /\ task[t].old \in Version \cup {NoVersion}
      /\ task[t].after \in {"idle", "unlock", "relink"}
  BY TaskFields
<1> QED BY <1>3, <1>4, WorkMoves

\* CheckKey: the key is still referenced, or it is to be deleted.
LEMMA CheckMoves ==
    ASSUME TypeOK, NEW t \in Tasks, NEW k \in Key, CheckKey(t, k)
    PROVE  \/ /\ Referenced(k)
              /\ Moved(t, "gc", task[t].key, task[t].old, task[t].todo \ {k}, task[t].after)
           \/ /\ ~Referenced(k)
              /\ Moved(t, "delete", task[t].key, [version |-> 1, key |-> k],
                       task[t].todo \ {k}, task[t].after)
<1> DEFINE rest == task[t].todo \ {k}
           gone == [version |-> 1, key |-> k]
<1>0. rest \in SUBSET Key /\ task[t].pc = "gc"
  BY TaskFields DEF CheckKey
<1>1. CASE Referenced(k)
  <2>1. task' = [task EXCEPT ![t].todo = rest]
    BY <1>1 DEF CheckKey, TypeOK
  <2> HIDE DEF rest
  <2>2. Moved(t, task[t].pc, task[t].key, task[t].old, rest, task[t].after)
    BY <1>0, <2>1, TodoMoves
  <2>3. Moved(t, "gc", task[t].key, task[t].old, rest, task[t].after)
    BY <1>0, <2>2
  <2> QED BY <1>1, <2>3 DEF rest
<1>2. CASE ~Referenced(k)
  <2>1. task' = [task EXCEPT ![t].todo = rest, ![t].pc = "delete", ![t].old = gone]
    BY <1>2 DEF CheckKey, TypeOK
  <2>2. gone \in Version
    BY VersionConstants DEF Version
  <2> HIDE DEF rest, gone
  <2>3. Moved(t, "delete", task[t].key, gone, rest, task[t].after)
    BY <1>0, <2>1, <2>2, DeleteMoves
  <2> QED BY <1>2, <2>3 DEF rest, gone
<1> QED BY <1>1, <1>2

\* A request starts with a record of its own.
LEMMA StartMoves ==
    ASSUME TypeOK, NEW t \in Tasks, NEW k \in Key, NEW p \in Pc,
           task' = [task EXCEPT ![t] = [Idle EXCEPT !.pc = p, !.key = k]]
    PROVE  Moved(t, p, k, NoVersion, {}, "idle")
<1> DEFINE first  == [Idle EXCEPT !.pc = p]
           second == [first EXCEPT !.key = k]
<1>1. task' = [task EXCEPT ![t] = second]
  OBVIOUS
<1>2. first = Work(p, NoKey, NoVersion, {}, "idle")
  BY IdleIsWork, FieldChanges
<1> HIDE DEF first
<1>3. second = Work(p, k, NoVersion, {}, "idle")
  BY <1>2, FieldChanges
<1>4. Becomes(t, Work(p, k, NoVersion, {}, "idle"))
  BY <1>1, <1>3 DEF Becomes
<1>5. k \in Key \cup {NoKey} /\ NoVersion \in Version \cup {NoVersion}
  OBVIOUS
<1> QED BY <1>4, <1>5, WorkMoves

LEMMA PurgeMoves ==
    ASSUME TypeOK, NEW t \in Tasks, NEW o \in Version, NEW d \in SUBSET Key,
           task' = [task EXCEPT ![t] = [Idle EXCEPT !.pc = "purge", !.old = o, !.todo = d]]
    PROVE  Moved(t, "purge", NoKey, o, d, "idle")
<1> DEFINE first  == [Idle EXCEPT !.pc = "purge"]
           second == [first EXCEPT !.old = o]
           third  == [second EXCEPT !.todo = d]
<1>1. task' = [task EXCEPT ![t] = third]
  OBVIOUS
<1>2. first = Work("purge", NoKey, NoVersion, {}, "idle")
  BY IdleIsWork, FieldChanges
<1> HIDE DEF first
<1>3. second = Work("purge", NoKey, o, {}, "idle")
  BY <1>2, FieldChanges
<1> HIDE DEF second
<1>4. third = Work("purge", NoKey, o, d, "idle")
  BY <1>3, FieldChanges
<1>5. Becomes(t, Work("purge", NoKey, o, d, "idle"))
  BY <1>1, <1>4 DEF Becomes
<1>6. "purge" \in Pc /\ NoKey \in Key \cup {NoKey} /\ o \in Version \cup {NoVersion}
  BY DEF Pc
<1> QED BY <1>5, <1>6, WorkMoves

-----------------------------------------------------------------------------
(* The operators of the model.                                             *)

LEMMA KeyParts ==
    /\ \A k \in Key : k[1] \in 1 .. MaxKeys /\ k[2] \in Sizes /\ SizeOf(k) \in Nat
    /\ SizeOf(NoKey) = 0
<1>1. ASSUME NEW k \in Key
      PROVE  k[1] \in 1 .. MaxKeys /\ k[2] \in Sizes /\ SizeOf(k) \in Nat
  <2>1. k[1] \in 1 .. MaxKeys /\ k[2] \in Sizes
    BY DEF Key
  <2> QED BY <2>1, VersionConstants DEF SizeOf
<1>2. SizeOf(NoKey) = 0
  BY DEF SizeOf, NoKey
<1> QED BY <1>1, <1>2

LEMMA CurrentIsVersion ==
    ASSUME TypeOK
    PROVE  /\ Current \in Version /\ Current.key = entry.key /\ Current.version = entry.version
           /\ entry.key \in Key /\ entry.version \in 1 .. MaxVersion
           /\ entry.status \in {"live", "trashed", "gone"}
BY DEF TypeOK, Current, Version

LEMMA VersionParts == \A v \in Version : v.version \in 1 .. MaxVersion /\ v.key \in Key
BY DEF Version

LEMMA KeysAreKeys == \A h \in SUBSET Version : KeysOf(h) \in SUBSET Key
BY VersionParts DEF KeysOf

\* What the insert of a version row leaves in the history.
LEMMA SnapshotKeeps ==
    ASSUME NEW v
    PROVE  /\ history \subseteq Snapshot(v) /\ Snapshot(v) \subseteq history \cup {v}
           /\ history \in SUBSET Version /\ v \in Version => Snapshot(v) \in SUBSET Version
BY DEF Snapshot

LEMMA ContentRow ==
    ASSUME TypeOK, NEW k \in Key, entry.version < MaxVersion
    PROVE  /\ WithContent(k) \in EntryRow
           /\ WithContent(k).status = entry.status /\ WithContent(k).key = k
           /\ WithContent(k).version = entry.version + 1
<1> DEFINE first  == [entry EXCEPT !.key = k]
           second == [first EXCEPT !.version = entry.version + 1]
<1>1. WithContent(k) = second
  BY DEF WithContent
<1>2. entry \in EntryRow /\ entry.version + 1 \in 1 .. MaxVersion
  BY VersionConstants DEF TypeOK, EntryRow
<1>3. /\ first \in EntryRow /\ first.key = k
      /\ first.status = entry.status /\ first.version = entry.version
  BY <1>2 DEF EntryRow
<1> HIDE DEF first
<1>4. /\ second \in EntryRow /\ second.key = first.key
      /\ second.status = first.status /\ second.version = entry.version + 1
  BY <1>2, <1>3 DEF EntryRow
<1> QED BY <1>1, <1>3, <1>4

\* The trash changes the status and the version, not the content.
LEMMA TrashRow ==
    ASSUME TypeOK, NEW s \in {"live", "trashed", "gone"}
    PROVE  /\ [entry EXCEPT !.status = s] \in EntryRow
           /\ [entry EXCEPT !.status = s].status = s
           /\ [entry EXCEPT !.status = s].key = entry.key
           /\ [entry EXCEPT !.status = s].version = entry.version
           /\ entry.version < MaxVersion =>
                 /\ [entry EXCEPT !.status = s, !.version = @ + 1] \in EntryRow
                 /\ [entry EXCEPT !.status = s, !.version = @ + 1].status = s
                 /\ [entry EXCEPT !.status = s, !.version = @ + 1].key = entry.key
                 /\ [entry EXCEPT !.status = s, !.version = @ + 1].version = entry.version + 1
<1> DEFINE first  == [entry EXCEPT !.status = s]
           second == [first EXCEPT !.version = entry.version + 1]
<1>1. [entry EXCEPT !.status = s, !.version = @ + 1] = second
  OBVIOUS
<1>2. entry \in EntryRow
  BY DEF TypeOK, EntryRow
<1>3. /\ first \in EntryRow /\ first.key = entry.key
      /\ first.status = s /\ first.version = entry.version
  BY <1>2 DEF EntryRow
<1>4. ASSUME entry.version < MaxVersion
      PROVE  /\ second \in EntryRow /\ second.key = entry.key
             /\ second.status = s /\ second.version = entry.version + 1
  <2>1. entry.version + 1 \in 1 .. MaxVersion
    BY <1>2, <1>4, VersionConstants DEF EntryRow
  <2> HIDE DEF first
  <2>2. /\ second \in EntryRow /\ second.key = first.key
        /\ second.status = first.status /\ second.version = entry.version + 1
    BY <1>3, <2>1 DEF EntryRow
  <2> QED BY <1>3, <2>2
<1>5. ASSUME entry.version < MaxVersion
      PROVE  /\ [entry EXCEPT !.status = s, !.version = @ + 1] \in EntryRow
             /\ [entry EXCEPT !.status = s, !.version = @ + 1].status = s
             /\ [entry EXCEPT !.status = s, !.version = @ + 1].key = entry.key
             /\ [entry EXCEPT !.status = s, !.version = @ + 1].version = entry.version + 1
  <2> HIDE DEF first, second
  <2> QED BY <1>1, <1>4, <1>5
<1> QED BY <1>3, <1>5

-----------------------------------------------------------------------------
(* The step of each handler, as a move of its request.                     *)

\* Where a request goes when blobgc is done, or its pruning has failed.
GoesOn(t) ==
    \/ task[t].after = "relink"
       /\ Moved(t, "relink", task[t].key, task[t].old, task[t].todo, task[t].after)
    \/ task[t].after # "relink" /\ Moved(t, "idle", NoKey, NoVersion, {}, "idle")

LEMMA OverwriteMoves ==
    ASSUME TypeOK, NEW t \in Tasks
    PROVE  /\ \A k \in Key : Replace(t, k) =>
                  Moved(t, "prune", task[t].key, task[t].old, task[t].todo, "unlock")
           /\ \A k \in Key : Saved(t, k) => Moved(t, "saved", k, NoVersion, {}, "idle")
           /\ Found(t) =>
                  Moved(t, "found", task[t].key, Current, task[t].todo, task[t].after)
           /\ Replaced(t) =>
                  Moved(t, "replaced", task[t].key, task[t].old, task[t].todo, task[t].after)
           /\ NotStored(t) \/ Overwritten(t) \/ OverwriteFails(t) =>
                  Moved(t, "idle", NoKey, NoVersion, {}, "idle")
<1>1. ASSUME NEW k \in Key, Replace(t, k)
      PROVE  Moved(t, "prune", task[t].key, task[t].old, task[t].todo, "unlock")
  BY <1>1, PruneMoves DEF Replace
<1>2. ASSUME NEW k \in Key, Saved(t, k)
      PROVE  Moved(t, "saved", k, NoVersion, {}, "idle")
  BY <1>2, StartMoves DEF Saved, Pc
<1>3. ASSUME Found(t)
      PROVE  Moved(t, "found", task[t].key, Current, task[t].todo, task[t].after)
  BY <1>3, ReadMoves, CurrentIsVersion DEF Found, Pc
<1>4. ASSUME Replaced(t)
      PROVE  Moved(t, "replaced", task[t].key, task[t].old, task[t].todo, task[t].after)
  BY <1>4, GoToMoves DEF Replaced, Pc
<1>5. ASSUME NotStored(t) \/ Overwritten(t) \/ OverwriteFails(t)
      PROVE  Moved(t, "idle", NoKey, NoVersion, {}, "idle")
  BY <1>5, ReturnMoves DEF NotStored, Overwritten, OverwriteFails
<1> QED BY <1>1, <1>2, <1>3, <1>4, <1>5

LEMMA RestoreMoves ==
    ASSUME TypeOK, NEW t \in Tasks
    PROVE  /\ \A v \in history : VersionChosen(t, v) =>
                  Moved(t, "chosen", v.key, NoVersion, {}, "idle")
           /\ EntryRead(t) =>
                  \/ Exists /\ Moved(t, "read", task[t].key, Current, task[t].todo, task[t].after)
                  \/ ~Exists /\ Moved(t, "idle", NoKey, NoVersion, {}, "idle")
           /\ SnapshotVersion(t) =>
                  \/ Exists /\ Moved(t, "prune", task[t].key, task[t].old, task[t].todo, "relink")
                  \/ ~Exists
                     /\ Moved(t, "relink", task[t].key, task[t].old, task[t].todo, task[t].after)
           /\ SnapshotFails(t) =>
                  Moved(t, "relink", task[t].key, task[t].old, task[t].todo, task[t].after)
           /\ Relinked(t) => Moved(t, "idle", NoKey, NoVersion, {}, "idle")
<1>1. ASSUME NEW v \in history, VersionChosen(t, v)
      PROVE  Moved(t, "chosen", v.key, NoVersion, {}, "idle")
  <2>1. v.key \in Key /\ "chosen" \in Pc
    BY VersionParts DEF TypeOK, Pc
  <2>2. task' = [task EXCEPT ![t] = [Idle EXCEPT !.pc = "chosen", !.key = v.key]]
    BY <1>1 DEF VersionChosen
  <2> QED BY <2>1, <2>2, StartMoves
<1>2. ASSUME EntryRead(t)
      PROVE  \/ Exists /\ Moved(t, "read", task[t].key, Current, task[t].todo, task[t].after)
             \/ ~Exists /\ Moved(t, "idle", NoKey, NoVersion, {}, "idle")
  BY <1>2, ReadMoves, ReturnMoves, CurrentIsVersion DEF EntryRead, Pc
<1>3. ASSUME SnapshotVersion(t)
      PROVE  \/ Exists /\ Moved(t, "prune", task[t].key, task[t].old, task[t].todo, "relink")
             \/ ~Exists
                /\ Moved(t, "relink", task[t].key, task[t].old, task[t].todo, task[t].after)
  BY <1>3, PruneMoves, GoToMoves DEF SnapshotVersion, Pc
<1>4. ASSUME SnapshotFails(t)
      PROVE  Moved(t, "relink", task[t].key, task[t].old, task[t].todo, task[t].after)
  BY <1>4, GoToMoves DEF SnapshotFails, Pc
<1>5. ASSUME Relinked(t)
      PROVE  Moved(t, "idle", NoKey, NoVersion, {}, "idle")
  BY <1>5, ReturnMoves DEF Relinked
<1> QED BY <1>1, <1>2, <1>3, <1>4, <1>5

LEMMA CollectorMoves ==
    ASSUME TypeOK, NEW t \in Tasks
    PROVE  /\ PruneVersions(t) =>
                  Moved(t, "gc", task[t].key, task[t].old,
                        KeysOf(BeyondKeep(history)), task[t].after)
           /\ DeleteKey(t) =>
                  Moved(t, "gc", task[t].key, task[t].old, task[t].todo, task[t].after)
           /\ PruneFails(t) \/ CollectionDone(t) => GoesOn(t)
           /\ PurgeRead(t) => Moved(t, "purge", NoKey, Current, PurgedKeys, "idle")
           /\ PurgeCommitted(t) =>
                  Moved(t, "gc", task[t].key, task[t].old, task[t].todo, task[t].after)
<1>1. ASSUME PruneVersions(t)
      PROVE  Moved(t, "gc", task[t].key, task[t].old, KeysOf(BeyondKeep(history)), task[t].after)
  <2>1. KeysOf(BeyondKeep(history)) \in SUBSET Key
    BY KeysAreKeys DEF BeyondKeep, TypeOK
  <2>2. task' = [task EXCEPT ![t].pc = "gc", ![t].todo = KeysOf(BeyondKeep(history))]
    BY <1>1 DEF PruneVersions
  <2> QED BY <2>1, <2>2, CollectMoves
<1>2. ASSUME DeleteKey(t)
      PROVE  Moved(t, "gc", task[t].key, task[t].old, task[t].todo, task[t].after)
  BY <1>2, GoToMoves DEF DeleteKey, Pc
<1>3. ASSUME PruneFails(t) \/ CollectionDone(t)
      PROVE  GoesOn(t)
  BY <1>3, GoToMoves, ReturnMoves DEF PruneFails, CollectionDone, GoesOn, Pc
<1>4. ASSUME PurgeRead(t)
      PROVE  Moved(t, "purge", NoKey, Current, PurgedKeys, "idle")
  <2>1. PurgedKeys \in SUBSET Key
    BY KeysAreKeys, CurrentIsVersion DEF PurgedKeys, TypeOK
  <2>2. task' = [task EXCEPT ![t] = [Idle EXCEPT !.pc = "purge", !.old = Current,
                                                !.todo = PurgedKeys]]
    BY <1>4 DEF PurgeRead
  <2> QED BY <2>1, <2>2, PurgeMoves, CurrentIsVersion
<1>5. ASSUME PurgeCommitted(t)
      PROVE  Moved(t, "gc", task[t].key, task[t].old, task[t].todo, task[t].after)
  BY <1>5, GoToMoves DEF PurgeCommitted, Pc
<1> QED BY <1>1, <1>2, <1>3, <1>4, <1>5

\* A crash ends every request.
LEMMA CrashMoves ==
    ASSUME Crash
    PROVE  /\ task' \in [Tasks -> Task]
           /\ \A t \in Tasks : /\ task'[t].pc = "idle" /\ task'[t].key = NoKey
                               /\ task'[t].old = NoVersion /\ task'[t].todo = {}
                               /\ task'[t].after = "idle"
<1>1. task' = [t \in Tasks |-> Idle]
  BY DEF Crash
<1>2. Idle \in Task /\ Idle.pc = "idle" /\ Idle.key = NoKey /\ Idle.old = NoVersion
      /\ Idle.todo = {} /\ Idle.after = "idle"
  BY IdleIsWork DEF Idle
<1> QED BY <1>1, <1>2

-----------------------------------------------------------------------------
(* Type correctness, with what a request carries at each of its steps.     *)

Restoring == {"chosen", "read", "relink"}

ControlOf(t) ==
    /\ task[t].pc \in {"saved", "found", "replaced"} \cup Restoring => task[t].key \in Key
    /\ task[t].after = "relink" => task[t].key \in Key
    /\ task[t].pc \in {"found", "replaced", "read", "delete", "purge"} =>
          task[t].old \in Version
    /\ task[t].pc \in {"idle", "saved", "found", "replaced", "chosen", "read", "purge"} =>
          task[t].after = "idle"
    /\ task[t].pc = "relink" => task[t].after # "unlock"
    /\ task[t].pc = "prune" => task[t].after # "idle"
    /\ task[t].pc \notin {"gc", "delete", "purge"} => task[t].todo = {}
    /\ task[t].pc \in Restoring \/ task[t].after = "relink" => restores > 0

Control == \A t \in Tasks : ControlOf(t)

VersionsTypeInv == TypeOK /\ Control /\ botched <= faults

\* The record of one request decides; the others keep theirs.
LEMMA ControlMoves ==
    ASSUME Control, TypeOK, restores' \in Nat, restores' >= restores,
           NEW t \in Tasks, NEW p, NEW k, NEW o, NEW d, NEW a, Moved(t, p, k, o, d, a),
           ControlOf(t)'
    PROVE  Control'
<1>1. ASSUME NEW u \in Tasks, u # t
      PROVE  ControlOf(u)'
  <2>1. task'[u] = task[u] /\ ControlOf(u)
    BY <1>1 DEF Moved, Control
  <2> QED BY <2>1 DEF ControlOf, TypeOK
<1> QED BY <1>1 DEF Control

LEMMA VersionsTypeInit == ASSUME Init PROVE VersionsTypeInv
<1>1. PICK n \in Sizes : entry = [status |-> "live", key |-> <<1, n>>, version |-> 1]
  BY DEF Init
<1>2. <<1, n>> \in Key
  BY VersionConstants DEF Key
<1>3. entry.key \in Key /\ entry \in EntryRow
  BY <1>1, <1>2, VersionConstants DEF EntryRow
<1>4. task \in [Tasks -> Task]
      /\ \A t \in Tasks : /\ task[t].pc = "idle" /\ task[t].key = NoKey
                          /\ task[t].old = NoVersion /\ task[t].todo = {}
                          /\ task[t].after = "idle"
  <2>1. Idle \in Task /\ Idle.pc = "idle" /\ Idle.key = NoKey /\ Idle.old = NoVersion
        /\ Idle.todo = {} /\ Idle.after = "idle"
    BY IdleIsWork DEF Idle
  <2>2. task = [t \in Tasks |-> Idle]
    BY DEF Init
  <2> QED BY <2>1, <2>2
<1>5. used \in Int
  BY <1>3, KeyParts, VersionConstants DEF Init
<1>6. TypeOK
  BY <1>3, <1>4, <1>5, VersionConstants DEF Init, TypeOK, EntryRow
<1>7. Control
  BY <1>4 DEF Control, ControlOf, Restoring
<1> QED BY <1>6, <1>7 DEF VersionsTypeInv, Init

LEMMA OverwriteKeepsTypes ==
    ASSUME VersionsTypeInv, NEW t \in Tasks,
           (\E k \in Key : Replace(t, k)) \/ Overwrite(t)
    PROVE  VersionsTypeInv'
<1> USE DEF VersionsTypeInv
<1>1. CASE \E k \in Key : Replace(t, k)
  <2>1. PICK k \in Key : Replace(t, k)
    BY <1>1
  <2>2. Moved(t, "prune", task[t].key, task[t].old, task[t].todo, "unlock")
    BY <2>1, OverwriteMoves
  <2>3. ControlOf(t)'
    BY <2>1, <2>2 DEF Replace, Moved, Control, ControlOf, Restoring
  <2>4. Control'
    BY <2>1, <2>2, <2>3, ControlMoves DEF Replace, TypeOK, faultVars
  <2>5. entry' \in EntryRow
    BY <2>1, ContentRow DEF Replace
  <2>6. history' \in SUBSET Version /\ used' \in Int
    BY <2>1, SnapshotKeeps, CurrentIsVersion, KeyParts
       DEF Replace, TypeOK, UsedAfterReplace, Greatest0
  <2>7. minted' \in 1 .. MaxKeys
    BY <2>1, VersionConstants DEF Replace, Mint, TypeOK
  <2> QED BY <2>1, <2>2, <2>4, <2>5, <2>6, <2>7 DEF Replace, TypeOK, EntryRow, Moved, faultVars
<1>2. CASE \E k \in Key : Saved(t, k)
  <2>1. PICK k \in Key : Saved(t, k)
    BY <1>2
  <2>2. Moved(t, "saved", k, NoVersion, {}, "idle")
    BY <2>1, OverwriteMoves
  <2>3. ControlOf(t)'
    BY <2>2 DEF Moved, ControlOf, Restoring
  <2>4. Control'
    BY <2>1, <2>2, <2>3, ControlMoves DEF Saved, TypeOK, faultVars
  <2>5. minted' \in 1 .. MaxKeys
    BY <2>1, VersionConstants DEF Saved, Mint, TypeOK
  <2> QED BY <2>1, <2>2, <2>4, <2>5 DEF Saved, TypeOK, Moved, faultVars
<1>3. CASE Found(t)
  <2>1. Moved(t, "found", task[t].key, Current, task[t].todo, task[t].after)
    BY <1>3, OverwriteMoves
  <2>2. ControlOf(t)'
    BY <1>3, <2>1, CurrentIsVersion DEF Found, Moved, Control, ControlOf, Restoring
  <2>3. Control'
    BY <1>3, <2>1, <2>2, ControlMoves DEF Found, TypeOK, faultVars
  <2> QED BY <1>3, <2>1, <2>3 DEF Found, TypeOK, Moved, faultVars
<1>4. CASE Replaced(t)
  <2>1. Moved(t, "replaced", task[t].key, task[t].old, task[t].todo, task[t].after)
    BY <1>4, OverwriteMoves
  <2>2. ControlOf(t)'
    BY <1>4, <2>1 DEF Replaced, Moved, Control, ControlOf, Restoring
  <2>3. Control'
    BY <1>4, <2>1, <2>2, ControlMoves DEF Replaced, TypeOK, faultVars
  <2> QED BY <1>4, <2>1, <2>3 DEF Replaced, TypeOK, Moved, faultVars
<1>5. CASE NotStored(t) \/ Overwritten(t) \/ OverwriteFails(t)
  <2>1. Moved(t, "idle", NoKey, NoVersion, {}, "idle")
    BY <1>5, OverwriteMoves
  <2>2. ControlOf(t)'
    BY <2>1 DEF Moved, ControlOf, Restoring
  <2>3. restores' = restores
    BY <1>5 DEF NotStored, Overwritten, OverwriteFails, faultVars
  <2>4. Control'
    BY <2>1, <2>2, <2>3, ControlMoves DEF TypeOK
  <2>5. CASE NotStored(t)
    BY <2>1, <2>4, <2>5 DEF NotStored, TypeOK, Moved, faultVars
  <2>6. CASE Overwritten(t)
    <3>1. task[t].key \in Key /\ task[t].old \in Version
      BY <2>6 DEF Overwritten, Control, ControlOf
    <3>2. entry' \in EntryRow
      BY <2>6, <3>1, ContentRow DEF Overwritten
    <3>3. used' \in Int
      BY <2>6, <3>1, KeyParts, VersionParts DEF Overwritten, UsedAfterOverwrite, TypeOK
    <3> QED BY <2>1, <2>4, <2>6, <3>2, <3>3 DEF Overwritten, TypeOK, EntryRow, Moved, faultVars
  <2>7. CASE OverwriteFails(t)
    <3>1. faults' \in 0 .. MaxFaults /\ disk' \in SUBSET Key
      BY <2>7, VersionConstants DEF OverwriteFails, Fault, TypeOK
    <3>2. botched' \in 0 .. MaxFaults /\ botched' <= faults'
      BY <2>7, VersionConstants DEF OverwriteFails, Fault, TypeOK
    <3> QED BY <2>1, <2>4, <2>7, <3>1, <3>2 DEF OverwriteFails, TypeOK, Moved
  <2> QED BY <1>5, <2>5, <2>6, <2>7
<1> QED BY <1>1, <1>2, <1>3, <1>4, <1>5 DEF Overwrite

LEMMA RestoreKeepsTypes ==
    ASSUME VersionsTypeInv, NEW t \in Tasks, RestoreVersion(t)
    PROVE  VersionsTypeInv'
<1> USE DEF VersionsTypeInv
<1>1. CASE \E v \in history : VersionChosen(t, v)
  <2>1. PICK v \in history : VersionChosen(t, v)
    BY <1>1
  <2>2. Moved(t, "chosen", v.key, NoVersion, {}, "idle")
    BY <2>1, RestoreMoves
  <2>3. v.key \in Key /\ restores' > 0 /\ restores' >= restores /\ restores' \in 0 .. MaxRestores
    BY <2>1, VersionParts, VersionConstants DEF VersionChosen, TypeOK
  <2>4. ControlOf(t)'
    BY <2>2, <2>3 DEF Moved, ControlOf, Restoring
  <2>5. Control'
    BY <2>2, <2>3, <2>4, ControlMoves
  <2> QED BY <2>1, <2>2, <2>3, <2>5 DEF VersionChosen, TypeOK, Moved
<1>2. CASE EntryRead(t)
  <2>1. \/ Exists /\ Moved(t, "read", task[t].key, Current, task[t].todo, task[t].after)
        \/ ~Exists /\ Moved(t, "idle", NoKey, NoVersion, {}, "idle")
    BY <1>2, RestoreMoves
  <2>2. ControlOf(t)'
    BY <1>2, <2>1, CurrentIsVersion
       DEF EntryRead, Moved, Control, ControlOf, Restoring, faultVars
  <2>3. Control'
    BY <1>2, <2>1, <2>2, ControlMoves DEF EntryRead, TypeOK, faultVars
  <2> QED BY <1>2, <2>1, <2>3 DEF EntryRead, TypeOK, Moved, faultVars
<1>3. CASE SnapshotVersion(t)
  <2>1. \/ Exists /\ Moved(t, "prune", task[t].key, task[t].old, task[t].todo, "relink")
        \/ ~Exists /\ Moved(t, "relink", task[t].key, task[t].old, task[t].todo, task[t].after)
    BY <1>3, RestoreMoves
  <2>2. ControlOf(t)'
    BY <1>3, <2>1 DEF SnapshotVersion, Moved, Control, ControlOf, Restoring, faultVars
  <2>3. Control'
    BY <1>3, <2>1, <2>2, ControlMoves DEF SnapshotVersion, TypeOK, faultVars
  <2>4. task[t].old \in Version
    BY <1>3 DEF SnapshotVersion, Control, ControlOf
  <2>5. history' \in SUBSET Version
    BY <1>3, <2>4, SnapshotKeeps DEF SnapshotVersion, TypeOK
  <2> QED BY <1>3, <2>1, <2>3, <2>5 DEF SnapshotVersion, TypeOK, Moved, faultVars
<1>4. CASE SnapshotFails(t)
  <2>1. Moved(t, "relink", task[t].key, task[t].old, task[t].todo, task[t].after)
    BY <1>4, RestoreMoves
  <2>2. ControlOf(t)'
    BY <1>4, <2>1 DEF SnapshotFails, Moved, Control, ControlOf, Restoring
  <2>3. Control'
    BY <1>4, <2>1, <2>2, ControlMoves DEF SnapshotFails, TypeOK
  <2>4. faults' \in 0 .. MaxFaults /\ botched <= faults'
    BY <1>4, VersionConstants DEF SnapshotFails, Fault, TypeOK
  <2> QED BY <1>4, <2>1, <2>3, <2>4 DEF SnapshotFails, TypeOK, Moved
<1>5. CASE Relinked(t)
  <2>1. Moved(t, "idle", NoKey, NoVersion, {}, "idle")
    BY <1>5, RestoreMoves
  <2>2. ControlOf(t)'
    BY <2>1 DEF Moved, ControlOf, Restoring
  <2>3. Control'
    BY <1>5, <2>1, <2>2, ControlMoves DEF Relinked, TypeOK, faultVars
  <2>4. task[t].key \in Key
    BY <1>5 DEF Relinked, Control, ControlOf, Restoring
  <2>5. entry' \in EntryRow
    BY <1>5, <2>4, ContentRow DEF Relinked, TypeOK, EntryRow
  <2> QED BY <1>5, <2>1, <2>3, <2>5 DEF Relinked, TypeOK, EntryRow, Moved, faultVars
<1> QED BY <1>1, <1>2, <1>3, <1>4, <1>5 DEF RestoreVersion

LEMMA CollectKeepsTypes ==
    ASSUME VersionsTypeInv, NEW t \in Tasks, Collect(t)
    PROVE  VersionsTypeInv'
<1> USE DEF VersionsTypeInv
<1>1. CASE PruneVersions(t)
  <2>1. Moved(t, "gc", task[t].key, task[t].old, KeysOf(BeyondKeep(history)), task[t].after)
    BY <1>1, CollectorMoves
  <2>2. ControlOf(t)'
    BY <1>1, <2>1 DEF PruneVersions, Moved, Control, ControlOf, Restoring, faultVars
  <2>3. Control'
    BY <1>1, <2>1, <2>2, ControlMoves DEF PruneVersions, TypeOK, faultVars
  <2> QED BY <1>1, <2>1, <2>3 DEF PruneVersions, TypeOK, Moved, faultVars
<1>2. CASE PruneFails(t) \/ CollectionDone(t)
  <2>1. GoesOn(t)
    BY <1>2, CollectorMoves
  <2>2. restores' = restores
    BY <1>2 DEF PruneFails, CollectionDone, faultVars
  <2>3. task[t].todo = {}
    BY <1>2 DEF PruneFails, CollectionDone, Control, ControlOf
  <2>4. ControlOf(t)'
    BY <2>1, <2>2, <2>3 DEF GoesOn, Moved, Control, ControlOf, Restoring
  <2>5. Control'
    BY <2>1, <2>2, <2>4, ControlMoves DEF GoesOn, TypeOK
  <2>6. faults' \in 0 .. MaxFaults /\ botched <= faults'
    BY <1>2, VersionConstants DEF PruneFails, Fault, CollectionDone, TypeOK, faultVars
  <2>7. task' \in [Tasks -> Task]
    BY <2>1 DEF GoesOn, Moved
  <2> QED BY <1>2, <2>5, <2>6, <2>7 DEF PruneFails, CollectionDone, TypeOK, faultVars
<1>3. CASE \E k \in Key : CheckKey(t, k)
  <2>1. PICK k \in Key : CheckKey(t, k)
    BY <1>3
  <2>2. \/ Moved(t, "gc", task[t].key, task[t].old, task[t].todo \ {k}, task[t].after)
        \/ Moved(t, "delete", task[t].key, [version |-> 1, key |-> k],
                 task[t].todo \ {k}, task[t].after)
    BY <2>1, CheckMoves
  <2>3. [version |-> 1, key |-> k] \in Version
    BY VersionConstants DEF Version
  <2>4. ControlOf(t)'
    BY <2>1, <2>2, <2>3 DEF CheckKey, Moved, Control, ControlOf, Restoring, faultVars
  <2>5. Control'
    BY <2>1, <2>2, <2>4, ControlMoves DEF CheckKey, TypeOK, faultVars
  <2> QED BY <2>1, <2>2, <2>5 DEF CheckKey, TypeOK, Moved, faultVars
<1>4. CASE DeleteKey(t)
  <2>1. Moved(t, "gc", task[t].key, task[t].old, task[t].todo, task[t].after)
    BY <1>4, CollectorMoves
  <2>2. ControlOf(t)'
    BY <1>4, <2>1 DEF DeleteKey, Moved, Control, ControlOf, Restoring, faultVars
  <2>3. Control'
    BY <1>4, <2>1, <2>2, ControlMoves DEF DeleteKey, TypeOK, faultVars
  <2> QED BY <1>4, <2>1, <2>3 DEF DeleteKey, TypeOK, Moved, faultVars
<1> QED BY <1>1, <1>2, <1>3, <1>4 DEF Collect

LEMMA PurgeKeepsTypes ==
    ASSUME VersionsTypeInv, NEW t \in Tasks, PurgeRead(t) \/ PurgeCommitted(t)
    PROVE  VersionsTypeInv'
<1> USE DEF VersionsTypeInv
<1>1. CASE PurgeRead(t)
  <2>1. Moved(t, "purge", NoKey, Current, PurgedKeys, "idle")
    BY <1>1, CollectorMoves
  <2>2. ControlOf(t)'
    BY <2>1, CurrentIsVersion DEF Moved, ControlOf, Restoring
  <2>3. Control'
    BY <1>1, <2>1, <2>2, ControlMoves DEF PurgeRead, TypeOK, faultVars
  <2> QED BY <1>1, <2>1, <2>3 DEF PurgeRead, TypeOK, Moved, faultVars
<1>2. CASE PurgeCommitted(t)
  <2>1. Moved(t, "gc", task[t].key, task[t].old, task[t].todo, task[t].after)
    BY <1>2, CollectorMoves
  <2>2. ControlOf(t)'
    BY <1>2, <2>1 DEF PurgeCommitted, Moved, Control, ControlOf, Restoring
  <2>3. Control'
    BY <1>2, <2>1, <2>2, ControlMoves DEF PurgeCommitted, TypeOK
  <2>4. entry' \in EntryRow
    BY <1>2, TrashRow DEF PurgeCommitted
  <2>5. used' \in Int
    <3>1. task[t].old \in Version
      BY <1>2 DEF PurgeCommitted, Control, ControlOf
    <3> QED BY <1>2, <3>1, KeyParts, VersionParts DEF PurgeCommitted, Greatest0, TypeOK
  <2> QED BY <1>2, <2>1, <2>3, <2>4, <2>5 DEF PurgeCommitted, TypeOK, EntryRow, Moved
<1> QED BY <1>1, <1>2

LEMMA TrashKeepsTypes ==
    ASSUME VersionsTypeInv, Trash \/ Untrash
    PROVE  VersionsTypeInv'
<1>1. entry' \in EntryRow
  BY TrashRow DEF Trash, Untrash, VersionsTypeInv
<1>2. Control'
  BY DEF VersionsTypeInv, Control, ControlOf, Trash, Untrash, faultVars
<1> QED BY <1>1, <1>2 DEF VersionsTypeInv, TypeOK, EntryRow, Trash, Untrash, faultVars

LEMMA CrashKeepsTypes ==
    ASSUME VersionsTypeInv, Crash
    PROVE  VersionsTypeInv'
<1>1. Control'
  BY CrashMoves DEF Control, ControlOf, Restoring
<1>2. faults' \in 0 .. MaxFaults /\ botched' \in 0 .. MaxFaults /\ botched' <= faults'
  BY VersionConstants DEF VersionsTypeInv, Crash, Fault, TypeOK
<1> QED BY <1>1, <1>2, CrashMoves DEF VersionsTypeInv, TypeOK, Crash

LEMMA VersionsTypeStep ==
    ASSUME VersionsTypeInv, [Next]_vars
    PROVE  VersionsTypeInv'
<1>1. CASE UNCHANGED vars
  BY <1>1 DEF VersionsTypeInv, TypeOK, Control, ControlOf, vars, faultVars
<1>2. CASE Next
  BY <1>2, OverwriteKeepsTypes, RestoreKeepsTypes, CollectKeepsTypes, PurgeKeepsTypes,
     TrashKeepsTypes, CrashKeepsTypes DEF Next
<1> QED BY <1>1, <1>2

\* Every variable keeps its type: in particular a request that is to write a
\* key or a version, after blobgc has returned to it too, carries a real one.
THEOREM VersionsTypeCorrect == Spec => []TypeOK
<1>1. Init => VersionsTypeInv
  BY VersionsTypeInit
<1>2. VersionsTypeInv /\ [Next]_vars => VersionsTypeInv'
  BY VersionsTypeStep
<1>3. VersionsTypeInv => TypeOK
  BY DEF VersionsTypeInv
<1> QED BY <1>1, <1>2, <1>3, PTL DEF Spec

-----------------------------------------------------------------------------
(* Billing.  An overwrite gives back the size of the content it read when  *)
(* it found the entry; the users row it locked then is what keeps that     *)
(* content current until its commit.                                       *)

Holds(t) == task[t].pc \in {"found", "replaced"}

\* The users row has one holder, whose entry stays live and, unless a version
\* was restored, as it was found.
OneHolder ==
    /\ \A t \in Tasks : Holds(t) =>
          entry.status = "live" /\ (restores = 0 => task[t].old.key = entry.key)
    /\ \A t, u \in Tasks : Holds(t) /\ Holds(u) => t = u

UsedInv == UsedIsEntrySize /\ OneHolder

\* A step that leaves the entry and the bill alone and locks nothing.
LEMMA UsedStays ==
    ASSUME UsedInv, entry' = entry, used' = used, overtaken' = overtaken,
           restores' = 0 => restores = 0,
           \A t \in Tasks : Holds(t)' => Holds(t) /\ task'[t].old = task[t].old
    PROVE  UsedInv'
<1>1. UsedIsEntrySize'
  BY DEF UsedInv, UsedIsEntrySize, Exists
<1>2. OneHolder'
  BY DEF UsedInv, OneHolder
<1> QED BY <1>1, <1>2 DEF UsedInv

LEMMA UsedStaysUnless ==
    ASSUME UsedInv, entry' = entry, used' = used, overtaken' = overtaken,
           restores' = restores, NEW t \in Tasks,
           NEW p, NEW k, NEW o, NEW d, NEW a, Moved(t, p, k, o, d, a),
           p \in {"found", "replaced"} => Holds(t) /\ o = task[t].old
    PROVE  UsedInv'
<1>1. ASSUME NEW u \in Tasks, Holds(u)'
      PROVE  Holds(u) /\ task'[u].old = task[u].old
  BY <1>1 DEF Moved, Holds
<1> QED BY <1>1, UsedStays

LEMMA OverwriteKeepsUsed ==
    ASSUME VersionsTypeInv, UsedInv, NEW t \in Tasks,
           (\E k \in Key : Replace(t, k)) \/ Overwrite(t)
    PROVE  UsedInv'
<1>0. TypeOK
  BY DEF VersionsTypeInv
<1>1. CASE \E k \in Key : Replace(t, k)
  <2>1. PICK k \in Key : Replace(t, k)
    BY <1>1
  <2>2. Moved(t, "prune", task[t].key, task[t].old, task[t].todo, "unlock")
    BY <1>0, <2>1, OverwriteMoves
  <2>3. \A u \in Tasks : ~Holds(u)'
    BY <2>1, <2>2 DEF Replace, UserUnlocked, Moved, Holds
  <2>4. entry'.key = k /\ entry'.status = "live"
    BY <1>0, <2>1, ContentRow DEF Replace
  <2>5. SizeOf(k) \in Nat /\ SizeOf(entry.key) \in Nat
    BY <1>0, KeyParts, CurrentIsVersion
  <2>6. ASSUME restores' = 0, overtaken' = 0
        PROVE  used' = OtherBytes + SizeOf(k)
    <3>1. used = OtherBytes + SizeOf(entry.key)
      BY <2>1, <2>6 DEF UsedInv, UsedIsEntrySize, Exists, Replace, faultVars
    <3> QED BY <2>1, <2>5, <3>1, VersionConstants DEF Replace, UsedAfterReplace, Greatest0
  <2>7. UsedIsEntrySize'
    BY <2>4, <2>6 DEF UsedIsEntrySize, Exists
  <2> QED BY <2>3, <2>7 DEF UsedInv, OneHolder
<1>2. CASE \E k \in Key : Saved(t, k)
  <2>1. PICK k \in Key : Saved(t, k)
    BY <1>2
  <2>2. Moved(t, "saved", k, NoVersion, {}, "idle")
    BY <1>0, <2>1, OverwriteMoves
  <2> QED BY <2>1, <2>2, UsedStaysUnless DEF Saved, faultVars
<1>3. CASE Found(t)
  <2>1. Moved(t, "found", task[t].key, Current, task[t].todo, task[t].after)
    BY <1>0, <1>3, OverwriteMoves
  <2>2. \A u \in Tasks : Holds(u)' => u = t
    BY <1>3, <2>1 DEF Found, UserUnlocked, Holds, Moved
  <2>3. task'[t].old.key = entry'.key /\ entry'.status = "live"
    BY <1>0, <1>3, <2>1, CurrentIsVersion DEF Found, Moved
  <2>4. OneHolder'
    BY <2>2, <2>3 DEF OneHolder
  <2>5. UsedIsEntrySize'
    BY <1>3 DEF Found, UsedInv, UsedIsEntrySize, Exists, faultVars
  <2> QED BY <2>4, <2>5 DEF UsedInv
<1>4. CASE Replaced(t)
  <2>1. Moved(t, "replaced", task[t].key, task[t].old, task[t].todo, task[t].after)
    BY <1>0, <1>4, OverwriteMoves
  <2> QED BY <1>4, <2>1, UsedStaysUnless DEF Replaced, Holds, faultVars
<1>5. CASE NotStored(t) \/ Overwritten(t) \/ OverwriteFails(t)
  <2>1. Moved(t, "idle", NoKey, NoVersion, {}, "idle")
    BY <1>0, <1>5, OverwriteMoves
  <2>2. CASE NotStored(t) \/ OverwriteFails(t)
    BY <2>1, <2>2, UsedStaysUnless DEF NotStored, OverwriteFails, faultVars
  <2>3. CASE Overwritten(t)
    <3>1. Holds(t) /\ task[t].key \in Key
      BY <2>3 DEF Overwritten, Holds, VersionsTypeInv, Control, ControlOf
    <3>2. \A u \in Tasks : ~Holds(u)'
      BY <2>1, <3>1 DEF UsedInv, OneHolder, Moved, Holds
    <3>3. entry'.key = task[t].key /\ entry'.status = "live"
      BY <1>0, <2>3, <3>1, ContentRow DEF Overwritten, UsedInv, OneHolder
    <3>4. SizeOf(task[t].key) \in Nat /\ SizeOf(entry.key) \in Nat
      BY <1>0, <3>1, KeyParts, CurrentIsVersion
    <3>5. ASSUME restores' = 0, overtaken' = 0
          PROVE  used' = OtherBytes + SizeOf(task[t].key)
      <4>1. restores = 0 /\ overtaken = 0 /\ entry.status = "live" /\ task[t].old.key = entry.key
        BY <2>3, <3>1, <3>5 DEF Overwritten, faultVars, UsedInv, OneHolder
      <4>2. used = OtherBytes + SizeOf(entry.key)
        BY <4>1 DEF UsedInv, UsedIsEntrySize, Exists
      <4>3. used' = used - SizeOf(entry.key) + SizeOf(task[t].key)
        BY <2>3, <4>1 DEF Overwritten, UsedAfterOverwrite
      <4> QED BY <3>4, <4>2, <4>3, VersionConstants
    <3>6. UsedIsEntrySize'
      BY <3>3, <3>5 DEF UsedIsEntrySize, Exists
    <3> QED BY <3>2, <3>6 DEF UsedInv, OneHolder
  <2> QED BY <1>5, <2>2, <2>3
<1> QED BY <1>1, <1>2, <1>3, <1>4, <1>5 DEF Overwrite

LEMMA RestoreKeepsUsed ==
    ASSUME VersionsTypeInv, UsedInv, NEW t \in Tasks, RestoreVersion(t)
    PROVE  UsedInv'
<1>0. TypeOK
  BY DEF VersionsTypeInv
<1>1. CASE \E v \in history : VersionChosen(t, v)
  <2>1. PICK v \in history : VersionChosen(t, v)
    BY <1>1
  <2>2. Moved(t, "chosen", v.key, NoVersion, {}, "idle")
    BY <1>0, <2>1, RestoreMoves
  <2>3. \A u \in Tasks : Holds(u)' => Holds(u) /\ task'[u].old = task[u].old
    BY <2>2 DEF Moved, Holds
  <2>4. restores' # 0
    BY <1>0, <2>1 DEF VersionChosen, TypeOK
  <2> QED BY <2>1, <2>3, <2>4, UsedStays DEF VersionChosen
<1>2. CASE EntryRead(t)
  <2>1. \/ Moved(t, "read", task[t].key, Current, task[t].todo, task[t].after)
        \/ Moved(t, "idle", NoKey, NoVersion, {}, "idle")
    BY <1>0, <1>2, RestoreMoves
  <2> QED BY <1>2, <2>1, UsedStaysUnless DEF EntryRead, faultVars
<1>3. CASE SnapshotVersion(t)
  <2>1. \/ Moved(t, "prune", task[t].key, task[t].old, task[t].todo, "relink")
        \/ Moved(t, "relink", task[t].key, task[t].old, task[t].todo, task[t].after)
    BY <1>0, <1>3, RestoreMoves
  <2> QED BY <1>3, <2>1, UsedStaysUnless DEF SnapshotVersion, faultVars
<1>4. CASE SnapshotFails(t)
  <2>1. Moved(t, "relink", task[t].key, task[t].old, task[t].todo, task[t].after)
    BY <1>0, <1>4, RestoreMoves
  <2> QED BY <1>4, <2>1, UsedStaysUnless DEF SnapshotFails
<1>5. CASE Relinked(t)
  <2>1. Moved(t, "idle", NoKey, NoVersion, {}, "idle")
    BY <1>0, <1>5, RestoreMoves
  <2>2. restores' # 0 /\ task[t].key \in Key
    BY <1>5 DEF Relinked, VersionsTypeInv, Control, ControlOf, Restoring, faultVars
  <2>3. entry'.status = entry.status
    BY <1>0, <1>5, <2>2, ContentRow DEF Relinked
  <2>4. \A u \in Tasks : Holds(u)' => Holds(u)
    BY <2>1 DEF Moved, Holds
  <2>5. OneHolder'
    BY <2>2, <2>3, <2>4 DEF UsedInv, OneHolder
  <2> QED BY <2>2, <2>5 DEF UsedInv, UsedIsEntrySize
<1> QED BY <1>1, <1>2, <1>3, <1>4, <1>5 DEF RestoreVersion

LEMMA CollectKeepsUsed ==
    ASSUME VersionsTypeInv, UsedInv, NEW t \in Tasks, Collect(t) \/ PurgeRead(t)
    PROVE  UsedInv'
<1>0. TypeOK
  BY DEF VersionsTypeInv
<1>1. CASE PruneVersions(t)
  <2>1. Moved(t, "gc", task[t].key, task[t].old, KeysOf(BeyondKeep(history)), task[t].after)
    BY <1>0, <1>1, CollectorMoves
  <2> QED BY <1>1, <2>1, UsedStaysUnless DEF PruneVersions, faultVars
<1>2. CASE PruneFails(t) \/ CollectionDone(t)
  <2>1. \/ Moved(t, "relink", task[t].key, task[t].old, task[t].todo, task[t].after)
        \/ Moved(t, "idle", NoKey, NoVersion, {}, "idle")
    BY <1>0, <1>2, CollectorMoves DEF GoesOn
  <2> QED BY <1>2, <2>1, UsedStaysUnless DEF PruneFails, CollectionDone, faultVars
<1>3. CASE \E k \in Key : CheckKey(t, k)
  <2>1. PICK k \in Key : CheckKey(t, k)
    BY <1>3
  <2>2. \/ Moved(t, "gc", task[t].key, task[t].old, task[t].todo \ {k}, task[t].after)
        \/ Moved(t, "delete", task[t].key, [version |-> 1, key |-> k],
                 task[t].todo \ {k}, task[t].after)
    BY <1>0, <2>1, CheckMoves
  <2> QED BY <2>1, <2>2, UsedStaysUnless DEF CheckKey, faultVars
<1>4. CASE DeleteKey(t)
  <2>1. Moved(t, "gc", task[t].key, task[t].old, task[t].todo, task[t].after)
    BY <1>0, <1>4, CollectorMoves
  <2> QED BY <1>4, <2>1, UsedStaysUnless DEF DeleteKey, faultVars
<1>5. CASE PurgeRead(t)
  <2>1. Moved(t, "purge", NoKey, Current, PurgedKeys, "idle")
    BY <1>0, <1>5, CollectorMoves
  <2> QED BY <1>5, <2>1, UsedStaysUnless DEF PurgeRead, faultVars
<1> QED BY <1>1, <1>2, <1>3, <1>4, <1>5 DEF Collect

\* The trash and the purge wait for the users row: nobody holds it.
LEMMA TrashKeepsUsed ==
    ASSUME VersionsTypeInv, UsedInv, Trash \/ Untrash
    PROVE  UsedInv'
<1>0. TypeOK
  BY DEF VersionsTypeInv
<1>1. Exists /\ entry'.status \in {"live", "trashed"} /\ entry'.key = entry.key
  BY <1>0, TrashRow DEF Trash, Untrash, Exists
<1>2. \A t \in Tasks : ~Holds(t)'
  BY DEF Trash, Untrash, UserUnlocked, Holds
<1>3. UsedIsEntrySize'
  BY <1>1 DEF UsedInv, UsedIsEntrySize, Exists, Trash, Untrash, faultVars
<1> QED BY <1>2, <1>3 DEF UsedInv, OneHolder

LEMMA PurgeKeepsUsed ==
    ASSUME VersionsTypeInv, UsedInv, NEW t \in Tasks, PurgeCommitted(t)
    PROVE  UsedInv'
<1>0. TypeOK
  BY DEF VersionsTypeInv
<1>1. Moved(t, "gc", task[t].key, task[t].old, task[t].todo, task[t].after)
  BY <1>0, CollectorMoves
<1>2. \A u \in Tasks : ~Holds(u)'
  BY <1>1 DEF PurgeCommitted, UserUnlocked, Moved, Holds
<1>3. entry'.status = "gone"
  BY <1>0, TrashRow DEF PurgeCommitted
<1>4. ASSUME restores' = 0, overtaken' = 0
      PROVE  used' = OtherBytes
  <2>1. Exists /\ Current = task[t].old /\ overtaken = 0 /\ restores = 0
    BY <1>0, <1>4 DEF PurgeCommitted, TypeOK
  <2>2. task[t].old.key = entry.key /\ SizeOf(entry.key) \in Nat
    BY <1>0, <2>1, CurrentIsVersion, KeyParts
  <2>3. used = OtherBytes + SizeOf(entry.key)
    BY <2>1 DEF UsedInv, UsedIsEntrySize
  <2>4. used' = Greatest0(used - SizeOf(entry.key))
    BY <2>2 DEF PurgeCommitted
  <2> QED BY <2>2, <2>3, <2>4, VersionConstants DEF Greatest0
<1>5. UsedIsEntrySize'
  BY <1>3, <1>4, VersionConstants DEF UsedIsEntrySize, Exists
<1> QED BY <1>2, <1>5 DEF UsedInv, OneHolder

LEMMA CrashKeepsUsed ==
    ASSUME UsedInv, Crash
    PROVE  UsedInv'
<1>1. \A t \in Tasks : ~Holds(t)'
  BY CrashMoves DEF Holds
<1> QED BY <1>1, UsedStays DEF Crash

LEMMA UsedStep ==
    ASSUME VersionsTypeInv, UsedInv, [Next]_vars
    PROVE  UsedInv'
<1>1. CASE UNCHANGED vars
  BY <1>1, UsedStays DEF vars, faultVars, Holds
<1>2. CASE Next
  BY <1>2, OverwriteKeepsUsed, RestoreKeepsUsed, CollectKeepsUsed, PurgeKeepsUsed,
     TrashKeepsUsed, CrashKeepsUsed DEF Next
<1> QED BY <1>1, <1>2

LEMMA UsedInit == ASSUME Init PROVE UsedInv
<1>1. PICK n \in Sizes : entry = [status |-> "live", key |-> <<1, n>>, version |-> 1]
  BY DEF Init
<1>2. \A t \in Tasks : ~Holds(t)
  BY DEF Init, Idle, Holds
<1>3. UsedIsEntrySize
  BY <1>1 DEF Init, UsedIsEntrySize, Exists
<1> QED BY <1>2, <1>3 DEF UsedInv, OneHolder

\* However replacements, overwrites, purges, crashes and failures overlap, the
\* owner is billed for exactly the current content.
THEOREM VersionsUsed == Spec => []UsedIsEntrySize
<1>1. Init => VersionsTypeInv /\ UsedInv
  BY VersionsTypeInit, UsedInit
<1>2. VersionsTypeInv /\ UsedInv /\ [Next]_vars => VersionsTypeInv' /\ UsedInv'
  BY VersionsTypeStep, UsedStep
<1>3. UsedInv => UsedIsEntrySize
  BY DEF UsedInv
<1> QED BY <1>1, <1>2, <1>3, PTL DEF Spec

-----------------------------------------------------------------------------
(* The rows of the history.  RestoreVersion reads the entry, then inserts  *)
(* what it read: that stays a row of the past because whatever changes the *)
(* content in between also raises content_version.                         *)

OnePerVersion == \A v, w \in history : v.version = w.version => v = w

\* v is a state the entry has been in.
IsPast(v) == v.version <= entry.version /\ (v.version = entry.version => v.key = entry.key)

Reading(t) == task[t].pc = "read"

RowsInv ==
    /\ ~Exists => history = {}
    /\ OnePerVersion
    /\ \A v \in history : IsPast(v)
    /\ \A t \in Tasks : Reading(t) => IsPast(task[t].old)

\* Reads of the entry are as they were.
ReadsStay == \A t \in Tasks : Reading(t)' => Reading(t) /\ task'[t].old = task[t].old

\* The entry has the next version, with some content.
Advances ==
    /\ entry'.version = entry.version + 1
    /\ entry'.status = "gone" <=> entry.status = "gone"

LEMMA MovedReads ==
    ASSUME NEW t \in Tasks, NEW p, NEW k, NEW o, NEW d, NEW a, Moved(t, p, k, o, d, a),
           p # "read"
    PROVE  ReadsStay
BY DEF Moved, Reading, ReadsStay

LEMMA RowsStay ==
    ASSUME RowsInv, ReadsStay, history' \subseteq history, entry' = entry
    PROVE  RowsInv'
BY DEF RowsInv, ReadsStay, OnePerVersion, IsPast, Exists

LEMMA PastAdvances ==
    ASSUME TypeOK, Advances, NEW v \in Version, IsPast(v)
    PROVE  v.version < entry'.version /\ IsPast(v)'
BY VersionParts, CurrentIsVersion DEF Advances, IsPast

LEMMA RowsAdvance ==
    ASSUME VersionsTypeInv, RowsInv, ReadsStay, Advances, history' = history
    PROVE  RowsInv'
<1>0. TypeOK
  BY DEF VersionsTypeInv
<1>1. \A v \in history : IsPast(v)'
  BY <1>0, PastAdvances DEF RowsInv, TypeOK
<1>2. ASSUME NEW t \in Tasks, Reading(t)'
      PROVE  IsPast(task[t].old)'
  <2>1. Reading(t) /\ task'[t].old = task[t].old /\ task[t].old \in Version
    BY <1>2 DEF ReadsStay, Reading, VersionsTypeInv, Control, ControlOf
  <2>2. IsPast(task[t].old)
    BY <2>1 DEF RowsInv
  <2> DEFINE v == task[t].old
  <2>3. v \in Version /\ IsPast(v)
    BY <2>1, <2>2
  <2>4. v.version < entry'.version
    BY <1>0, <2>3, PastAdvances
  <2>5. task'[t].old.version < entry'.version
    BY <2>1, <2>4
  <2>6. v.version \in Int /\ entry'.version \in Int
    BY <1>0, <2>3, VersionParts, CurrentIsVersion DEF Advances
  <2> QED BY <2>1, <2>4, <2>5, <2>6 DEF IsPast
<1> QED BY <1>1, <1>2 DEF RowsInv, OnePerVersion, Advances, Exists

\* The insert of a row of the past, unless its version has one.
LEMMA SnapshotRows ==
    ASSUME TypeOK, RowsInv, NEW v \in Version, IsPast(v), history' = Snapshot(v)
    PROVE  OnePerVersion' /\ \A w \in history' : w \in Version /\ IsPast(w)
BY DEF TypeOK, RowsInv, OnePerVersion, Snapshot

LEMMA OverwriteKeepsRows ==
    ASSUME VersionsTypeInv, RowsInv, NEW t \in Tasks,
           (\E k \in Key : Replace(t, k)) \/ Overwrite(t)
    PROVE  RowsInv'
<1>0. TypeOK
  BY DEF VersionsTypeInv
<1>1. CASE \E k \in Key : Replace(t, k)
  <2>1. PICK k \in Key : Replace(t, k)
    BY <1>1
  <2>2. Moved(t, "prune", task[t].key, task[t].old, task[t].todo, "unlock")
    BY <1>0, <2>1, OverwriteMoves
  <2>3. Advances /\ entry'.status = "live"
    BY <1>0, <2>1, ContentRow DEF Replace, Advances
  <2>4. Current \in Version /\ IsPast(Current)
    BY <1>0, CurrentIsVersion DEF IsPast
  <2>5. OnePerVersion' /\ \A v \in history' : v \in Version /\ IsPast(v)
    BY <1>0, <2>1, <2>4, SnapshotRows DEF Replace
  <2>6. \A v \in history' : IsPast(v)'
    BY <1>0, <2>3, <2>5, PastAdvances
  <2>7. ASSUME NEW u \in Tasks, Reading(u)'
        PROVE  IsPast(task[u].old)'
    <3>1. Reading(u) /\ task'[u].old = task[u].old /\ task[u].old \in Version
      BY <2>2, <2>7, MovedReads DEF ReadsStay, Reading, VersionsTypeInv, Control, ControlOf
    <3> DEFINE v == task[u].old
    <3>2. v \in Version /\ IsPast(v)
      BY <3>1 DEF RowsInv
    <3>3. v.version < entry'.version /\ v.version \in Int /\ entry'.version \in Int
      BY <1>0, <2>3, <3>2, PastAdvances, VersionParts, CurrentIsVersion DEF Advances
    <3> QED BY <3>1, <3>3 DEF IsPast
  <2> QED BY <2>3, <2>5, <2>6, <2>7 DEF RowsInv, Exists
<1>2. CASE \E k \in Key : Saved(t, k)
  <2>1. PICK k \in Key : Saved(t, k)
    BY <1>2
  <2>2. Moved(t, "saved", k, NoVersion, {}, "idle")
    BY <1>0, <2>1, OverwriteMoves
  <2> QED BY <2>1, <2>2, MovedReads, RowsStay DEF Saved
<1>3. CASE Found(t) \/ Replaced(t)
  <2>1. \/ Moved(t, "found", task[t].key, Current, task[t].todo, task[t].after)
        \/ Moved(t, "replaced", task[t].key, task[t].old, task[t].todo, task[t].after)
    BY <1>0, <1>3, OverwriteMoves
  <2> QED BY <1>3, <2>1, MovedReads, RowsStay DEF Found, Replaced
<1>4. CASE NotStored(t) \/ Overwritten(t) \/ OverwriteFails(t)
  <2>1. ReadsStay
    BY <1>0, <1>4, OverwriteMoves, MovedReads
  <2>2. CASE NotStored(t) \/ OverwriteFails(t)
    BY <2>1, <2>2, RowsStay DEF NotStored, OverwriteFails
  <2>3. CASE Overwritten(t)
    <3>1. task[t].key \in Key
      BY <2>3 DEF Overwritten, VersionsTypeInv, Control, ControlOf
    <3>2. Advances
      BY <1>0, <2>3, <3>1, ContentRow DEF Overwritten, Advances
    <3> QED BY <2>1, <2>3, <3>2, RowsAdvance DEF Overwritten
  <2> QED BY <1>4, <2>2, <2>3
<1> QED BY <1>1, <1>2, <1>3, <1>4 DEF Overwrite

LEMMA RestoreKeepsRows ==
    ASSUME VersionsTypeInv, RowsInv, NEW t \in Tasks, RestoreVersion(t)
    PROVE  RowsInv'
<1>0. TypeOK
  BY DEF VersionsTypeInv
<1>1. CASE \E v \in history : VersionChosen(t, v)
  <2>1. PICK v \in history : VersionChosen(t, v)
    BY <1>1
  <2>2. Moved(t, "chosen", v.key, NoVersion, {}, "idle")
    BY <1>0, <2>1, RestoreMoves
  <2> QED BY <2>1, <2>2, MovedReads, RowsStay DEF VersionChosen
<1>2. CASE EntryRead(t)
  <2>1. \/ Moved(t, "read", task[t].key, Current, task[t].todo, task[t].after)
        \/ Moved(t, "idle", NoKey, NoVersion, {}, "idle")
    BY <1>0, <1>2, RestoreMoves
  <2>2. UNCHANGED <<entry, history>>
    BY <1>2 DEF EntryRead
  <2>3. CASE Moved(t, "idle", NoKey, NoVersion, {}, "idle")
    BY <2>2, <2>3, MovedReads, RowsStay
  <2>4. CASE Moved(t, "read", task[t].key, Current, task[t].todo, task[t].after)
    <3>1. IsPast(Current)
      BY <1>0, CurrentIsVersion DEF IsPast
    <3>2. ASSUME NEW u \in Tasks, Reading(u)'
          PROVE  IsPast(task[u].old)'
      <4>1. CASE u = t
        BY <2>2, <2>4, <3>1, <4>1 DEF Moved, IsPast
      <4>2. CASE u # t
        BY <2>2, <2>4, <3>2, <4>2 DEF Moved, IsPast, Reading, RowsInv
      <4> QED BY <4>1, <4>2
    <3> QED BY <2>2, <3>2 DEF RowsInv, OnePerVersion, IsPast, Exists
  <2> QED BY <2>1, <2>3, <2>4
<1>3. CASE SnapshotVersion(t)
  <2>1. \/ Moved(t, "prune", task[t].key, task[t].old, task[t].todo, "relink")
        \/ Moved(t, "relink", task[t].key, task[t].old, task[t].todo, task[t].after)
    BY <1>0, <1>3, RestoreMoves
  <2>2. ReadsStay
    BY <2>1, MovedReads
  <2>3. CASE ~Exists
    BY <1>3, <2>2, <2>3, RowsStay DEF SnapshotVersion
  <2>4. CASE Exists
    <3>1. task[t].old \in Version /\ IsPast(task[t].old)
      BY <1>3 DEF SnapshotVersion, Reading, RowsInv, VersionsTypeInv, Control, ControlOf
    <3>2. entry' = entry /\ history' = Snapshot(task[t].old)
      BY <1>3, <2>4 DEF SnapshotVersion
    <3>3. OnePerVersion' /\ \A w \in history' : IsPast(w)
      BY <1>0, <3>1, <3>2, SnapshotRows
    <3> QED BY <2>2, <2>4, <3>2, <3>3 DEF RowsInv, ReadsStay, IsPast, Exists
  <2> QED BY <2>3, <2>4
<1>4. CASE SnapshotFails(t)
  <2>1. Moved(t, "relink", task[t].key, task[t].old, task[t].todo, task[t].after)
    BY <1>0, <1>4, RestoreMoves
  <2> QED BY <1>4, <2>1, MovedReads, RowsStay DEF SnapshotFails
<1>5. CASE Relinked(t)
  <2>1. ReadsStay
    BY <1>0, <1>5, RestoreMoves, MovedReads
  <2>2. CASE ~Exists
    BY <1>5, <2>1, <2>2, RowsStay DEF Relinked
  <2>3. CASE Exists
    <3>1. task[t].key \in Key
      BY <1>5 DEF Relinked, VersionsTypeInv, Control, ControlOf, Restoring
    <3>2. Advances
      BY <1>0, <1>5, <2>3, <3>1, ContentRow DEF Relinked, Advances
    <3> QED BY <1>5, <2>1, <3>2, RowsAdvance DEF Relinked
  <2> QED BY <2>2, <2>3
<1> QED BY <1>1, <1>2, <1>3, <1>4, <1>5 DEF RestoreVersion

LEMMA CollectKeepsRows ==
    ASSUME VersionsTypeInv, RowsInv, NEW t \in Tasks,
           Collect(t) \/ PurgeRead(t) \/ PurgeCommitted(t)
    PROVE  RowsInv'
<1>0. TypeOK
  BY DEF VersionsTypeInv
<1>1. CASE PruneVersions(t)
  <2>1. ReadsStay
    BY <1>0, <1>1, CollectorMoves, MovedReads
  <2> QED BY <1>1, <2>1, RowsStay DEF PruneVersions
<1>2. CASE PruneFails(t) \/ CollectionDone(t)
  <2>1. ReadsStay
    BY <1>0, <1>2, CollectorMoves, MovedReads DEF GoesOn
  <2> QED BY <1>2, <2>1, RowsStay DEF PruneFails, CollectionDone
<1>3. CASE \E k \in Key : CheckKey(t, k)
  <2>1. PICK k \in Key : CheckKey(t, k)
    BY <1>3
  <2>2. \/ Moved(t, "gc", task[t].key, task[t].old, task[t].todo \ {k}, task[t].after)
        \/ Moved(t, "delete", task[t].key, [version |-> 1, key |-> k],
                 task[t].todo \ {k}, task[t].after)
    BY <1>0, <2>1, CheckMoves
  <2> QED BY <2>1, <2>2, MovedReads, RowsStay DEF CheckKey
<1>4. CASE DeleteKey(t) \/ PurgeRead(t)
  <2>1. ReadsStay
    BY <1>0, <1>4, CollectorMoves, MovedReads
  <2> QED BY <1>4, <2>1, RowsStay DEF DeleteKey, PurgeRead
<1>5. CASE PurgeCommitted(t)
  <2>1. ReadsStay
    BY <1>0, <1>5, CollectorMoves, MovedReads
  <2>2. history' = {} /\ entry'.version = entry.version /\ entry'.key = entry.key
    BY <1>0, <1>5, TrashRow DEF PurgeCommitted
  <2> QED BY <2>1, <2>2 DEF RowsInv, OnePerVersion, ReadsStay, IsPast
<1> QED BY <1>1, <1>2, <1>3, <1>4, <1>5 DEF Collect

LEMMA RowsStep ==
    ASSUME VersionsTypeInv, RowsInv, [Next]_vars
    PROVE  RowsInv'
<1>0. TypeOK
  BY DEF VersionsTypeInv
<1>1. CASE UNCHANGED vars
  BY <1>1, RowsStay DEF vars, ReadsStay, Reading
<1>2. CASE Trash \/ Untrash
  <2>1. Advances
    BY <1>0, <1>2, TrashRow DEF Trash, Untrash, Advances
  <2>2. ReadsStay
    BY <1>2 DEF Trash, Untrash, ReadsStay, Reading
  <2> QED BY <1>2, <2>1, <2>2, RowsAdvance DEF Trash, Untrash
<1>3. CASE Crash
  <2>1. ReadsStay
    BY <1>3, CrashMoves DEF ReadsStay, Reading
  <2> QED BY <1>3, <2>1, RowsStay DEF Crash
<1>4. CASE \E t \in Tasks : \/ \E k \in Key : Replace(t, k)
                            \/ Overwrite(t) \/ RestoreVersion(t) \/ Collect(t)
                            \/ PurgeRead(t) \/ PurgeCommitted(t)
  BY <1>4, OverwriteKeepsRows, RestoreKeepsRows, CollectKeepsRows
<1> QED BY <1>1, <1>2, <1>3, <1>4 DEF Next

-----------------------------------------------------------------------------
(* The length of the history.  Each row beyond Keep is owed by a           *)
(* replacement that has still to prune, by a fault, or by a restoration    *)
(* that has inserted its row.                                              *)

Pending == {t \in Tasks : task[t].pc \in {"chosen", "read"}}

Pruning(t) == task[t].pc = "prune" /\ task[t].after = "unlock"
InPrune == IF \E t \in Tasks : Pruning(t) THEN 1 ELSE 0

CountInv ==
    /\ IsFiniteSet(history) /\ IsFiniteSet(Pending)
    /\ Cardinality(Pending) <= restores
    /\ Cardinality(history) + Cardinality(Pending) <= Keep + InPrune + faults + restores

LEMMA AddsOne ==
    ASSUME NEW S, NEW T, NEW x, IsFiniteSet(S), T \subseteq S \cup {x}
    PROVE  /\ IsFiniteSet(T) /\ Cardinality(T) \in Nat
           /\ Cardinality(T) <= Cardinality(S) + 1
<1>1. IsFiniteSet(S \cup {x})
      /\ Cardinality(S \cup {x}) = IF x \in S THEN Cardinality(S) ELSE Cardinality(S) + 1
  BY FS_AddElement
<1>2. Cardinality(S) \in Nat /\ Cardinality(S \cup {x}) \in Nat
  BY <1>1, FS_CardinalityType
<1>3. IsFiniteSet(T) /\ Cardinality(T) <= Cardinality(S \cup {x})
  BY <1>1, FS_Subset
<1>4. Cardinality(T) \in Nat
  BY <1>3, FS_CardinalityType
<1> QED BY <1>1, <1>2, <1>3, <1>4

\* Of rows with distinct versions, pruning leaves Keep at most: all the rows it
\* leaves but the oldest are newer than that one.
LEMMA PruningKeeps ==
    ASSUME TypeOK, OnePerVersion, IsFiniteSet(history)
    PROVE  Cardinality(history \ BeyondKeep(history)) <= Keep
<1> DEFINE left == history \ BeyondKeep(history)
           versions == {v.version : v \in left}
<1>1. IsFiniteSet(left) /\ Cardinality(left) \in Nat
  BY FS_Subset, FS_CardinalityType
<1>2. \A v \in left : v \in history /\ v.version \in Nat
  BY VersionParts DEF TypeOK
<1>3. CASE left = {}
  BY <1>3, FS_EmptySet, VersionConstants
<1>4. CASE left # {}
  <2>1. versions \in SUBSET Nat /\ versions # {}
    BY <1>2, <1>4
  <2>2. PICK n \in versions : \A m \in versions : n <= m
    BY <2>1, LeastNumber
  <2>3. PICK v \in left : v.version = n
    BY <2>2
  <2> DEFINE newer == {w \in history : w.version > v.version}
  <2>4. left \ {v} \subseteq newer
    <3>1. ASSUME NEW w \in left, w # v
          PROVE  w.version > v.version
      <4>1. v.version <= w.version
        BY <2>2, <2>3
      <4>2. w.version # v.version
        BY <1>2, <2>3, <3>1 DEF OnePerVersion
      <4> QED BY <1>2, <2>3, <4>1, <4>2
    <3> QED BY <1>2, <3>1
  <2>5. IsFiniteSet(newer) /\ Cardinality(newer) \in Nat
    BY FS_Subset, FS_CardinalityType
  <2>6. ~(Cardinality(newer) >= Keep)
    BY <2>3 DEF BeyondKeep
  <2>7. Cardinality(left \ {v}) = Cardinality(left) - 1
    BY <1>1, <2>3, FS_RemoveElement
  <2>8. Cardinality(left \ {v}) <= Cardinality(newer)
    BY <2>4, <2>5, FS_Subset
  <2> HIDE DEF left, newer
  <2>9. Cardinality(left) <= Keep
    BY <1>1, <2>5, <2>6, <2>7, <2>8, VersionConstants
  <2> QED BY <2>9 DEF left
<1> QED BY <1>3, <1>4

LEMMA CountTypes ==
    ASSUME CountInv
    PROVE  Cardinality(history) \in Nat /\ Cardinality(Pending) \in Nat /\ InPrune \in {0, 1}
BY FS_CardinalityType DEF CountInv, InPrune

\* A step that adds nothing, and ends no replacement's pruning but by a fault.
LEMMA CountStays ==
    ASSUME TypeOK, CountInv, history' \subseteq history, Pending' \subseteq Pending,
           restores' = restores, faults' \in Nat, InPrune' \in {0, 1},
           InPrune + faults <= InPrune' + faults'
    PROVE  CountInv'
<1>1. IsFiniteSet(history') /\ Cardinality(history') <= Cardinality(history)
      /\ Cardinality(history') \in Nat
  BY FS_Subset, FS_CardinalityType DEF CountInv
<1>2. IsFiniteSet(Pending') /\ Cardinality(Pending') <= Cardinality(Pending)
      /\ Cardinality(Pending') \in Nat
  BY FS_Subset, FS_CardinalityType DEF CountInv
<1>3. restores \in Nat /\ faults \in Nat
  BY DEF TypeOK
<1> HIDE DEF InPrune, Pending
<1> QED BY <1>1, <1>2, <1>3, CountTypes, VersionConstants DEF CountInv

\* What a move of t does to the two counts.
LEMMA MovedCounts ==
    ASSUME NEW t \in Tasks, NEW p, NEW k, NEW o, NEW d, NEW a, Moved(t, p, k, o, d, a)
    PROVE  /\ Pending' = IF p \in {"chosen", "read"} THEN Pending \cup {t} ELSE Pending \ {t}
           /\ InPrune' \in {0, 1}
           /\ ~Pruning(t) => InPrune <= InPrune'
           /\ p = "prune" /\ a = "unlock" => InPrune' = 1
<1>1. Pending' = IF p \in {"chosen", "read"} THEN Pending \cup {t} ELSE Pending \ {t}
  BY DEF Moved, Pending
<1>2. \A u \in Tasks : u # t => (Pruning(u)' <=> Pruning(u))
  BY DEF Moved, Pruning
<1>3. ~Pruning(t) => InPrune <= InPrune'
  BY <1>2 DEF InPrune
<1>4. p = "prune" /\ a = "unlock" => Pruning(t)'
  BY DEF Moved, Pruning
<1> QED BY <1>1, <1>3, <1>4 DEF InPrune

LEMMA CountStaysUnless ==
    ASSUME TypeOK, CountInv, history' \subseteq history, restores' = restores,
           NEW t \in Tasks, NEW p, NEW k, NEW o, NEW d, NEW a, Moved(t, p, k, o, d, a),
           p \in {"chosen", "read"} => t \in Pending,
           \/ faults' = faults /\ ~Pruning(t)
           \/ faults' = faults + 1
    PROVE  CountInv'
<1>1. Pending' \subseteq Pending
  BY MovedCounts
<1>2. InPrune' \in {0, 1} /\ (~Pruning(t) => InPrune <= InPrune')
  BY MovedCounts
<1>3. faults \in Nat
  BY DEF TypeOK
<1>4. InPrune \in {0, 1}
  BY CountTypes
<1> HIDE DEF InPrune, Pending, Pruning
<1>5. faults' \in Nat /\ InPrune + faults <= InPrune' + faults'
  BY <1>2, <1>3, <1>4
<1> QED BY <1>1, <1>2, <1>5, CountStays

LEMMA OverwriteKeepsCount ==
    ASSUME VersionsTypeInv, CountInv, NEW t \in Tasks,
           (\E k \in Key : Replace(t, k)) \/ Overwrite(t)
    PROVE  CountInv'
<1>0. TypeOK
  BY DEF VersionsTypeInv
<1>1. CASE \E k \in Key : Replace(t, k)
  <2>1. PICK k \in Key : Replace(t, k)
    BY <1>1
  <2>2. Moved(t, "prune", task[t].key, task[t].old, task[t].todo, "unlock")
    BY <1>0, <2>1, OverwriteMoves
  <2>3. InPrune = 0
    BY <2>1 DEF Replace, MutexFree, InPrune, Pruning
  <2>4. InPrune' = 1 /\ Pending' \subseteq Pending
    BY <2>2, MovedCounts
  <2>5. /\ IsFiniteSet(Pending') /\ Cardinality(Pending') \in Nat
        /\ Cardinality(Pending') <= Cardinality(Pending)
    BY <2>4, FS_Subset, FS_CardinalityType DEF CountInv
  <2>6. history' \subseteq history \cup {Current}
    BY <2>1, SnapshotKeeps DEF Replace
  <2>7. /\ IsFiniteSet(history') /\ Cardinality(history') \in Nat
        /\ Cardinality(history') <= Cardinality(history) + 1
    BY <2>6, AddsOne DEF CountInv
  <2>8. restores' = restores /\ faults' = faults /\ restores \in Nat /\ faults \in Nat
    BY <1>0, <2>1 DEF Replace, faultVars, TypeOK
  <2> HIDE DEF InPrune, Pending
  <2> QED BY <2>3, <2>4, <2>5, <2>7, <2>8, CountTypes, VersionConstants DEF CountInv
<1>2. CASE \E k \in Key : Saved(t, k)
  <2>1. PICK k \in Key : Saved(t, k)
    BY <1>2
  <2>2. Moved(t, "saved", k, NoVersion, {}, "idle")
    BY <1>0, <2>1, OverwriteMoves
  <2> QED BY <1>0, <2>1, <2>2, CountStaysUnless DEF Saved, faultVars, Pruning
<1>3. CASE Found(t) \/ Replaced(t)
  <2>1. \/ Moved(t, "found", task[t].key, Current, task[t].todo, task[t].after)
        \/ Moved(t, "replaced", task[t].key, task[t].old, task[t].todo, task[t].after)
    BY <1>0, <1>3, OverwriteMoves
  <2> QED BY <1>0, <1>3, <2>1, CountStaysUnless DEF Found, Replaced, faultVars, Pruning
<1>4. CASE NotStored(t) \/ Overwritten(t) \/ OverwriteFails(t)
  <2>1. Moved(t, "idle", NoKey, NoVersion, {}, "idle")
    BY <1>0, <1>4, OverwriteMoves
  <2>2. ~Pruning(t) /\ history' = history /\ restores' = restores
        /\ (faults' = faults \/ faults' = faults + 1)
    BY <1>4 DEF NotStored, Overwritten, OverwriteFails, Fault, faultVars, Pruning
  <2> QED BY <1>0, <2>1, <2>2, CountStaysUnless
<1> QED BY <1>1, <1>2, <1>3, <1>4 DEF Overwrite

LEMMA RestoreKeepsCount ==
    ASSUME VersionsTypeInv, CountInv, NEW t \in Tasks, RestoreVersion(t)
    PROVE  CountInv'
<1>0. TypeOK
  BY DEF VersionsTypeInv
<1>00. restores \in Nat /\ faults \in Nat
  BY <1>0 DEF TypeOK
<1>1. CASE \E v \in history : VersionChosen(t, v)
  <2>1. PICK v \in history : VersionChosen(t, v)
    BY <1>1
  <2>2. Moved(t, "chosen", v.key, NoVersion, {}, "idle")
    BY <1>0, <2>1, RestoreMoves
  <2>3. Pending' = Pending \cup {t} /\ InPrune' \in {0, 1} /\ InPrune <= InPrune'
    BY <2>1, <2>2, MovedCounts DEF VersionChosen, Pruning
  <2>4. IsFiniteSet(Pending') /\ Cardinality(Pending') <= Cardinality(Pending) + 1
        /\ Cardinality(Pending') \in Nat
    BY <2>3, AddsOne DEF CountInv
  <2>5. history' = history /\ faults' = faults /\ restores' = restores + 1
    BY <2>1 DEF VersionChosen
  <2> HIDE DEF InPrune, Pending
  <2> QED BY <1>00, <2>3, <2>4, <2>5, CountTypes, VersionConstants DEF CountInv
<1>2. CASE EntryRead(t)
  <2>1. \/ Moved(t, "read", task[t].key, Current, task[t].todo, task[t].after)
        \/ Moved(t, "idle", NoKey, NoVersion, {}, "idle")
    BY <1>0, <1>2, RestoreMoves
  <2>2. t \in Pending /\ ~Pruning(t)
    BY <1>2 DEF EntryRead, Pending, Pruning
  <2> QED BY <1>0, <1>2, <2>1, <2>2, CountStaysUnless DEF EntryRead, faultVars
<1>3. CASE SnapshotVersion(t) \/ SnapshotFails(t)
  <2>1. \/ Moved(t, "prune", task[t].key, task[t].old, task[t].todo, "relink")
        \/ Moved(t, "relink", task[t].key, task[t].old, task[t].todo, task[t].after)
    BY <1>0, <1>3, RestoreMoves
  <2>2. t \in Pending /\ ~Pruning(t)
    BY <1>3 DEF SnapshotVersion, SnapshotFails, Pending, Pruning
  <2>3. Pending' = Pending \ {t} /\ InPrune' \in {0, 1} /\ InPrune <= InPrune'
    BY <2>1, <2>2, MovedCounts
  <2>4. IsFiniteSet(Pending') /\ Cardinality(Pending') = Cardinality(Pending) - 1
        /\ Cardinality(Pending') \in Nat
    BY <2>2, <2>3, FS_RemoveElement, FS_CardinalityType DEF CountInv
  <2>5. restores' = restores /\ faults' \in Nat /\ faults' >= faults
    BY <1>00, <1>3 DEF SnapshotVersion, SnapshotFails, Fault, faultVars
  <2>6. history' \subseteq history \cup {task[t].old}
    BY <1>3, SnapshotKeeps DEF SnapshotVersion, SnapshotFails
  <2>7. /\ IsFiniteSet(history') /\ Cardinality(history') \in Nat
        /\ Cardinality(history') <= Cardinality(history) + 1
    BY <2>6, AddsOne DEF CountInv
  <2> HIDE DEF InPrune, Pending
  <2> QED BY <1>00, <2>3, <2>4, <2>5, <2>7, CountTypes, VersionConstants DEF CountInv
<1>4. CASE Relinked(t)
  <2>1. Moved(t, "idle", NoKey, NoVersion, {}, "idle")
    BY <1>0, <1>4, RestoreMoves
  <2> QED BY <1>0, <1>4, <2>1, CountStaysUnless DEF Relinked, faultVars, Pruning
<1> QED BY <1>1, <1>2, <1>3, <1>4 DEF RestoreVersion

LEMMA CollectKeepsCount ==
    ASSUME VersionsTypeInv, CountInv, OnePerVersion, NEW t \in Tasks,
           Collect(t) \/ PurgeRead(t) \/ PurgeCommitted(t)
    PROVE  CountInv'
<1>0. TypeOK
  BY DEF VersionsTypeInv
<1>1. CASE PruneVersions(t)
  <2>1. Moved(t, "gc", task[t].key, task[t].old, KeysOf(BeyondKeep(history)), task[t].after)
    BY <1>0, <1>1, CollectorMoves
  <2>2. InPrune' \in {0, 1} /\ Pending' \subseteq Pending
    BY <2>1, MovedCounts
  <2>3. /\ IsFiniteSet(Pending') /\ Cardinality(Pending') \in Nat
        /\ Cardinality(Pending') <= Cardinality(Pending)
    BY <2>2, FS_Subset, FS_CardinalityType DEF CountInv
  <2>4. history' = history \ BeyondKeep(history) /\ restores' = restores /\ faults' = faults
    BY <1>1 DEF PruneVersions, faultVars
  <2>5. IsFiniteSet(history') /\ Cardinality(history') <= Keep /\ Cardinality(history') \in Nat
    BY <1>0, <2>4, PruningKeeps, FS_Subset, FS_CardinalityType DEF CountInv
  <2>6. restores \in Nat /\ faults \in Nat
    BY <1>0 DEF TypeOK
  <2> HIDE DEF InPrune, Pending
  <2> QED BY <2>2, <2>3, <2>4, <2>5, <2>6, CountTypes, VersionConstants DEF CountInv
<1>2. CASE PruneFails(t) \/ CollectionDone(t)
  <2>1. \/ Moved(t, "relink", task[t].key, task[t].old, task[t].todo, task[t].after)
        \/ Moved(t, "idle", NoKey, NoVersion, {}, "idle")
    BY <1>0, <1>2, CollectorMoves DEF GoesOn
  <2>2. \/ faults' = faults /\ ~Pruning(t)
        \/ faults' = faults + 1
    BY <1>2 DEF PruneFails, CollectionDone, Fault, faultVars, Pruning
  <2>3. history' = history /\ restores' = restores
    BY <1>2 DEF PruneFails, CollectionDone, faultVars
  <2> QED BY <1>0, <2>1, <2>2, <2>3, CountStaysUnless
<1>3. CASE \E k \in Key : CheckKey(t, k)
  <2>1. PICK k \in Key : CheckKey(t, k)
    BY <1>3
  <2>2. \/ Moved(t, "gc", task[t].key, task[t].old, task[t].todo \ {k}, task[t].after)
        \/ Moved(t, "delete", task[t].key, [version |-> 1, key |-> k],
                 task[t].todo \ {k}, task[t].after)
    BY <1>0, <2>1, CheckMoves
  <2> QED BY <1>0, <2>1, <2>2, CountStaysUnless DEF CheckKey, faultVars, Pruning
<1>4. CASE DeleteKey(t) \/ PurgeRead(t) \/ PurgeCommitted(t)
  <2>1. \/ Moved(t, "gc", task[t].key, task[t].old, task[t].todo, task[t].after)
        \/ Moved(t, "purge", NoKey, Current, PurgedKeys, "idle")
    BY <1>0, <1>4, CollectorMoves
  <2>2. /\ ~Pruning(t) /\ history' \subseteq history
        /\ restores' = restores /\ faults' = faults
    BY <1>4 DEF DeleteKey, PurgeRead, PurgeCommitted, faultVars, Pruning
  <2> QED BY <1>0, <2>1, <2>2, CountStaysUnless
<1> QED BY <1>1, <1>2, <1>3, <1>4 DEF Collect

LEMMA CountStep ==
    ASSUME VersionsTypeInv, CountInv, OnePerVersion, [Next]_vars
    PROVE  CountInv'
<1>0. TypeOK
  BY DEF VersionsTypeInv
<1>00. faults \in Nat /\ InPrune \in {0, 1}
  BY <1>0, CountTypes DEF TypeOK
<1>1. CASE UNCHANGED vars \/ Trash \/ Untrash
  <2>1. UNCHANGED <<history, task, faults, restores>>
    BY <1>1 DEF vars, faultVars, Trash, Untrash
  <2>2. InPrune' = InPrune /\ Pending' = Pending
    BY <2>1 DEF InPrune, Pruning, Pending
  <2> HIDE DEF InPrune, Pending
  <2> QED BY <1>0, <1>00, <2>1, <2>2, CountStays
<1>2. CASE Crash
  <2>1. history' = history /\ restores' = restores /\ faults' = faults + 1
    BY <1>2 DEF Crash, Fault
  <2>2. Pending' = {} /\ InPrune' \in {0, 1}
    BY <1>2, CrashMoves DEF Pending, InPrune
  <2> DEFINE before == InPrune
             after  == InPrune'
  <2>3. before \in {0, 1} /\ after \in {0, 1}
    BY <1>00, <2>2
  <2> HIDE DEF InPrune, Pending, before, after
  <2>4. faults' \in Nat /\ before + faults <= after + faults'
    BY <1>00, <2>1, <2>3
  <2>5. InPrune + faults <= InPrune' + faults'
    BY <2>4 DEF before, after
  <2> QED BY <1>0, <2>1, <2>2, <2>4, <2>5, CountStays
<1>3. CASE \E t \in Tasks : \/ \E k \in Key : Replace(t, k)
                            \/ Overwrite(t) \/ RestoreVersion(t) \/ Collect(t)
                            \/ PurgeRead(t) \/ PurgeCommitted(t)
  BY <1>3, OverwriteKeepsCount, RestoreKeepsCount, CollectKeepsCount
<1> QED BY <1>1, <1>2, <1>3 DEF Next

HistoryInv == RowsInv /\ CountInv

LEMMA HistoryInit == ASSUME Init PROVE HistoryInv
<1>1. \A t \in Tasks : task[t].pc = "idle"
  BY DEF Init, Idle
<1>2. history = {} /\ Pending = {} /\ restores = 0 /\ faults = 0
  BY <1>1 DEF Init, Pending
<1>3. RowsInv
  BY <1>1, <1>2 DEF RowsInv, OnePerVersion, Reading
<1>4. InPrune \in {0, 1}
  BY DEF InPrune
<1> HIDE DEF InPrune, Pending
<1>5. CountInv
  BY <1>2, <1>4, FS_EmptySet, VersionConstants DEF CountInv
<1> QED BY <1>3, <1>5 DEF HistoryInv

LEMMA HistoryTells == ASSUME VersionsTypeInv, HistoryInv PROVE HistoryTruthful
<1>1. restores \in Nat /\ faults \in Nat
  BY DEF VersionsTypeInv, TypeOK
<1>2. HistoryBounded
  <2>1. CountInv
    BY DEF HistoryInv
  <2>2. Cardinality(history) + Cardinality(Pending) <= Keep + InPrune + faults + restores
    BY <2>1 DEF CountInv
  <2>3. Cardinality(history) \in Nat /\ Cardinality(Pending) \in Nat /\ InPrune \in {0, 1}
    BY <2>1, CountTypes
  <2> HIDE DEF InPrune, Pending
  <2> QED BY <1>1, <2>2, <2>3, VersionConstants DEF HistoryBounded
<1>3. OnePerVersion /\ \A v \in history : IsPast(v)
  BY DEF HistoryInv, RowsInv
<1> QED BY <1>2, <1>3 DEF HistoryTruthful, OnePerVersion, IsPast

\* Through restorations, failed prunings, purges and crashes the history has
\* one row per version, none newer than the entry, and stays within its bound.
THEOREM VersionsHistory == Spec => []HistoryTruthful
<1>1. Init => VersionsTypeInv /\ HistoryInv
  BY VersionsTypeInit, HistoryInit
<1>2. VersionsTypeInv /\ HistoryInv /\ [Next]_vars => VersionsTypeInv' /\ HistoryInv'
  BY VersionsTypeStep, RowsStep, CountStep DEF HistoryInv, RowsInv
<1>3. VersionsTypeInv /\ HistoryInv => HistoryTruthful
  BY HistoryTells
<1> QED BY <1>1, <1>2, <1>3, PTL DEF Spec

-----------------------------------------------------------------------------
(* The disk.  What keeps a blob from being deleted too early is that a     *)
(* deletion decided on stays right: with no RestoreVersion, a key that     *)
(* nothing refers to is never referred to again.                           *)

\* k was minted in the past.
IsOld(k, m) == k[1] <= m

AllOld ==
    /\ IsOld(entry.key, minted)
    /\ \A v \in history : IsOld(v.key, minted)
    /\ \A k \in disk : IsOld(k, minted)
    /\ \A t \in Tasks : /\ IsOld(task[t].key, minted) /\ IsOld(task[t].old.key, minted)
                        /\ \A k \in task[t].todo : IsOld(k, minted)

\* t has stored a blob that it may still make the content.
Stored(t)     == task[t].pc \in {"saved", "found", "replaced"}
Collecting(t) == task[t].pc \in {"gc", "delete"}
Deleting(t)   == task[t].pc = "delete"
Purging(t)    == task[t].pc = "purge"
Replacing(t)  == task[t].pc = "replaced"

\* t may delete k, now or after a check.
Dooms(t, k) == k \in task[t].todo \/ (Deleting(t) /\ k = task[t].old.key)

\* t will refer to k, or see to its deletion.
Claims(t, k) == (Stored(t) /\ k = task[t].key) \/ (Collecting(t) /\ Dooms(t, k))

\* The entry has or had the key, or a version has.
Named(k) == k = entry.key \/ \E v \in history : k = v.key

\* No version shares the blob of the current content.
OwnContent == \A v \in history : v.key # entry.key

\* A blob just stored is on disk and its key is in nobody else's hands.
StoredApart ==
    \A t \in Tasks : Stored(t) =>
        /\ task[t].key \in disk
        /\ ~Named(task[t].key)
        /\ \A u \in Tasks : ~Dooms(u, task[t].key)
        /\ \A u \in Tasks : Stored(u) /\ u # t => task[u].key # task[t].key

\* A deletion decided on is right until it is done.
DeletionSafe == \A t \in Tasks : Deleting(t) => ~Referenced(task[t].old.key)

\* A purge has read all there is to delete, unless the entry has changed since.
PurgeKnows ==
    \A t \in Tasks : Purging(t) =>
        /\ task[t].old.version <= entry.version
        /\ task[t].old.version = entry.version => \A k \in Key : Named(k) => k \in task[t].todo

\* An overwrite about to commit has deleted the blob it replaces.
OldGone == \A t \in Tasks : Replacing(t) => task[t].old.key \notin disk

\* ReferencedOnDisk, and what NoOrphanedBlob says of every state.
OnDisk ==
    botched = 0 => \A k \in Key : Referenced(k) /\ k \notin BeingReplaced => k \in disk

Accounted ==
    faults = 0 /\ overtaken = 0 =>
        \A k \in disk : Referenced(k) \/ \E t \in Tasks : Claims(t, k)

Clean ==
    /\ OwnContent /\ StoredApart /\ DeletionSafe /\ PurgeKnows /\ OldGone
    /\ OnDisk /\ Accounted

DiskInv == AllOld /\ (restores = 0 => Clean)

LEMMA KeyNumbers ==
    /\ \A k \in Key \cup {NoKey} : k[1] \in Nat
    /\ \A v \in Version \cup {NoVersion} : v.key[1] \in Nat
    /\ NoKey[1] = 0 /\ NoVersion.key = NoKey
<1>1. \A k \in Key : k[1] \in Nat
  BY VersionConstants DEF Key
<1>2. NoKey[1] = 0 /\ NoVersion.key = NoKey
  BY DEF NoKey, NoVersion
<1>3. \A v \in Version : v.key \in Key
  BY VersionParts
<1> QED BY <1>1, <1>2, <1>3

\* Old keys stay old.
LEMMA OldStay ==
    ASSUME TypeOK, AllOld, minted' \in Nat, minted' >= minted
    PROVE  /\ IsOld(entry.key, minted')
           /\ \A v \in history : IsOld(v.key, minted')
           /\ \A k \in disk : IsOld(k, minted')
           /\ \A t \in Tasks : /\ IsOld(task[t].key, minted')
                               /\ IsOld(task[t].old.key, minted')
                               /\ \A k \in task[t].todo : IsOld(k, minted')
           /\ IsOld(NoKey, minted') /\ IsOld(NoVersion.key, minted')
<1>0. minted \in Nat
  BY DEF TypeOK
<1>1. entry.key[1] \in Nat /\ (\A v \in history : v.key[1] \in Nat) /\ (\A k \in disk : k[1] \in Nat)
  BY CurrentIsVersion, KeyNumbers DEF TypeOK
<1>2. \A t \in Tasks : /\ task[t].key[1] \in Nat /\ task[t].old.key[1] \in Nat
                       /\ \A k \in task[t].todo : k[1] \in Nat
  BY TaskFields, KeyNumbers
<1>3. IsOld(NoKey, minted') /\ IsOld(NoVersion.key, minted')
  BY KeyNumbers DEF IsOld
<1>4. \A n \in Nat : n <= minted => n <= minted'
  BY <1>0
<1>5. IsOld(entry.key, minted') /\ (\A v \in history : IsOld(v.key, minted'))
      /\ (\A k \in disk : IsOld(k, minted'))
  BY <1>1, <1>4 DEF AllOld, IsOld
<1>6. \A t \in Tasks : /\ IsOld(task[t].key, minted') /\ IsOld(task[t].old.key, minted')
                       /\ \A k \in task[t].todo : IsOld(k, minted')
  BY <1>2, <1>4 DEF AllOld, IsOld
<1> QED BY <1>3, <1>5, <1>6

\* A move of t, to a record whose keys are old.
LEMMA OldMoves ==
    ASSUME TypeOK, AllOld, minted' \in Nat, minted' >= minted,
           IsOld(entry'.key, minted'),
           \A v \in history' : IsOld(v.key, minted'),
           \A x \in disk' : IsOld(x, minted'),
           NEW t \in Tasks, NEW p, NEW k, NEW o, NEW d, NEW a, Moved(t, p, k, o, d, a),
           IsOld(k, minted'), IsOld(o.key, minted'), \A x \in d : IsOld(x, minted')
    PROVE  AllOld'
<1>1. ASSUME NEW u \in Tasks
      PROVE  /\ IsOld(task'[u].key, minted') /\ IsOld(task'[u].old.key, minted')
             /\ \A x \in task'[u].todo : IsOld(x, minted')
  <2>1. CASE u = t
    <3>1. task'[u].key = k /\ task'[u].old = o /\ task'[u].todo = d
      BY <2>1 DEF Moved
    <3> QED BY <3>1
  <2>2. CASE u # t
    <3>1. task'[u] = task[u]
      BY <2>2 DEF Moved
    <3>2. /\ IsOld(task[u].key, minted') /\ IsOld(task[u].old.key, minted')
          /\ \A x \in task[u].todo : IsOld(x, minted')
      BY OldStay
    <3> QED BY <3>1, <3>2
  <2> QED BY <2>1, <2>2
<1> QED BY <1>1 DEF AllOld

\* A step that mints no key and brings no key from elsewhere.
LEMMA OldMovesOnly ==
    ASSUME TypeOK, AllOld, minted' = minted, IsOld(entry'.key, minted),
           \A v \in history' : IsOld(v.key, minted), disk' \subseteq disk,
           NEW t \in Tasks, NEW p, NEW k, NEW o, NEW d, NEW a, Moved(t, p, k, o, d, a),
           IsOld(k, minted), IsOld(o.key, minted), \A x \in d : IsOld(x, minted)
    PROVE  AllOld'
<1>1. minted' \in Nat /\ minted' >= minted
  BY DEF TypeOK
<1>2. \A x \in disk' : IsOld(x, minted')
  BY DEF AllOld
<1> QED BY <1>1, <1>2, OldMoves

\* The key just made.
LEMMA MintedIsOld ==
    ASSUME TypeOK, AllOld, NEW k \in Key, Mint(k)
    PROVE  /\ minted' \in Nat /\ minted' >= minted /\ IsOld(k, minted') /\ ~IsOld(k, minted)
<1>1. minted \in Nat /\ k[1] \in Nat /\ k[1] = minted + 1 /\ minted' = minted + 1
  BY KeyNumbers DEF TypeOK, Mint
<1> QED BY <1>1 DEF IsOld

LEMMA OverwriteKeepsOld ==
    ASSUME VersionsTypeInv, AllOld, NEW t \in Tasks,
           (\E k \in Key : Replace(t, k)) \/ Overwrite(t)
    PROVE  AllOld'
<1>0. TypeOK
  BY DEF VersionsTypeInv
<1>00. minted \in Nat /\ IsOld(NoKey, minted) /\ IsOld(NoVersion.key, minted)
  BY <1>0, KeyNumbers DEF TypeOK, IsOld
<1>000. /\ IsOld(task[t].key, minted) /\ IsOld(task[t].old.key, minted)
        /\ \A x \in task[t].todo : IsOld(x, minted)
        /\ IsOld(entry.key, minted) /\ IsOld(Current.key, minted)
        /\ \A v \in history : IsOld(v.key, minted)
  BY <1>0, CurrentIsVersion DEF AllOld
<1>1. CASE \E k \in Key : Replace(t, k)
  <2>1. PICK k \in Key : Replace(t, k)
    BY <1>1
  <2>2. Moved(t, "prune", task[t].key, task[t].old, task[t].todo, "unlock")
    BY <1>0, <2>1, OverwriteMoves
  <2>3. minted' \in Nat /\ minted' >= minted /\ IsOld(k, minted')
    BY <1>0, <2>1, MintedIsOld DEF Replace
  <2>4. entry'.key = k
    BY <1>0, <2>1, ContentRow DEF Replace
  <2>5. \A v \in history' : IsOld(v.key, minted')
    BY <1>0, <2>1, <2>3, OldStay, SnapshotKeeps, CurrentIsVersion DEF Replace
  <2>6. \A x \in disk' : IsOld(x, minted')
    BY <1>0, <2>1, <2>3, OldStay DEF Replace
  <2>7. /\ IsOld(task[t].key, minted') /\ IsOld(task[t].old.key, minted')
        /\ \A x \in task[t].todo : IsOld(x, minted')
    BY <1>0, <2>3, OldStay
  <2> QED BY <1>0, <2>2, <2>3, <2>4, <2>5, <2>6, <2>7, OldMoves
<1>2. CASE \E k \in Key : Saved(t, k)
  <2>1. PICK k \in Key : Saved(t, k)
    BY <1>2
  <2>2. Moved(t, "saved", k, NoVersion, {}, "idle")
    BY <1>0, <2>1, OverwriteMoves
  <2>3. minted' \in Nat /\ minted' >= minted /\ IsOld(k, minted')
    BY <1>0, <2>1, MintedIsOld DEF Saved
  <2>4. /\ IsOld(entry'.key, minted') /\ IsOld(NoVersion.key, minted')
        /\ \A v \in history' : IsOld(v.key, minted')
        /\ \A x \in disk' : IsOld(x, minted')
    BY <1>0, <2>1, <2>3, OldStay DEF Saved
  <2> QED BY <1>0, <2>2, <2>3, <2>4, OldMoves
<1>3. CASE Found(t) \/ Replaced(t)
  <2>1. \/ Moved(t, "found", task[t].key, Current, task[t].todo, task[t].after)
        \/ Moved(t, "replaced", task[t].key, task[t].old, task[t].todo, task[t].after)
    BY <1>0, <1>3, OverwriteMoves
  <2>2. entry' = entry /\ history' = history /\ disk' \subseteq disk /\ minted' = minted
    BY <1>3 DEF Found, Replaced
  <2> QED BY <1>0, <1>000, <2>1, <2>2, OldMovesOnly
<1>4. CASE NotStored(t) \/ Overwritten(t) \/ OverwriteFails(t)
  <2>1. Moved(t, "idle", NoKey, NoVersion, {}, "idle")
    BY <1>0, <1>4, OverwriteMoves
  <2>2. entry' = entry \/ entry'.key = task[t].key
    <3>1. Overwritten(t) => task[t].key \in Key
      BY DEF Overwritten, VersionsTypeInv, Control, ControlOf
    <3> QED BY <1>0, <1>4, <3>1, ContentRow DEF NotStored, Overwritten, OverwriteFails
  <2>3. history' = history /\ disk' \subseteq disk /\ minted' = minted
    BY <1>4 DEF NotStored, Overwritten, OverwriteFails
  <2> QED BY <1>0, <1>00, <1>000, <2>1, <2>2, <2>3, OldMovesOnly
<1> QED BY <1>1, <1>2, <1>3, <1>4 DEF Overwrite

LEMMA RestoreKeepsOld ==
    ASSUME VersionsTypeInv, AllOld, NEW t \in Tasks, RestoreVersion(t)
    PROVE  AllOld'
<1>0. TypeOK
  BY DEF VersionsTypeInv
<1>00. minted \in Nat /\ IsOld(NoKey, minted) /\ IsOld(NoVersion.key, minted)
  BY <1>0, KeyNumbers DEF TypeOK, IsOld
<1>000. /\ IsOld(task[t].key, minted) /\ IsOld(task[t].old.key, minted)
        /\ \A x \in task[t].todo : IsOld(x, minted)
        /\ IsOld(entry.key, minted) /\ IsOld(Current.key, minted)
        /\ \A v \in history : IsOld(v.key, minted)
  BY <1>0, CurrentIsVersion DEF AllOld
<1>1. CASE \E v \in history : VersionChosen(t, v)
  <2>1. PICK v \in history : VersionChosen(t, v)
    BY <1>1
  <2>2. Moved(t, "chosen", v.key, NoVersion, {}, "idle")
    BY <1>0, <2>1, RestoreMoves
  <2>3. entry' = entry /\ history' = history /\ disk' \subseteq disk /\ minted' = minted
    BY <2>1 DEF VersionChosen
  <2> QED BY <1>0, <1>00, <1>000, <2>2, <2>3, OldMovesOnly
<1>2. CASE EntryRead(t)
  <2>1. \/ Moved(t, "read", task[t].key, Current, task[t].todo, task[t].after)
        \/ Moved(t, "idle", NoKey, NoVersion, {}, "idle")
    BY <1>0, <1>2, RestoreMoves
  <2>2. entry' = entry /\ history' = history /\ disk' \subseteq disk /\ minted' = minted
    BY <1>2 DEF EntryRead
  <2> QED BY <1>0, <1>00, <1>000, <2>1, <2>2, OldMovesOnly
<1>3. CASE SnapshotVersion(t) \/ SnapshotFails(t)
  <2>1. \/ Moved(t, "prune", task[t].key, task[t].old, task[t].todo, "relink")
        \/ Moved(t, "relink", task[t].key, task[t].old, task[t].todo, task[t].after)
    BY <1>0, <1>3, RestoreMoves
  <2>2. entry' = entry /\ history' \subseteq history \cup {task[t].old}
        /\ disk' \subseteq disk /\ minted' = minted
    BY <1>3, SnapshotKeeps DEF SnapshotVersion, SnapshotFails
  <2> QED BY <1>0, <1>000, <2>1, <2>2, OldMovesOnly
<1>4. CASE Relinked(t)
  <2>1. Moved(t, "idle", NoKey, NoVersion, {}, "idle")
    BY <1>0, <1>4, RestoreMoves
  <2>2. task[t].key \in Key
    BY <1>4 DEF Relinked, VersionsTypeInv, Control, ControlOf, Restoring
  <2>3. entry' = entry \/ entry'.key = task[t].key
    BY <1>0, <1>4, <2>2, ContentRow DEF Relinked
  <2>4. history' = history /\ disk' \subseteq disk /\ minted' = minted
    BY <1>4 DEF Relinked
  <2> QED BY <1>0, <1>00, <1>000, <2>1, <2>3, <2>4, OldMovesOnly
<1> QED BY <1>1, <1>2, <1>3, <1>4 DEF RestoreVersion

LEMMA CollectKeepsOld ==
    ASSUME VersionsTypeInv, AllOld, NEW t \in Tasks,
           Collect(t) \/ PurgeRead(t) \/ PurgeCommitted(t)
    PROVE  AllOld'
<1>0. TypeOK
  BY DEF VersionsTypeInv
<1>00. minted \in Nat /\ IsOld(NoKey, minted) /\ IsOld(NoVersion.key, minted)
  BY <1>0, KeyNumbers DEF TypeOK, IsOld
<1>000. /\ IsOld(task[t].key, minted) /\ IsOld(task[t].old.key, minted)
        /\ \A x \in task[t].todo : IsOld(x, minted)
        /\ IsOld(entry.key, minted) /\ IsOld(Current.key, minted)
        /\ \A v \in history : IsOld(v.key, minted)
  BY <1>0, CurrentIsVersion DEF AllOld
<1>1. CASE PruneVersions(t)
  <2>1. Moved(t, "gc", task[t].key, task[t].old, KeysOf(BeyondKeep(history)), task[t].after)
    BY <1>0, <1>1, CollectorMoves
  <2>2. entry' = entry /\ history' \subseteq history /\ disk' \subseteq disk /\ minted' = minted
    BY <1>1 DEF PruneVersions
  <2>3. \A x \in KeysOf(BeyondKeep(history)) : IsOld(x, minted)
    BY <1>000 DEF KeysOf, BeyondKeep
  <2> QED BY <1>0, <1>000, <2>1, <2>2, <2>3, OldMovesOnly
<1>2. CASE PruneFails(t) \/ CollectionDone(t)
  <2>1. \/ Moved(t, "relink", task[t].key, task[t].old, task[t].todo, task[t].after)
        \/ Moved(t, "idle", NoKey, NoVersion, {}, "idle")
    BY <1>0, <1>2, CollectorMoves DEF GoesOn
  <2>2. entry' = entry /\ history' = history /\ disk' \subseteq disk /\ minted' = minted
    BY <1>2 DEF PruneFails, CollectionDone
  <2> QED BY <1>0, <1>00, <1>000, <2>1, <2>2, OldMovesOnly
<1>3. CASE \E k \in Key : CheckKey(t, k)
  <2>1. PICK k \in Key : CheckKey(t, k)
    BY <1>3
  <2>2. \/ Moved(t, "gc", task[t].key, task[t].old, task[t].todo \ {k}, task[t].after)
        \/ Moved(t, "delete", task[t].key, [version |-> 1, key |-> k],
                 task[t].todo \ {k}, task[t].after)
    BY <1>0, <2>1, CheckMoves
  <2>3. entry' = entry /\ history' = history /\ disk' \subseteq disk /\ minted' = minted
    BY <2>1 DEF CheckKey
  <2>4. IsOld([version |-> 1, key |-> k].key, minted)
        /\ \A x \in task[t].todo \ {k} : IsOld(x, minted)
    BY <1>000, <2>1 DEF CheckKey
  <2> QED BY <1>0, <1>000, <2>2, <2>3, <2>4, OldMovesOnly
<1>4. CASE DeleteKey(t)
  <2>1. Moved(t, "gc", task[t].key, task[t].old, task[t].todo, task[t].after)
    BY <1>0, <1>4, CollectorMoves
  <2>2. entry' = entry /\ history' = history /\ disk' \subseteq disk /\ minted' = minted
    BY <1>4 DEF DeleteKey
  <2> QED BY <1>0, <1>000, <2>1, <2>2, OldMovesOnly
<1>5. CASE PurgeRead(t)
  <2>1. Moved(t, "purge", NoKey, Current, PurgedKeys, "idle")
    BY <1>0, <1>5, CollectorMoves
  <2>2. entry' = entry /\ history' = history /\ disk' \subseteq disk /\ minted' = minted
    BY <1>5 DEF PurgeRead
  <2>3. \A x \in PurgedKeys : IsOld(x, minted)
    BY <1>000 DEF PurgedKeys, KeysOf
  <2> QED BY <1>0, <1>00, <1>000, <2>1, <2>2, <2>3, OldMovesOnly
<1>6. CASE PurgeCommitted(t)
  <2>1. Moved(t, "gc", task[t].key, task[t].old, task[t].todo, task[t].after)
    BY <1>0, <1>6, CollectorMoves
  <2>2. entry'.key = entry.key /\ history' = {} /\ disk' \subseteq disk /\ minted' = minted
    BY <1>0, <1>6, TrashRow DEF PurgeCommitted
  <2> QED BY <1>0, <1>000, <2>1, <2>2, OldMovesOnly
<1> QED BY <1>1, <1>2, <1>3, <1>4, <1>5, <1>6 DEF Collect

LEMMA OldStep ==
    ASSUME VersionsTypeInv, AllOld, [Next]_vars
    PROVE  AllOld'
<1>0. TypeOK
  BY DEF VersionsTypeInv
<1>1. CASE UNCHANGED vars
  BY <1>1 DEF vars, AllOld
<1>2. CASE Trash \/ Untrash
  <2>1. entry'.key = entry.key
    BY <1>0, <1>2, TrashRow DEF Trash, Untrash
  <2> QED BY <1>2, <2>1 DEF Trash, Untrash, AllOld
<1>3. CASE Crash
  <2>1. IsOld(NoKey, minted) /\ IsOld(NoVersion.key, minted)
    BY <1>0, KeyNumbers DEF TypeOK, IsOld
  <2>2. UNCHANGED <<entry, history, disk, minted>>
    BY <1>3 DEF Crash
  <2>3. \A t \in Tasks : /\ task'[t].key = NoKey /\ task'[t].old = NoVersion
                         /\ task'[t].todo = {}
    BY <1>3, CrashMoves
  <2>4. \A t \in Tasks : /\ IsOld(task'[t].key, minted) /\ IsOld(task'[t].old.key, minted)
                         /\ \A k \in task'[t].todo : IsOld(k, minted)
    BY <2>1, <2>3
  <2> QED BY <2>2, <2>4 DEF AllOld
<1>4. CASE \E t \in Tasks : \/ \E k \in Key : Replace(t, k)
                            \/ Overwrite(t) \/ RestoreVersion(t) \/ Collect(t)
                            \/ PurgeRead(t) \/ PurgeCommitted(t)
  BY <1>4, OverwriteKeepsOld, RestoreKeepsOld, CollectKeepsOld
<1> QED BY <1>1, <1>2, <1>3, <1>4 DEF Next


LEMMA NamedKeys ==
    /\ \A k : Referenced(k) => Named(k)
    /\ \A k : Named(k) /\ Exists => Referenced(k)
    /\ \A v \in history : Referenced(v.key) /\ Named(v.key)
BY DEF Referenced, Named, KeysOf

\* What a move of t makes of the predicates on requests.
LEMMA MovedPredicates ==
    ASSUME NEW t \in Tasks, NEW p, NEW k, NEW o, NEW d, NEW a, Moved(t, p, k, o, d, a)
    PROVE  /\ \A u \in Tasks : u # t =>
                 /\ task'[u] = task[u]
                 /\ Stored(u)' <=> Stored(u)
                 /\ Deleting(u)' <=> Deleting(u)
                 /\ Purging(u)' <=> Purging(u)
                 /\ Replacing(u)' <=> Replacing(u)
                 /\ \A x : Dooms(u, x)' <=> Dooms(u, x)
                 /\ \A x : Claims(u, x)' <=> Claims(u, x)
           /\ Stored(t)' <=> p \in {"saved", "found", "replaced"}
           /\ Deleting(t)' <=> p = "delete"
           /\ Purging(t)' <=> p = "purge"
           /\ Replacing(t)' <=> p = "replaced"
           /\ task'[t].key = k /\ task'[t].old = o /\ task'[t].todo = d
           /\ \A x : Dooms(t, x)' <=> x \in d \/ (p = "delete" /\ x = o.key)
           /\ \A x : Claims(t, x)' <=> \/ p \in {"saved", "found", "replaced"} /\ x = k
                                       \/ /\ p \in {"gc", "delete"}
                                          /\ x \in d \/ (p = "delete" /\ x = o.key)
<1>1. \A u \in Tasks : u # t => task'[u] = task[u]
  BY DEF Moved
<1>2. /\ task'[t].pc = p /\ task'[t].key = k /\ task'[t].old = o /\ task'[t].todo = d
  BY DEF Moved
<1>3. ASSUME NEW u \in Tasks, u # t
      PROVE  /\ Stored(u)' <=> Stored(u)
             /\ Deleting(u)' <=> Deleting(u)
             /\ Purging(u)' <=> Purging(u)
             /\ Replacing(u)' <=> Replacing(u)
             /\ \A x : Dooms(u, x)' <=> Dooms(u, x)
             /\ \A x : Claims(u, x)' <=> Claims(u, x)
  BY <1>1, <1>3 DEF Stored, Deleting, Purging, Replacing, Dooms, Claims, Collecting
<1>4. /\ Stored(t)' <=> p \in {"saved", "found", "replaced"}
      /\ Deleting(t)' <=> p = "delete"
      /\ Purging(t)' <=> p = "purge"
      /\ Replacing(t)' <=> p = "replaced"
  BY <1>2 DEF Stored, Deleting, Purging, Replacing
<1>5. \A x : Dooms(t, x)' <=> x \in d \/ (p = "delete" /\ x = o.key)
  BY <1>2 DEF Dooms, Deleting
<1>6. \A x : Claims(t, x)' <=> \/ p \in {"saved", "found", "replaced"} /\ x = k
                               \/ /\ p \in {"gc", "delete"}
                                  /\ x \in d \/ (p = "delete" /\ x = o.key)
  BY <1>2 DEF Claims, Stored, Collecting, Dooms, Deleting
<1> QED BY <1>1, <1>2, <1>3, <1>4, <1>5, <1>6

\* A move of t that names no key anew: t stores no other blob, dooms only what
\* it doomed or what is named, and deletes only what nothing refers to.
LEMMA QuietMoveKeeps ==
    ASSUME VersionsTypeInv, Clean,
           entry'.key = entry.key, entry'.version = entry.version, Exists' => Exists,
           history' \subseteq history, disk' \subseteq disk,
           NEW t \in Tasks, NEW p, NEW k, NEW o, NEW d, NEW a, Moved(t, p, k, o, d, a),
           p \in {"saved", "found", "replaced"} =>
               Stored(t) /\ k = task[t].key /\ k \in disk',
           \A u \in Tasks : Stored(u) /\ u # t => task[u].key \in disk',
           \A x \in d : Dooms(t, x) \/ Named(x),
           p = "delete" => Dooms(t, o.key) /\ ~Referenced(o.key),
           p = "purge" => /\ o.version = entry.version
                          /\ \A x \in Key : Named(x) => x \in d,
           p = "replaced" => o.key \notin disk'
    PROVE  OwnContent' /\ StoredApart' /\ DeletionSafe' /\ PurgeKnows' /\ OldGone'
<1>1. \A x : Named(x)' => Named(x)
  BY DEF Named
<1>2. \A x : Referenced(x)' => Referenced(x)
  BY DEF Referenced, KeysOf
<1>3. OwnContent'
  BY DEF Clean, OwnContent
<1>4. \A u \in Tasks : \A x : Dooms(u, x)' => Dooms(u, x) \/ Named(x)
  BY MovedPredicates
<1>5. \A u \in Tasks : Stored(u)' =>
         Stored(u) /\ task'[u].key = task[u].key /\ task[u].key \in disk'
  BY MovedPredicates
<1>6. StoredApart'
  BY <1>1, <1>4, <1>5 DEF Clean, StoredApart
<1>7. ASSUME NEW u \in Tasks, Deleting(u)'
      PROVE  ~Referenced(task[u].old.key)'
  <2>1. CASE u = t
    BY <1>2, <1>7, <2>1, MovedPredicates
  <2>2. CASE u # t
    <3>1. Deleting(u) /\ task'[u].old = task[u].old
      BY <1>7, <2>2, MovedPredicates
    <3>2. ~Referenced(task[u].old.key)
      BY <3>1 DEF Clean, DeletionSafe
    <3> QED BY <1>2, <3>1, <3>2
  <2> QED BY <2>1, <2>2
<1>8. DeletionSafe'
  BY <1>7 DEF DeletionSafe
<1>9. ASSUME NEW u \in Tasks, Purging(u)'
      PROVE  /\ task'[u].old.version <= entry'.version
             /\ task'[u].old.version = entry'.version =>
                  \A x \in Key : Named(x)' => x \in task'[u].todo
  <2>1. CASE u = t
    <3>1. task'[u].old = o /\ task'[u].todo = d /\ p = "purge"
      BY <1>9, <2>1, MovedPredicates
    <3>2. entry.version \in Int
      BY CurrentIsVersion DEF VersionsTypeInv
    <3> QED BY <1>1, <3>1, <3>2
  <2>2. CASE u # t
    <3>1. Purging(u) /\ task'[u] = task[u]
      BY <1>9, <2>2, MovedPredicates
    <3> QED BY <1>1, <3>1 DEF Clean, PurgeKnows
  <2> QED BY <2>1, <2>2
<1>10. PurgeKnows'
  BY <1>9 DEF PurgeKnows
<1>11. OldGone'
  BY MovedPredicates DEF Clean, OldGone
<1> QED BY <1>3, <1>6, <1>8, <1>10, <1>11

LEMMA BeingReplacedKey ==
    \A k : k \in BeingReplaced <=> \E t \in Tasks : Replacing(t) /\ k = task[t].old.key
BY DEF BeingReplaced, Replacing

\* The same move, and the blobs of what is referred to.
LEMMA QuietMoveOnDisk ==
    ASSUME VersionsTypeInv, Clean,
           entry'.key = entry.key, Exists' => Exists, history' \subseteq history,
           NEW t \in Tasks, NEW p, NEW k, NEW o, NEW d, NEW a, Moved(t, p, k, o, d, a),
           botched' = 0 =>
               /\ botched = 0
               /\ Replacing(t) => p = "replaced" /\ o = task[t].old
               /\ \A x \in disk : Referenced(x) =>
                     x \in disk' \/ (p = "replaced" /\ x = o.key)
    PROVE  OnDisk'
<1> SUFFICES ASSUME botched' = 0, NEW x \in Key, Referenced(x)', x \notin BeingReplaced'
             PROVE  x \in disk'
  BY DEF OnDisk
<1>1. Referenced(x)
  BY DEF Referenced, KeysOf
<1>2. \A u \in Tasks : ~(Replacing(u)' /\ x = task'[u].old.key)
  BY DEF BeingReplaced, Replacing
<1>3. \A u \in Tasks : Replacing(u) => Replacing(u)' /\ task'[u].old = task[u].old
  BY MovedPredicates
<1>4. x \notin BeingReplaced
  BY <1>2, <1>3, BeingReplacedKey
<1>5. x \in disk
  BY <1>1, <1>4 DEF Clean, OnDisk
<1>6. ~(p = "replaced" /\ x = o.key)
  BY <1>2, MovedPredicates
<1> QED BY <1>1, <1>5, <1>6

\* The same move, and who answers for the blobs.
LEMMA QuietMoveAccounts ==
    ASSUME Accounted, disk' \subseteq disk,
           NEW t \in Tasks, NEW p, NEW k, NEW o, NEW d, NEW a, Moved(t, p, k, o, d, a),
           faults' = 0 /\ overtaken' = 0 =>
               /\ faults = 0 /\ overtaken = 0
               /\ \A x \in disk' : Referenced(x) => Referenced(x)' \/ Claims(t, x)'
               /\ \A x \in disk' : Claims(t, x) => Referenced(x)' \/ Claims(t, x)'
    PROVE  Accounted'
<1> SUFFICES ASSUME faults' = 0, overtaken' = 0, NEW x \in disk'
             PROVE  Referenced(x)' \/ \E u \in Tasks : Claims(u, x)'
  BY DEF Accounted
<1>1. Referenced(x) \/ \E u \in Tasks : Claims(u, x)
  BY DEF Accounted
<1>2. CASE Referenced(x)
  BY <1>2
<1>3. CASE \E u \in Tasks : Claims(u, x)
  <2>1. PICK u \in Tasks : Claims(u, x)
    BY <1>3
  <2>2. CASE u = t
    BY <2>1, <2>2
  <2>3. CASE u # t
    BY <2>1, <2>3, MovedPredicates
  <2> QED BY <2>2, <2>3
<1> QED BY <1>1, <1>2, <1>3


CleanNow == VersionsTypeInv /\ UsedInv /\ RowsInv /\ AllOld /\ Clean /\ restores = 0

LEMMA CleanFacts ==
    ASSUME CleanNow, NEW t \in Tasks
    PROVE  /\ TypeOK /\ faults \in Nat /\ botched \in Nat /\ overtaken \in Nat
           /\ entry.key \in Key /\ entry.version \in Nat /\ disk \subseteq Key
           /\ \A u \in Tasks : Stored(u) => task[u].key \in disk /\ ~Named(task[u].key)
           /\ \A u, w \in Tasks : Stored(u) => ~Dooms(w, task[u].key)
           /\ \A u, w \in Tasks : Stored(u) /\ Stored(w) /\ u # w => task[u].key # task[w].key
           /\ Holds(t) => entry.status = "live" /\ task[t].old.key = entry.key
           /\ task[t].pc \notin {"gc", "delete", "purge"} => task[t].todo = {}
<1>1. TypeOK /\ faults \in Nat /\ botched \in Nat /\ overtaken \in Nat
      /\ disk \subseteq Key
  BY DEF CleanNow, VersionsTypeInv, TypeOK
<1>2. entry.key \in Key /\ entry.version \in Nat
  BY <1>1, CurrentIsVersion
<1>3. /\ \A u \in Tasks : Stored(u) => task[u].key \in disk /\ ~Named(task[u].key)
      /\ \A u, w \in Tasks : Stored(u) => ~Dooms(w, task[u].key)
      /\ \A u, w \in Tasks : Stored(u) /\ Stored(w) /\ u # w => task[u].key # task[w].key
  BY DEF CleanNow, Clean, StoredApart
<1>4. Holds(t) => entry.status = "live" /\ task[t].old.key = entry.key
  BY DEF CleanNow, UsedInv, OneHolder
<1>5. task[t].pc \notin {"gc", "delete", "purge"} => task[t].todo = {}
  BY DEF CleanNow, VersionsTypeInv, Control, ControlOf
<1> QED BY <1>1, <1>2, <1>3, <1>4, <1>5

LEMMA FoundKeepsClean ==
    ASSUME CleanNow, NEW t \in Tasks, Found(t)
    PROVE  Clean'
<1>1. Moved(t, "found", task[t].key, Current, task[t].todo, task[t].after)
  BY CleanFacts, OverwriteMoves
<1>2. UNCHANGED <<entry, history, disk, faults, botched, overtaken>> /\ task[t].pc = "saved"
  BY DEF Found, faultVars
<1>3. Stored(t) /\ task[t].key \in disk /\ ~Replacing(t) /\ ~Collecting(t)
  BY <1>2, CleanFacts DEF Stored, Replacing, Collecting
<1>4. OwnContent' /\ StoredApart' /\ DeletionSafe' /\ PurgeKnows' /\ OldGone'
  BY <1>1, <1>2, <1>3, CleanFacts, QuietMoveKeeps DEF CleanNow, Exists, Dooms
<1>5. OnDisk'
  BY <1>1, <1>2, <1>3, QuietMoveOnDisk DEF CleanNow, Exists
<1>6. \A x : Referenced(x)' <=> Referenced(x)
  BY <1>2 DEF Referenced, Exists
<1>7. \A x : Claims(t, x) => Claims(t, x)'
  BY <1>1, <1>3, MovedPredicates DEF Claims
<1>8. Accounted'
  BY <1>1, <1>2, <1>6, <1>7, QuietMoveAccounts DEF CleanNow, Clean
<1> QED BY <1>4, <1>5, <1>8 DEF Clean

LEMMA NotStoredKeepsClean ==
    ASSUME CleanNow, NEW t \in Tasks, NotStored(t)
    PROVE  Clean'
<1>1. Moved(t, "idle", NoKey, NoVersion, {}, "idle")
  BY CleanFacts, OverwriteMoves
<1>2. UNCHANGED <<entry, history, faults, botched, overtaken>> /\ task[t].pc = "saved"
      /\ disk' = disk \ {task[t].key}
  BY DEF NotStored, faultVars
<1>3. Stored(t) /\ ~Named(task[t].key) /\ ~Replacing(t) /\ ~Collecting(t)
  BY <1>2, CleanFacts DEF Stored, Replacing, Collecting
<1>4. \A u \in Tasks : Stored(u) /\ u # t => task[u].key \in disk'
  BY <1>2, <1>3, CleanFacts
<1>5. OwnContent' /\ StoredApart' /\ DeletionSafe' /\ PurgeKnows' /\ OldGone'
  BY <1>1, <1>2, <1>4, QuietMoveKeeps DEF CleanNow, Exists
<1>6. \A x \in disk : Referenced(x) => x \in disk'
  BY <1>2, <1>3, NamedKeys
<1>7. OnDisk'
  BY <1>1, <1>2, <1>3, <1>6, QuietMoveOnDisk DEF CleanNow, Exists
<1>8. \A x : Referenced(x)' <=> Referenced(x)
  BY <1>2 DEF Referenced, Exists
<1>9. \A x \in disk' : ~Claims(t, x)
  BY <1>2, <1>3 DEF Claims
<1>10. Accounted'
  BY <1>1, <1>2, <1>8, <1>9, QuietMoveAccounts DEF CleanNow, Clean
<1> QED BY <1>5, <1>7, <1>10 DEF Clean

LEMMA ReplacedKeepsClean ==
    ASSUME CleanNow, NEW t \in Tasks, Replaced(t)
    PROVE  Clean'
<1>1. Moved(t, "replaced", task[t].key, task[t].old, task[t].todo, task[t].after)
  BY CleanFacts, OverwriteMoves
<1>2. UNCHANGED <<entry, history, faults, botched, overtaken>> /\ task[t].pc = "found"
      /\ disk' = disk \ {task[t].old.key}
  BY DEF Replaced, faultVars
<1>3. Stored(t) /\ ~Replacing(t) /\ ~Collecting(t) /\ Named(task[t].old.key)
  BY <1>2, CleanFacts DEF Stored, Replacing, Collecting, Holds, Named
<1>4. \A u \in Tasks : Stored(u) => task[u].key \in disk'
  BY <1>2, <1>3, CleanFacts
<1>5. OwnContent' /\ StoredApart' /\ DeletionSafe' /\ PurgeKnows' /\ OldGone'
  BY <1>1, <1>2, <1>3, <1>4, QuietMoveKeeps DEF CleanNow, Exists, Dooms
<1>6. \A x \in disk : x \in disk' \/ x = task[t].old.key
  BY <1>2
<1>7. OnDisk'
  BY <1>1, <1>2, <1>3, <1>6, QuietMoveOnDisk DEF CleanNow, Exists
<1>8. \A x : Referenced(x)' <=> Referenced(x)
  BY <1>2 DEF Referenced, Exists
<1>9. \A x : Claims(t, x) => Claims(t, x)'
  BY <1>1, <1>3, MovedPredicates DEF Claims
<1>10. Accounted'
  BY <1>1, <1>2, <1>8, <1>9, QuietMoveAccounts DEF CleanNow, Clean
<1> QED BY <1>5, <1>7, <1>10 DEF Clean

LEMMA OverwriteFailsKeepsClean ==
    ASSUME CleanNow, NEW t \in Tasks, OverwriteFails(t)
    PROVE  Clean'
<1>1. Moved(t, "idle", NoKey, NoVersion, {}, "idle")
  BY CleanFacts, OverwriteMoves
<1>2. UNCHANGED <<entry, history>> /\ task[t].pc = "replaced"
      /\ disk' \in {disk, disk \ {task[t].key}}
      /\ faults' = faults + 1 /\ botched' = botched + 1
  BY DEF OverwriteFails, Fault
<1>3. Stored(t) /\ faults' # 0 /\ botched' # 0
  BY <1>2, CleanFacts DEF Stored
<1>4. \A u \in Tasks : Stored(u) /\ u # t => task[u].key \in disk'
  BY <1>2, <1>3, CleanFacts
<1>5. disk' \subseteq disk
  BY <1>2
<1>6. OwnContent' /\ StoredApart' /\ DeletionSafe' /\ PurgeKnows' /\ OldGone'
  BY <1>1, <1>2, <1>4, <1>5, QuietMoveKeeps DEF CleanNow, Exists
<1> QED BY <1>3, <1>6 DEF Clean, OnDisk, Accounted

LEMMA PruneKeepsClean ==
    ASSUME CleanNow, NEW t \in Tasks, PruneVersions(t)
    PROVE  Clean'
<1> DEFINE pruned == KeysOf(BeyondKeep(history))
<1>1. Moved(t, "gc", task[t].key, task[t].old, pruned, task[t].after)
  BY CleanFacts, CollectorMoves
<1>2. UNCHANGED <<entry, disk, faults, botched, overtaken>> /\ task[t].pc = "prune"
      /\ history' = history \ BeyondKeep(history)
  BY DEF PruneVersions, faultVars
<1>3. ~Replacing(t) /\ \A x : ~Claims(t, x)
  BY <1>2 DEF Replacing, Claims, Stored, Collecting
<1>4. \A x \in pruned : Named(x)
  BY DEF KeysOf, BeyondKeep, Named
<1>5. \A x : Referenced(x) => Referenced(x)' \/ x \in pruned
  BY <1>2 DEF Referenced, Exists, KeysOf
<1> HIDE DEF pruned
<1>6. \A u \in Tasks : Stored(u) => task[u].key \in disk'
  BY <1>2, CleanFacts
<1>7. OwnContent' /\ StoredApart' /\ DeletionSafe' /\ PurgeKnows' /\ OldGone'
  BY <1>1, <1>2, <1>4, <1>6, QuietMoveKeeps DEF CleanNow, Exists
<1>8. OnDisk'
  BY <1>1, <1>2, <1>3, QuietMoveOnDisk DEF CleanNow, Exists
<1>9. \A x : x \in pruned => Claims(t, x)'
  BY <1>1, MovedPredicates
<1>10. Accounted'
  BY <1>1, <1>2, <1>3, <1>5, <1>9, QuietMoveAccounts DEF CleanNow, Clean
<1> QED BY <1>7, <1>8, <1>10 DEF Clean

LEMMA ContinueKeepsClean ==
    ASSUME CleanNow, NEW t \in Tasks, PruneFails(t) \/ CollectionDone(t)
    PROVE  Clean'
<1>1. \/ Moved(t, "relink", task[t].key, task[t].old, task[t].todo, task[t].after)
      \/ Moved(t, "idle", NoKey, NoVersion, {}, "idle")
  BY CleanFacts, CollectorMoves DEF GoesOn
<1>2. UNCHANGED <<entry, history, disk, botched, overtaken>> /\ task[t].pc \in {"prune", "gc"}
      /\ (faults' = faults \/ faults' = faults + 1)
  BY DEF PruneFails, CollectionDone, Fault, faultVars
<1>3. task[t].todo = {}
  BY CleanFacts DEF PruneFails, CollectionDone
<1>4. ~Replacing(t) /\ (faults' = 0 => faults = 0) /\ \A x : ~Claims(t, x)
  BY <1>2, <1>3, CleanFacts DEF Replacing, Claims, Stored, Collecting, Dooms, Deleting
<1>5. \A u \in Tasks : Stored(u) => task[u].key \in disk'
  BY <1>2, CleanFacts
<1>6. OwnContent' /\ StoredApart' /\ DeletionSafe' /\ PurgeKnows' /\ OldGone'
  BY <1>1, <1>2, <1>3, <1>5, QuietMoveKeeps DEF CleanNow, Exists
<1>7. OnDisk'
  BY <1>1, <1>2, <1>4, QuietMoveOnDisk DEF CleanNow, Exists
<1>8. \A x : Referenced(x)' <=> Referenced(x)
  BY <1>2 DEF Referenced, Exists
<1>9. Accounted'
  BY <1>1, <1>2, <1>4, <1>8, QuietMoveAccounts DEF CleanNow, Clean
<1> QED BY <1>6, <1>7, <1>9 DEF Clean

LEMMA CheckKeepsClean ==
    ASSUME CleanNow, NEW t \in Tasks, NEW k \in Key, CheckKey(t, k)
    PROVE  Clean'
<1> DEFINE rest == task[t].todo \ {k}
           gone == [version |-> 1, key |-> k]
<1>1. \/ Referenced(k) /\ Moved(t, "gc", task[t].key, task[t].old, rest, task[t].after)
      \/ ~Referenced(k) /\ Moved(t, "delete", task[t].key, gone, rest, task[t].after)
  BY CleanFacts, CheckMoves
<1>2. UNCHANGED <<entry, history, disk, faults, botched, overtaken>> /\ task[t].pc = "gc"
      /\ k \in task[t].todo
  BY DEF CheckKey, faultVars
<1>3. ~Replacing(t) /\ ~Stored(t) /\ ~Deleting(t) /\ Collecting(t)
  BY <1>2 DEF Replacing, Stored, Deleting, Collecting
<1>4. gone.key = k /\ Dooms(t, k) /\ \A x \in rest : Dooms(t, x)
  BY <1>2 DEF Dooms
<1>5. \A x : Claims(t, x) <=> x \in rest \/ x = k
  BY <1>2, <1>3 DEF Claims, Dooms
<1> HIDE DEF rest, gone
<1>6. \A u \in Tasks : Stored(u) => task[u].key \in disk'
  BY <1>2, CleanFacts
<1>7. OwnContent' /\ StoredApart' /\ DeletionSafe' /\ PurgeKnows' /\ OldGone'
  BY <1>1, <1>2, <1>4, <1>6, QuietMoveKeeps DEF CleanNow, Exists
<1>8. OnDisk'
  BY <1>1, <1>2, <1>3, QuietMoveOnDisk DEF CleanNow, Exists
<1>9. \A x : Referenced(x)' <=> Referenced(x)
  BY <1>2 DEF Referenced, Exists
<1>10. \A x : Claims(t, x) => Claims(t, x)' \/ Referenced(x)
  BY <1>1, <1>4, <1>5, MovedPredicates
<1>11. Accounted'
  BY <1>1, <1>2, <1>9, <1>10, QuietMoveAccounts DEF CleanNow, Clean
<1> QED BY <1>7, <1>8, <1>11 DEF Clean

LEMMA DeleteKeepsClean ==
    ASSUME CleanNow, NEW t \in Tasks, DeleteKey(t)
    PROVE  Clean'
<1>1. Moved(t, "gc", task[t].key, task[t].old, task[t].todo, task[t].after)
  BY CleanFacts, CollectorMoves
<1>2. UNCHANGED <<entry, history, faults, botched, overtaken>> /\ task[t].pc = "delete"
      /\ disk' = disk \ {task[t].old.key}
  BY DEF DeleteKey, faultVars
<1>3. ~Replacing(t) /\ ~Stored(t) /\ Deleting(t) /\ Collecting(t)
  BY <1>2 DEF Replacing, Stored, Deleting, Collecting
<1>4. Dooms(t, task[t].old.key) /\ ~Referenced(task[t].old.key)
  BY <1>3 DEF Dooms, CleanNow, Clean, DeletionSafe
<1>5. \A u \in Tasks : Stored(u) => task[u].key \in disk'
  BY <1>2, <1>4, CleanFacts
<1>6. OwnContent' /\ StoredApart' /\ DeletionSafe' /\ PurgeKnows' /\ OldGone'
  BY <1>1, <1>2, <1>5, QuietMoveKeeps DEF CleanNow, Exists, Dooms
<1>7. \A x \in disk : Referenced(x) => x \in disk'
  BY <1>2, <1>4
<1>8. OnDisk'
  BY <1>1, <1>2, <1>3, <1>7, QuietMoveOnDisk DEF CleanNow, Exists
<1>9. \A x : Referenced(x)' <=> Referenced(x)
  BY <1>2 DEF Referenced, Exists
<1>10. \A x \in disk' : Claims(t, x) => Claims(t, x)'
  BY <1>1, <1>2, <1>3, MovedPredicates DEF Claims, Dooms
<1>11. Accounted'
  BY <1>1, <1>2, <1>9, <1>10, QuietMoveAccounts DEF CleanNow, Clean
<1> QED BY <1>6, <1>8, <1>11 DEF Clean

LEMMA PurgeReadKeepsClean ==
    ASSUME CleanNow, NEW t \in Tasks, PurgeRead(t)
    PROVE  Clean'
<1>1. Moved(t, "purge", NoKey, Current, PurgedKeys, "idle")
  BY CleanFacts, CollectorMoves
<1>2. UNCHANGED <<entry, history, disk, faults, botched, overtaken>> /\ task[t].pc = "idle"
  BY DEF PurgeRead, faultVars
<1>3. ~Replacing(t) /\ \A x : ~Claims(t, x)
  BY <1>2 DEF Replacing, Claims, Stored, Collecting
<1>4. \A x : x \in PurgedKeys <=> Named(x)
  BY DEF PurgedKeys, KeysOf, Named
<1>5. Current.version = entry.version
  BY DEF Current
<1>6. \A u \in Tasks : Stored(u) => task[u].key \in disk'
  BY <1>2, CleanFacts
<1>7. OwnContent' /\ StoredApart' /\ DeletionSafe' /\ PurgeKnows' /\ OldGone'
  BY <1>1, <1>2, <1>4, <1>5, <1>6, QuietMoveKeeps DEF CleanNow, Exists
<1>8. OnDisk'
  BY <1>1, <1>2, <1>3, QuietMoveOnDisk DEF CleanNow, Exists
<1>9. \A x : Referenced(x)' <=> Referenced(x)
  BY <1>2 DEF Referenced, Exists
<1>10. Accounted'
  BY <1>1, <1>2, <1>3, <1>9, QuietMoveAccounts DEF CleanNow, Clean
<1> QED BY <1>7, <1>8, <1>10 DEF Clean

LEMMA PurgeCommittedKeepsClean ==
    ASSUME CleanNow, NEW t \in Tasks, PurgeCommitted(t)
    PROVE  Clean'
<1>1. Moved(t, "gc", task[t].key, task[t].old, task[t].todo, task[t].after)
  BY CleanFacts, CollectorMoves
<1>2. UNCHANGED <<disk, faults, botched>> /\ history' = {} /\ task[t].pc = "purge"
  BY DEF PurgeCommitted
<1>3. entry'.key = entry.key /\ entry'.version = entry.version /\ ~Exists'
  BY CleanFacts, TrashRow DEF PurgeCommitted, Exists
<1>4. ~Replacing(t) /\ Purging(t) /\ \A x : ~Claims(t, x)
  BY <1>2 DEF Replacing, Purging, Claims, Stored, Collecting
<1>5. \A u \in Tasks : Stored(u) => task[u].key \in disk'
  BY <1>2, CleanFacts
<1>6. OwnContent' /\ StoredApart' /\ DeletionSafe' /\ PurgeKnows' /\ OldGone'
  BY <1>1, <1>2, <1>3, <1>5, QuietMoveKeeps DEF CleanNow, Dooms
<1>7. OnDisk'
  BY <1>2, <1>3 DEF OnDisk, Referenced, KeysOf
<1>8. ASSUME overtaken' = 0
      PROVE  overtaken = 0 /\ \A x \in Key : Named(x) => x \in task[t].todo
  <2>1. Exists /\ Current = task[t].old /\ overtaken = 0
    BY <1>8, CleanFacts DEF PurgeCommitted
  <2>2. task[t].old.version = entry.version
    BY <2>1 DEF Current
  <2> QED BY <1>4, <2>1, <2>2 DEF CleanNow, Clean, PurgeKnows
<1>9. \A x : x \in task[t].todo => Claims(t, x)'
  BY <1>1, MovedPredicates
<1>10. \A x \in disk' : overtaken' = 0 /\ Referenced(x) => Claims(t, x)'
  BY <1>2, <1>8, <1>9, NamedKeys, CleanFacts
<1>11. Accounted'
  BY <1>1, <1>2, <1>4, <1>8, <1>10, QuietMoveAccounts DEF CleanNow, Clean
<1> QED BY <1>6, <1>7, <1>11 DEF Clean


\* A purge whose entry has moved on knows nothing, and says so.
LEMMA PurgeAdvances ==
    ASSUME CleanNow, entry'.version = entry.version + 1,
           \A u \in Tasks : Purging(u)' => Purging(u) /\ task'[u].old = task[u].old
    PROVE  PurgeKnows'
<1>1. ASSUME NEW u \in Tasks, Purging(u)'
      PROVE  task'[u].old.version < entry'.version
  <2>1. Purging(u) /\ task'[u].old = task[u].old
    BY <1>1
  <2>2. task[u].old \in Version
    BY <2>1 DEF Purging, CleanNow, VersionsTypeInv, Control, ControlOf
  <2>3. task[u].old.version \in Int /\ entry.version \in Int
    BY <2>2, VersionParts, CleanFacts
  <2>4. task[u].old.version <= entry.version
    BY <2>1 DEF CleanNow, Clean, PurgeKnows
  <2> QED BY <2>1, <2>3, <2>4
<1>2. ASSUME NEW u \in Tasks, Purging(u)'
      PROVE  /\ task'[u].old.version <= entry'.version
             /\ task'[u].old.version # entry'.version
  <2>1. Purging(u) /\ task'[u].old = task[u].old
    BY <1>2
  <2>2. task[u].old \in Version
    BY <2>1 DEF Purging, CleanNow, VersionsTypeInv, Control, ControlOf
  <2>3. task'[u].old.version \in Int /\ entry'.version \in Int
    BY <2>1, <2>2, VersionParts, CleanFacts
  <2> QED BY <1>1, <1>2, <2>3
<1> QED BY <1>2 DEF PurgeKnows

\* A key just made is in nobody's hands.
LEMMA FreshKey ==
    ASSUME CleanNow, NEW k \in Key, Mint(k)
    PROVE  /\ ~Named(k) /\ k \notin disk
           /\ \A u \in Tasks : task[u].key # k /\ task[u].old.key # k /\ k \notin task[u].todo
           /\ \A u \in Tasks : ~Dooms(u, k)
<1>1. ~IsOld(k, minted)
  BY MintedIsOld DEF CleanNow, VersionsTypeInv
<1>2. AllOld
  BY DEF CleanNow
<1>3. \A u \in Tasks : task[u].key # k /\ task[u].old.key # k /\ k \notin task[u].todo
  BY <1>1, <1>2 DEF AllOld
<1>4. ~Named(k) /\ k \notin disk
  BY <1>1, <1>2 DEF AllOld, Named
<1> QED BY <1>3, <1>4 DEF Dooms

LEMMA SavedKeepsClean ==
    ASSUME CleanNow, NEW t \in Tasks, NEW k \in Key, Saved(t, k)
    PROVE  Clean'
<1>1. Moved(t, "saved", k, NoVersion, {}, "idle")
  BY CleanFacts, OverwriteMoves
<1>2. UNCHANGED <<entry, history, faults, botched, overtaken>> /\ task[t].pc = "idle"
      /\ disk' = disk \cup {k} /\ Mint(k)
  BY DEF Saved, faultVars
<1>3. /\ ~Named(k) /\ k \notin disk /\ \A u \in Tasks : ~Dooms(u, k)
      /\ \A u \in Tasks : task[u].key # k /\ task[u].old.key # k
  BY <1>2, FreshKey
<1>4. /\ \A x : Named(x)' <=> Named(x)
      /\ \A x : Referenced(x)' <=> Referenced(x)
  BY <1>2 DEF Named, Referenced, Exists
<1>5. \A u \in Tasks : \A x : Dooms(u, x)' => Dooms(u, x)
  BY <1>1, MovedPredicates
<1>6. OwnContent'
  BY <1>2 DEF CleanNow, Clean, OwnContent
<1>7. StoredApart'
  <2>1. ASSUME NEW u \in Tasks, Stored(u)'
        PROVE  /\ task'[u].key \in disk' /\ ~Named(task[u].key)'
               /\ \A w \in Tasks : ~Dooms(w, task[u].key)'
               /\ \A w \in Tasks : Stored(w)' /\ w # u => task'[w].key # task'[u].key
    <3>1. CASE u = t
      <4>1. task'[u].key = k
        BY <1>1, <3>1, MovedPredicates
      <4>2. \A w \in Tasks : w # u => task'[w].key # k
        BY <1>1, <1>3, <3>1, MovedPredicates
      <4> QED BY <1>2, <1>3, <1>4, <1>5, <4>1, <4>2
    <3>2. CASE u # t
      <4>1. Stored(u) /\ task'[u] = task[u]
        BY <1>1, <2>1, <3>2, MovedPredicates
      <4>2. task[u].key \in disk /\ ~Named(task[u].key) /\ task[u].key # k
            /\ \A w \in Tasks : ~Dooms(w, task[u].key)
        BY <1>3, <4>1, CleanFacts
      <4>3. ASSUME NEW w \in Tasks, Stored(w)', w # u
            PROVE  task'[w].key # task[u].key
        <5>1. CASE w = t
          BY <1>1, <4>2, <5>1, MovedPredicates
        <5>2. CASE w # t
          BY <1>1, <4>1, <4>3, <5>2, MovedPredicates, CleanFacts
        <5> QED BY <5>1, <5>2
      <4> QED BY <1>2, <1>4, <1>5, <4>1, <4>2, <4>3
    <3> QED BY <3>1, <3>2
  <2> QED BY <2>1 DEF StoredApart
<1>8. DeletionSafe'
  BY <1>1, <1>4, MovedPredicates DEF CleanNow, Clean, DeletionSafe
<1>9. PurgeKnows'
  BY <1>1, <1>2, <1>4, MovedPredicates DEF CleanNow, Clean, PurgeKnows
<1>10. OldGone'
  BY <1>1, <1>2, <1>3, MovedPredicates DEF CleanNow, Clean, OldGone
<1>11. BeingReplaced' = BeingReplaced
  <2>1. \A u \in Tasks : (Replacing(u)' <=> Replacing(u))
                         /\ (Replacing(u) => task'[u].old = task[u].old)
    BY <1>1, <1>2, MovedPredicates DEF Replacing
  <2> QED BY <2>1 DEF BeingReplaced, Replacing
<1>12. OnDisk'
  BY <1>2, <1>4, <1>11 DEF CleanNow, Clean, OnDisk
<1>13. Accounted'
  <2>1. Claims(t, k)' /\ \A x : ~Claims(t, x)
    BY <1>1, <1>2, MovedPredicates DEF Claims, Stored, Collecting
  <2>2. \A u \in Tasks : \A x : Claims(u, x) => Claims(u, x)'
    BY <1>1, <2>1, MovedPredicates
  <2> QED BY <1>2, <1>4, <2>1, <2>2 DEF CleanNow, Clean, Accounted
<1> QED BY <1>6, <1>7, <1>8, <1>9, <1>10, <1>12, <1>13 DEF Clean

LEMMA ReplaceKeepsClean ==
    ASSUME CleanNow, NEW t \in Tasks, NEW k \in Key, Replace(t, k)
    PROVE  Clean'
<1>1. Moved(t, "prune", task[t].key, task[t].old, task[t].todo, "unlock")
  BY CleanFacts, OverwriteMoves
<1>2. UNCHANGED <<faults, botched, overtaken>> /\ task[t].pc = "idle" /\ Mint(k)
      /\ disk' = disk \cup {k} /\ Exists /\ \A u \in Tasks : ~Holds(u)
  BY DEF Replace, faultVars, Exists, UserUnlocked, Holds
<1>3. /\ ~Named(k) /\ k \notin disk /\ \A u \in Tasks : ~Dooms(u, k)
      /\ \A u \in Tasks : task[u].key # k /\ task[u].old.key # k
  BY <1>2, FreshKey
<1>4. entry'.key = k /\ entry'.version = entry.version + 1 /\ Exists'
  BY CleanFacts, ContentRow DEF Replace, Exists
<1>5. history' = history \cup {Current}
  <2>1. \A v \in history : v.version # Current.version
    BY DEF CleanNow, Clean, OwnContent, RowsInv, IsPast, Current
  <2> QED BY <2>1 DEF Replace, Snapshot
<1>6. Current.key = entry.key
  BY DEF Current
<1>7. \A x : Named(x)' <=> x = k \/ Named(x)
  BY <1>4, <1>5, <1>6 DEF Named
<1>8. \A x : Referenced(x)' <=> x = k \/ Referenced(x)
  BY <1>2, <1>4, <1>5, <1>6 DEF Referenced, KeysOf
<1>9. task[t].todo = {}
  BY <1>2, CleanFacts
<1>10. \A u \in Tasks : \A x : Dooms(u, x)' => Dooms(u, x)
  BY <1>1, <1>9, MovedPredicates
<1>11. \A u \in Tasks : Stored(u)' => Stored(u) /\ task'[u] = task[u]
  BY <1>1, MovedPredicates
<1>12. OwnContent'
  BY <1>3, <1>4, <1>5, <1>6 DEF OwnContent, Named
<1>13. StoredApart'
  <2>1. \A u \in Tasks : Stored(u)' =>
           /\ task'[u].key \in disk' /\ ~Named(task[u].key)'
           /\ \A w \in Tasks : ~Dooms(w, task[u].key)'
           /\ \A w \in Tasks : Stored(w)' /\ w # u => task'[w].key # task'[u].key
    BY <1>2, <1>3, <1>7, <1>10, <1>11, CleanFacts
  <2> QED BY <1>11, <2>1 DEF StoredApart
<1>14. DeletionSafe'
  BY <1>1, <1>3, <1>8, MovedPredicates DEF CleanNow, Clean, DeletionSafe
<1>15. PurgeKnows'
  BY <1>1, <1>4, MovedPredicates, PurgeAdvances
<1>16. \A u \in Tasks : ~Replacing(u)' /\ ~Replacing(u)
  BY <1>1, <1>2, MovedPredicates DEF Holds, Replacing
<1>17. OldGone'
  BY <1>16 DEF OldGone
<1>18. OnDisk'
  <2>1. \A x : x \notin BeingReplaced
    BY <1>16, BeingReplacedKey
  <2> QED BY <1>2, <1>8, <2>1 DEF CleanNow, Clean, OnDisk
<1>19. Accounted'
  <2>1. \A x : ~Claims(t, x)
    BY <1>2 DEF Claims, Stored, Collecting
  <2>2. \A u \in Tasks : \A x : Claims(u, x) => Claims(u, x)'
    BY <1>1, <2>1, MovedPredicates
  <2> QED BY <1>2, <1>8, <2>2 DEF CleanNow, Clean, Accounted
<1> QED BY <1>12, <1>13, <1>14, <1>15, <1>17, <1>18, <1>19 DEF Clean

LEMMA OverwrittenKeepsClean ==
    ASSUME CleanNow, NEW t \in Tasks, Overwritten(t)
    PROVE  Clean'
<1> DEFINE n == task[t].key
<1>1. Moved(t, "idle", NoKey, NoVersion, {}, "idle")
  BY CleanFacts, OverwriteMoves
<1>2. UNCHANGED <<history, disk, faults, botched, overtaken>> /\ task[t].pc = "replaced"
  BY DEF Overwritten, faultVars
<1>3. Stored(t) /\ Replacing(t) /\ Holds(t) /\ n \in Key /\ ~Collecting(t)
  BY <1>2 DEF Stored, Replacing, Holds, Collecting,
              CleanNow, VersionsTypeInv, Control, ControlOf
<1>4. n \in disk /\ ~Named(n) /\ \A u \in Tasks : ~Dooms(u, n)
  BY <1>3, CleanFacts
<1>5. Exists /\ task[t].old.key = entry.key /\ entry.key \notin disk
  <2>1. Exists /\ task[t].old.key = entry.key
    BY <1>3, CleanFacts DEF Exists
  <2>2. task[t].old.key \notin disk
    BY <1>3 DEF CleanNow, Clean, OldGone
  <2> QED BY <2>1, <2>2
<1>6. entry'.key = n /\ entry'.version = entry.version + 1 /\ Exists'
  BY <1>3, <1>5, CleanFacts, ContentRow DEF Overwritten, Exists
<1>7. \A u \in Tasks : ~Replacing(u)' /\ (Replacing(u) => u = t)
  BY <1>1, <1>3, MovedPredicates DEF CleanNow, UsedInv, OneHolder, Holds, Replacing
<1>8. \A u \in Tasks : Stored(u)' => Stored(u) /\ task'[u] = task[u] /\ task[u].key # n
  BY <1>1, <1>3, MovedPredicates, CleanFacts
<1>9. \A u \in Tasks : \A x : Dooms(u, x)' => Dooms(u, x)
  BY <1>1, MovedPredicates
<1> HIDE DEF n
<1>10. \A x : Named(x)' => x = n \/ Named(x)
  BY <1>2, <1>6 DEF Named
<1>11. \A x : Referenced(x)' <=> x = n \/ x \in KeysOf(history)
  BY <1>2, <1>6 DEF Referenced, KeysOf
<1>12. \A x : Referenced(x) <=> x = entry.key \/ x \in KeysOf(history)
  BY <1>5 DEF Referenced
<1>13. OwnContent'
  BY <1>2, <1>4, <1>6 DEF OwnContent, Named
<1>14. StoredApart'
  <2>1. \A u \in Tasks : Stored(u)' =>
           /\ task'[u].key \in disk' /\ ~Named(task[u].key)'
           /\ \A w \in Tasks : ~Dooms(w, task[u].key)'
           /\ \A w \in Tasks : Stored(w)' /\ w # u => task'[w].key # task'[u].key
    BY <1>2, <1>8, <1>9, <1>10, CleanFacts
  <2> QED BY <2>1 DEF StoredApart
<1>15. DeletionSafe'
  <2>1. ASSUME NEW u \in Tasks, Deleting(u)'
        PROVE  ~Referenced(task[u].old.key)'
    <3>1. Deleting(u) /\ task'[u].old = task[u].old
      BY <1>1, <2>1, MovedPredicates
    <3>2. ~Referenced(task[u].old.key) /\ Dooms(u, task[u].old.key)
      BY <3>1 DEF CleanNow, Clean, DeletionSafe, Dooms
    <3> QED BY <1>4, <1>11, <1>12, <3>1, <3>2
  <2> QED BY <2>1 DEF DeletionSafe
<1>16. PurgeKnows'
  BY <1>1, <1>6, MovedPredicates, PurgeAdvances
<1>17. OldGone'
  BY <1>7 DEF OldGone
<1>18. OnDisk'
  <2>1. ASSUME NEW x \in KeysOf(history)
        PROVE  x # entry.key /\ x \notin BeingReplaced
    <3>1. x # entry.key
      BY DEF KeysOf, CleanNow, Clean, OwnContent
    <3> QED BY <1>5, <1>7, <3>1, BeingReplacedKey
  <2> QED BY <1>2, <1>4, <1>11, <1>12, <2>1 DEF CleanNow, Clean, OnDisk
<1>19. Accounted'
  <2>1. \A x : Claims(t, x) => x = n
    BY <1>3 DEF Claims, n
  <2>2. \A u \in Tasks : \A x : Claims(u, x) => Claims(u, x)' \/ x = n
    BY <1>1, <2>1, MovedPredicates
  <2> QED BY <1>2, <1>5, <1>11, <1>12, <2>2 DEF CleanNow, Clean, Accounted
<1> QED BY <1>13, <1>14, <1>15, <1>16, <1>17, <1>18, <1>19 DEF Clean

LEMMA TrashKeepsClean ==
    ASSUME CleanNow, Trash \/ Untrash
    PROVE  Clean'
<1>1. UNCHANGED <<history, disk, task, faults, botched, overtaken>>
  BY DEF Trash, Untrash, faultVars
<1>2. entry'.key = entry.key /\ entry'.version = entry.version + 1 /\ Exists /\ Exists'
  BY TrashRow DEF Trash, Untrash, Exists, CleanNow, VersionsTypeInv
<1>3. /\ \A x : Named(x)' <=> Named(x)
      /\ \A x : Referenced(x)' <=> Referenced(x)
  BY <1>1, <1>2 DEF Named, Referenced, KeysOf
<1>4. \A u \in Tasks : /\ Stored(u)' <=> Stored(u)
                       /\ Deleting(u)' <=> Deleting(u)
                       /\ Purging(u)' <=> Purging(u)
                       /\ Replacing(u)' <=> Replacing(u)
                       /\ \A x : Dooms(u, x)' <=> Dooms(u, x)
                       /\ \A x : Claims(u, x)' <=> Claims(u, x)
  BY <1>1 DEF Stored, Deleting, Purging, Replacing, Dooms, Claims, Collecting
<1>5. OwnContent' /\ StoredApart' /\ DeletionSafe' /\ OldGone'
  BY <1>1, <1>2, <1>3, <1>4
     DEF CleanNow, Clean, OwnContent, StoredApart, DeletionSafe, OldGone
<1>6. PurgeKnows'
  BY <1>1, <1>2, <1>4, PurgeAdvances
<1>7. OnDisk' /\ Accounted'
  BY <1>1, <1>3, <1>4 DEF CleanNow, Clean, OnDisk, Accounted, BeingReplaced
<1> QED BY <1>5, <1>6, <1>7 DEF Clean

LEMMA CrashKeepsClean ==
    ASSUME CleanNow, faults \in Nat, botched \in Nat, Crash
    PROVE  Clean'
<1>1. UNCHANGED <<entry, history, disk>> /\ faults' = faults + 1
      /\ botched' = IF EntryUnlocked THEN botched ELSE botched + 1
  BY DEF Crash, Fault
<1>2. \A u \in Tasks : ~Stored(u)' /\ ~Deleting(u)' /\ ~Purging(u)' /\ ~Replacing(u)'
  BY CrashMoves DEF Stored, Deleting, Purging, Replacing
<1>3. OwnContent' /\ StoredApart' /\ DeletionSafe' /\ PurgeKnows' /\ OldGone'
  BY <1>1, <1>2
     DEF CleanNow, Clean, OwnContent, StoredApart, DeletionSafe, PurgeKnows, OldGone
<1>4. \A x : Referenced(x)' <=> Referenced(x)
  BY <1>1 DEF Referenced, Exists
<1>5. ASSUME botched' = 0
      PROVE  botched = 0 /\ \A x : x \notin BeingReplaced
  <2>1. EntryUnlocked /\ botched = 0
    BY <1>1, <1>5
  <2>2. \A u \in Tasks : ~Replacing(u)
    BY <2>1 DEF EntryUnlocked, Replacing
  <2> QED BY <2>1, <2>2, BeingReplacedKey
<1>6. OnDisk'
  BY <1>1, <1>4, <1>5 DEF CleanNow, Clean, OnDisk
<1>7. Accounted'
  BY <1>1 DEF Accounted
<1> QED BY <1>3, <1>6, <1>7 DEF Clean

\* RestoreVersion is the only handler that counts a restoration, and none of
\* its later steps is taken without one.
LEMMA NoRestoration ==
    ASSUME VersionsTypeInv, [Next]_vars, restores' = 0
    PROVE  restores = 0 /\ \A t \in Tasks : ~RestoreVersion(t)
<1>0. restores \in Nat
  BY DEF VersionsTypeInv, TypeOK
<1>1. \A t \in Tasks : RestoreVersion(t) => restores' # 0
  <2>1. ASSUME NEW t \in Tasks, RestoreVersion(t)
        PROVE  restores' # 0
    <3>1. CASE \E v \in history : VersionChosen(t, v)
      BY <1>0, <3>1 DEF VersionChosen
    <3>2. CASE EntryRead(t) \/ SnapshotVersion(t) \/ SnapshotFails(t) \/ Relinked(t)
      <4>1. task[t].pc \in Restoring /\ restores' = restores
        BY <3>2 DEF EntryRead, SnapshotVersion, SnapshotFails, Relinked, Restoring, faultVars
      <4>2. restores > 0
        BY <4>1 DEF VersionsTypeInv, Control, ControlOf
      <4> QED BY <1>0, <4>1, <4>2
    <3> QED BY <2>1, <3>1, <3>2 DEF RestoreVersion
  <2> QED BY <2>1
<1>2. (\E t \in Tasks : RestoreVersion(t)) \/ restores' = restores
  BY DEF Next, vars, faultVars, Replace, Overwrite, Saved, Found, NotStored, Replaced,
         Overwritten, OverwriteFails, Collect, PruneVersions, PruneFails, CheckKey,
         DeleteKey, CollectionDone, PurgeRead, PurgeCommitted, Trash, Untrash, Crash
<1> QED BY <1>1, <1>2

DiskAndRows == VersionsTypeInv /\ UsedInv /\ RowsInv /\ DiskInv

LEMMA DiskStep ==
    ASSUME DiskAndRows, [Next]_vars
    PROVE  DiskInv'
<1>1. AllOld'
  BY OldStep DEF DiskAndRows, DiskInv
<1>2. ASSUME restores' = 0
      PROVE  Clean'
  <2>1. restores = 0 /\ \A t \in Tasks : ~RestoreVersion(t)
    BY <1>2, NoRestoration DEF DiskAndRows
  <2>2. CleanNow
    BY <2>1 DEF CleanNow, DiskAndRows, DiskInv
  <2>3. CASE UNCHANGED vars
    BY <2>2, <2>3 DEF CleanNow, Clean, OwnContent, StoredApart, DeletionSafe, PurgeKnows, OldGone,
       OnDisk, Accounted, Named, Dooms, Claims, Stored, Deleting, Purging, Replacing,
       Collecting, Referenced, Exists, BeingReplaced, vars, faultVars
  <2>4. CASE Trash \/ Untrash
    BY <2>2, <2>4, TrashKeepsClean
  <2>5. CASE Crash
    <3>1. faults \in Nat /\ botched \in Nat
      BY DEF DiskAndRows, VersionsTypeInv, TypeOK
    <3> QED BY <2>2, <2>5, <3>1, CrashKeepsClean
  <2>6. CASE \E t \in Tasks : \/ \E k \in Key : Replace(t, k)
                              \/ Overwrite(t) \/ Collect(t)
                              \/ PurgeRead(t) \/ PurgeCommitted(t)
    BY <2>2, <2>6, ReplaceKeepsClean, SavedKeepsClean, FoundKeepsClean, NotStoredKeepsClean,
       ReplacedKeepsClean, OverwrittenKeepsClean, OverwriteFailsKeepsClean,
       PruneKeepsClean, ContinueKeepsClean, CheckKeepsClean, DeleteKeepsClean,
       PurgeReadKeepsClean, PurgeCommittedKeepsClean DEF Overwrite, Collect
  <2> QED BY <2>1, <2>3, <2>4, <2>5, <2>6 DEF Next
<1> QED BY <1>1, <1>2 DEF DiskInv

LEMMA DiskInit == ASSUME Init PROVE DiskInv
<1>1. PICK n \in Sizes : entry = [status |-> "live", key |-> <<1, n>>, version |-> 1]
  BY DEF Init
<1>2. entry.key = <<1, n>> /\ minted = 1 /\ history = {} /\ disk = {entry.key} /\ Exists
  BY <1>1 DEF Init, Exists
<1>3. \A t \in Tasks : /\ task[t].pc = "idle" /\ task[t].key = NoKey
                       /\ task[t].old = NoVersion /\ task[t].todo = {}
  BY DEF Init, Idle
<1>4. AllOld
  BY <1>2, <1>3, KeyNumbers DEF AllOld, IsOld
<1>5. Clean
  BY <1>2, <1>3 DEF Clean, OwnContent, StoredApart, DeletionSafe, PurgeKnows, OldGone,
     OnDisk, Accounted, Stored, Deleting, Purging, Replacing, Referenced, KeysOf
<1> QED BY <1>4, <1>5 DEF DiskInv

LEMMA DiskMatches == ASSUME DiskAndRows PROVE DiskMatchesDatabase
<1>0. botched \in Nat /\ botched <= faults /\ disk \subseteq Key
  BY DEF DiskAndRows, VersionsTypeInv, TypeOK
<1>1. ReferencedOnDisk
  BY DEF DiskAndRows, DiskInv, Clean, OnDisk, ReferencedOnDisk
<1>2. ASSUME AllIdle, faults = 0, restores = 0, overtaken = 0
      PROVE  disk = {k \in Key : Referenced(k)}
  <2>1. botched = 0 /\ Clean
    BY <1>0, <1>2 DEF DiskAndRows, DiskInv
  <2>2. \A t \in Tasks : ~Replacing(t) /\ ~Stored(t) /\ ~Collecting(t)
    BY <1>2 DEF AllIdle, Replacing, Stored, Collecting
  <2>3. \A k \in Key : Referenced(k) => k \in disk
    BY <2>1, <2>2, BeingReplacedKey DEF Clean, OnDisk
  <2>4. \A k \in disk : Referenced(k)
    BY <1>2, <2>1, <2>2 DEF Clean, Accounted, Claims
  <2> QED BY <1>0, <2>3, <2>4
<1>3. NoOrphanedBlob
  BY <1>2 DEF NoOrphanedBlob
<1> QED BY <1>1, <1>3 DEF DiskMatchesDatabase

\* However replacements, overwrites, prunings, purges, failures and crashes
\* overlap, no blob that is referred to is deleted, and none is left behind.
THEOREM VersionsDisk == Spec => []DiskMatchesDatabase
<1>1. Init => DiskAndRows
  BY VersionsTypeInit, UsedInit, HistoryInit, DiskInit DEF DiskAndRows, HistoryInv
<1>2. DiskAndRows /\ [Next]_vars => DiskAndRows'
  BY VersionsTypeStep, UsedStep, RowsStep, DiskStep DEF DiskAndRows
<1>3. DiskAndRows => DiskMatchesDatabase
  BY DiskMatches
<1> QED BY <1>1, <1>2, <1>3, PTL DEF Spec

=============================================================================
