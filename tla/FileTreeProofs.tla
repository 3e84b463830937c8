--------------------------- MODULE FileTreeProofs ---------------------------
(***************************************************************************)
(* Proofs about FileTree, for any entries, folders and requests.           *)
(***************************************************************************)
EXTENDS FileTree, Sums, TLAPS

\* What the recursive queries return: part of S, with e if it is there, closed
\* under children, and the least such set.
LEMMA BelowFacts ==
    ASSUME NEW e, NEW S
    PROVE  /\ Below(e, S) \subseteq S
           /\ e \in S => e \in Below(e, S)
           /\ \A c \in S : row[c].parent \in Below(e, S) => c \in Below(e, S)
           /\ \A T \in SUBSET S :
                 /\ e \in T
                 /\ \A c \in S : row[c].parent \in T => c \in T
                 => Below(e, S) \subseteq T
<1> DEFINE Closed == {T \in SUBSET S :
                        e \in T /\ \A c \in S : row[c].parent \in T => c \in T}
<1>1. Below(e, S) = {d \in S : e \in S /\ \A T \in Closed : d \in T}
  BY DEF Below
<1>2. Below(e, S) \subseteq S
  BY <1>1
<1>3. e \in S => e \in Below(e, S)
  BY <1>1
<1>4. ASSUME NEW c \in S, row[c].parent \in Below(e, S) PROVE c \in Below(e, S)
  <2>1. e \in S /\ \A T \in Closed : row[c].parent \in T
    BY <1>1, <1>4
  <2>2. \A T \in Closed : c \in T
    BY <2>1
  <2> QED BY <1>1, <2>1, <2>2
<1>5. ASSUME NEW T \in SUBSET S, e \in T,
             \A c \in S : row[c].parent \in T => c \in T
      PROVE  Below(e, S) \subseteq T
  <2>1. T \in Closed
    BY <1>5
  <2> QED BY <1>1, <2>1
<1> QED BY <1>2, <1>3, <1>4, <1>5

\* The sets of entries by status.
LEMMA Statuses ==
    /\ Live \subseteq Entries
    /\ Trashed \subseteq Entries
    /\ Existing \subseteq Entries
    /\ \A e \in Entries : row[e].status = "live" <=> e \in Live
    /\ \A e \in Trashed : e \notin Live
BY DEF Live, Trashed, Existing

\* An entry that is a parent is a folder.
LEMMA ParentIsFolder ==
    TypeOK => \A e \in Entries : row[e].parent \in Entries => row[e].parent \in Folders
BY TreeConstants DEF TypeOK, Row, Place

-----------------------------------------------------------------------------
(* Types                                                                   *)

\* What the handlers write are rows.
LEMMA RowTypes ==
    TypeOK =>
        /\ \A e \in Entries, p \in Place : NewRow(e, p) \in [Entries -> Row]
        /\ \A e \in Entries, p \in Place : [row EXCEPT ![e].parent = p] \in [Entries -> Row]
        /\ \A S \in SUBSET Entries :
              /\ WithStatus(S, "live") \in [Entries -> Row]
              /\ WithStatus(S, "trashed") \in [Entries -> Row]
              /\ WithoutRows(S) \in [Entries -> Row]
<1> SUFFICES ASSUME TypeOK
             PROVE  /\ \A e \in Entries, p \in Place : NewRow(e, p) \in [Entries -> Row]
                    /\ \A e \in Entries, p \in Place : [row EXCEPT ![e].parent = p] \in [Entries -> Row]
                    /\ \A S \in SUBSET Entries :
                          /\ WithStatus(S, "live") \in [Entries -> Row]
                          /\ WithStatus(S, "trashed") \in [Entries -> Row]
                          /\ WithoutRows(S) \in [Entries -> Row]
  OBVIOUS
<1>1. row \in [Entries -> Row]
  BY DEF TypeOK
<1>2. Purged \in Row /\ Nowhere \in Place
  BY DEF Purged, Row, Place
<1>3. \A e \in Entries, p \in Place : NewRow(e, p) \in [Entries -> Row]
  BY <1>1 DEF NewRow, Row
<1>4. \A e \in Entries, p \in Place : [row EXCEPT ![e].parent = p] \in [Entries -> Row]
  BY <1>1 DEF Row
<1>5. ASSUME NEW S \in SUBSET Entries, NEW st \in {"live", "trashed"}
      PROVE  WithStatus(S, st) \in [Entries -> Row]
  <2>1. \A e \in Entries : [row[e] EXCEPT !.status = st] \in Row
    BY <1>1 DEF Row
  <2> QED BY <1>1, <2>1 DEF WithStatus
<1>6. ASSUME NEW S \in SUBSET Entries PROVE WithoutRows(S) \in [Entries -> Row]
  <2>1. \A e \in Entries : [row[e] EXCEPT !.parent = Nowhere] \in Row
    BY <1>1, <1>2 DEF Row
  <2> QED BY <1>1, <1>2, <2>1 DEF WithoutRows
<1> QED BY <1>3, <1>4, <1>5, <1>6

\* A commit of rows keeps the types of rows, requests and the feed.
LEMMA CommitTypes ==
    ASSUME TypeOK, NEW t, NEW new \in [Entries -> Row], NEW told,
           Committed(t, new, told)
    PROVE  /\ row' \in [Entries -> Row]
           /\ task' \in [Tasks -> Task]
           /\ untold' \in SUBSET Entries
<1>1. Idle \in Task
  BY DEF Idle, Task, Place
<1>2. ASSUME NEW u \in Tasks PROVE Reads(u, new) \in Task
  <2>1. task[u] \in Task
    BY DEF TypeOK
  <2>2. FolderAfter(u, new) \in Place
    BY <2>1 DEF FolderAfter, Task, Place
  <2>3. (task[u].late \/ Overtaken(u, new)) \in BOOLEAN
    BY <2>1 DEF Task, Overtaken
  <2> QED BY <2>1, <2>2, <2>3 DEF Reads, Task
<1>3. Changed(new) \subseteq Entries
  BY DEF Changed
<1> QED BY <1>1, <1>2, <1>3 DEF Committed, TypeOK

\* A step that only reads notes what it has read.
LEMMA ReadTypes ==
    ASSUME TypeOK, NEW t \in Tasks, NEW read \in Task, Begin(t, read)
    PROVE  TypeOK'
BY DEF Begin, TypeOK

\* What is recorded of the overlaps has its type.
LEMMA NoteTypes ==
    ASSUME TypeOK, NEW kind \in Mishap, NEW cond, Note(kind, cond)
    PROVE  mishaps' \in SUBSET Mishap
BY DEF Note, TypeOK

\* What the reading steps record are requests.
LEMMA RecordTypes ==
    /\ \A p \in Place :
          /\ [Idle EXCEPT !.pc = "create", !.folder = p] \in Task
          /\ [Idle EXCEPT !.pc = "session", !.folder = p] \in Task
    /\ \A e \in Entries, p \in Place, S \in SUBSET Entries :
          [Idle EXCEPT !.pc = "move", !.entry = e, !.folder = p, !.ids = S] \in Task
    /\ \A e \in Entries, S \in SUBSET Entries :
          /\ [Idle EXCEPT !.pc = "delete", !.entry = e, !.ids = S] \in Task
          /\ [Idle EXCEPT !.pc = "restore", !.entry = e, !.ids = S] \in Task
    /\ \A S \in SUBSET Entries : [Idle EXCEPT !.pc = "purge", !.ids = S] \in Task
BY DEF Idle, Task, Place

\* Every variable keeps its type.
THEOREM FileTreeTypeCorrect == Spec => []TypeOK
<1>1. Init => TypeOK
  <2>1. Absent \in Row /\ Idle \in Task
    BY DEF Absent, Row, Idle, Task, Place
  <2> QED BY <2>1 DEF Init, TypeOK
<1>2. TypeOK /\ [Next]_vars => TypeOK'
  <2> SUFFICES ASSUME TypeOK, [Next]_vars PROVE TypeOK'
    OBVIOUS
  <2>p. Root \in Place /\ (\A p \in Entries \cup {Root} : LiveFolder(p) => p \in Place)
    BY DEF LiveFolder, Place
  <2>e. Live \in SUBSET Entries /\ Trashed \in SUBSET Entries /\ Existing \in SUBSET Entries
    BY Statuses
  <2>b. /\ \A e : Below(e, Live) \in SUBSET Entries
        /\ \A e : Below(e, Trashed) \in SUBSET Entries
        /\ \A e : Below(e, Existing) \in SUBSET Entries
    BY <2>e, BelowFacts
  <2>1. ASSUME NEW t \in Tasks, NEW p \in Entries \cup {Root}, FolderChecked(t, p)
        PROVE  TypeOK'
    BY <2>1, <2>p, ReadTypes, RecordTypes DEF FolderChecked
  <2>2. ASSUME NEW t \in Tasks, NEW p \in Entries \cup {Root}, SessionOpened(t, p)
        PROVE  TypeOK'
    BY <2>2, <2>p, ReadTypes, RecordTypes DEF SessionOpened
  <2>3. ASSUME NEW t \in Tasks, NEW e \in Entries, FolderEnsured(t, e)
        PROVE  TypeOK'
    <3>1. task[t].folder \in Place
      BY DEF TypeOK, Task
    <3>2. NewRow(e, task[t].folder) \in [Entries -> Row]
      BY <3>1, RowTypes
    <3>3. /\ row' \in [Entries -> Row]
          /\ task' \in [Tasks -> Task]
          /\ untold' \in SUBSET Entries
      BY <2>3, <3>2, CommitTypes DEF FolderEnsured
    <3>4. mishaps' \in SUBSET Mishap
      BY <2>3, NoteTypes DEF FolderEnsured, Mishap
    <3>5. silent' \in SUBSET Folders
      BY <2>3 DEF FolderEnsured, TypeOK
    <3> QED BY <3>3, <3>4, <3>5 DEF TypeOK
  <2>4. ASSUME NEW t \in Tasks, NEW e \in Entries, Created(t, e)
        PROVE  TypeOK'
    <3>1. task[t].folder \in Place
      BY DEF TypeOK, Task
    <3>2. NewRow(e, task[t].folder) \in [Entries -> Row]
      BY <3>1, RowTypes
    <3>3. /\ row' \in [Entries -> Row]
          /\ task' \in [Tasks -> Task]
          /\ untold' \in SUBSET Entries
      BY <2>4, <3>2, CommitTypes DEF Created
    <3>4. mishaps' \in SUBSET Mishap
      BY <2>4, NoteTypes DEF Created, Mishap
    <3>5. silent' \in SUBSET Folders
      BY <2>4 DEF Created, TypeOK
    <3> QED BY <3>3, <3>4, <3>5 DEF TypeOK
  <2>5. ASSUME NEW t \in Tasks, NEW e \in Entries, NEW p \in Entries \cup {Root},
               MoveChecked(t, e, p)
        PROVE  TypeOK'
    <3>1. Above(p) \in SUBSET Entries
      BY <2>e DEF Above
    <3> QED BY <2>5, <2>p, <3>1, ReadTypes, RecordTypes DEF MoveChecked
  <2>6. ASSUME NEW t \in Tasks, Moved(t) PROVE TypeOK'
    <3>1. task[t].folder \in Place /\ task[t].entry \in Entries \cup {None}
      BY DEF TypeOK, Task
    <3>2. [row EXCEPT ![task[t].entry].parent = task[t].folder] \in [Entries -> Row]
      <4>1. CASE task[t].entry \in Entries
        BY <3>1, <4>1, RowTypes
      <4>2. CASE task[t].entry \notin Entries
        BY <4>2 DEF TypeOK
      <4> QED BY <4>1, <4>2
    <3>3. /\ row' \in [Entries -> Row]
          /\ task' \in [Tasks -> Task]
          /\ untold' \in SUBSET Entries
      BY <2>6, <3>2, CommitTypes DEF Moved
    <3>4. mishaps' \in SUBSET Mishap
      BY <2>6 DEF Moved, Mishap, TypeOK
    <3>5. silent' \in SUBSET Folders
      BY <2>6 DEF Moved, TypeOK
    <3> QED BY <3>3, <3>4, <3>5 DEF TypeOK
  <2>7. ASSUME NEW t \in Tasks, NEW e \in Entries, DeleteRead(t, e) PROVE TypeOK'
    BY <2>7, <2>b, ReadTypes, RecordTypes DEF DeleteRead
  <2>8. ASSUME NEW t \in Tasks, DeleteCommitted(t) PROVE TypeOK'
    <3>1. Deleted(task[t].entry) \in SUBSET Entries
      BY <2>b DEF Deleted
    <3>2. /\ row' \in [Entries -> Row]
          /\ task' \in [Tasks -> Task]
          /\ untold' \in SUBSET Entries
      BY <2>8, <3>1, RowTypes, CommitTypes DEF DeleteCommitted
    <3>3. mishaps' \in SUBSET Mishap
      BY <2>8, NoteTypes DEF DeleteCommitted, Mishap
    <3> QED BY <2>8, <3>2, <3>3 DEF DeleteCommitted, TypeOK
  <2>9. ASSUME NEW t \in Tasks, NEW e \in Entries, RestoreRead(t, e) PROVE TypeOK'
    BY <2>9, <2>b, ReadTypes, RecordTypes DEF RestoreRead
  <2>10. ASSUME NEW t \in Tasks, RestoreCommitted(t) PROVE TypeOK'
    <3>1. /\ row' \in [Entries -> Row]
          /\ task' \in [Tasks -> Task]
          /\ untold' \in SUBSET Entries
      BY <2>10, <2>b, RowTypes, CommitTypes DEF RestoreCommitted
    <3>2. mishaps' \in SUBSET Mishap
      BY <2>10 DEF RestoreCommitted, Mishap, TypeOK
    <3> QED BY <2>10, <3>1, <3>2 DEF RestoreCommitted, TypeOK
  <2>11. ASSUME NEW t \in Tasks, NEW e \in Entries, PurgeRead(t, e) PROVE TypeOK'
    BY <2>11, <2>b, ReadTypes, RecordTypes DEF PurgeRead
  <2>12. ASSUME NEW t \in Tasks, PurgeCommitted(t) PROVE TypeOK'
    <3>1. task[t].ids \in SUBSET Entries
      BY DEF TypeOK, Task
    <3>2. /\ row' \in [Entries -> Row]
          /\ task' \in [Tasks -> Task]
          /\ untold' \in SUBSET Entries
      BY <2>12, <3>1, RowTypes, CommitTypes DEF PurgeCommitted
    <3>3. mishaps' \in SUBSET Mishap
      BY <2>12, NoteTypes DEF PurgeCommitted, Mishap
    <3> QED BY <2>12, <3>2, <3>3 DEF PurgeCommitted, TypeOK
  <2>13. ASSUME NEW t \in Tasks, GivesUp(t) PROVE TypeOK'
    BY <2>13 DEF GivesUp, TypeOK, Idle, Task, Place
  <2>14. ASSUME NEW e \in Entries, Rename(e) PROVE TypeOK'
    BY <2>14 DEF Rename, TypeOK
  <2>15. CASE UNCHANGED vars
    BY <2>15 DEF vars, TypeOK
  <2> QED
    BY <2>1, <2>2, <2>3, <2>4, <2>5, <2>6, <2>7, <2>8, <2>9, <2>10, <2>11, <2>12,
       <2>13, <2>14, <2>15 DEF Next
<1> QED BY <1>1, <1>2, PTL DEF Spec

-----------------------------------------------------------------------------
(* The tree the user sees hangs together                                   *)

Clean == {"stale", "late"} \cap mishaps = {}

LiveHangs == \A e \in Live : LiveFolder(row[e].parent)

\* A purge that nothing has overtaken deletes only what is in the trash.
PurgesTrash ==
    \A t \in Tasks : task[t].pc = "purge" /\ ~task[t].late => task[t].ids \cap Live = {}

TreeInv == Clean => LiveHangs /\ PurgesTrash

\* While the live entries hang together, none of them is below a trashed one.
LEMMA NothingLiveBelowTrash ==
    ASSUME TypeOK, LiveHangs, NEW e \in Trashed
    PROVE  Below(e, Existing) \cap Live = {}
<1> DEFINE B == Below(e, Existing)
           T == B \ Live
<1>1. /\ B \subseteq Existing
      /\ e \in Existing => e \in B
      /\ \A c \in Existing : row[c].parent \in B => c \in B
      /\ \A S \in SUBSET Existing :
            e \in S /\ (\A c \in Existing : row[c].parent \in S => c \in S) => B \subseteq S
  BY BelowFacts
<1>2. e \in T
  BY <1>1, Statuses DEF Existing
<1>3. ASSUME NEW c \in Existing, row[c].parent \in T PROVE c \in T
  <2>1. c \in B
    BY <1>1, <1>3
  <2>2. row[c].parent \in Entries /\ row[c].parent \notin Live
    BY <1>1, <1>3, Statuses
  <2>3. c \notin Live
    BY <2>2, TreeConstants DEF LiveHangs, LiveFolder
  <2> QED BY <2>1, <2>3
<1>4. T \in SUBSET Existing
  BY <1>1
<1>5. B \subseteq T
  BY <1>1, <1>2, <1>3, <1>4
<1> QED BY <1>5

\* A commit leaves alone what a purge has read unless it overtakes it.
LEMMA PurgeKept ==
    ASSUME TypeOK, PurgesTrash, NEW t, NEW new \in [Entries -> Row], NEW told,
           Committed(t, new, told)
    PROVE  PurgesTrash'
<1> SUFFICES ASSUME NEW u \in Tasks, (task[u].pc = "purge" /\ ~task[u].late)'
             PROVE  task'[u].ids \cap Live' = {}
  BY DEF PurgesTrash
<1>1. task'[u] = Reads(u, new)
  BY DEF Committed, Idle
<1>2. task[u] \in Task
  BY DEF TypeOK
<1>3. /\ task[u].pc = "purge" /\ task'[u].ids = task[u].ids
      /\ ~task[u].late /\ ~Overtaken(u, new)
  BY <1>1, <1>2 DEF Reads, Task, Overtaken
<1>4. \A e \in Changed(new) : e \notin task[u].ids
  BY <1>3 DEF Overtaken
<1>5. task[u].ids \cap Live = {}
  BY <1>3 DEF PurgesTrash
<1>6. row' = new
  BY DEF Committed
<1> QED BY <1>3, <1>4, <1>5, <1>6 DEF Changed, Live

\* A live folder stays one when what becomes of the tree keeps it live.
LEMMA LiveFolderKept ==
    ASSUME NEW p, LiveFolder(p), p \in Live => p \in Live'
    PROVE  LiveFolder(p)'
BY DEF LiveFolder

\* A commit that puts e live into a live folder keeps the tree together.
LEMMA PlacedHangs ==
    ASSUME TypeOK, LiveHangs, NEW e \in Entries, NEW p \in Place, LiveFolder(p),
           row' \in [Entries -> Row],
           row'[e] = [status |-> "live", parent |-> p],
           \A d \in Entries \ {e} : row'[d] = row[d]
    PROVE  LiveHangs'
<1>1. Live' = Live \cup {e}
  BY DEF Live
<1> SUFFICES ASSUME NEW d \in Live' PROVE LiveFolder(row[d].parent)'
  BY DEF LiveHangs
<1>2. CASE d = e
  BY <1>1, <1>2, LiveFolderKept
<1>3. CASE d # e
  <2>1. d \in Live /\ row'[d] = row[d]
    BY <1>1, <1>3 DEF Live
  <2>2. LiveFolder(row[d].parent)
    BY <2>1 DEF LiveHangs
  <2> QED BY <1>1, <2>1, <2>2, LiveFolderKept
<1> QED BY <1>2, <1>3

\* Trashing a subtree keeps the rest of the tree together.
LEMMA DeletedHangs ==
    ASSUME TypeOK, LiveHangs, NEW e, row' = WithStatus(Deleted(e), "trashed")
    PROVE  LiveHangs'
<1> DEFINE B == Below(e, Live)
<1>1. /\ B \subseteq Live
      /\ \A c \in Live : row[c].parent \in B => c \in B
  BY BelowFacts
<1>2. \A d \in Entries : row'[d].parent = row[d].parent
  BY DEF WithStatus, Deleted, TypeOK, Row
<1>3. Live' = Live \ B
  BY DEF WithStatus, Deleted, TypeOK, Row, Live
<1> SUFFICES ASSUME NEW d \in Live' PROVE LiveFolder(row[d].parent)'
  BY DEF LiveHangs
<1>4. d \in Live /\ d \notin B
  BY <1>3
<1>5. LiveFolder(row[d].parent) /\ row[d].parent \notin B
  BY <1>1, <1>4 DEF LiveHangs
<1>6. row[d].parent \in Live => row[d].parent \in Live'
  BY <1>3, <1>5
<1>7. row'[d].parent = row[d].parent
  BY <1>2, <1>4, Statuses
<1> QED BY <1>5, <1>6, <1>7, LiveFolderKept

\* Every entry of a restored subtree but its top comes back with its folder.
LEMMA RestoredWithFolder ==
    ASSUME NEW e
    PROVE  \A d \in Below(e, Trashed) : d = e \/ row[d].parent \in Below(e, Trashed)
<1> DEFINE B == Below(e, Trashed)
           T == {d \in B : d = e \/ row[d].parent \in B}
<1>1. /\ B \subseteq Trashed
      /\ e \in Trashed => e \in B
      /\ \A c \in Trashed : row[c].parent \in B => c \in B
      /\ \A S \in SUBSET Trashed :
            e \in S /\ (\A c \in Trashed : row[c].parent \in S => c \in S) => B \subseteq S
  BY BelowFacts
<1>2. CASE e \in Trashed
  <2>1. e \in T
    BY <1>1, <1>2
  <2>2. ASSUME NEW c \in Trashed, row[c].parent \in T PROVE c \in T
    BY <1>1, <2>2
  <2>3. B \subseteq T
    BY <1>1, <2>1, <2>2
  <2> QED BY <2>3
<1>3. CASE e \notin Trashed
  BY <1>3 DEF Below
<1> QED BY <1>2, <1>3

\* Restoring a subtree whose folder is live keeps the tree together: every
\* other entry of the subtree comes back with its folder.
LEMMA RestoredHangs ==
    ASSUME TypeOK, LiveHangs, NEW e, e \in Trashed => LiveFolder(row[e].parent),
           row' = WithStatus(Below(e, Trashed), "live")
    PROVE  LiveHangs'
<1> DEFINE B == Below(e, Trashed)
<1>1. /\ B \subseteq Trashed
      /\ e \in Trashed => e \in B
      /\ \A c \in Trashed : row[c].parent \in B => c \in B
  BY BelowFacts
<1>2. \A d \in Entries : row'[d].parent = row[d].parent
  BY DEF WithStatus, TypeOK, Row
<1>3. Live' = Live \cup B
  BY <1>1, Statuses DEF WithStatus, TypeOK, Row, Live
<1>4. \A d \in B : d = e \/ row[d].parent \in B
  BY RestoredWithFolder
<1> SUFFICES ASSUME NEW d \in Live' PROVE LiveFolder(row[d].parent)'
  BY DEF LiveHangs
<1>5. row'[d].parent = row[d].parent
  BY <1>2, <1>3, <1>1, Statuses
<1>6. CASE d \in B /\ row[d].parent \in B
  <2>1. row[d].parent \in Folders /\ row[d].parent \in Live'
    BY <1>1, <1>3, <1>6, Statuses, ParentIsFolder
  <2> QED BY <1>5, <2>1 DEF LiveFolder
<1>7. CASE d \in Live \/ (d = e /\ d \in B)
  <2>1. LiveFolder(row[d].parent)
    BY <1>1, <1>7 DEF LiveHangs
  <2> QED BY <1>3, <1>5, <2>1, LiveFolderKept
<1>8. d \in Live \/ d \in B
  BY <1>3
<1> QED BY <1>4, <1>6, <1>7, <1>8

\* Purging what is in the trash keeps the tree together.
LEMMA PurgedHangs ==
    ASSUME TypeOK, LiveHangs, NEW S \in SUBSET Entries, S \cap Live = {},
           row' = WithoutRows(S)
    PROVE  LiveHangs' /\ \A d \in Live : row'[d].status # "purged"
<1>1. ASSUME NEW d \in Live
      PROVE  row'[d].status = "live" /\ row'[d].parent = row[d].parent
  <2>1. d \in Entries /\ d \notin S /\ row[d].status = "live"
    BY <1>1 DEF Live
  <2>2. row[d].parent \notin S
    BY <1>1, TreeConstants DEF LiveHangs, LiveFolder
  <2> QED BY <2>1, <2>2 DEF WithoutRows
<1>2. ASSUME NEW d \in Entries, d \notin Live PROVE row'[d].status # "live"
  BY <1>2 DEF WithoutRows, Live, Purged, TypeOK, Row
<1>3. Live' = Live
  BY <1>1, <1>2, Statuses DEF Live
<1> QED BY <1>1, <1>3, LiveFolderKept DEF LiveHangs

\* A step that only reads keeps the tree; if it starts a purge, the entries it
\* has read are in the trash.
LEMMA ReadKeepsTree ==
    ASSUME TypeOK, TreeInv, NEW t \in Tasks, NEW read, Begin(t, read),
           Clean => (read.pc = "purge" => read.ids \cap Live = {})
    PROVE  TreeInv'
<1> SUFFICES ASSUME Clean' PROVE LiveHangs' /\ PurgesTrash'
  BY DEF TreeInv
<1>1. Clean /\ LiveHangs /\ PurgesTrash /\ row' = row
  BY DEF Begin, Clean, TreeInv
<1>2. LiveHangs'
  BY <1>1 DEF LiveHangs, LiveFolder, Live
<1>3. Live' = Live
  BY <1>1 DEF Live
<1>4. \A u \in Tasks : task'[u] = IF u = t THEN read ELSE task[u]
  BY DEF Begin, TypeOK
<1>5. PurgesTrash'
  BY <1>1, <1>3, <1>4 DEF PurgesTrash
<1> QED BY <1>2, <1>5

\* No kind of overlap is forgotten.
LEMMA CleanBefore ==
    ASSUME NEW t \in Tasks,
           \/ \E e \in Entries : FolderEnsured(t, e) \/ Created(t, e)
           \/ Moved(t) \/ DeleteCommitted(t) \/ RestoreCommitted(t) \/ PurgeCommitted(t),
           Clean'
    PROVE  Clean
BY DEF FolderEnsured, Created, Moved, DeleteCommitted, RestoreCommitted, PurgeCommitted,
       Note, Clean

\* The steps that commit keep TreeInv; a purge that may destroy something live
\* is noted.
LEMMA CommitKeepsTree ==
    ASSUME TypeOK, TreeInv, TypeOK', NEW t \in Tasks,
           \/ \E e \in Entries : FolderEnsured(t, e) \/ Created(t, e)
           \/ Moved(t) \/ DeleteCommitted(t) \/ RestoreCommitted(t) \/ PurgeCommitted(t),
           Clean'
    PROVE  /\ LiveHangs' /\ PurgesTrash'
           /\ \A d \in Live : row'[d].status # "purged"
<1>1. Clean
  BY CleanBefore
<1>2. LiveHangs /\ PurgesTrash
  BY <1>1 DEF TreeInv
<1>3. row' \in [Entries -> Row] /\ task[t] \in Task
  BY DEF TypeOK
<1>4. PurgesTrash'
  <2>1. \A new \in [Entries -> Row] : \A told : Committed(t, new, told) => PurgesTrash'
    BY <1>2, PurgeKept
  <2>2. \E new, told : Committed(t, new, told)
    BY DEF FolderEnsured, Created, Moved, DeleteCommitted, RestoreCommitted, PurgeCommitted
  <2>3. \A new, told : Committed(t, new, told) => new \in [Entries -> Row]
    BY <1>3 DEF Committed
  <2> QED BY <2>1, <2>2, <2>3
<1>5. ASSUME NEW e \in Entries, FolderEnsured(t, e) \/ Created(t, e)
      PROVE  LiveHangs' /\ \A d \in Live : row'[d].status # "purged"
  <2>1. /\ row[e] = Absent
        /\ row' = NewRow(e, task[t].folder)
        /\ Note("stale", ~LiveFolder(task[t].folder))
    BY <1>5 DEF FolderEnsured, Created, Committed
  <2>2. LiveFolder(task[t].folder)
    BY <2>1 DEF Note, Clean
  <2>3. /\ row'[e] = [status |-> "live", parent |-> task[t].folder]
        /\ \A d \in Entries \ {e} : row'[d] = row[d]
    BY <2>1 DEF NewRow, TypeOK
  <2>4. task[t].folder \in Place
    BY <1>3 DEF Task
  <2>5. LiveHangs'
    BY <1>2, <1>3, <2>2, <2>3, <2>4, PlacedHangs
  <2>6. \A d \in Live : row'[d].status # "purged"
    BY <2>3 DEF Live
  <2> QED BY <2>5, <2>6
<1>6. ASSUME Moved(t)
      PROVE  LiveHangs' /\ \A d \in Live : row'[d].status # "purged"
  <2> DEFINE e == task[t].entry
             p == task[t].folder
  <2>1. /\ row[e].status = "live"
        /\ row' = [row EXCEPT ![e].parent = p]
    BY <1>6 DEF Moved, Committed
  <2>2. LiveFolder(p)
    BY <1>6 DEF Moved, Clean
  <2>3. p \in Place
    BY <1>3 DEF Task
  <2>4. CASE e \in Entries
    <3>1. row'[e] = [status |-> "live", parent |-> p]
      BY <2>1, <2>4 DEF TypeOK, Row
    <3>2. \A d \in Entries \ {e} : row'[d] = row[d]
      BY <2>1 DEF TypeOK
    <3>3. LiveHangs'
      BY <1>2, <1>3, <2>2, <2>3, <2>4, <3>1, <3>2, PlacedHangs
    <3>4. \A d \in Live : row'[d].status # "purged"
      BY <3>1, <3>2 DEF Live
    <3> QED BY <3>3, <3>4
  <2>5. CASE e \notin Entries
    <3>1. row' = row
      BY <2>1, <2>5 DEF TypeOK
    <3> QED BY <1>2, <3>1 DEF LiveHangs, LiveFolder, Live
  <2> QED BY <2>4, <2>5
<1>7. ASSUME DeleteCommitted(t)
      PROVE  LiveHangs' /\ \A d \in Live : row'[d].status # "purged"
  <2>1. row' = WithStatus(Deleted(task[t].entry), "trashed")
    BY <1>7 DEF DeleteCommitted, Committed
  <2>2. LiveHangs'
    BY <1>2, <2>1, DeletedHangs
  <2>3. \A d \in Live : row'[d].status # "purged"
    BY <2>1 DEF WithStatus, Live, TypeOK, Row
  <2> QED BY <2>2, <2>3
<1>8. ASSUME RestoreCommitted(t)
      PROVE  LiveHangs' /\ \A d \in Live : row'[d].status # "purged"
  <2> DEFINE e == task[t].entry
  <2>1. /\ row' = WithStatus(Below(e, Trashed), "live")
        /\ e \in Trashed => LiveFolder(row[e].parent)
    BY <1>8 DEF RestoreCommitted, Committed, Clean
  <2>2. LiveHangs'
    BY <1>2, <2>1, RestoredHangs
  <2>3. \A d \in Live : row'[d].status # "purged"
    BY <2>1 DEF WithStatus, Live, TypeOK, Row
  <2> QED BY <2>2, <2>3
<1>9. ASSUME PurgeCommitted(t)
      PROVE  LiveHangs' /\ \A d \in Live : row'[d].status # "purged"
  <2>1. /\ task[t].pc = "purge"
        /\ row' = WithoutRows(task[t].ids)
        /\ Note("late", task[t].late)
    BY <1>9 DEF PurgeCommitted, Committed
  <2>2. ~task[t].late
    BY <2>1 DEF Note, Clean
  <2>3. task[t].ids \cap Live = {} /\ task[t].ids \in SUBSET Entries
    BY <1>2, <1>3, <2>1, <2>2 DEF PurgesTrash, Task
  <2> QED BY <1>2, <2>1, <2>3, PurgedHangs
<1> QED BY <1>4, <1>5, <1>6, <1>7, <1>8, <1>9

\* TreeInv, and what a step may do to live entries, hold along every step.
LEMMA TreeStep ==
    ASSUME TypeOK, TypeOK', TreeInv, [Next]_vars
    PROVE  /\ TreeInv'
           /\ Clean' => \A d \in Live : row'[d].status # "purged"
<1>1. ASSUME NEW t \in Tasks, NEW p \in Entries \cup {Root},
             FolderChecked(t, p) \/ SessionOpened(t, p) \/ \E e \in Entries : MoveChecked(t, e, p)
      PROVE  TreeInv' /\ row' = row
  <2>1. PICK read : Begin(t, read) /\ read.pc # "purge"
    <3>1. CASE FolderChecked(t, p)
      <4>1. Begin(t, [Idle EXCEPT !.pc = "create", !.folder = p])
        BY <3>1 DEF FolderChecked
      <4>2. [Idle EXCEPT !.pc = "create", !.folder = p].pc # "purge"
        BY DEF Idle
      <4> QED BY <4>1, <4>2
    <3>2. CASE SessionOpened(t, p)
      <4>1. Begin(t, [Idle EXCEPT !.pc = "session", !.folder = p])
        BY <3>2 DEF SessionOpened
      <4>2. [Idle EXCEPT !.pc = "session", !.folder = p].pc # "purge"
        BY DEF Idle
      <4> QED BY <4>1, <4>2
    <3>3. ASSUME NEW e \in Entries, MoveChecked(t, e, p)
          PROVE  \E read : Begin(t, read) /\ read.pc # "purge"
      <4>1. Begin(t, [Idle EXCEPT !.pc = "move", !.entry = e, !.folder = p, !.ids = Above(p)])
        BY <3>3 DEF MoveChecked
      <4>2. [Idle EXCEPT !.pc = "move", !.entry = e, !.folder = p, !.ids = Above(p)].pc # "purge"
        BY DEF Idle
      <4> QED BY <4>1, <4>2
    <3> QED BY <1>1, <3>1, <3>2, <3>3
  <2> QED BY <2>1, ReadKeepsTree DEF Begin
<1>2. ASSUME NEW t \in Tasks, NEW e \in Entries, DeleteRead(t, e) \/ RestoreRead(t, e)
      PROVE  TreeInv' /\ row' = row
  <2>1. PICK read : Begin(t, read) /\ read.pc # "purge"
    <3>1. CASE DeleteRead(t, e)
      <4>1. Begin(t, [Idle EXCEPT !.pc = "delete", !.entry = e, !.ids = Below(e, Live)])
        BY <3>1 DEF DeleteRead
      <4>2. [Idle EXCEPT !.pc = "delete", !.entry = e, !.ids = Below(e, Live)].pc # "purge"
        BY DEF Idle
      <4> QED BY <4>1, <4>2
    <3>2. CASE RestoreRead(t, e)
      <4>1. Begin(t, [Idle EXCEPT !.pc = "restore", !.entry = e, !.ids = Below(e, Trashed)])
        BY <3>2 DEF RestoreRead
      <4>2. [Idle EXCEPT !.pc = "restore", !.entry = e, !.ids = Below(e, Trashed)].pc # "purge"
        BY DEF Idle
      <4> QED BY <4>1, <4>2
    <3> QED BY <1>2, <3>1, <3>2
  <2> QED BY <2>1, ReadKeepsTree DEF Begin
<1>3. ASSUME NEW t \in Tasks, NEW e \in Entries, PurgeRead(t, e)
      PROVE  TreeInv' /\ row' = row
  <2> DEFINE read == [Idle EXCEPT !.pc = "purge", !.ids = Below(e, Existing)]
  <2>1. Begin(t, read) /\ e \in Trashed /\ read.ids = Below(e, Existing)
    BY <1>3 DEF PurgeRead, Idle
  <2>2. Clean => read.ids \cap Live = {}
    BY <2>1, NothingLiveBelowTrash DEF TreeInv
  <2> QED BY <2>1, <2>2, ReadKeepsTree DEF Begin
<1>4. ASSUME NEW t \in Tasks,
             \/ \E e \in Entries : FolderEnsured(t, e) \/ Created(t, e)
             \/ Moved(t) \/ DeleteCommitted(t) \/ RestoreCommitted(t) \/ PurgeCommitted(t)
      PROVE  TreeInv' /\ (Clean' => \A d \in Live : row'[d].status # "purged")
  BY <1>4, CommitKeepsTree DEF TreeInv
<1>5. ASSUME NEW t \in Tasks, GivesUp(t) PROVE TreeInv' /\ row' = row
  <2>1. Begin(t, Idle) /\ Idle.pc # "purge"
    BY <1>5 DEF GivesUp, Begin, Idle
  <2> QED BY <2>1, ReadKeepsTree DEF Begin
<1>6. ASSUME (\E e \in Entries : Rename(e)) \/ UNCHANGED vars PROVE TreeInv' /\ row' = row
  <2>1. row' = row /\ task' = task /\ mishaps' = mishaps
    BY <1>6 DEF Rename, vars
  <2> QED BY <2>1 DEF TreeInv, Clean, LiveHangs, LiveFolder, PurgesTrash, Live
<1>7. row' = row => \A d \in Live : row'[d].status # "purged"
  BY DEF Live
<1> QED BY <1>1, <1>2, <1>3, <1>4, <1>5, <1>6, <1>7 DEF Next

\* What the user sees hangs together, while nothing was put into a folder that
\* had left the tree and no deletion was overtaken.
THEOREM FileTreeLiveReachable == Spec => []LiveReachable
<1>1. Init => TreeInv
  BY DEF Init, TreeInv, LiveHangs, PurgesTrash, Live, Absent, Idle
<1>2. TypeOK /\ TypeOK' /\ TreeInv /\ [Next]_vars => TreeInv'
  BY TreeStep
<1>3. TreeInv => LiveReachable
  BY DEF TreeInv, LiveReachable, LiveHangs, Clean
<1> QED BY <1>1, <1>2, <1>3, FileTreeTypeCorrect, PTL DEF Spec

\* A purge destroys nothing that is not in the trash.
THEOREM FileTreePurgeOnlyTrash == Spec => PurgeOnlyTrash
<1>1. Init => TreeInv
  BY DEF Init, TreeInv, LiveHangs, PurgesTrash, Live, Absent, Idle
<1>2. TypeOK /\ TypeOK' /\ TreeInv /\ [Next]_vars => TreeInv'
  BY TreeStep
<1>3. TypeOK /\ TypeOK' /\ TreeInv /\ [Next]_vars =>
        [{"stale", "late"} \cap mishaps' = {} =>
            \A e \in Live : row'[e].status # "purged"]_vars
  BY TreeStep DEF Clean
<1> QED BY <1>1, <1>2, <1>3, FileTreeTypeCorrect, PTL DEF Spec, PurgeOnlyTrash

-----------------------------------------------------------------------------
(* The feed tells the tree                                                 *)

\* An entry that is not there has no folder.
GoneHaveNoParent == \A e \in Entries \ Existing : row[e].parent = Nowhere

ClosedIn(ids, S) == \A c \in S : row[c].parent \in ids => c \in ids

\* What a request has read is a whole subtree until it is overtaken.
ReadsClosed ==
    \A t \in Tasks : ~task[t].late =>
        /\ task[t].pc = "delete"  => task[t].entry \in task[t].ids /\ ClosedIn(task[t].ids, Live)
        /\ task[t].pc = "restore" => task[t].entry \in task[t].ids /\ ClosedIn(task[t].ids, Trashed)
        /\ task[t].pc = "purge"   => ClosedIn(task[t].ids, Existing)

FeedInv == GoneHaveNoParent /\ ReadsClosed /\ FeedTellsTree

\* A commit leaves alone the subtrees that others have read, or overtakes them.
LEMMA ReadsKept ==
    ASSUME TypeOK, ReadsClosed, NEW t, NEW new \in [Entries -> Row], NEW told,
           Committed(t, new, told)
    PROVE  ReadsClosed'
<1> SUFFICES ASSUME NEW u \in Tasks, ~task'[u].late,
                    task'[u].pc \in {"delete", "restore", "purge"}
             PROVE  (/\ task[u].pc = "delete"  => task[u].entry \in task[u].ids /\ ClosedIn(task[u].ids, Live)
                     /\ task[u].pc = "restore" => task[u].entry \in task[u].ids /\ ClosedIn(task[u].ids, Trashed)
                     /\ task[u].pc = "purge"   => ClosedIn(task[u].ids, Existing))'
  BY DEF ReadsClosed
<1>1. task'[u] = Reads(u, new) /\ row' = new
  BY DEF Committed, Idle
<1>2. task[u] \in Task
  BY DEF TypeOK
<1>3. /\ task'[u].pc = task[u].pc /\ task'[u].ids = task[u].ids
      /\ task'[u].entry = task[u].entry
      /\ ~task[u].late /\ ~Overtaken(u, new)
  BY <1>1, <1>2 DEF Reads, Task, Overtaken
<1>4. \A e \in Entries : new[e].parent \in task[u].ids => row'[e] = row[e]
  BY <1>1, <1>3 DEF Overtaken, Changed
<1>5. ASSUME ClosedIn(task[u].ids, Live) PROVE ClosedIn(task[u].ids, Live)'
  BY <1>1, <1>3, <1>4, <1>5 DEF ClosedIn, Live
<1>6. ASSUME ClosedIn(task[u].ids, Trashed) PROVE ClosedIn(task[u].ids, Trashed)'
  BY <1>1, <1>3, <1>4, <1>6 DEF ClosedIn, Trashed
<1>7. ASSUME ClosedIn(task[u].ids, Existing) PROVE ClosedIn(task[u].ids, Existing)'
  BY <1>1, <1>3, <1>4, <1>7 DEF ClosedIn, Existing, Live, Trashed
<1> QED BY <1>3, <1>5, <1>6, <1>7 DEF ReadsClosed

\* A step that only reads keeps FeedInv if what it has read is a whole subtree.
LEMMA ReadKeepsFeed ==
    ASSUME TypeOK, FeedInv, NEW t \in Tasks, NEW read, Begin(t, read),
           /\ read.pc = "delete"  => read.entry \in read.ids /\ ClosedIn(read.ids, Live)
           /\ read.pc = "restore" => read.entry \in read.ids /\ ClosedIn(read.ids, Trashed)
           /\ read.pc = "purge"   => ClosedIn(read.ids, Existing)
    PROVE  FeedInv'
<1>1. row' = row /\ untold' = untold /\ silent' = silent /\ mishaps' = mishaps
  BY DEF Begin
<1>2. \A u \in Tasks : task'[u] = IF u = t THEN read ELSE task[u]
  BY DEF Begin, TypeOK
<1>3. Live' = Live /\ Trashed' = Trashed /\ Existing' = Existing
  BY <1>1 DEF Live, Trashed, Existing
<1>4. ReadsClosed'
  BY <1>1, <1>2, <1>3 DEF FeedInv, ReadsClosed, ClosedIn
<1>5. GoneHaveNoParent' /\ FeedTellsTree'
  BY <1>1, <1>3 DEF FeedInv, GoneHaveNoParent, FeedTellsTree
<1> QED BY <1>4, <1>5 DEF FeedInv

\* A commit keeps FeedInv when, unless it was overtaken, it tells every entry
\* that it changes or adds it to the silent ones.
LEMMA CommitKeepsFeed ==
    ASSUME TypeOK, FeedInv, NEW t, NEW new \in [Entries -> Row], NEW told,
           Committed(t, new, told),
           \A e \in Entries : new[e].status \notin {"live", "trashed"} => new[e].parent = Nowhere,
           silent \subseteq silent',
           "late" \notin mishaps' => "late" \notin mishaps /\ Changed(new) \subseteq told \cup silent'
    PROVE  FeedInv'
<1>1. ReadsClosed'
  BY ReadsKept DEF FeedInv
<1>2. row' = new /\ untold' = (untold \cup Changed(new)) \ told
  BY DEF Committed
<1>3. GoneHaveNoParent'
  BY <1>2 DEF GoneHaveNoParent, Existing, Live, Trashed
<1>4. FeedTellsTree'
  BY <1>2 DEF FeedTellsTree, FeedInv
<1> QED BY <1>1, <1>3, <1>4 DEF FeedInv

\* FeedInv holds along every step.
LEMMA FeedStep ==
    ASSUME TypeOK, FeedInv, [Next]_vars
    PROVE  FeedInv'
<1>g. GoneHaveNoParent /\ ReadsClosed
  BY DEF FeedInv
<1>s. \A e \in Entries : row[e].status \notin {"live", "trashed"} => row[e].parent = Nowhere
  BY <1>g DEF GoneHaveNoParent, Existing, Live, Trashed
<1>t. row \in [Entries -> Row] /\ \A t \in Tasks : task[t] \in Task
  BY DEF TypeOK
<1>1. ASSUME NEW t \in Tasks, NEW p \in Entries \cup {Root}, FolderChecked(t, p) PROVE FeedInv'
  <2> DEFINE read == [Idle EXCEPT !.pc = "create", !.folder = p]
  <2>1. read.pc = "create"
    BY DEF Idle
  <2> HIDE DEF read
  <2> QED BY <1>1, <2>1, ReadKeepsFeed DEF FolderChecked, read
<1>2. ASSUME NEW t \in Tasks, NEW p \in Entries \cup {Root}, SessionOpened(t, p) PROVE FeedInv'
  <2> DEFINE read == [Idle EXCEPT !.pc = "session", !.folder = p]
  <2>1. read.pc = "session"
    BY DEF Idle
  <2> HIDE DEF read
  <2> QED BY <1>2, <2>1, ReadKeepsFeed DEF SessionOpened, read
<1>3. ASSUME NEW t \in Tasks, NEW e \in Entries, NEW p \in Entries \cup {Root}, MoveChecked(t, e, p)
      PROVE  FeedInv'
  <2> DEFINE read == [Idle EXCEPT !.pc = "move", !.entry = e, !.folder = p, !.ids = Above(p)]
  <2>1. read.pc = "move"
    BY DEF Idle
  <2> HIDE DEF read
  <2> QED BY <1>3, <2>1, ReadKeepsFeed DEF MoveChecked, read
<1>4. ASSUME NEW t \in Tasks, NEW e \in Entries, DeleteRead(t, e) PROVE FeedInv'
  <2> DEFINE read == [Idle EXCEPT !.pc = "delete", !.entry = e, !.ids = Below(e, Live)]
  <2>1. read.pc = "delete" /\ read.entry = e /\ read.ids = Below(e, Live)
    BY DEF Idle
  <2>2. e \in Below(e, Live) /\ ClosedIn(Below(e, Live), Live)
    BY <1>4, BelowFacts DEF DeleteRead, ClosedIn
  <2> HIDE DEF read
  <2> QED BY <1>4, <2>1, <2>2, ReadKeepsFeed DEF DeleteRead, read
<1>5. ASSUME NEW t \in Tasks, NEW e \in Entries, RestoreRead(t, e) PROVE FeedInv'
  <2> DEFINE read == [Idle EXCEPT !.pc = "restore", !.entry = e, !.ids = Below(e, Trashed)]
  <2>1. read.pc = "restore" /\ read.entry = e /\ read.ids = Below(e, Trashed)
    BY DEF Idle
  <2>2. e \in Below(e, Trashed) /\ ClosedIn(Below(e, Trashed), Trashed)
    BY <1>5, BelowFacts DEF RestoreRead, Restorable, ClosedIn
  <2> HIDE DEF read
  <2> QED BY <1>5, <2>1, <2>2, ReadKeepsFeed DEF RestoreRead, read
<1>6. ASSUME NEW t \in Tasks, NEW e \in Entries, PurgeRead(t, e) PROVE FeedInv'
  <2> DEFINE read == [Idle EXCEPT !.pc = "purge", !.ids = Below(e, Existing)]
  <2>1. read.pc = "purge" /\ read.ids = Below(e, Existing)
    BY DEF Idle
  <2>2. ClosedIn(Below(e, Existing), Existing)
    BY BelowFacts DEF ClosedIn
  <2> HIDE DEF read
  <2> QED BY <1>6, <2>1, <2>2, ReadKeepsFeed DEF PurgeRead, read
<1>7. ASSUME NEW t \in Tasks, NEW e \in Entries, FolderEnsured(t, e) \/ Created(t, e) PROVE FeedInv'
  <2> DEFINE new == NewRow(e, task[t].folder)
  <2>1. new \in [Entries -> Row]
    BY <1>t, RowTypes DEF Task
  <2>2. \A d \in Entries : new[d].status \notin {"live", "trashed"} => new[d].parent = Nowhere
    BY <1>s, <1>t DEF NewRow
  <2>3. Changed(new) \subseteq {e}
    BY <1>t DEF NewRow, Changed
  <2>4. PICK told : /\ Committed(t, new, told)
                    /\ silent \subseteq silent'
                    /\ {e} \subseteq told \cup silent'
                    /\ mishaps \subseteq mishaps'
    BY <1>7 DEF FolderEnsured, Created, Note
  <2> HIDE DEF new
  <2> QED BY <2>1, <2>2, <2>3, <2>4, CommitKeepsFeed
<1>8. ASSUME NEW t \in Tasks, Moved(t) PROVE FeedInv'
  <2> DEFINE e == task[t].entry
             new == [row EXCEPT ![e].parent = task[t].folder]
  <2>1. /\ row[e].status = "live"
        /\ Committed(t, new, {e})
        /\ silent' = silent
        /\ mishaps \subseteq mishaps'
    BY <1>8 DEF Moved
  <2>2. new \in [Entries -> Row]
    <3>1. CASE e \in Entries
      BY <1>t, <3>1, RowTypes DEF Task
    <3>2. CASE e \notin Entries
      BY <1>t, <3>2
    <3> QED BY <3>1, <3>2
  <2>3. \A d \in Entries : new[d].status \notin {"live", "trashed"} => new[d].parent = Nowhere
    BY <1>s, <1>t, <2>1 DEF Row
  <2>4. Changed(new) \subseteq {e}
    BY <1>t DEF Changed
  <2> HIDE DEF new
  <2> QED BY <2>1, <2>2, <2>3, <2>4, CommitKeepsFeed
<1>9. ASSUME NEW t \in Tasks, DeleteCommitted(t) PROVE FeedInv'
  <2> DEFINE e == task[t].entry
             B == Below(e, Live)
             new == WithStatus(B, "trashed")
  <2>1. /\ task[t].pc = "delete"
        /\ Committed(t, new, Told(t))
        /\ Note("late", task[t].late)
        /\ silent' = silent
    BY <1>9 DEF DeleteCommitted, Deleted
  <2>2. B \subseteq Live /\ Live \subseteq Entries
    BY BelowFacts, Statuses
  <2>3. new \in [Entries -> Row]
    BY <2>2, RowTypes
  <2>4. \A d \in Entries : new[d].status \notin {"live", "trashed"} => new[d].parent = Nowhere
    BY <1>s, <1>t DEF WithStatus, Row
  <2>5. Changed(new) \subseteq B
    BY DEF Changed, WithStatus
  <2>6. ASSUME ~task[t].late PROVE B \subseteq Told(t)
    <3> DEFINE T == task[t].ids \cap Live
    <3>1. e \in task[t].ids /\ ClosedIn(task[t].ids, Live)
      BY <1>g, <2>1, <2>6 DEF ReadsClosed
    <3>2. CASE e \in Live
      <4>1. e \in T /\ \A c \in Live : row[c].parent \in T => c \in T
        BY <3>1, <3>2 DEF ClosedIn
      <4>2. B \subseteq T
        BY <4>1, BelowFacts
      <4> QED BY <2>6, <4>2 DEF Told
    <3>3. CASE e \notin Live
      BY <3>3 DEF Below
    <3> QED BY <3>2, <3>3
  <2>7. "late" \notin mishaps' => "late" \notin mishaps /\ ~task[t].late
    BY <2>1 DEF Note
  <2> HIDE DEF new, B
  <2> QED BY <2>1, <2>3, <2>4, <2>5, <2>6, <2>7, CommitKeepsFeed
<1>10. ASSUME NEW t \in Tasks, RestoreCommitted(t) PROVE FeedInv'
  <2> DEFINE e == task[t].entry
             B == Below(e, Trashed)
             new == WithStatus(B, "live")
  <2>1. /\ task[t].pc = "restore"
        /\ Committed(t, new, Told(t))
        /\ "late" \notin mishaps' => "late" \notin mishaps /\ ~task[t].late
        /\ silent' = silent
    BY <1>10 DEF RestoreCommitted
  <2>2. B \subseteq Trashed /\ Trashed \subseteq Entries
    BY BelowFacts, Statuses
  <2>3. new \in [Entries -> Row]
    BY <2>2, RowTypes
  <2>4. \A d \in Entries : new[d].status \notin {"live", "trashed"} => new[d].parent = Nowhere
    BY <1>s, <1>t DEF WithStatus, Row
  <2>5. Changed(new) \subseteq B
    BY DEF Changed, WithStatus
  <2>6. ASSUME ~task[t].late PROVE B \subseteq Told(t)
    <3> DEFINE T == task[t].ids \cap Trashed
    <3>1. e \in task[t].ids /\ ClosedIn(task[t].ids, Trashed)
      BY <1>g, <2>1, <2>6 DEF ReadsClosed
    <3>2. CASE e \in Trashed
      <4>1. e \in T /\ \A c \in Trashed : row[c].parent \in T => c \in T
        BY <3>1, <3>2 DEF ClosedIn
      <4>2. B \subseteq T
        BY <4>1, BelowFacts
      <4> QED BY <2>6, <4>2 DEF Told
    <3>3. CASE e \notin Trashed
      BY <3>3 DEF Below
    <3> QED BY <3>2, <3>3
  <2> HIDE DEF new, B
  <2> QED BY <2>1, <2>3, <2>4, <2>5, <2>6, CommitKeepsFeed
<1>11. ASSUME NEW t \in Tasks, PurgeCommitted(t) PROVE FeedInv'
  <2> DEFINE S == task[t].ids
             new == WithoutRows(S)
  <2>1. /\ task[t].pc = "purge"
        /\ Committed(t, new, Told(t))
        /\ Note("late", task[t].late)
        /\ silent' = silent
    BY <1>11 DEF PurgeCommitted
  <2>2. S \in SUBSET Entries
    BY <1>t DEF Task
  <2>3. new \in [Entries -> Row]
    BY <2>2, RowTypes
  <2>4. \A d \in Entries : new[d].status \notin {"live", "trashed"} => new[d].parent = Nowhere
    BY <1>s, <1>t DEF WithoutRows, Purged, Row
  <2>5. ASSUME ~task[t].late PROVE Changed(new) \subseteq Told(t)
    <3>1. ClosedIn(S, Existing)
      BY <1>g, <2>1, <2>5 DEF ReadsClosed
    <3>2. \A d \in Entries : row[d].parent \in S => d \in S
      BY <1>g, <2>2, <3>1, TreeConstants DEF ClosedIn, GoneHaveNoParent
    <3>3. Changed(new) \subseteq S
      BY <3>2 DEF Changed, WithoutRows
    <3> QED BY <2>5, <3>3 DEF Told
  <2>6. "late" \notin mishaps' => "late" \notin mishaps /\ ~task[t].late
    BY <2>1 DEF Note
  <2> HIDE DEF new
  <2> QED BY <2>1, <2>3, <2>4, <2>5, <2>6, CommitKeepsFeed
<1>12. ASSUME NEW t \in Tasks, GivesUp(t) PROVE FeedInv'
  <2>1. Begin(t, Idle) /\ Idle.pc = "idle"
    BY <1>12 DEF GivesUp, Begin, Idle
  <2> QED BY <2>1, ReadKeepsFeed
<1>13. ASSUME NEW e \in Entries, Rename(e) PROVE FeedInv'
  BY <1>13 DEF Rename, FeedInv, GoneHaveNoParent, ReadsClosed, ClosedIn, FeedTellsTree,
               Live, Trashed, Existing
<1>14. CASE UNCHANGED vars
  BY <1>14 DEF vars, FeedInv, GoneHaveNoParent, ReadsClosed, ClosedIn, FeedTellsTree,
               Live, Trashed, Existing
<1> QED
  BY <1>1, <1>2, <1>3, <1>4, <1>5, <1>6, <1>7, <1>8, <1>9, <1>10, <1>11, <1>12, <1>13,
     <1>14 DEF Next

\* The last change of every entry has its row in the feed, but for the folders
\* that CreateBatch makes and after an overtaken deletion.
THEOREM FileTreeFeedTellsTree == Spec => []FeedTellsTree
<1>1. Init => FeedInv
  BY DEF Init, FeedInv, GoneHaveNoParent, ReadsClosed, FeedTellsTree, Absent, Idle
<1>2. TypeOK /\ FeedInv /\ [Next]_vars => FeedInv'
  BY FeedStep
<1>3. FeedInv => FeedTellsTree
  BY DEF FeedInv
<1> QED BY <1>1, <1>2, <1>3, FileTreeTypeCorrect, PTL DEF Spec

-----------------------------------------------------------------------------
(* No folder is below itself                                               *)

\* Below in the tree that the rows r make of the entries S, and the absence of
\* cycles in it.
Under(r, e, S) ==
    LET Closed == {T \in SUBSET S :
                     e \in T /\ \A c \in S : r[c].parent \in T => c \in T}
    IN  {d \in S : e \in S /\ \A T \in Closed : d \in T}

CycleFree(r, S) == \A c \in S : r[c].parent \in S => r[c].parent \notin Under(r, c, S)

LEMMA UnderFacts ==
    ASSUME NEW r, NEW e, NEW S
    PROVE  /\ Under(r, e, S) \subseteq S
           /\ e \in S => e \in Under(r, e, S)
           /\ \A c \in S : r[c].parent \in Under(r, e, S) => c \in Under(r, e, S)
           /\ \A T \in SUBSET S :
                 /\ e \in T
                 /\ \A c \in S : r[c].parent \in T => c \in T
                 => Under(r, e, S) \subseteq T
<1> DEFINE Closed == {T \in SUBSET S :
                        e \in T /\ \A c \in S : r[c].parent \in T => c \in T}
<1>1. Under(r, e, S) = {d \in S : e \in S /\ \A T \in Closed : d \in T}
  BY DEF Under
<1>2. Under(r, e, S) \subseteq S
  BY <1>1
<1>3. e \in S => e \in Under(r, e, S)
  BY <1>1
<1>4. ASSUME NEW c \in S, r[c].parent \in Under(r, e, S) PROVE c \in Under(r, e, S)
  <2>1. e \in S /\ \A T \in Closed : r[c].parent \in T
    BY <1>1, <1>4
  <2>2. \A T \in Closed : c \in T
    BY <2>1
  <2> QED BY <1>1, <2>1, <2>2
<1>5. ASSUME NEW T \in SUBSET S, e \in T,
             \A c \in S : r[c].parent \in T => c \in T
      PROVE  Under(r, e, S) \subseteq T
  <2>1. T \in Closed
    BY <1>5
  <2> QED BY <1>1, <2>1
<1> QED BY <1>2, <1>3, <1>4, <1>5

\* What makes a cycle is more edges: entries and parents taken away make none.
LEMMA FewerEdges ==
    ASSUME NEW r, NEW S, CycleFree(r, S), NEW r2, NEW S2 \in SUBSET S,
           \A d \in S2 : r2[d].parent \in S2 => r2[d].parent = r[d].parent
    PROVE  CycleFree(r2, S2)
<1> SUFFICES ASSUME NEW c \in S2, r2[c].parent \in S2,
                    r2[c].parent \in Under(r2, c, S2)
             PROVE  FALSE
  BY DEF CycleFree
<1> DEFINE U == Under(r, c, S)
           T == U \cap S2
<1>1. c \in T
  BY UnderFacts
<1>2. \A d \in S2 : r2[d].parent \in T => d \in T
  BY UnderFacts
<1>3. T \in SUBSET S2
  OBVIOUS
<1>4. Under(r2, c, S2) \subseteq T
  BY <1>1, <1>2, <1>3, UnderFacts
<1>5. r[c].parent \in U /\ r[c].parent \in S
  BY <1>4
<1> QED BY <1>5 DEF CycleFree

\* An entry nothing is below closes no cycle.
LEMMA NewLeaf ==
    ASSUME NEW r, NEW S, CycleFree(r, S), NEW r2, NEW e, e \notin S,
           \A d \in S : r2[d].parent = r[d].parent /\ r2[d].parent # e,
           r2[e].parent # e
    PROVE  CycleFree(r2, S \cup {e})
<1> DEFINE S2 == S \cup {e}
<1> SUFFICES ASSUME NEW c \in S2, r2[c].parent \in S2,
                    r2[c].parent \in Under(r2, c, S2)
             PROVE  FALSE
  BY DEF CycleFree
<1>u. \A T \in SUBSET S2 :
         c \in T /\ (\A d \in S2 : r2[d].parent \in T => d \in T) => Under(r2, c, S2) \subseteq T
  BY UnderFacts
<1>1. CASE c = e
  <2>1. {e} \in SUBSET S2 /\ \A d \in S2 : r2[d].parent \in {e} => d \in {e}
    OBVIOUS
  <2>2. Under(r2, c, S2) \subseteq {e}
    BY <1>1, <1>u, <2>1
  <2> QED BY <1>1, <2>2
<1>2. CASE c \in S
  <2> DEFINE U == Under(r, c, S)
             T == U \cup {e}
  <2>1. c \in T /\ T \in SUBSET S2
    BY <1>2, UnderFacts
  <2>2. \A d \in S2 : r2[d].parent \in T => d \in T
    BY UnderFacts
  <2>3. Under(r2, c, S2) \subseteq T
    <3> HIDE DEF T, S2
    <3> QED BY <1>u, <2>1, <2>2
  <2>4. r[c].parent \in U /\ r[c].parent \in S
    BY <1>2, <2>3
  <2> QED BY <1>2, <2>4 DEF CycleFree
<1> QED BY <1>1, <1>2

\* The rows r2 are r but that e has moved to p; A is a set of entries, without
\* e, that holds the parents of its members, and p if p is an entry.
MovedTo(r, r2, S, e, p, A) ==
    /\ \A d \in S : r2[d].parent = IF d = e THEN p ELSE r[d].parent
    /\ e \notin A
    /\ p \in S => p \in A
    /\ \A a \in A \cap S : r[a].parent \in S => r[a].parent \in A

\* Such a move closes no cycle.
LEMMA NewParent ==
    ASSUME NEW r, NEW S, CycleFree(r, S), NEW r2, NEW e, NEW p, NEW A,
           MovedTo(r, r2, S, e, p, A)
    PROVE  CycleFree(r2, S)
<1> USE DEF MovedTo
<1> SUFFICES ASSUME NEW c \in S, r2[c].parent \in S,
                    r2[c].parent \in Under(r2, c, S)
             PROVE  FALSE
  BY DEF CycleFree
<1> DEFINE U == Under(r, c, S)
<1>u. \A T \in SUBSET S :
         c \in T /\ (\A d \in S : r2[d].parent \in T => d \in T) => Under(r2, c, S) \subseteq T
  BY UnderFacts
<1>1. \A d \in S : d # e => r2[d].parent = r[d].parent
  OBVIOUS
<1>2. CASE c \in A
  <2> DEFINE T == U \cup (S \ A)
  <2>1. c \in T /\ T \in SUBSET S
    BY UnderFacts
  <2>2. ASSUME NEW d \in S, r2[d].parent \in T PROVE d \in T
    <3>1. CASE d \in A
      <4>1. r2[d].parent = r[d].parent /\ r[d].parent \in S
        BY <1>1, <2>1, <2>2, <3>1
      <4>2. r[d].parent \in U
        BY <2>2, <3>1, <4>1
      <4> QED BY <4>2, UnderFacts
    <3> QED BY <3>1
  <2>3. Under(r2, c, S) \subseteq T
    <3> HIDE DEF T
    <3> QED BY <1>u, <2>1, <2>2
  <2>4. r[c].parent = r2[c].parent
    BY <1>1, <1>2
  <2>5. r[c].parent \in A
    BY <1>2, <2>4
  <2>6. r[c].parent \in U
    BY <2>3, <2>4, <2>5
  <2> QED BY <2>4, <2>6 DEF CycleFree
<1>3. CASE c \notin A
  <2> DEFINE T == U \ A
  <2>1. c \in T /\ T \in SUBSET S
    BY <1>3, UnderFacts
  <2>2. ASSUME NEW d \in S, r2[d].parent \in T PROVE d \in T
    <3>1. d # e
      BY <2>1, <2>2
    <3>2. r[d].parent \in T
      BY <1>1, <2>2, <3>1
    <3>3. d \in U
      BY <3>2, UnderFacts
    <3>4. d \notin A
      BY <2>1, <3>2
    <3> QED BY <3>3, <3>4
  <2>3. Under(r2, c, S) \subseteq T
    <3> HIDE DEF T
    <3> QED BY <1>u, <2>1, <2>2
  <2>4. c # e
    BY <2>1, <2>3
  <2>5. r[c].parent \in U /\ r[c].parent \in S
    BY <1>1, <2>3, <2>4
  <2> QED BY <2>5 DEF CycleFree
<1> QED BY <1>2, <1>3

-----------------------------------------------------------------------------
Orderly == {"stale", "crossed"} \cap mishaps = {}

\* The parent of an entry exists: the foreign key.
NoDangling == \A e \in Entries : row[e].parent \in Entries => row[e].parent \in Existing

\* No live entry has a trashed folder.
LiveUp == \A e \in Live : row[e].parent \in Entries => row[e].parent \in Live

\* The path above its target that a move has found leads past the entry it
\* moves, until a move changes the path.
PathsSound ==
    \A t \in Tasks : task[t].pc = "move" /\ ~task[t].late =>
        /\ task[t].entry \notin task[t].ids
        /\ task[t].folder \in Entries => task[t].folder \in task[t].ids
        /\ \A a \in task[t].ids : row[a].parent \in Entries => row[a].parent \in task[t].ids

CycleInv ==
    /\ NoDangling
    /\ Orderly => LiveUp /\ PathsSound /\ CycleFree(row, Existing)

\* Acyclic, in terms of CycleFree.
LEMMA AcyclicIsCycleFree ==
    CycleFree(row, Existing) => \A e \in Existing : ~OnCycle(e, Existing)
<1>1. \A e \in Existing : Below(e, Existing) = Under(row, e, Existing)
  BY DEF Below, Under
<1> QED BY <1>1 DEF OnCycle, CycleFree

\* While the live entries have live folders, the check of Move, which looks at
\* live entries only, finds all there is above its target.
LEMMA PathAboveTarget ==
    ASSUME TypeOK, NoDangling, LiveUp, NEW e \in Existing, NEW p \in Entries \cup {Root},
           LiveFolder(p), NotIntoItself(e, p)
    PROVE  /\ e \notin Above(p)
           /\ p \in Entries => p \in Above(p)
           /\ \A a \in Above(p) : row[a].parent \in Entries => row[a].parent \in Above(p)
<1>1. p \in Entries => p \in Above(p)
  <2> SUFFICES ASSUME p \in Entries PROVE p \in Above(p)
    OBVIOUS
  <2>1. p \in Existing
    BY TreeConstants DEF LiveFolder, Existing
  <2> QED BY <2>1, BelowFacts DEF Above
<1>2. ASSUME NEW a \in Above(p), row[a].parent \in Entries PROVE row[a].parent \in Above(p)
  <2> DEFINE q == row[a].parent
  <2>1. a \in Existing /\ p \in Below(a, Existing)
    BY DEF Above
  <2>2. q \in Existing
    BY <1>2, <2>1, Statuses DEF NoDangling
  <2>3. a \in Below(q, Existing)
    BY <2>1, <2>2, BelowFacts
  <2>u. \A T \in SUBSET Existing :
           a \in T /\ (\A c \in Existing : row[c].parent \in T => c \in T)
           => Below(a, Existing) \subseteq T
    BY BelowFacts
  <2>4. /\ Below(q, Existing) \in SUBSET Existing
        /\ \A c \in Existing : row[c].parent \in Below(q, Existing) => c \in Below(q, Existing)
    BY BelowFacts
  <2>5. Below(a, Existing) \subseteq Below(q, Existing)
    BY <2>u, <2>3, <2>4
  <2> QED BY <2>1, <2>2, <2>5 DEF Above
<1>3. ASSUME e \in Above(p) PROVE FALSE
  <2> DEFINE T == Below(e, Live) \cup (Existing \ Live)
  <2>1. p \in Below(e, Existing)
    BY <1>3 DEF Above
  <2>2. p \in Live
    <3>1. p \in Existing
      BY <2>1, BelowFacts
    <3> QED BY <3>1, Statuses, TreeConstants DEF LiveFolder
  <2>3. e \in T
    BY BelowFacts
  <2>4. T \in SUBSET Existing
    BY BelowFacts DEF Existing
  <2>5. ASSUME NEW d \in Existing, row[d].parent \in T PROVE d \in T
    <3>1. CASE d \in Live
      <4>1. row[d].parent \in Live
        BY <2>4, <2>5, <3>1, Statuses DEF LiveUp
      <4>2. row[d].parent \in Below(e, Live)
        BY <2>5, <4>1
      <4> QED BY <3>1, <4>2, BelowFacts
    <3> QED BY <3>1
  <2>u. \A S \in SUBSET Existing :
           e \in S /\ (\A c \in Existing : row[c].parent \in S => c \in S)
           => Below(e, Existing) \subseteq S
    BY BelowFacts
  <2>6. Below(e, Existing) \subseteq T
    <3> HIDE DEF T
    <3> QED BY <2>u, <2>3, <2>4, <2>5
  <2>7. p \in Below(e, Live)
    BY <2>1, <2>2, <2>6
  <2> QED BY <2>7 DEF NotIntoItself
<1> QED BY <1>1, <1>2, <1>3

\* A commit leaves alone the paths that moves have found, or crosses them.
LEMMA PathsKept ==
    ASSUME TypeOK, PathsSound, NEW t, NEW new \in [Entries -> Row], NEW told,
           Committed(t, new, told)
    PROVE  PathsSound'
<1> SUFFICES ASSUME NEW u \in Tasks, task'[u].pc = "move", ~task'[u].late
             PROVE  /\ task'[u].entry \notin task'[u].ids
                    /\ task'[u].folder \in Entries => task'[u].folder \in task'[u].ids
                    /\ \A a \in task'[u].ids : row'[a].parent \in Entries => row'[a].parent \in task'[u].ids
  BY DEF PathsSound
<1>1. task'[u] = Reads(u, new) /\ row' = new
  BY DEF Committed, Idle
<1>2. task[u] \in Task
  BY DEF TypeOK
<1>3. /\ task[u].pc = "move" /\ task'[u].ids = task[u].ids
      /\ task'[u].entry = task[u].entry
      /\ ~task[u].late /\ ~Overtaken(u, new)
  BY <1>1, <1>2 DEF Reads, Task, Overtaken
<1>4. task'[u].folder = task[u].folder
  BY <1>1, <1>2, <1>3 DEF Reads, Task, FolderAfter
<1>5. \A a \in task[u].ids : new[a].parent = row[a].parent
  BY <1>3 DEF Overtaken
<1> QED BY <1>1, <1>3, <1>4, <1>5 DEF PathsSound

\* A step that only reads keeps CycleInv; if it starts a move, the path it has
\* found is sound.
LEMMA ReadKeepsCycle ==
    ASSUME TypeOK, CycleInv, NEW t \in Tasks, NEW read, Begin(t, read),
           Orderly => (read.pc = "move" =>
              /\ read.entry \notin read.ids
              /\ read.folder \in Entries => read.folder \in read.ids
              /\ \A a \in read.ids : row[a].parent \in Entries => row[a].parent \in read.ids)
    PROVE  CycleInv'
<1>1. row' = row /\ mishaps' = mishaps
  BY DEF Begin
<1>2. \A u \in Tasks : task'[u] = IF u = t THEN read ELSE task[u]
  BY DEF Begin, TypeOK
<1>3. Live' = Live /\ Existing' = Existing
  BY <1>1 DEF Live, Trashed, Existing
<1>4. Orderly /\ PathsSound => PathsSound'
  BY <1>1, <1>2 DEF CycleInv, PathsSound
<1>5. NoDangling' /\ (Orderly => LiveUp')
  BY <1>1, <1>3 DEF CycleInv, NoDangling, LiveUp
<1>6. CycleFree(row, Existing) => CycleFree(row, Existing)'
  BY <1>1, <1>3
<1> QED BY <1>1, <1>4, <1>5, <1>6 DEF CycleInv, Orderly

\* CycleInv holds along every step.
LEMMA CycleStep ==
    ASSUME TypeOK, CycleInv, [Next]_vars
    PROVE  CycleInv'
<1>d. NoDangling
  BY DEF CycleInv
<1>t. row \in [Entries -> Row] /\ \A t \in Tasks : task[t] \in Task
  BY DEF TypeOK
<1>e. Existing = {e \in Entries : row[e].status \in {"live", "trashed"}}
  BY DEF Existing, Live, Trashed
<1>x. Existing' = {e \in Entries : row'[e].status \in {"live", "trashed"}}
  BY DEF Existing, Live, Trashed
<1>1. ASSUME NEW t \in Tasks, NEW p \in Entries \cup {Root}, FolderChecked(t, p) PROVE CycleInv'
  <2> DEFINE read == [Idle EXCEPT !.pc = "create", !.folder = p]
  <2>1. read.pc = "create"
    BY DEF Idle
  <2> HIDE DEF read
  <2> QED BY <1>1, <2>1, ReadKeepsCycle DEF FolderChecked, read
<1>2. ASSUME NEW t \in Tasks, NEW p \in Entries \cup {Root}, SessionOpened(t, p) PROVE CycleInv'
  <2> DEFINE read == [Idle EXCEPT !.pc = "session", !.folder = p]
  <2>1. read.pc = "session"
    BY DEF Idle
  <2> HIDE DEF read
  <2> QED BY <1>2, <2>1, ReadKeepsCycle DEF SessionOpened, read
<1>3. ASSUME NEW t \in Tasks, NEW e \in Entries, NEW p \in Entries \cup {Root}, MoveChecked(t, e, p)
      PROVE  CycleInv'
  <2> DEFINE read == [Idle EXCEPT !.pc = "move", !.entry = e, !.folder = p, !.ids = Above(p)]
  <2>1. /\ read.pc = "move" /\ read.entry = e
        /\ read.folder = p /\ read.ids = Above(p)
    BY DEF Idle
  <2>2. e \in Existing /\ LiveFolder(p) /\ NotIntoItself(e, p) /\ Begin(t, read)
    BY <1>3 DEF MoveChecked
  <2>3. Orderly =>
          /\ e \notin Above(p)
          /\ p \in Entries => p \in Above(p)
          /\ \A a \in Above(p) : row[a].parent \in Entries => row[a].parent \in Above(p)
    BY <2>2, PathAboveTarget DEF CycleInv
  <2> HIDE DEF read
  <2> QED BY <2>1, <2>2, <2>3, ReadKeepsCycle
<1>4. ASSUME NEW t \in Tasks, NEW e \in Entries, DeleteRead(t, e) PROVE CycleInv'
  <2> DEFINE read == [Idle EXCEPT !.pc = "delete", !.entry = e, !.ids = Below(e, Live)]
  <2>1. read.pc = "delete"
    BY DEF Idle
  <2> HIDE DEF read
  <2> QED BY <1>4, <2>1, ReadKeepsCycle DEF DeleteRead, read
<1>5. ASSUME NEW t \in Tasks, NEW e \in Entries, RestoreRead(t, e) PROVE CycleInv'
  <2> DEFINE read == [Idle EXCEPT !.pc = "restore", !.entry = e, !.ids = Below(e, Trashed)]
  <2>1. read.pc = "restore"
    BY DEF Idle
  <2> HIDE DEF read
  <2> QED BY <1>5, <2>1, ReadKeepsCycle DEF RestoreRead, read
<1>6. ASSUME NEW t \in Tasks, NEW e \in Entries, PurgeRead(t, e) PROVE CycleInv'
  <2> DEFINE read == [Idle EXCEPT !.pc = "purge", !.ids = Below(e, Existing)]
  <2>1. read.pc = "purge"
    BY DEF Idle
  <2> HIDE DEF read
  <2> QED BY <1>6, <2>1, ReadKeepsCycle DEF PurgeRead, read
<1>7. ASSUME NEW t \in Tasks, NEW e \in Entries, FolderEnsured(t, e) \/ Created(t, e) PROVE CycleInv'
  <2> DEFINE p == task[t].folder
  <2>1. /\ row[e] = Absent /\ Placeable(p)
        /\ row' = NewRow(e, p)
        /\ Note("stale", ~LiveFolder(p))
    BY <1>7 DEF FolderEnsured, Created, Committed
  <2>2. /\ row'[e] = [status |-> "live", parent |-> p]
        /\ \A d \in Entries \ {e} : row'[d] = row[d]
    BY <1>t, <2>1 DEF NewRow
  <2>3. e \notin Existing /\ Existing' = Existing \cup {e}
    BY <1>e, <1>x, <2>1, <2>2 DEF Absent
  <2>4. p \in Entries => p \in Existing
    BY <2>1, TreeConstants DEF Placeable
  <2>5. NoDangling'
    BY <1>d, <2>2, <2>3, <2>4 DEF NoDangling
  <2>6. ASSUME Orderly' PROVE LiveUp' /\ PathsSound' /\ CycleFree(row, Existing)'
    <3>1. Orderly /\ LiveFolder(p)
      BY <2>1, <2>6 DEF Note, Orderly
    <3>2. LiveUp /\ PathsSound /\ CycleFree(row, Existing)
      BY <3>1 DEF CycleInv
    <3>3. p \in Entries => p \in Live
      BY <3>1, TreeConstants DEF LiveFolder
    <3>4. Live' = Live \cup {e}
      BY <2>2 DEF Live
    <3>5. LiveUp'
      BY <2>2, <3>2, <3>3, <3>4, Statuses DEF LiveUp
    <3>6. PathsSound'
      <4>1. NewRow(e, p) \in [Entries -> Row]
        BY <1>t, RowTypes DEF Task
      <4>2. \E told : Committed(t, NewRow(e, p), told)
        BY <1>7 DEF FolderEnsured, Created
      <4> QED BY <3>2, <4>1, <4>2, PathsKept
    <3>7. \A d \in Existing : row'[d].parent = row[d].parent /\ row'[d].parent # e
      BY <1>d, <1>e, <2>2, <2>3 DEF NoDangling
    <3>8. row'[e].parent # e
      BY <2>2, <2>3, <2>4
    <3>9. CycleFree(row', Existing \cup {e})
      BY <2>3, <3>2, <3>7, <3>8, NewLeaf
    <3> QED BY <2>3, <3>5, <3>6, <3>9
  <2> QED BY <2>5, <2>6 DEF CycleInv
<1>8. ASSUME NEW t \in Tasks, Moved(t) PROVE CycleInv'
  <2> DEFINE e == task[t].entry
             p == task[t].folder
             new == [row EXCEPT ![e].parent = p]
  <2>1. /\ task[t].pc = "move" /\ row[e].status = "live" /\ Placeable(p)
        /\ Committed(t, new, {e})
        /\ row' = new
        /\ mishaps' = mishaps \cup (IF LiveFolder(p) THEN {} ELSE {"stale"})
                              \cup (IF task[t].late THEN {"crossed"} ELSE {})
    BY <1>8 DEF Moved, Committed
  <2>2. \A d \in Entries : /\ row'[d].status = row[d].status
                           /\ row'[d].parent = IF d = e THEN p ELSE row[d].parent
    BY <1>t, <2>1 DEF Row
  <2>3. Existing' = Existing /\ Live' = Live
    BY <1>e, <1>x, <2>2 DEF Live
  <2>4. p \in Entries => p \in Existing
    BY <2>1, TreeConstants DEF Placeable
  <2>5. NoDangling'
    BY <1>d, <2>2, <2>3, <2>4 DEF NoDangling
  <2>6. ASSUME Orderly' PROVE LiveUp' /\ PathsSound' /\ CycleFree(row, Existing)'
    <3>1. Orderly /\ LiveFolder(p) /\ ~task[t].late
      BY <2>1, <2>6 DEF Orderly
    <3>2. LiveUp /\ PathsSound /\ CycleFree(row, Existing)
      BY <3>1 DEF CycleInv
    <3>3. p \in Entries => p \in Live
      BY <3>1, TreeConstants DEF LiveFolder
    <3>4. LiveUp'
      BY <2>2, <2>3, <3>2, <3>3, Statuses DEF LiveUp
    <3>5. PathsSound'
      <4>1. new \in [Entries -> Row]
        <5>1. CASE e \in Entries
          BY <1>t, <5>1, RowTypes DEF Task
        <5>2. CASE e \notin Entries
          BY <1>t, <5>2
        <5> QED BY <5>1, <5>2
      <4> HIDE DEF new
      <4> QED BY <2>1, <3>2, <4>1, PathsKept
    <3>6. /\ e \notin task[t].ids
          /\ p \in Existing => p \in task[t].ids
          /\ \A a \in task[t].ids : row[a].parent \in Existing => row[a].parent \in task[t].ids
      BY <2>1, <3>1, <3>2, Statuses DEF PathsSound
    <3>7. \A d \in Existing : row'[d].parent = IF d = e THEN p ELSE row[d].parent
      BY <2>2, Statuses
    <3>8. CycleFree(row', Existing)
      <4> DEFINE A == task[t].ids
      <4>1. \A a \in A \cap Existing : row[a].parent \in Existing => row[a].parent \in A
        BY <3>6
      <4>2. e \notin A /\ (p \in Existing => p \in A)
        BY <3>6
      <4>3. MovedTo(row, row', Existing, e, p, A)
        BY <3>7, <4>1, <4>2 DEF MovedTo
      <4> HIDE DEF A, e, p
      <4> QED BY <3>2, <4>3, NewParent
    <3> QED BY <2>3, <3>4, <3>5, <3>8
  <2> QED BY <2>5, <2>6 DEF CycleInv
<1>9. ASSUME NEW t \in Tasks, DeleteCommitted(t) PROVE CycleInv'
  <2> DEFINE B == Below(task[t].entry, Live)
             new == WithStatus(B, "trashed")
  <2>1. Committed(t, new, Told(t)) /\ row' = new /\ mishaps \subseteq mishaps'
    BY <1>9 DEF DeleteCommitted, Deleted, Committed, Note
  <2>2. B \subseteq Live /\ \A c \in Live : row[c].parent \in B => c \in B
    BY BelowFacts
  <2>3. \A d \in Entries : /\ row'[d].parent = row[d].parent
                           /\ row'[d].status = IF d \in B THEN "trashed" ELSE row[d].status
    BY <1>t, <2>1 DEF WithStatus, Row
  <2>4. Existing' = Existing /\ Live' = Live \ B
    BY <1>e, <1>x, <2>2, <2>3 DEF Live
  <2>5. NoDangling'
    BY <1>d, <2>3, <2>4 DEF NoDangling
  <2>6. ASSUME Orderly' PROVE LiveUp' /\ PathsSound' /\ CycleFree(row, Existing)'
    <3>1. LiveUp /\ PathsSound /\ CycleFree(row, Existing)
      BY <2>1, <2>6 DEF CycleInv, Orderly
    <3>2. LiveUp'
      BY <2>2, <2>3, <2>4, <3>1, Statuses DEF LiveUp
    <3>3. new \in [Entries -> Row]
      BY <2>2, RowTypes, Statuses
    <3>4. PathsSound'
      <4> HIDE DEF new
      <4> QED BY <2>1, <3>1, <3>3, PathsKept
    <3>5. CycleFree(row', Existing)
      BY <2>3, <3>1, FewerEdges, Statuses
    <3> QED BY <2>4, <3>2, <3>4, <3>5
  <2> QED BY <2>5, <2>6 DEF CycleInv
<1>10. ASSUME NEW t \in Tasks, RestoreCommitted(t) PROVE CycleInv'
  <2> DEFINE e == task[t].entry
             B == Below(e, Trashed)
             new == WithStatus(B, "live")
  <2>1. /\ Committed(t, new, Told(t)) /\ row' = new
        /\ mishaps \subseteq mishaps'
        /\ "stale" \notin mishaps' => (e \in Trashed => LiveFolder(row[e].parent))
    BY <1>10 DEF RestoreCommitted, Committed
  <2>2. B \subseteq Trashed
    BY BelowFacts
  <2>3. \A d \in Entries : /\ row'[d].parent = row[d].parent
                           /\ row'[d].status = IF d \in B THEN "live" ELSE row[d].status
    BY <1>t, <2>1 DEF WithStatus, Row
  <2>4. Existing' = Existing /\ Live' = Live \cup B
    BY <1>e, <1>x, <2>2, <2>3 DEF Live, Trashed
  <2>5. NoDangling'
    BY <1>d, <2>3, <2>4 DEF NoDangling
  <2>6. ASSUME Orderly' PROVE LiveUp' /\ PathsSound' /\ CycleFree(row, Existing)'
    <3>1. LiveUp /\ PathsSound /\ CycleFree(row, Existing)
      BY <2>1, <2>6 DEF CycleInv, Orderly
    <3>2. \A d \in B : d = e \/ row[d].parent \in B
      BY RestoredWithFolder
    <3>3. e \in B => LiveFolder(row[e].parent)
      BY <2>1, <2>2, <2>6 DEF Orderly
    <3>4. ASSUME NEW d \in Live', row'[d].parent \in Entries PROVE row'[d].parent \in Live'
      <4>1. row'[d].parent = row[d].parent
        BY <2>2, <2>3, <2>4, Statuses
      <4>2. CASE d \in Live
        BY <2>4, <3>1, <3>4, <4>1, <4>2 DEF LiveUp
      <4>3. CASE d \in B /\ row[d].parent \in B
        BY <2>4, <4>1, <4>3
      <4>4. CASE d \in B /\ d = e
        BY <2>4, <3>3, <3>4, <4>1, <4>4, TreeConstants DEF LiveFolder
      <4>5. d \in Live \/ d \in B
        BY <2>4
      <4> QED BY <3>2, <4>2, <4>3, <4>4, <4>5
    <3>5. LiveUp'
      BY <3>4 DEF LiveUp
    <3>6. new \in [Entries -> Row]
      BY <2>2, RowTypes, Statuses
    <3>7. PathsSound'
      <4> HIDE DEF new
      <4> QED BY <2>1, <3>1, <3>6, PathsKept
    <3>8. CycleFree(row', Existing)
      BY <2>3, <3>1, FewerEdges, Statuses
    <3> QED BY <2>4, <3>5, <3>7, <3>8
  <2> QED BY <2>5, <2>6 DEF CycleInv
<1>11. ASSUME NEW t \in Tasks, PurgeCommitted(t) PROVE CycleInv'
  <2> DEFINE S == task[t].ids
             new == WithoutRows(S)
  <2>1. Committed(t, new, Told(t)) /\ row' = new /\ mishaps \subseteq mishaps'
    BY <1>11 DEF PurgeCommitted, Committed, Note
  <2>2. S \in SUBSET Entries
    BY <1>t DEF Task
  <2>3. \A d \in Entries : /\ row'[d].parent \in Entries =>
                                row'[d].parent = row[d].parent /\ row[d].parent \notin S
                           /\ row'[d].status = IF d \in S /\ d \in Existing THEN "purged" ELSE row[d].status
    BY <1>t, <1>d, <2>1, TreeConstants DEF WithoutRows, Purged, Row, NoDangling
  <2>4. Existing' = Existing \ S /\ Live' = Live \ S
    BY <1>e, <1>x, <2>3, Statuses DEF Live
  <2>5. NoDangling'
    BY <1>d, <2>3, <2>4 DEF NoDangling
  <2>6. ASSUME Orderly' PROVE LiveUp' /\ PathsSound' /\ CycleFree(row, Existing)'
    <3>1. LiveUp /\ PathsSound /\ CycleFree(row, Existing)
      BY <2>1, <2>6 DEF CycleInv, Orderly
    <3>2. LiveUp'
      BY <2>3, <2>4, <3>1, Statuses DEF LiveUp
    <3>3. new \in [Entries -> Row]
      BY <2>2, RowTypes
    <3>4. PathsSound'
      <4> HIDE DEF new
      <4> QED BY <2>1, <3>1, <3>3, PathsKept
    <3>5. CycleFree(row', Existing \ S)
      BY <2>3, <3>1, FewerEdges, Statuses
    <3> QED BY <2>4, <3>2, <3>4, <3>5
  <2> QED BY <2>5, <2>6 DEF CycleInv
<1>12. ASSUME NEW t \in Tasks, GivesUp(t) PROVE CycleInv'
  <2>1. Begin(t, Idle) /\ Idle.pc = "idle"
    BY <1>12 DEF GivesUp, Begin, Idle
  <2> QED BY <2>1, ReadKeepsCycle
<1>13. ASSUME (\E e \in Entries : Rename(e)) \/ UNCHANGED vars PROVE CycleInv'
  <2>1. row' = row /\ task' = task /\ mishaps' = mishaps
    BY <1>13 DEF Rename, vars
  <2>2. Live' = Live /\ Existing' = Existing
    BY <2>1 DEF Live, Trashed, Existing
  <2>3. CycleFree(row, Existing) => CycleFree(row, Existing)'
    BY <2>1, <2>2
  <2> QED BY <2>1, <2>2, <2>3 DEF CycleInv, Orderly, NoDangling, LiveUp, PathsSound
<1> QED
  BY <1>1, <1>2, <1>3, <1>4, <1>5, <1>6, <1>7, <1>8, <1>9, <1>10, <1>11, <1>12, <1>13
  DEF Next

\* CycleInv holds in every reachable state.
LEMMA FileTreeCycleInvariant == Spec => []CycleInv
<1>1. Init => CycleInv
  <2> SUFFICES ASSUME Init PROVE CycleInv
    OBVIOUS
  <2>1. \A e \in Entries : row[e].status = "absent" /\ row[e].parent = Nowhere
    BY DEF Init, Absent
  <2>2. Live = {} /\ Existing = {}
    BY <2>1 DEF Live, Trashed, Existing
  <2>3. NoDangling /\ LiveUp /\ CycleFree(row, Existing)
    BY <2>1, <2>2, TreeConstants DEF NoDangling, LiveUp, CycleFree
  <2>4. PathsSound
    BY DEF Init, Idle, PathsSound
  <2> QED BY <2>3, <2>4 DEF CycleInv
<1>2. TypeOK /\ CycleInv /\ [Next]_vars => CycleInv'
  BY CycleStep
<1> QED BY <1>1, <1>2, FileTreeTypeCorrect, PTL DEF Spec

\* No folder is below itself, while no moves cross and nothing is put into a
\* folder that has left the tree: although Move checks before it moves, and looks
\* at live entries only.
THEOREM FileTreeAcyclic == Spec => []Acyclic
<1>1. CycleInv => Acyclic
  BY AcyclicIsCycleFree DEF CycleInv, Orderly, Acyclic
<1> QED BY <1>1, FileTreeCycleInvariant, PTL

-----------------------------------------------------------------------------
(* The sweep of the trash                                                  *)

\* The trashed entries from which a purge would reach d.
SweptFrom(d) == {e \in Trashed : d \in Below(e, Existing)}

\* What is below an entry is below its folder, and the folder itself is not.
LEMMA FolderReachesMore ==
    ASSUME CycleFree(row, Existing), NEW e \in Existing, row[e].parent \in Existing
    PROVE  /\ Below(e, Existing) \subseteq Below(row[e].parent, Existing)
           /\ row[e].parent \in Below(row[e].parent, Existing)
           /\ row[e].parent \notin Below(e, Existing)
<1> DEFINE q == row[e].parent
<1>1. /\ q \in Below(q, Existing) /\ Below(q, Existing) \in SUBSET Existing
      /\ \A c \in Existing : row[c].parent \in Below(q, Existing) => c \in Below(q, Existing)
  BY BelowFacts
<1>2. e \in Below(q, Existing)
  BY <1>1
<1>3. \A T \in SUBSET Existing :
         e \in T /\ (\A c \in Existing : row[c].parent \in T => c \in T)
         => Below(e, Existing) \subseteq T
  BY BelowFacts
<1>4. Below(e, Existing) \subseteq Below(q, Existing)
  BY <1>1, <1>2, <1>3
<1>5. Below(e, Existing) = Under(row, e, Existing)
  BY DEF Below, Under
<1> QED BY <1>1, <1>4, <1>5 DEF CycleFree

\* Climbing from an entry in the trash, a purge's starting point grows until its
\* folder is not in the trash.
LEMMA TrashHasTop ==
    ASSUME TypeOK, CycleInv, Orderly, NEW d \in Trashed
    PROVE  \E e \in Trashed : Restorable(e) /\ d \in Below(e, Existing)
<1> SUFFICES ASSUME \A e \in SweptFrom(d) : ~Restorable(e) PROVE FALSE
  BY DEF SweptFrom
<1> DEFINE Others(e) == Existing \ Below(e, Existing)
           others   == {Others(e) : e \in SweptFrom(d)}
<1>1. CycleFree(row, Existing) /\ NoDangling
  BY DEF CycleInv
<1>2. d \in SweptFrom(d)
  BY BelowFacts DEF SweptFrom, Existing
<1>3. others \in SUBSET (SUBSET Entries) /\ others # {}
  BY <1>2 DEF Existing, Live, Trashed
<1>4. PICK T \in others : \A U \in SUBSET Entries : U \subseteq T /\ U # T => U \notin others
  <2> HIDE DEF others
  <2> QED BY <1>3, SmallestSubset, TreeConstants
<1>5. PICK e \in SweptFrom(d) : T = Others(e)
  BY DEF others
<1> DEFINE q == row[e].parent
<1>6. e \in Trashed /\ e \in Existing /\ d \in Below(e, Existing)
  BY DEF SweptFrom, Existing
<1>7. q \in Trashed /\ q \in Existing
  BY <1>1, <1>6 DEF Restorable, NoDangling, Existing, Live, Trashed
<1>8. /\ Below(e, Existing) \subseteq Below(q, Existing)
      /\ q \in Below(q, Existing) /\ q \notin Below(e, Existing)
  BY <1>1, <1>6, <1>7, FolderReachesMore
<1>9. q \in SweptFrom(d) /\ Others(q) \in others
  BY <1>6, <1>7, <1>8 DEF SweptFrom
<1>10. Others(q) \in SUBSET Entries /\ Others(q) \subseteq T /\ Others(q) # T
  BY <1>5, <1>7, <1>8 DEF Existing, Live, Trashed
<1> QED BY <1>4, <1>9, <1>10

\* From the entries of the trash that could be restored, a purge reaches
\* everything in it, so CleanupTrash leaves nothing there for ever, while no
\* moves cross and nothing is put into a folder that has left the tree.
THEOREM FileTreeTrashIsSwept == Spec => []TrashIsSwept
<1>1. TypeOK /\ CycleInv => TrashIsSwept
  BY TrashHasTop DEF TrashIsSwept, Orderly
<1> QED BY <1>1, FileTreeTypeCorrect, FileTreeCycleInvariant, PTL

=============================================================================
