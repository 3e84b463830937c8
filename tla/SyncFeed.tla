------------------------------ MODULE SyncFeed ------------------------------
(***************************************************************************)
(* The change feed of TR Driver and a sync client that follows it:         *)
(* internal/changelog and internal/syncapi on the server, pull, bootstrap  *)
(* and apply of internal/syncengine on the client.                         *)
(*                                                                         *)
(* Every transaction of the server that changes an entry inserts a row     *)
(* into file_changes.  Its id comes from a sequence when the row is        *)
(* inserted; the row is seen when the transaction commits.  Rows past      *)
(* their retention are deleted.  The client keeps a cursor, reads the rows *)
(* after it page by page, and starts over from a snapshot when it has no   *)
(* cursor or when the rows it needs are gone.                              *)
(*                                                                         *)
(* One user, one sync root, files directly in it.  Each entry keeps its    *)
(* name; two entries may have the same name, one after the other.          *)
(***************************************************************************)
EXTENDS Integers, FiniteSets

CONSTANTS
    Entries,     \* ids of file entries
    Names,       \* file names
    NameOf,      \* [Entries -> Names]
    PageSize,    \* the limit of a Changes request: 200 in pull
    MaxId,       \* bound on the ids taken from the sequence
    MaxFailures  \* bound on the changes the client fails to apply

None == "none"

ASSUME FeedConstants ==
    /\ None \notin Entries
    /\ NameOf \in [Entries -> Names]
    /\ PageSize \in Nat \ {0}
    /\ MaxId \in Nat
    /\ MaxFailures \in Nat

VARIABLES
    row,       \* file_entries: status and content_version
    log,       \* the committed rows of file_changes
    tx,        \* the uncommitted change of a transaction that holds the entry
    lastId,    \* the sequence of file_changes.id
    cursor,    \* roots.cursor of the client
    node,      \* nodes of the client: the remote id at each path
    file,      \* the client's files
    pull,      \* where pull or bootstrap stands
    failures,  \* changes the client has failed to apply
    mishaps    \* the kinds of overlap and failure that have happened so far

serverVars == <<row, log, tx, lastId>>
localVars  == <<cursor, node, file>>
vars       == <<serverVars, localVars, pull, failures, mishaps>>

-----------------------------------------------------------------------------
Op     == {"upsert", "trash", "restore", "purge"}
Change == [id : 0 .. MaxId, entry : Entries, op : Op]
NoTx   == [id |-> 0, entry |-> None, op |-> None]
NoFile == [entry |-> None, version |-> 0]

\* late:   a change was committed after one with a greater id
\* torn:   the feed changed between the two reads of a snapshot or of a page
\* failed: the client could not apply a change
\* reset:  the server told a client with files to start over
\* again:  a client with files had no cursor and started over
\* reused: a removal hit the file of a newer entry with the same name
Mishap == {"late", "torn", "failed", "reset", "again", "reused"}
Restarts == {"reset", "again"}

Pull == [pc : {"idle", "listed", "checked", "snapshot", "page"},
         todo : SUBSET Change, next : 0 .. MaxId]
NotPulling == [pc |-> "idle", todo |-> {}, next |-> 0]

GreatestId(S) == IF S = {} THEN 0 ELSE CHOOSE n \in {c.id : c \in S} : \A c \in S : c.id <= n
LeastId(S)    == IF S = {} THEN 0 ELSE CHOOSE n \in {c.id : c \in S} : \A c \in S : n <= c.id
After(n)      == {c \in log : c.id > n}

TypeOK ==
    /\ row \in [Entries -> [status : {"absent", "live", "trashed", "purged"},
                            version : 0 .. MaxId]]
    /\ log \in SUBSET Change
    /\ tx \in [Entries -> Change \cup {NoTx}]
    /\ lastId \in 0 .. MaxId
    /\ cursor \in 0 .. MaxId
    /\ node \in [Names -> Entries \cup {None}]
    /\ file \in [Names -> [entry : Entries, version : 1 .. MaxId] \cup {NoFile}]
    /\ pull \in Pull
    /\ failures \in 0 .. MaxFailures
    /\ mishaps \in SUBSET Mishap

Init ==
    /\ row = [e \in Entries |-> [status |-> "absent", version |-> 0]]
    /\ log = {}
    /\ tx = [e \in Entries |-> NoTx]
    /\ lastId = 0
    /\ cursor = 0
    /\ node = [n \in Names |-> None]
    /\ file = [n \in Names |-> NoFile]
    /\ pull = NotPulling
    /\ failures = 0
    /\ mishaps = {}

Note(kinds) == mishaps' = mishaps \cup kinds

-----------------------------------------------------------------------------
(* The server's transactions: internal/files, changelog.Append             *)

\* The unique index on names: a live entry, or one about to be live.
NameTaken(e) ==
    \E d \in Entries \ {e} :
        /\ NameOf[d] = NameOf[e]
        /\ row[d].status = "live" \/ tx[d].op \in {"upsert", "restore"}

Allowed(e, op) ==
    \/ op = "upsert"  /\ row[e].status \in {"absent", "live"} /\ ~NameTaken(e)
    \/ op = "trash"   /\ row[e].status = "live"
    \/ op = "restore" /\ row[e].status = "trashed" /\ ~NameTaken(e)
    \/ op = "purge"   /\ row[e].status = "trashed"

\* The entry's row is locked, the change inserted under the next id.
Begin(e, op) ==
    /\ tx[e] = NoTx
    /\ Allowed(e, op)
    /\ lastId < MaxId
    /\ lastId' = lastId + 1
    /\ tx' = [tx EXCEPT ![e] = [id |-> lastId', entry |-> e, op |-> op]]
    /\ UNCHANGED <<row, log, localVars, pull, failures, mishaps>>

StatusAfter(op) ==
    CASE op \in {"upsert", "restore"} -> "live"
      [] op = "trash" -> "trashed"
      [] op = "purge" -> "purged"

\* Mutant: the trash leaves no trace in the feed.
LoggedUnlessTrash(e) == IF tx[e].op = "trash" THEN log ELSE log \cup {tx[e]}

Logged(e) == log \cup {tx[e]}

Commit(e) ==
    /\ tx[e] # NoTx
    /\ row' = [row EXCEPT ![e] = [status |-> StatusAfter(tx[e].op),
                                  version |-> IF tx[e].op = "purge" THEN @.version
                                                                    ELSE @.version + 1]]
    /\ log' = Logged(e)
    /\ tx' = [tx EXCEPT ![e] = NoTx]
    /\ Note({k \in {"late", "torn"} :
               \/ k = "late" /\ tx[e].id < GreatestId(log)
               \/ k = "torn" /\ pull.pc = "listed"})
    /\ UNCHANGED <<lastId, localVars, pull, failures>>

\* The id is not used again.
Rollback(e) ==
    /\ tx[e] # NoTx
    /\ tx' = [tx EXCEPT ![e] = NoTx]
    /\ UNCHANGED <<row, log, lastId, localVars, pull, failures, mishaps>>

\* The janitor's delete of the rows past their retention; no transaction stays
\* open that long.
Prune(n) ==
    /\ \E c \in log : c.id <= n
    /\ \A e \in Entries : tx[e] # NoTx => tx[e].id > n
    /\ log' = After(n)
    /\ Note(IF pull.pc \in {"listed", "checked"} THEN {"torn"} ELSE {})
    /\ UNCHANGED <<row, tx, lastId, localVars, pull, failures>>

-----------------------------------------------------------------------------
(* Snapshot and Changes of internal/syncapi, as pull and bootstrap use them *)

Upserts(S) == {[id |-> 0, entry |-> e, op |-> "upsert"] : e \in S}

Listed == {e \in Entries : row[e].status = "live"}

\* Rows after the cursor have been pruned, as far as Changes can tell.
RowsMissing == log = {} \/ cursor < LeastId(log) - 1

SnapshotEntries ==
    /\ pull' = [pc |-> "listed", todo |-> Upserts(Listed), next |-> 0]
    /\ Note(IF \A n \in Names : file[n] = NoFile THEN {}
            ELSE IF cursor > 0 THEN {"reset"} ELSE {"again"})
    /\ UNCHANGED <<serverVars, localVars, failures>>

\* No cursor yet: bootstrap.
Bootstrap ==
    /\ pull.pc = "idle"
    /\ cursor = 0
    /\ SnapshotEntries

\* ResetRequired: bootstrap.
Reset ==
    /\ pull.pc = "idle"
    /\ cursor > 0
    /\ RowsMissing
    /\ SnapshotEntries

\* Mutant: the last value of the sequence instead of the last row.
FeedEndBySequence == lastId

FeedEnd == GreatestId(log)

SnapshotCursor ==
    /\ pull.pc = "listed"
    /\ pull' = [pull EXCEPT !.pc = "snapshot", !.next = FeedEnd]
    /\ UNCHANGED <<serverVars, localVars, failures, mishaps>>

ChangesChecked ==
    /\ pull.pc = "idle"
    /\ cursor > 0
    /\ ~RowsMissing
    /\ pull' = [pull EXCEPT !.pc = "checked"]
    /\ UNCHANGED <<serverVars, localVars, failures, mishaps>>

\* Mutants: the cursor jumps to the end of the feed, or past the page.
NextPastPage(page) == GreatestId(page) + 1
NextAtEnd(page) == IF page = {} THEN cursor ELSE GreatestId(log)

\* The cursor returned with a page: its last change.
NextCursor(page) == IF page = {} THEN cursor ELSE GreatestId(page)

ChangesRead ==
    /\ pull.pc = "checked"
    /\ LET page == {c \in After(cursor) :
                      Cardinality({d \in After(cursor) : d.id < c.id}) < PageSize}
       IN  pull' = [pc |-> "page", todo |-> page, next |-> NextCursor(page)]
    /\ UNCHANGED <<serverVars, localVars, failures, mishaps>>

-----------------------------------------------------------------------------
(* apply of internal/syncengine                                            *)

\* The next change of the page or snapshot, once all of it has been received.
IsNext(c) == /\ pull.pc \in {"snapshot", "page"}
             /\ c \in pull.todo /\ \A d \in pull.todo : c.id <= d.id

Removal(c) == c.op \in {"trash", "purge"}

\* The path of the node, or else the name of the entry.
Path(c) == NameOf[c.entry]

\* moveToTrash of whatever is at the path.
FileRemoved(c) == [file EXCEPT ![Path(c)] = NoFile]

ApplyRemoval(c) ==
    /\ IsNext(c)
    /\ Removal(c)
    /\ file' = FileRemoved(c)
    /\ node' = [n \in Names |-> IF node[n] = c.entry THEN None ELSE node[n]]
    /\ Note(IF file[Path(c)].entry \in {c.entry, None} THEN {} ELSE {"reused"})
    /\ pull' = [pull EXCEPT !.todo = @ \ {c}]
    /\ UNCHANGED <<serverVars, cursor, failures>>

\* The file is downloaded as it is on the server now; an entry that is not
\* live any more cannot be downloaded, and apply returns.
ApplyContent(c) ==
    /\ IsNext(c)
    /\ ~Removal(c)
    /\ IF row[c.entry].status = "live"
         THEN /\ file' = [file EXCEPT ![Path(c)] = [entry |-> c.entry,
                                                    version |-> row[c.entry].version]]
              /\ node' = [node EXCEPT ![Path(c)] = c.entry]
         ELSE UNCHANGED <<file, node>>
    /\ pull' = [pull EXCEPT !.todo = @ \ {c}]
    /\ UNCHANGED <<serverVars, cursor, failures, mishaps>>

\* A failed download or removal is reported; the loop goes on.
ApplyFails(c) ==
    /\ IsNext(c)
    /\ failures < MaxFailures
    /\ failures' = failures + 1
    /\ pull' = [pull EXCEPT !.todo = @ \ {c}]
    /\ Note({"failed"})
    /\ UNCHANGED <<serverVars, localVars>>

\* SetCursor: a page never moves it back, a snapshot may.
PullDone ==
    /\ pull.pc \in {"snapshot", "page"}
    /\ pull.todo = {}
    /\ cursor' = IF pull.pc = "snapshot" \/ pull.next > cursor THEN pull.next ELSE cursor
    /\ pull' = NotPulling
    /\ UNCHANGED <<serverVars, node, file, failures, mishaps>>

\* The engine stops, or a request fails; cursor, nodes and files are on disk.
Stop ==
    /\ pull.pc # "idle"
    /\ failures < MaxFailures
    /\ failures' = failures + 1
    /\ pull' = NotPulling
    /\ UNCHANGED <<serverVars, localVars, mishaps>>

-----------------------------------------------------------------------------
Apply(c) == ApplyRemoval(c) \/ ApplyContent(c)

Request == Bootstrap \/ Reset \/ SnapshotCursor \/ ChangesChecked \/ ChangesRead

Next ==
    \/ \E e \in Entries :
          \/ \E op \in Op : Begin(e, op)
          \/ Commit(e)
          \/ Rollback(e)
    \/ \E n \in 1 .. MaxId : Prune(n)
    \/ Request
    \/ \E c \in Change : Apply(c) \/ ApplyFails(c)
    \/ PullDone
    \/ Stop

\* The engine's loop polls and each poll ends; a transaction ends.
Fairness ==
    /\ WF_vars(Request)
    /\ WF_vars(\E c \in Change : Apply(c))
    /\ WF_vars(PullDone)
    /\ \A e \in Entries : WF_vars(Commit(e) \/ Rollback(e))

Spec == Init /\ [][Next]_vars /\ Fairness

-----------------------------------------------------------------------------
(* Properties                                                              *)

Content(e) == [entry |-> e, version |-> row[e].version]

\* No transaction is open and the client has nothing left to fetch.
CaughtUp ==
    /\ \A e \in Entries : tx[e] = NoTx
    /\ pull.pc = "idle"
    /\ cursor > 0
    /\ ~RowsMissing
    /\ After(cursor) = {}

\* A client that has caught up has every live file in its current content,
\* restarts and resets included, unless ids were committed out of
\* order, the feed changed between two reads of one request, an apply failed
\* or a name was reused.
LiveFilesArrive ==
    CaughtUp /\ mishaps \subseteq Restarts =>
        \A e \in Entries : row[e].status = "live" => file[NameOf[e]] = Content(e)

\* It has no other file either, unless it also had to start over.
NothingElseRemains ==
    CaughtUp /\ mishaps = {} =>
        \A n \in Names :
            file[n] # NoFile => row[file[n].entry].status = "live"

\* The client's database and its files agree: a path has a node exactly while
\* it has a file, as long as no removal has hit another entry's file.
NodesMatchFiles ==
    "reused" \notin mishaps =>
        \A n \in Names : node[n] # None <=> file[n] # NoFile

\* So the folder of a client that has caught up mirrors the server.
FolderInStep == LiveFilesArrive /\ NothingElseRemains /\ NodesMatchFiles

\* A row of the feed is never behind the cursor of a client that has not read
\* it: when a change commits, its id is beyond the cursor and beyond the page
\* or snapshot being applied, unless ids commit out of order.
NewChangesAreAhead ==
    [][\A c \in log' \ log :
          "late" \notin mishaps' => c.id > cursor /\ c.id > pull.next]_vars

\* Every change to a live file reaches the client, whatever the client's
\* restarts and resets: it cannot be overtaken by the feed for ever.
FilesArrive ==
    \A e \in Entries :
        row[e].status = "live" ~>
            \/ row[e].status # "live"
            \/ file[NameOf[e]] = Content(e)
            \/ ~(mishaps \subseteq Restarts)

\* "Clients older than the retained window must bootstrap from a snapshot
\* instead of silently missing deletes": after a reset, no file remains whose
\* entry is gone.
NoDeleteMissed ==
    CaughtUp /\ mishaps = {"reset"} =>
        \A n \in Names :
            file[n] # NoFile => row[file[n].entry].status = "live"

=============================================================================
