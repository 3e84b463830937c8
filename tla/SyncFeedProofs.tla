--------------------------- MODULE SyncFeedProofs ---------------------------
(***************************************************************************)
(* Proofs about SyncFeed, for any entries, names and page size: a client   *)
(* that has caught up mirrors the server, and no change is committed       *)
(* behind its back, unless ids were committed out of order.                *)
(*                                                                         *)
(* The argument is about what is still to come.  A file that is not what   *)
(* it should be is owed: to what is left of the page or snapshot the       *)
(* client is applying, to a row beyond it, or, when such a row may have    *)
(* been pruned, to the snapshot the client will be told to fetch.  It is   *)
(* owed in the same way beyond the cursor, where the client starts again   *)
(* when it is stopped.  A client that has caught up is owed nothing.       *)
(***************************************************************************)
EXTENDS SyncFeed, Sums

\* The server holds no row, and will never hold one, with an id up to k.
Trimmed(k) ==
    /\ k <= lastId
    /\ \A c \in log : c.id > k
    /\ \A e \in Entries : tx[e] # NoTx => tx[e].id > k

(***************************************************************************)
(* The server.  Ids are taken in order and used once; a transaction finds  *)
(* its entry as it left it when it began, because the row is locked; of    *)
(* the entries of one name at most one is live or about to be; the rows of *)
(* an entry that is live again end with one that says so.                  *)
(***************************************************************************)
Open(e)  == tx[e] # NoTx
Taken(e) == row[e].status = "live" \/ tx[e].op \in {"upsert", "restore"}

ServerShape ==
    /\ row \in [Entries -> [status : {"absent", "live", "trashed", "purged"},
                            version : 0 .. MaxId]]
    /\ tx \in [Entries -> Change \cup {NoTx}]
    /\ log \in SUBSET Change
    /\ lastId \in 0 .. MaxId

IdsOnce ==
    /\ \A c \in log : c.id \in 1 .. lastId
    /\ \A c, d \in log : c.id = d.id => c = d
    /\ \A e \in Entries : Open(e) =>
         /\ tx[e].entry = e
         /\ tx[e].id \in 1 .. lastId
         /\ \A c \in log : c.id # tx[e].id /\ (c.entry = e => c.id < tx[e].id)
         /\ \A d \in Entries : Open(d) /\ tx[d].id = tx[e].id => d = e

RowsLocked ==
    \A e \in Entries :
        /\ row[e].version <= lastId
        /\ row[e].status # "absent" => row[e].version > 0
        /\ Open(e) => /\ row[e].version < tx[e].id
                      /\ tx[e].op = "upsert" => row[e].status \in {"absent", "live"}
                      /\ tx[e].op = "trash" => row[e].status = "live"
                      /\ tx[e].op \in {"restore", "purge"} => row[e].status = "trashed"

NamesOnce == \A d, e \in Entries : NameOf[d] = NameOf[e] /\ Taken(d) /\ Taken(e) => d = e

LiveAgain ==
    \A c \in log : Removal(c) /\ row[c.entry].status = "live" =>
        \E d \in log : d.entry = c.entry /\ ~Removal(d) /\ d.id > c.id

(***************************************************************************)
(* The client between its requests: what it holds of a page or a snapshot, *)
(* and what it knows of the feed.                                          *)
(***************************************************************************)
PullShape ==
    /\ pull \in Pull
    /\ cursor \in 0 .. lastId
    /\ pull.next \in 0 .. lastId
    /\ pull.pc = "idle" => pull = NotPulling
    /\ pull.pc \in {"listed", "checked"} => pull.next = 0
    /\ pull.pc = "checked" => pull.todo = {} /\ cursor > 0
    /\ pull.pc \in {"listed", "snapshot"} => \A c \in pull.todo : ~Removal(c)
    /\ pull.pc = "page" => /\ cursor > 0 /\ pull.next >= cursor
                           /\ \A c \in pull.todo : c.id > cursor

\* A transaction whose id the client has passed is late: a greater one is in the feed.
PassedIsLate ==
    \A e \in Entries :
        Open(e) /\ (tx[e].id <= cursor \/ tx[e].id <= pull.next) =>
            \E c \in log : c.id > tx[e].id

\* Each file lies at the name of its entry, and the nodes agree with the files.
FilesNamed ==
    /\ file \in [Names -> [entry : Entries, version : 1 .. MaxId] \cup {NoFile}]
    /\ node \in [Names -> Entries \cup {None}]
    /\ \A n \in Names : file[n] # NoFile => NameOf[file[n].entry] = n
    /\ \A n \in Names : node[n] # None => NameOf[node[n]] = n
    /\ "reused" \notin mishaps => \A n \in Names : node[n] = file[n].entry

Counters == failures \in 0 .. MaxFailures /\ mishaps \in SUBSET Mishap

(***************************************************************************)
(* What is still to come: a file that is not the content of its live entry *)
(* will be fetched, by what is left of this page or snapshot, by a row     *)
(* after it, or by the snapshot that follows when such rows are gone.      *)
(***************************************************************************)
Quiet == mishaps \subseteq Restarts

Row(e, from, gone)      == \E c \in log : c.entry = e /\ c.id > from /\ (Removal(c) <=> gone)
Ahead(e, from, gone)    == Row(e, from, gone) \/ Trimmed(from + 1)
BeyondCursor(e, gone)   == Ahead(e, cursor, gone)
BeyondPage(e, gone)     == Ahead(e, pull.next, gone)
Todo(e, gone)           == \E c \in pull.todo : c.entry = e /\ (Removal(c) <=> gone)
Behind                  == Trimmed(cursor + 1)
Fetching                == pull.pc \in {"snapshot", "page"}
Current(e)              == file[NameOf[e]] = Content(e)

\* A row the feed was checked for is still there.
CheckHolds == pull.pc = "checked" /\ Quiet => \E c \in log : c.id <= cursor + 1

\* The snapshot lists what is live when its cursor is read.
ListHolds ==
    pull.pc = "listed" /\ Quiet => \A e \in Listed : Todo(e, FALSE)

\* A row of the page is in the feed, or rows after the cursor are gone.
PageHolds ==
    pull.pc = "page" => \A c \in pull.todo : c \in log \/ Behind

\* A removal in the page, of an entry that is live again, is followed by its return.
ReturnsFollow ==
    Quiet /\ Fetching =>
        \A c \in pull.todo : Removal(c) /\ row[c.entry].status = "live" =>
            \/ \E d \in pull.todo : d.entry = c.entry /\ ~Removal(d) /\ d.id > c.id
            \/ BeyondPage(c.entry, FALSE)

ContentComes ==
    Quiet =>
        \A e \in Entries : row[e].status = "live" =>
            /\ Current(e) \/ cursor = 0 \/ BeyondCursor(e, FALSE)
            /\ Fetching => Current(e) \/ Todo(e, FALSE) \/ BeyondPage(e, FALSE)

(***************************************************************************)
(* And a file whose entry is gone will be removed, unless the client       *)
(* starts over.                                                            *)
(***************************************************************************)
Gone(n) == file[n] # NoFile /\ row[file[n].entry].status # "live"

RemovalComes ==
    mishaps = {} =>
        /\ pull.pc = "listed" => \A n \in Names : file[n] = NoFile
        /\ \A n \in Names : Gone(n) =>
             /\ cursor = 0 \/ BeyondCursor(file[n].entry, TRUE)
             /\ Fetching => Todo(file[n].entry, TRUE) \/ BeyondPage(file[n].entry, TRUE)

ServerInv == ServerShape /\ IsFiniteSet(log) /\ IdsOnce /\ RowsLocked /\ NamesOnce /\ LiveAgain
ClientInv == PullShape /\ PassedIsLate /\ FilesNamed /\ Counters
ComingInv == CheckHolds /\ ListHolds /\ PageHolds /\ ReturnsFollow /\ ContentComes /\ RemovalComes
FeedInv   == ServerInv /\ ClientInv /\ ComingInv

-----------------------------------------------------------------------------
(* Facts about the operators *)

LEMMA ChangeFields ==
    ASSUME NEW c \in Change
    PROVE  /\ c.id \in 0 .. MaxId /\ c.id \in Nat /\ c.entry \in Entries /\ c.op \in Op
           /\ Removal(c) \in BOOLEAN
           /\ StatusAfter(c.op) = "live" <=> ~Removal(c)
           /\ Removal(c) <=> c.op \in {"trash", "purge"}
           /\ ~Removal(c) <=> c.op \in {"upsert", "restore"}
           /\ c.op # "trash" /\ c.op # "purge" <=> ~Removal(c)
<1>1. c.id \in 0 .. MaxId /\ c.entry \in Entries /\ c.op \in Op
  BY DEF Change
<1>2. c.id \in Nat
  BY <1>1, FeedConstants
<1> QED
  BY <1>1, <1>2 DEF Op, Removal, StatusAfter

\* Of changes that there are, one has the greatest id, and one the least.
LEMMA GreatestFacts ==
    ASSUME NEW S \in SUBSET Change
    PROVE  /\ GreatestId(S) \in Nat
           /\ \A c \in S : c.id <= GreatestId(S)
           /\ S = {} => GreatestId(S) = 0
           /\ S # {} => \E c \in S : c.id = GreatestId(S)
<1>1. CASE S = {}
  BY <1>1 DEF GreatestId
<1>2. CASE S # {}
  <2>1. \A c \in S : c.id \in Nat /\ MaxId - c.id \in Nat /\ MaxId \in Nat
    BY ChangeFields, FeedConstants
  <2> DEFINE T == {MaxId - c.id : c \in S}
  <2>2. T \in SUBSET Nat /\ T # {}
    BY <1>2, <2>1
  <2>3. PICK m \in T : \A k \in T : m <= k
    BY <2>2, LeastNumber
  <2>4. PICK c \in S : m = MaxId - c.id
    BY <2>3
  <2>5. ASSUME NEW d \in S PROVE d.id <= c.id
    <3>1. MaxId - d.id \in T
      OBVIOUS
    <3> HIDE DEF T
    <3>2. m <= MaxId - d.id
      BY <2>3, <3>1
    <3> QED
      BY <2>1, <2>4, <3>2
  <2>6. \E n \in {d.id : d \in S} : \A d \in S : d.id <= n
    BY <2>4, <2>5
  <2>7. GreatestId(S) = CHOOSE n \in {d.id : d \in S} : \A d \in S : d.id <= n
    BY <1>2 DEF GreatestId
  <2>8. GreatestId(S) \in {d.id : d \in S} /\ \A d \in S : d.id <= GreatestId(S)
    BY <2>6, <2>7
  <2> QED
    BY <1>2, <2>1, <2>8
<1> QED
  BY <1>1, <1>2

LEMMA LeastFacts ==
    ASSUME NEW S \in SUBSET Change, S # {}
    PROVE  /\ LeastId(S) \in Nat
           /\ \E c \in S : c.id = LeastId(S)
<1>1. \A c \in S : c.id \in Nat
  BY ChangeFields
<1> DEFINE T == {c.id : c \in S}
<1>2. T \in SUBSET Nat /\ T # {}
  BY <1>1
<1>3. PICK m \in T : \A k \in T : m <= k
  BY <1>2, LeastNumber
<1>4. \E n \in T : \A d \in S : n <= d.id
  BY <1>3
<1>5. LeastId(S) = CHOOSE n \in T : \A d \in S : n <= d.id
  BY DEF LeastId
<1>6. LeastId(S) \in T
  BY <1>4, <1>5
<1> QED
  BY <1>1, <1>6

\* What an open transaction holds.
LEMMA OpenFields ==
    ASSUME ServerShape, NEW e \in Entries
    PROVE  /\ Open(e) => /\ tx[e] \in Change /\ tx[e].id \in Nat /\ tx[e].op \in Op
                         /\ tx[e].op # None
           /\ ~Open(e) => tx[e] = NoTx /\ tx[e].op = None
<1>1. tx[e] \in Change \cup {NoTx}
  BY DEF ServerShape
<1>2. tx[e] \in Change => tx[e].id \in Nat /\ tx[e].op \in Op /\ tx[e].op # None
  BY ChangeFields DEF Op, None
<1> QED
  BY <1>1, <1>2 DEF Open, NoTx

\* Ids are numbers.
LEMMA ServerNumbers ==
    ASSUME ServerInv
    PROVE  /\ lastId \in Nat /\ MaxId \in Nat /\ lastId <= MaxId
           /\ \A c \in log : c \in Change /\ c.id \in Nat /\ c.entry \in Entries
           /\ \A e \in Entries : /\ row[e].version \in Nat
                                 /\ Open(e) => tx[e] \in Change /\ tx[e].id \in Nat
<1>1. lastId \in 0 .. MaxId /\ log \subseteq Change
  BY DEF ServerInv, ServerShape
<1>2. \A e \in Entries : row[e].version \in 0 .. MaxId
  BY DEF ServerInv, ServerShape
<1> QED
  BY <1>1, <1>2, ChangeFields, OpenFields, FeedConstants DEF ServerInv

-----------------------------------------------------------------------------
(* The server *)

LEMMA ServerInit == Init => ServerInv
<1> SUFFICES ASSUME Init PROVE ServerInv
  OBVIOUS
<1>1. IsFiniteSet(log)
  BY FS_EmptySet DEF Init
<1>2. ServerShape
  BY FeedConstants DEF Init, ServerShape
<1>3. \A e \in Entries : ~Open(e) /\ ~Taken(e)
  BY DEF Init, Open, Taken, NoTx, None
<1>4. IdsOnce /\ LiveAgain
  BY <1>3 DEF Init, IdsOnce, LiveAgain
<1>5. RowsLocked
  BY <1>3 DEF Init, RowsLocked
<1> QED
  BY <1>1, <1>2, <1>3, <1>4, <1>5 DEF ServerInv, NamesOnce

\* What a server's step does to the feed, as the client may find it.
Forward ==
    /\ lastId <= lastId'
    /\ \A k \in Nat : Trimmed(k) => Trimmed(k)'
    /\ \A c \in log : c \in log' \/ Trimmed(c.id)'

LEMMA BeginStep ==
    ASSUME ServerInv, NEW e \in Entries, NEW op \in Op, Begin(e, op)
    PROVE  ServerInv' /\ Forward
<1>0. /\ ServerShape /\ IsFiniteSet(log) /\ IdsOnce /\ RowsLocked /\ NamesOnce /\ LiveAgain
      /\ row' = row /\ log' = log /\ lastId' = lastId + 1 /\ ~Open(e) /\ Allowed(e, op)
      /\ lastId < MaxId
  BY DEF ServerInv, Begin, Open
<1> DEFINE new == [id |-> lastId + 1, entry |-> e, op |-> op]
<1>1. /\ lastId \in Nat /\ MaxId \in Nat
      /\ \A c \in log : c \in Change /\ c.id \in Nat /\ c.entry \in Entries
      /\ \A d \in Entries : row[d].version \in Nat
      /\ \A d \in Entries : Open(d) => tx[d] \in Change /\ tx[d].id \in Nat
  BY ServerNumbers
<1>2. new \in Change /\ new # NoTx
  <2>1. lastId + 1 \in 0 .. MaxId
    BY <1>0, <1>1
  <2> QED
    BY <1>1, <2>1 DEF Change, NoTx
<1>3. tx' = [tx EXCEPT ![e] = new]
  BY <1>0 DEF Begin
<1>4. tx'[e] = new /\ \A d \in Entries \ {e} : tx'[d] = tx[d]
  BY <1>0, <1>3 DEF ServerShape
<1>5. Open(e)' /\ \A d \in Entries \ {e} : Open(d)' <=> Open(d)
  BY <1>2, <1>4 DEF Open
<1>6. new.id = lastId + 1 /\ new.entry = e /\ new.op = op
  OBVIOUS
<1> HIDE DEF new
<1>7. ServerShape'
  <2>1. tx' \in [Entries -> Change \cup {NoTx}]
    BY <1>0, <1>2, <1>3 DEF ServerShape
  <2>2. lastId' \in 0 .. MaxId
    BY <1>0, <1>1
  <2> QED
    BY <1>0, <2>1, <2>2 DEF ServerShape
<1>8. IdsOnce'
  <2>1. \A c \in log' : c.id \in 1 .. lastId'
    BY <1>0, <1>1 DEF IdsOnce
  <2>2. \A c, d \in log' : c.id = d.id => c = d
    BY <1>0 DEF IdsOnce
  <2>3. ASSUME NEW a \in Entries, Open(a)'
        PROVE  /\ tx'[a].entry = a /\ tx'[a].id \in 1 .. lastId'
               /\ \A c \in log' : c.id # tx'[a].id /\ (c.entry = a => c.id < tx'[a].id)
               /\ \A d \in Entries : Open(d)' /\ tx'[d].id = tx'[a].id => d = a
    <3>1. CASE a = e
      <4>1. \A c \in log' : c.id < lastId + 1
        BY <1>0, <1>1 DEF IdsOnce
      <4>2. \A d \in Entries \ {e} : Open(d) => tx[d].id < lastId + 1
        BY <1>0, <1>1 DEF IdsOnce
      <4> QED
        BY <1>0, <1>1, <1>4, <1>5, <1>6, <3>1, <4>1, <4>2
    <3>2. CASE a # e
      <4>1. tx'[a] = tx[a] /\ Open(a)
        BY <1>4, <1>5, <2>3, <3>2
      <4>2. tx[a].id \in 1 .. lastId /\ tx[a].entry = a
        BY <1>0, <4>1 DEF IdsOnce
      <4>3. \A d \in Entries : Open(d)' /\ tx'[d].id = tx[a].id => d = a
        <5> SUFFICES ASSUME NEW d \in Entries, Open(d)', tx'[d].id = tx[a].id PROVE d = a
          OBVIOUS
        <5>1. d # e
          BY <1>1, <1>4, <1>6, <4>2
        <5> QED
          BY <1>0, <1>4, <1>5, <4>1, <5>1 DEF IdsOnce
      <4> QED
        BY <1>0, <1>1, <4>1, <4>2, <4>3 DEF IdsOnce
    <3> QED
      BY <3>1, <3>2
  <2> QED
    BY <2>1, <2>2, <2>3 DEF IdsOnce
<1>9. RowsLocked'
  <2> SUFFICES ASSUME NEW a \in Entries
               PROVE  /\ row'[a].version <= lastId'
                      /\ row'[a].status # "absent" => row'[a].version > 0
                      /\ Open(a)' =>
                           /\ row'[a].version < tx'[a].id
                           /\ tx'[a].op = "upsert" => row'[a].status \in {"absent", "live"}
                           /\ tx'[a].op = "trash" => row'[a].status = "live"
                           /\ tx'[a].op \in {"restore", "purge"} => row'[a].status = "trashed"
    BY DEF RowsLocked
  <2>1. row[a].version < lastId + 1 /\ (row'[a].status # "absent" => row'[a].version > 0)
    BY <1>0, <1>1 DEF RowsLocked
  <2>2. CASE a = e
    <3>1. row'[a] = row[a] /\ tx'[a].id = lastId + 1 /\ tx'[a].op = op
      BY <1>0, <1>4, <1>6, <2>2
    <3>2. row[a].version \in Nat /\ row[a].version <= lastId'
      BY <1>0, <1>1, <2>1
    <3> QED
      BY <1>0, <2>1, <2>2, <3>1, <3>2 DEF Allowed
  <2>3. CASE a # e
    <3>1. tx'[a] = tx[a] /\ (Open(a)' => Open(a))
      BY <1>4, <1>5, <2>3
    <3> QED
      BY <1>0, <1>1, <2>1, <3>1 DEF RowsLocked
  <2> QED
    BY <2>2, <2>3
<1>10. NamesOnce'
  <2>1. \A d \in Entries \ {e} : Taken(d)' <=> Taken(d)
    BY <1>0, <1>4 DEF Taken
  <2>2. Taken(e)' /\ ~Taken(e) => op \in {"upsert", "restore"}
    BY <1>0, <1>4, <1>6 DEF Taken
  <2>3. op \in {"upsert", "restore"} => \A d \in Entries \ {e} : NameOf[d] = NameOf[e] => ~Taken(d)
    BY <1>0 DEF Allowed, NameTaken, Taken
  <2> QED
    BY <1>0, <2>1, <2>2, <2>3 DEF NamesOnce
<1>11. LiveAgain'
  BY <1>0 DEF LiveAgain, Removal
<1>12. Forward
  <2>1. ASSUME NEW k \in Nat, Trimmed(k) PROVE Trimmed(k)'
    BY <1>0, <1>1, <1>4, <1>6, <2>1 DEF Trimmed
  <2> QED
    BY <1>0, <1>1, <2>1 DEF Forward
<1> QED
  BY <1>0, <1>7, <1>8, <1>9, <1>10, <1>11, <1>12 DEF ServerInv

LEMMA RollbackStep ==
    ASSUME ServerInv, NEW e \in Entries, Rollback(e)
    PROVE  ServerInv' /\ Forward
<1>0. /\ ServerShape /\ IsFiniteSet(log) /\ IdsOnce /\ RowsLocked /\ NamesOnce /\ LiveAgain
      /\ row' = row /\ log' = log /\ lastId' = lastId
  BY DEF ServerInv, Rollback
<1>1. tx' = [tx EXCEPT ![e] = NoTx]
  BY DEF Rollback
<1>2. tx'[e] = NoTx /\ \A d \in Entries \ {e} : tx'[d] = tx[d]
  BY <1>0, <1>1 DEF ServerShape
<1>3. ~Open(e)' /\ \A d \in Entries : Open(d)' => Open(d) /\ tx'[d] = tx[d]
  BY <1>2 DEF Open
<1>4. ServerShape'
  BY <1>0, <1>1 DEF ServerShape
<1>5. IdsOnce'
  BY <1>0, <1>3 DEF IdsOnce
<1>6. RowsLocked'
  BY <1>0, <1>3 DEF RowsLocked
<1>7. \A d \in Entries : Taken(d)' => Taken(d)
  BY <1>0, <1>2 DEF Taken, NoTx, None
<1>8. NamesOnce'
  BY <1>0, <1>7 DEF NamesOnce
<1>9. LiveAgain'
  BY <1>0 DEF LiveAgain, Removal
<1>10. \A k \in Nat : Trimmed(k) => Trimmed(k)'
  BY <1>0, <1>2 DEF Trimmed
<1> QED
  BY <1>0, <1>4, <1>5, <1>6, <1>8, <1>9, <1>10, ServerNumbers DEF ServerInv, Forward

LEMMA PruneStep ==
    ASSUME ServerInv, NEW n \in 1 .. MaxId, Prune(n)
    PROVE  ServerInv' /\ Forward
<1>0. /\ ServerShape /\ IsFiniteSet(log) /\ IdsOnce /\ RowsLocked /\ NamesOnce /\ LiveAgain
      /\ row' = row /\ tx' = tx /\ lastId' = lastId /\ log' = {c \in log : c.id > n}
  BY DEF ServerInv, Prune, After
<1>1. /\ lastId \in Nat /\ MaxId \in Nat /\ n \in Nat
      /\ \A c \in log : c \in Change /\ c.id \in Nat /\ c.entry \in Entries
      /\ \A d \in Entries : Open(d) => tx[d] \in Change /\ tx[d].id \in Nat
  BY ServerNumbers
<1>2. log' \subseteq log /\ IsFiniteSet(log')
  BY <1>0, FS_Subset
<1>3. ServerShape'
  BY <1>0, <1>2 DEF ServerShape
<1>4. IdsOnce' /\ RowsLocked' /\ NamesOnce'
  BY <1>0, <1>2 DEF IdsOnce, RowsLocked, NamesOnce, Open, Taken
<1>5. LiveAgain'
  <2> SUFFICES ASSUME NEW c \in log', Removal(c), row'[c.entry].status = "live"
               PROVE  \E d \in log' : d.entry = c.entry /\ ~Removal(d) /\ d.id > c.id
    BY DEF LiveAgain, Removal
  <2>1. PICK d \in log : d.entry = c.entry /\ ~Removal(d) /\ d.id > c.id
    BY <1>0 DEF LiveAgain
  <2>2. d \in log'
    BY <1>0, <1>1, <2>1
  <2> QED
    BY <2>1, <2>2
<1>6. \A k \in Nat : Trimmed(k) => Trimmed(k)'
  BY <1>0, <1>2 DEF Trimmed
<1>7. ASSUME NEW c \in log, c \notin log' PROVE Trimmed(c.id)'
  <2>1. c.id <= n /\ c.id <= lastId
    BY <1>0, <1>1, <1>7 DEF IdsOnce
  <2>2. \A d \in log' : d.id > c.id
    BY <1>0, <1>1, <2>1
  <2>3. \A e \in Entries : tx[e] # NoTx => tx[e].id > n /\ tx[e].id \in Nat
    BY <1>1 DEF Prune, Open
  <2>4. \A e \in Entries : tx'[e] # NoTx => tx'[e].id > c.id
    BY <1>0, <1>1, <2>1, <2>3
  <2> QED
    BY <1>0, <2>1, <2>2, <2>4 DEF Trimmed
<1> QED
  BY <1>0, <1>1, <1>2, <1>3, <1>4, <1>5, <1>6, <1>7 DEF ServerInv, Forward

\* What a commit does to the entry and to the feed.
CommitFacts(e) ==
    /\ Open(e) /\ tx[e] \in Change /\ tx[e].entry = e
    /\ log' = log \cup {tx[e]} /\ lastId' = lastId
    /\ tx'[e] = NoTx /\ \A d \in Entries \ {e} : tx'[d] = tx[d]
    /\ row'[e].status = StatusAfter(tx[e].op)
    /\ row'[e].version \in {row[e].version, row[e].version + 1}
    /\ tx[e].op # "purge" => row'[e].version = row[e].version + 1
    /\ \A d \in Entries \ {e} : row'[d] = row[d]

LEMMA CommitEffect ==
    ASSUME ServerInv, NEW e \in Entries, Commit(e)
    PROVE  CommitFacts(e)
<1>1. tx[e] # NoTx /\ tx[e] \in Change /\ tx[e].entry = e
  BY OpenFields DEF Commit, ServerInv, IdsOnce, Open
<1>2. /\ log' = log \cup {tx[e]} /\ lastId' = lastId
      /\ tx' = [tx EXCEPT ![e] = NoTx]
      /\ row' = [row EXCEPT ![e] = [status |-> StatusAfter(tx[e].op),
                                    version |-> IF tx[e].op = "purge" THEN @.version
                                                                      ELSE @.version + 1]]
  BY DEF Commit, Logged
<1>3. tx \in [Entries -> Change \cup {NoTx}] /\ DOMAIN row = Entries
  BY DEF ServerInv, ServerShape
<1> QED
  BY <1>1, <1>2, <1>3 DEF CommitFacts, Open

LEMMA CommitStep ==
    ASSUME ServerInv, NEW e \in Entries, Commit(e)
    PROVE  ServerInv' /\ Forward
<1>0. /\ ServerShape /\ IsFiniteSet(log) /\ IdsOnce /\ RowsLocked /\ NamesOnce /\ LiveAgain
      /\ CommitFacts(e)
  BY CommitEffect DEF ServerInv
<1>1. /\ lastId \in Nat /\ MaxId \in Nat /\ lastId <= MaxId
      /\ \A c \in log : c \in Change /\ c.id \in Nat /\ c.entry \in Entries
      /\ \A d \in Entries : row[d].version \in Nat
      /\ \A d \in Entries : Open(d) => tx[d] \in Change /\ tx[d].id \in Nat
  BY ServerNumbers
<1>2. ~Open(e)' /\ \A d \in Entries \ {e} : Open(d)' <=> Open(d)
  BY <1>0 DEF CommitFacts, Open
<1>3. /\ tx[e].op \in Op /\ tx[e].id \in 1 .. lastId /\ tx[e].id <= lastId
      /\ row[e].version < tx[e].id
      /\ StatusAfter(tx[e].op) = "live" <=> ~Removal(tx[e])
      /\ ~Removal(tx[e]) <=> tx[e].op \in {"upsert", "restore"}
  BY <1>0, ChangeFields DEF CommitFacts, IdsOnce, RowsLocked
<1>4. IsFiniteSet(log') /\ log' \subseteq Change
  BY <1>0, <1>1, FS_AddElement DEF CommitFacts
<1>5. row'[e].version <= lastId /\ row'[e].version \in Nat
  BY <1>0, <1>1, <1>3 DEF CommitFacts
<1>6. row'[e].status \in {"live", "trashed", "purged"}
  BY <1>0, <1>3 DEF CommitFacts, StatusAfter, Op
<1>7. row'[e].version > 0
  <2>1. CASE tx[e].op = "purge"
    BY <1>0, <1>1, <1>3, <2>1 DEF CommitFacts, RowsLocked
  <2>2. CASE tx[e].op # "purge"
    BY <1>0, <1>1, <2>2 DEF CommitFacts
  <2> QED
    BY <2>1, <2>2
<1>8. ServerShape'
  <2>1. tx' \in [Entries -> Change \cup {NoTx}]
    BY <1>0 DEF ServerShape, Commit
  <2>2. row' \in [Entries -> [status : {"absent", "live", "trashed", "purged"},
                              version : 0 .. MaxId]]
    <3>1. PICK x \in [status : {"absent", "live", "trashed", "purged"}, version : 0 .. MaxId] :
             row' = [row EXCEPT ![e] = x]
      <4> DEFINE x == [status |-> StatusAfter(tx[e].op),
                       version |-> IF tx[e].op = "purge" THEN row[e].version
                                                         ELSE row[e].version + 1]
      <4>1. row' = [row EXCEPT ![e] = x]
        BY DEF Commit
      <4>2. row'[e] = x
        BY <1>0, <4>1 DEF ServerShape
      <4>3. x.status = row'[e].status /\ x.version = row'[e].version
        BY <4>2
      <4>4. x.version \in 0 .. MaxId /\ x.status \in {"absent", "live", "trashed", "purged"}
        BY <1>1, <1>5, <1>6, <4>3
      <4>5. x \in [status : {"absent", "live", "trashed", "purged"}, version : 0 .. MaxId]
        BY <4>4
      <4> QED
        BY <4>1, <4>5
    <3> QED
      BY <1>0, <3>1 DEF ServerShape
  <2> QED
    BY <1>0, <1>4, <2>1, <2>2 DEF ServerShape, CommitFacts
<1>9. IdsOnce'
  <2>1. \A c \in log' : c.id \in 1 .. lastId'
    BY <1>0, <1>3 DEF CommitFacts, IdsOnce
  <2>2. \A c, d \in log' : c.id = d.id => c = d
    BY <1>0 DEF CommitFacts, IdsOnce
  <2>3. ASSUME NEW a \in Entries, Open(a)'
        PROVE  /\ tx'[a].entry = a /\ tx'[a].id \in 1 .. lastId'
               /\ \A c \in log' : c.id # tx'[a].id /\ (c.entry = a => c.id < tx'[a].id)
               /\ \A d \in Entries : Open(d)' /\ tx'[d].id = tx'[a].id => d = a
    <3>1. a # e /\ Open(a) /\ tx'[a] = tx[a]
      BY <1>0, <1>2, <2>3 DEF CommitFacts
    <3>2. tx[e].id # tx[a].id /\ tx[e].entry # a
      BY <1>0, <3>1 DEF CommitFacts, IdsOnce
    <3>3. \A d \in Entries : Open(d)' => Open(d) /\ tx'[d] = tx[d]
      BY <1>0, <1>2 DEF CommitFacts
    <3> QED
      BY <1>0, <3>1, <3>2, <3>3 DEF CommitFacts, IdsOnce
  <2> QED
    BY <2>1, <2>2, <2>3 DEF IdsOnce
<1>10. RowsLocked'
  <2> SUFFICES ASSUME NEW a \in Entries
               PROVE  /\ row'[a].version <= lastId'
                      /\ row'[a].status # "absent" => row'[a].version > 0
                      /\ Open(a)' =>
                           /\ row'[a].version < tx'[a].id
                           /\ tx'[a].op = "upsert" => row'[a].status \in {"absent", "live"}
                           /\ tx'[a].op = "trash" => row'[a].status = "live"
                           /\ tx'[a].op \in {"restore", "purge"} => row'[a].status = "trashed"
    BY DEF RowsLocked
  <2>1. CASE a = e
    BY <1>0, <1>2, <1>5, <1>7, <2>1 DEF CommitFacts
  <2>2. CASE a # e
    <3>1. tx'[a] = tx[a] /\ row'[a] = row[a] /\ lastId' = lastId /\ (Open(a)' => Open(a))
      BY <1>0, <1>2, <2>2 DEF CommitFacts
    <3> QED
      BY <1>0, <3>1 DEF RowsLocked
  <2> QED
    BY <2>1, <2>2
<1>11. NamesOnce'
  <2>1. Taken(e)' => Taken(e)
    BY <1>0, <1>3 DEF CommitFacts, Taken, NoTx, None
  <2>2. \A d \in Entries \ {e} : Taken(d)' <=> Taken(d)
    BY <1>0 DEF CommitFacts, Taken
  <2> QED
    BY <1>0, <2>1, <2>2 DEF NamesOnce
<1>12. LiveAgain'
  <2> SUFFICES ASSUME NEW c \in log', Removal(c), row'[c.entry].status = "live"
               PROVE  \E d \in log' : d.entry = c.entry /\ ~Removal(d) /\ d.id > c.id
    BY DEF LiveAgain, Removal
  <2>1. CASE c.entry = e
    <3>1. ~Removal(tx[e])
      BY <1>0, <1>3, <2>1 DEF CommitFacts
    <3>2. c \in log
      BY <1>0, <3>1 DEF CommitFacts
    <3>3. tx[e].id > c.id
      BY <1>0, <1>1, <2>1, <3>2 DEF CommitFacts, IdsOnce
    <3> QED
      BY <1>0, <2>1, <3>1, <3>3 DEF CommitFacts
  <2>2. CASE c.entry # e
    <3>1. c \in log /\ row'[c.entry] = row[c.entry]
      BY <1>0, <1>1, <2>2 DEF CommitFacts
    <3>2. PICK d \in log : d.entry = c.entry /\ ~Removal(d) /\ d.id > c.id
      BY <1>0, <3>1 DEF LiveAgain
    <3> QED
      BY <1>0, <3>2 DEF CommitFacts
  <2> QED
    BY <2>1, <2>2
<1>13. Forward
  <2>1. ASSUME NEW k \in Nat, Trimmed(k) PROVE Trimmed(k)'
    BY <1>0, <2>1 DEF Trimmed, CommitFacts, Open
  <2> QED
    BY <1>0, <1>1, <2>1 DEF Forward, CommitFacts
<1> QED
  BY <1>4, <1>8, <1>9, <1>10, <1>11, <1>12, <1>13 DEF ServerInv
-----------------------------------------------------------------------------
(* Steps of the server and steps of the client *)

ServerStep ==
    \/ \E e \in Entries : (\E op \in Op : Begin(e, op)) \/ Commit(e) \/ Rollback(e)
    \/ \E n \in 1 .. MaxId : Prune(n)

ClientStep ==
    \/ Bootstrap \/ Reset \/ SnapshotCursor \/ ChangesChecked \/ ChangesRead
    \/ \E c \in Change : ApplyRemoval(c) \/ ApplyContent(c) \/ ApplyFails(c)
    \/ PullDone \/ Stop

LEMMA Steps ==
    ASSUME [Next]_vars
    PROVE  \/ ServerStep /\ UNCHANGED <<localVars, pull, failures>>
           \/ ClientStep /\ UNCHANGED serverVars
           \/ UNCHANGED vars
<1>1. ServerStep => UNCHANGED <<localVars, pull, failures>>
  BY DEF ServerStep, Begin, Commit, Rollback, Prune
<1>2. ClientStep => UNCHANGED serverVars
  BY DEF ClientStep, Bootstrap, Reset, SnapshotEntries, SnapshotCursor, ChangesChecked,
         ChangesRead, ApplyRemoval, ApplyContent, ApplyFails, PullDone, Stop
<1> QED
  BY <1>1, <1>2 DEF Next, Request, Apply, ServerStep, ClientStep

LEMMA ServerKept ==
    ASSUME ServerInv, [Next]_vars
    PROVE  ServerInv' /\ Forward
<1>1. CASE ServerStep
  BY <1>1, BeginStep, CommitStep, RollbackStep, PruneStep DEF ServerStep
<1>2. CASE UNCHANGED serverVars
  <2>1. ServerInv'
    BY <1>2 DEF serverVars, ServerInv, ServerShape, IdsOnce, RowsLocked, NamesOnce, LiveAgain,
                Open, Taken, Removal
  <2>2. \A k : Trimmed(k) => Trimmed(k)'
    BY <1>2 DEF serverVars, Trimmed
  <2> QED
    BY <1>2, <2>1, <2>2, ServerNumbers DEF serverVars, Forward
<1> QED
  BY <1>1, <1>2, Steps DEF vars

\* A page is the beginning of what follows the cursor.
Page == {c \in After(cursor) : Cardinality({d \in After(cursor) : d.id < c.id}) < PageSize}

LEMMA PageFacts ==
    ASSUME ServerInv, PullShape
    PROVE  /\ Page \subseteq log /\ Page \in SUBSET Change
           /\ NextCursor(Page) \in cursor .. lastId
           /\ \A c \in Page : c.id > cursor /\ c.id <= NextCursor(Page)
           /\ \A c \in log : c.id > cursor /\ c \notin Page => c.id > NextCursor(Page)
           /\ NextCursor(Page) = cursor \/ \E c \in log : c.id = NextCursor(Page)
<1>1. /\ lastId \in Nat /\ cursor \in Nat /\ cursor <= lastId
      /\ log \subseteq Change /\ IsFiniteSet(log)
      /\ \A c \in log : c \in Change /\ c.id \in Nat /\ c.id <= lastId
  BY ServerNumbers DEF ServerInv, PullShape, IdsOnce
<1>2. Page \subseteq log /\ Page \in SUBSET Change /\ \A c \in Page : c.id > cursor
  BY <1>1 DEF Page, After
<1>3. ASSUME NEW c \in log, c.id > cursor, NEW d \in Page, c.id <= d.id
      PROVE  c \in Page
  <2> DEFINE Before(x) == {b \in After(cursor) : b.id < x.id}
  <2>1. d \in log /\ Cardinality(Before(d)) < PageSize
    BY <1>2 DEF Page
  <2>2. Before(c) \subseteq Before(d)
    BY <1>1, <1>3, <2>1 DEF After
  <2>3. IsFiniteSet(Before(d))
    BY <1>1, FS_Subset DEF After
  <2>4. /\ IsFiniteSet(Before(c)) /\ Cardinality(Before(c)) <= Cardinality(Before(d))
        /\ Cardinality(Before(c)) \in Nat /\ Cardinality(Before(d)) \in Nat
    BY <2>2, <2>3, FS_Subset, FS_CardinalityType
  <2>5. Cardinality(Before(c)) < PageSize
    BY <2>1, <2>4, FeedConstants
  <2> QED
    BY <1>3, <2>5 DEF Page, After
<1>4. CASE Page = {}
  BY <1>1, <1>4 DEF NextCursor
<1>5. CASE Page # {}
  <2>1. NextCursor(Page) = GreatestId(Page)
    BY <1>5 DEF NextCursor
  <2>2. PICK d \in Page : d.id = GreatestId(Page)
    BY <1>2, <1>5, GreatestFacts
  <2>3. \A c \in Page : c.id <= d.id
    BY <1>2, <2>2, GreatestFacts
  <2>4. d \in log /\ d.id \in cursor .. lastId
    BY <1>1, <1>2, <2>2
  <2>5. \A c \in log : c.id > cursor /\ c \notin Page => c.id > d.id
    BY <1>1, <1>3, <2>2, <2>4
  <2> QED
    BY <1>2, <2>1, <2>2, <2>3, <2>4, <2>5
<1> QED
  BY <1>4, <1>5

LEMMA FeedEndFacts ==
    ASSUME ServerInv
    PROVE  /\ FeedEnd \in 0 .. lastId
           /\ \A c \in log : c.id <= FeedEnd
           /\ FeedEnd = 0 \/ \E c \in log : c.id = FeedEnd
<1>1. log \in SUBSET Change /\ lastId \in Nat /\ \A c \in log : c.id <= lastId /\ c.id \in Nat
  BY ServerNumbers DEF ServerInv, ServerShape, IdsOnce
<1>2. CASE log = {}
  BY <1>1, <1>2, GreatestFacts DEF FeedEnd
<1>3. CASE log # {}
  BY <1>1, <1>3, GreatestFacts DEF FeedEnd
<1> QED
  BY <1>2, <1>3

-----------------------------------------------------------------------------
(* The client's own state *)

LEMMA ClientInit == Init => ClientInv
<1> SUFFICES ASSUME Init PROVE ClientInv
  OBVIOUS
<1>1. NotPulling \in Pull
  BY FeedConstants DEF NotPulling, Pull
<1>2. PullShape
  BY <1>1, FeedConstants DEF Init, PullShape, NotPulling
<1>3. PassedIsLate
  BY DEF Init, PassedIsLate, Open
<1>4. FilesNamed
  BY DEF Init, FilesNamed, NoFile
<1>5. Counters
  BY FeedConstants DEF Init, Counters
<1> QED
  BY <1>2, <1>3, <1>4, <1>5 DEF ClientInv

\* What the numbers are.
LEMMA ClientNumbers ==
    ASSUME ServerInv, PullShape
    PROVE  /\ cursor \in Nat /\ pull.next \in Nat /\ lastId \in Nat
           /\ cursor <= lastId /\ pull.next <= lastId
           /\ pull.todo \in SUBSET Change
           /\ \A c \in pull.todo : c \in Change /\ c.id \in Nat /\ c.entry \in Entries
           /\ pull = [pc |-> pull.pc, todo |-> pull.todo, next |-> pull.next]
<1>1. lastId \in Nat
  BY ServerNumbers
<1>2. pull.todo \in SUBSET Change /\ pull = [pc |-> pull.pc, todo |-> pull.todo, next |-> pull.next]
  BY DEF PullShape, Pull
<1> QED
  BY <1>1, <1>2, ChangeFields DEF PullShape

\* The record of a pull.
LEMMA PullRecord ==
    ASSUME NEW p, NEW t \in SUBSET Change, NEW n \in 0 .. MaxId,
           p \in {"idle", "listed", "checked", "snapshot", "page"}
    PROVE  [pc |-> p, todo |-> t, next |-> n] \in Pull
  BY DEF Pull

LEMMA UpsertsFacts ==
    ASSUME NEW S \in SUBSET Entries
    PROVE  /\ Upserts(S) \in SUBSET Change
           /\ \A c \in Upserts(S) : c.entry \in S /\ ~Removal(c)
           /\ \A e \in S : \E c \in Upserts(S) : c.entry = e
<1> DEFINE Upsert(e) == [id |-> 0, entry |-> e, op |-> "upsert"]
<1>1. \A e \in Entries : Upsert(e) \in Change /\ Upsert(e).entry = e /\ ~Removal(Upsert(e))
  BY FeedConstants DEF Change, Op, Removal
<1>2. Upserts(S) = {Upsert(e) : e \in S}
  BY DEF Upserts
<1> HIDE DEF Upsert
<1> QED
  BY <1>1, <1>2

\* Where the next request or the next change takes the pull.
PullMoves ==
    \/ /\ pull.pc = "idle"
       /\ pull' = [pc |-> "listed", todo |-> Upserts(Listed), next |-> 0] /\ cursor' = cursor
    \/ /\ pull.pc = "listed"
       /\ pull' = [pc |-> "snapshot", todo |-> pull.todo, next |-> FeedEnd] /\ cursor' = cursor
    \/ /\ pull.pc = "idle" /\ cursor > 0
       /\ pull' = [pc |-> "checked", todo |-> {}, next |-> 0] /\ cursor' = cursor
    \/ /\ pull.pc = "checked"
       /\ pull' = [pc |-> "page", todo |-> Page, next |-> NextCursor(Page)] /\ cursor' = cursor
    \/ \E c \in pull.todo :
         /\ Fetching /\ IsNext(c)
         /\ pull' = [pc |-> pull.pc, todo |-> pull.todo \ {c}, next |-> pull.next]
         /\ cursor' = cursor
    \/ /\ Fetching /\ pull.todo = {}
       /\ pull' = NotPulling
       /\ cursor' = IF pull.pc = "snapshot" \/ pull.next > cursor THEN pull.next ELSE cursor
    \/ pull' = NotPulling /\ cursor' = cursor

LEMMA ClientMoves ==
    ASSUME ServerInv, PullShape, ClientStep
    PROVE  PullMoves
<1>1. pull = [pc |-> pull.pc, todo |-> pull.todo, next |-> pull.next]
  BY ClientNumbers
<1>2. CASE Bootstrap \/ Reset
  BY <1>2 DEF Bootstrap, Reset, SnapshotEntries, localVars, PullMoves
<1>3. CASE SnapshotCursor
  BY <1>1, <1>3 DEF SnapshotCursor, localVars, PullMoves
<1>4. CASE ChangesChecked
  <2>1. pull = NotPulling /\ cursor > 0 /\ cursor' = cursor
    BY <1>4 DEF ChangesChecked, localVars, PullShape
  <2>2. pull' = [pc |-> "checked", todo |-> {}, next |-> 0]
    BY <1>4, <2>1 DEF ChangesChecked, NotPulling
  <2> QED
    BY <2>1, <2>2 DEF PullMoves, NotPulling
<1>5. CASE ChangesRead
  BY <1>5 DEF ChangesRead, localVars, PullMoves, Page
<1>6. CASE \E c \in Change : ApplyRemoval(c) \/ ApplyContent(c) \/ ApplyFails(c)
  <2> SUFFICES ASSUME NEW c \in Change, IsNext(c), pull' = [pull EXCEPT !.todo = @ \ {c}],
                      cursor' = cursor
               PROVE  PullMoves
    BY <1>6 DEF ApplyRemoval, ApplyContent, ApplyFails, localVars
  <2>1. c \in pull.todo /\ Fetching
    BY DEF IsNext, Fetching
  <2>2. pull' = [pc |-> pull.pc, todo |-> pull.todo \ {c}, next |-> pull.next]
    BY <1>1
  <2> QED
    BY <2>1, <2>2 DEF PullMoves
<1>7. CASE PullDone
  BY <1>7 DEF PullDone, PullMoves, Fetching
<1>8. CASE Stop
  BY <1>8 DEF Stop, localVars, PullMoves
<1> QED
  BY <1>2, <1>3, <1>4, <1>5, <1>6, <1>7, <1>8 DEF ClientStep

LEMMA PullShapeStep ==
    ASSUME ServerInv, PullShape, [Next]_vars
    PROVE  PullShape'
<1>0. ServerInv' /\ Forward
  BY ServerKept
<1>1. /\ cursor \in Nat /\ pull.next \in Nat /\ lastId \in Nat
      /\ cursor <= lastId /\ pull.next <= lastId
      /\ pull.todo \in SUBSET Change
      /\ \A c \in pull.todo : c \in Change /\ c.id \in Nat /\ c.entry \in Entries
      /\ pull = [pc |-> pull.pc, todo |-> pull.todo, next |-> pull.next]
      /\ MaxId \in Nat /\ lastId <= MaxId /\ pull.next \in 0 .. MaxId /\ lastId' \in Nat
  BY <1>0, ClientNumbers, ServerNumbers DEF ServerInv, ServerShape
<1>2. CASE UNCHANGED <<cursor, pull>>
  <2>1. cursor' \in 0 .. lastId' /\ pull'.next \in 0 .. lastId'
    BY <1>0, <1>1, <1>2 DEF Forward
  <2> QED
    BY <1>2, <2>1 DEF PullShape, Removal
<1>3. CASE ClientStep /\ UNCHANGED serverVars
  <2>0. PullMoves /\ lastId' = lastId
    BY <1>3, ClientMoves DEF serverVars
  <2>1. CASE /\ pull.pc = "idle"
             /\ pull' = [pc |-> "listed", todo |-> Upserts(Listed), next |-> 0]
             /\ cursor' = cursor
    <3>1. Upserts(Listed) \in SUBSET Change /\ \A c \in Upserts(Listed) : ~Removal(c)
      BY UpsertsFacts DEF Listed
    <3>2. pull' \in Pull
      BY <1>1, <2>1, <3>1, PullRecord
    <3> QED
      BY <1>1, <2>0, <2>1, <3>1, <3>2 DEF PullShape, Removal
  <2>2. CASE /\ pull.pc = "listed"
             /\ pull' = [pc |-> "snapshot", todo |-> pull.todo, next |-> FeedEnd]
             /\ cursor' = cursor
    <3>1. FeedEnd \in 0 .. lastId /\ FeedEnd \in 0 .. MaxId
      BY <1>1, FeedEndFacts
    <3>2. pull' \in Pull
      BY <1>1, <2>2, <3>1, PullRecord
    <3> QED
      BY <1>1, <2>0, <2>2, <3>1, <3>2 DEF PullShape, Removal
  <2>3. CASE /\ pull.pc = "idle" /\ cursor > 0
             /\ pull' = [pc |-> "checked", todo |-> {}, next |-> 0] /\ cursor' = cursor
    <3>1. pull' \in Pull
      BY <1>1, <2>3, PullRecord
    <3> QED
      BY <1>1, <2>0, <2>3, <3>1 DEF PullShape, Removal
  <2>4. CASE /\ pull.pc = "checked"
             /\ pull' = [pc |-> "page", todo |-> Page, next |-> NextCursor(Page)]
             /\ cursor' = cursor
    <3>1. /\ Page \in SUBSET Change /\ NextCursor(Page) \in cursor .. lastId
          /\ \A c \in Page : c.id > cursor
      BY PageFacts
    <3>2. NextCursor(Page) \in 0 .. MaxId /\ NextCursor(Page) \in 0 .. lastId
          /\ NextCursor(Page) >= cursor
      BY <1>1, <3>1
    <3>3. pull' \in Pull
      BY <2>4, <3>1, <3>2, PullRecord
    <3> QED
      BY <1>1, <2>0, <2>4, <3>1, <3>2, <3>3 DEF PullShape, Removal
  <2>5. CASE \E c \in pull.todo :
               /\ Fetching /\ IsNext(c)
               /\ pull' = [pc |-> pull.pc, todo |-> pull.todo \ {c}, next |-> pull.next]
               /\ cursor' = cursor
    <3>1. PICK c \in pull.todo :
            /\ Fetching
            /\ pull' = [pc |-> pull.pc, todo |-> pull.todo \ {c}, next |-> pull.next]
            /\ cursor' = cursor
      BY <2>5
    <3>2. pull' \in Pull
      BY <1>1, <3>1, PullRecord DEF Fetching
    <3> QED
      BY <1>1, <2>0, <3>1, <3>2 DEF PullShape, Removal, Fetching
  <2>6. CASE /\ Fetching /\ pull.todo = {} /\ pull' = NotPulling
             /\ cursor' = IF pull.pc = "snapshot" \/ pull.next > cursor THEN pull.next ELSE cursor
    <3>1. pull' \in Pull
      BY <1>1, <2>6, PullRecord DEF NotPulling
    <3>2. cursor' \in 0 .. lastId
      BY <1>1, <2>6
    <3> QED
      BY <1>1, <2>0, <2>6, <3>1, <3>2 DEF PullShape, NotPulling
  <2>7. CASE pull' = NotPulling /\ cursor' = cursor
    <3>1. pull' \in Pull
      BY <1>1, <2>7, PullRecord DEF NotPulling
    <3> QED
      BY <1>1, <2>0, <2>7, <3>1 DEF PullShape, NotPulling
  <2> QED
    BY <2>0, <2>1, <2>2, <2>3, <2>4, <2>5, <2>6, <2>7 DEF PullMoves
<1> QED
  BY <1>2, <1>3, Steps DEF localVars, vars

\* A cursor is the id of a row, and ids are used once: a transaction that the cursor
\* has passed has a greater id in the feed, and it stays there while it is open.
LEMMA PassedStep ==
    ASSUME ServerInv, PullShape, PassedIsLate, [Next]_vars
    PROVE  PassedIsLate'
<1>0. ServerInv' /\ Forward
  BY ServerKept
<1>1. /\ cursor \in Nat /\ pull.next \in Nat /\ lastId \in Nat
      /\ cursor <= lastId /\ pull.next <= lastId
      /\ \A c \in log : c.id \in Nat
      /\ \A e \in Entries : Open(e) => tx[e].id \in Nat
  BY ClientNumbers, ServerNumbers
<1>2. CASE ServerStep /\ UNCHANGED <<localVars, pull, failures>>
  <2>0. cursor' = cursor /\ pull' = pull
    BY <1>2 DEF localVars
  <2> SUFFICES ASSUME NEW e \in Entries, Open(e)',
                      tx'[e].id <= cursor \/ tx'[e].id <= pull.next
               PROVE  \E c \in log' : c.id > tx'[e].id
    BY <2>0 DEF PassedIsLate
  <2>1. ASSUME Open(e), tx'[e] = tx[e] PROVE \E c \in log' : c.id > tx'[e].id
    <3>1. PICK c \in log : c.id > tx[e].id
      BY <2>1 DEF PassedIsLate
    <3>2. CASE c \in log'
      BY <2>1, <3>1, <3>2
    <3>3. CASE Trimmed(c.id)'
      <4>1. tx'[e].id > c.id
        BY <3>3 DEF Trimmed, Open
      <4> QED
        BY <1>1, <2>1, <3>1, <4>1
    <3> QED
      BY <1>0, <3>2, <3>3 DEF Forward
  <2>2. ASSUME NEW d \in Entries, NEW op \in Op, Begin(d, op)
        PROVE  Open(e) /\ tx'[e] = tx[e]
    <3>1. DOMAIN tx = Entries
      BY DEF ServerInv, ServerShape
    <3>2. d = e => tx'[e].id = lastId + 1
      BY <2>2, <3>1 DEF Begin
    <3>3. d # e
      BY <1>1, <3>2
    <3> QED
      BY <2>2, <3>1, <3>3 DEF Begin, Open
  <2>3. ASSUME NEW d \in Entries, Commit(d) \/ Rollback(d)
        PROVE  Open(e) /\ tx'[e] = tx[e]
    <3>1. DOMAIN tx = Entries
      BY DEF ServerInv, ServerShape
    <3>2. tx' = [tx EXCEPT ![d] = NoTx]
      BY <2>3 DEF Commit, Rollback
    <3> QED
      BY <3>1, <3>2 DEF Open
  <2>4. (\E n \in 1 .. MaxId : Prune(n)) => Open(e) /\ tx'[e] = tx[e]
    BY DEF Prune, Open
  <2> QED
    BY <1>2, <2>1, <2>2, <2>3, <2>4 DEF ServerStep
<1>3. CASE ClientStep /\ UNCHANGED serverVars
  <2>0. PullMoves /\ tx' = tx /\ log' = log
    BY <1>3, ClientMoves DEF serverVars
  <2> DEFINE Passed(k) == \A e \in Entries : Open(e) /\ tx[e].id <= k =>
                             \E c \in log : c.id > tx[e].id
  <2>1. Passed(cursor) /\ Passed(pull.next)
    BY DEF PassedIsLate
  <2>2. Passed(0)
    BY <1>1 DEF ServerInv, IdsOnce
  <2>3. ASSUME NEW c \in log PROVE Passed(c.id)
    <3> SUFFICES ASSUME NEW e \in Entries, Open(e), tx[e].id <= c.id
                 PROVE  \E d \in log : d.id > tx[e].id
      OBVIOUS
    <3>1. c.id # tx[e].id
      BY DEF ServerInv, IdsOnce
    <3> QED
      BY <1>1, <3>1
  <2>4. Passed(FeedEnd)
    BY <2>2, <2>3, FeedEndFacts
  <2>5. Passed(NextCursor(Page))
    BY <2>1, <2>3, PageFacts
  <2> HIDE DEF Passed
  <2>6. Passed(cursor') /\ Passed(pull'.next)
    BY <2>0, <2>1, <2>2, <2>4, <2>5 DEF PullMoves, NotPulling
  <2> QED
    BY <2>0, <2>6 DEF PassedIsLate, Passed, Open
<1>4. CASE UNCHANGED vars
  BY <1>4 DEF vars, serverVars, localVars, PassedIsLate, Open
<1> QED
  BY <1>2, <1>3, <1>4, Steps

LEMMA CountersStep ==
    ASSUME Counters, [Next]_vars
    PROVE  Counters' /\ mishaps \subseteq mishaps'
<1> USE FeedConstants DEF Counters, Mishap, Note
<1>1. CASE ServerStep
  BY <1>1 DEF ServerStep, Begin, Commit, Rollback, Prune
<1>2. CASE Bootstrap \/ Reset
  BY <1>2 DEF Bootstrap, Reset, SnapshotEntries
<1>3. CASE SnapshotCursor \/ ChangesChecked \/ ChangesRead \/ PullDone
  BY <1>3 DEF SnapshotCursor, ChangesChecked, ChangesRead, PullDone
<1>4. CASE \E c \in Change : ApplyRemoval(c) \/ ApplyContent(c) \/ ApplyFails(c)
  BY <1>4 DEF ApplyRemoval, ApplyContent, ApplyFails
<1>5. CASE Stop
  BY <1>5 DEF Stop
<1>6. CASE UNCHANGED vars
  BY <1>6 DEF vars
<1> QED
  BY <1>1, <1>2, <1>3, <1>4, <1>5, <1>6, Steps DEF ClientStep

\* What an applied change does to the folder.
LEMMA RemovalEffect ==
    ASSUME FilesNamed, NEW c \in Change, ApplyRemoval(c)
    PROVE  /\ file'[NameOf[c.entry]] = NoFile
           /\ \A n \in Names : n # NameOf[c.entry] => file'[n] = file[n]
           /\ \A n \in Names : node'[n] = IF node[n] = c.entry THEN None ELSE node[n]
           /\ "reused" \notin mishaps' => file[NameOf[c.entry]].entry \in {c.entry, None}
<1>1. NameOf[c.entry] \in Names
  BY ChangeFields, FeedConstants
<1>2. file' = [file EXCEPT ![NameOf[c.entry]] = NoFile] /\ DOMAIN file = Names
  BY DEF ApplyRemoval, FileRemoved, Path, FilesNamed
<1>3. node' = [n \in Names |-> IF node[n] = c.entry THEN None ELSE node[n]]
  BY DEF ApplyRemoval
<1>4. "reused" \notin mishaps' => file[NameOf[c.entry]].entry \in {c.entry, None}
  BY DEF ApplyRemoval, Note, Path
<1> QED
  BY <1>1, <1>2, <1>3, <1>4

LEMMA ContentEffect ==
    ASSUME FilesNamed, NEW c \in Change, ApplyContent(c)
    PROVE  \/ row[c.entry].status # "live" /\ file' = file /\ node' = node
           \/ /\ row[c.entry].status = "live"
              /\ file'[NameOf[c.entry]] = Content(c.entry) /\ node'[NameOf[c.entry]] = c.entry
              /\ \A n \in Names : n # NameOf[c.entry] => file'[n] = file[n] /\ node'[n] = node[n]
<1>1. NameOf[c.entry] \in Names
  BY ChangeFields, FeedConstants
<1>2. DOMAIN file = Names /\ DOMAIN node = Names
  BY DEF FilesNamed
<1> QED
  BY <1>1, <1>2 DEF ApplyContent, Content, Path

LEMMA FilesStep ==
    ASSUME ServerInv, FilesNamed, Counters, [Next]_vars
    PROVE  FilesNamed'
<1>0. "reused" \notin mishaps' => "reused" \notin mishaps
  BY CountersStep
<1>1. None \notin Entries /\ NoFile.entry = None
  BY FeedConstants DEF NoFile
<1> DEFINE FileSet == [entry : Entries, version : 1 .. MaxId] \cup {NoFile}
<1>2. CASE \E c \in Change : ApplyRemoval(c)
  <2>1. PICK c \in Change : ApplyRemoval(c)
    BY <1>2
  <2>2. /\ file'[NameOf[c.entry]] = NoFile
        /\ \A n \in Names : n # NameOf[c.entry] => file'[n] = file[n]
        /\ \A n \in Names : node'[n] = IF node[n] = c.entry THEN None ELSE node[n]
        /\ "reused" \notin mishaps' => file[NameOf[c.entry]].entry \in {c.entry, None}
    BY <2>1, RemovalEffect
  <2>3. file' \in [Names -> FileSet]
    BY <2>1 DEF ApplyRemoval, FileRemoved, FilesNamed
  <2>4. node' \in [Names -> Entries \cup {None}]
    BY <2>1 DEF ApplyRemoval, FilesNamed
  <2>5. \A n \in Names : file'[n] # NoFile => NameOf[file'[n].entry] = n
    BY <2>2 DEF FilesNamed
  <2>6. \A n \in Names : node'[n] # None => NameOf[node'[n]] = n
    BY <2>2 DEF FilesNamed
  <2>7. ASSUME "reused" \notin mishaps', NEW n \in Names PROVE node'[n] = file'[n].entry
    <3>1. node[n] = file[n].entry
      BY <1>0, <2>7 DEF FilesNamed
    <3>2. node[n] = c.entry => n = NameOf[c.entry]
      BY <1>1, ChangeFields DEF FilesNamed
    <3>3. CASE n = NameOf[c.entry]
      BY <1>1, <2>2, <2>7, <3>1, <3>3
    <3>4. CASE n # NameOf[c.entry]
      BY <2>2, <3>1, <3>2, <3>4
    <3> QED
      BY <3>3, <3>4
  <2> QED
    BY <2>3, <2>4, <2>5, <2>6, <2>7 DEF FilesNamed
<1>3. CASE \E c \in Change : ApplyContent(c)
  <2>1. PICK c \in Change : ApplyContent(c)
    BY <1>3
  <2>2. /\ c.entry \in Entries /\ NameOf[c.entry] \in Names
    BY ChangeFields, FeedConstants
  <2>3. CASE file' = file /\ node' = node
    BY <1>0, <2>3 DEF FilesNamed
  <2>4. CASE /\ row[c.entry].status = "live"
             /\ file'[NameOf[c.entry]] = Content(c.entry) /\ node'[NameOf[c.entry]] = c.entry
             /\ \A n \in Names : n # NameOf[c.entry] => file'[n] = file[n] /\ node'[n] = node[n]
    <3>1. row[c.entry].version \in 1 .. MaxId
      BY <2>2, <2>4, ServerNumbers DEF ServerInv, ServerShape, RowsLocked
    <3>2. Content(c.entry) \in FileSet /\ Content(c.entry).entry = c.entry
      BY <2>2, <3>1 DEF Content
    <3>3. file' \in [Names -> FileSet] /\ node' \in [Names -> Entries \cup {None}]
      <4>1. \A n \in Names : file'[n] \in FileSet /\ node'[n] \in Entries \cup {None}
        BY <2>2, <2>4, <3>2 DEF FilesNamed
      <4>2. /\ file' = [n \in Names |-> file'[n]]
            /\ node' = [n \in Names |-> node'[n]]
        BY <2>1 DEF ApplyContent, FilesNamed
      <4> QED
        BY <4>1, <4>2
    <3>4. \A n \in Names : file'[n] # NoFile => NameOf[file'[n].entry] = n
      BY <2>4, <3>2 DEF FilesNamed
    <3>5. \A n \in Names : node'[n] # None => NameOf[node'[n]] = n
      BY <2>4 DEF FilesNamed
    <3>6. "reused" \notin mishaps' => \A n \in Names : node'[n] = file'[n].entry
      BY <1>0, <2>4, <3>2 DEF FilesNamed
    <3> QED
      BY <3>3, <3>4, <3>5, <3>6 DEF FilesNamed
  <2> QED
    BY <2>1, <2>3, <2>4, ContentEffect
<1>4. CASE UNCHANGED <<file, node>>
  BY <1>0, <1>4 DEF FilesNamed
<1>5. UNCHANGED <<file, node>> \/ \E c \in Change : ApplyRemoval(c) \/ ApplyContent(c)
  BY Steps DEF vars, localVars, ClientStep, Bootstrap, Reset, SnapshotEntries, SnapshotCursor,
        ChangesChecked, ChangesRead, ApplyFails, PullDone, Stop
<1> QED
  BY <1>2, <1>3, <1>4, <1>5

LEMMA ClientKept ==
    ASSUME ServerInv, ClientInv, [Next]_vars
    PROVE  ClientInv'
  BY PullShapeStep, PassedStep, FilesStep, CountersStep DEF ClientInv
-----------------------------------------------------------------------------
(* What is still to come *)

\* The cursor and the end of the page are numbers that a step finds, or sets.
LEMMA BeyondNext ==
    ASSUME NEW e, NEW gone, NEW k
    PROVE  /\ k = cursor  => (BeyondCursor(e, gone) <=> Ahead(e, k, gone))
           /\ k = cursor' => (BeyondCursor(e, gone)' <=> Ahead(e, k, gone)')
           /\ k = pull.next  => (BeyondPage(e, gone) <=> Ahead(e, k, gone))
           /\ k = pull'.next => (BeyondPage(e, gone)' <=> Ahead(e, k, gone)')
           /\ k = cursor  => (Behind <=> Trimmed(k + 1))
           /\ k = cursor' => (Behind' <=> Trimmed(k + 1)')
<1>1. k = cursor => (BeyondCursor(e, gone) <=> Ahead(e, k, gone)) /\ (Behind <=> Trimmed(k + 1))
  BY DEF BeyondCursor, Behind
<1>2. k = cursor' => (BeyondCursor(e, gone)' <=> Ahead(e, k, gone)') /\ (Behind' <=> Trimmed(k + 1)')
  BY DEF BeyondCursor, Behind, Ahead, Row, Trimmed, Removal
<1>3. k = pull.next => (BeyondPage(e, gone) <=> Ahead(e, k, gone))
  BY DEF BeyondPage
<1>4. k = pull'.next => (BeyondPage(e, gone)' <=> Ahead(e, k, gone)')
  BY DEF BeyondPage, Ahead, Row, Trimmed, Removal
<1> QED
  BY <1>1, <1>2, <1>3, <1>4

\* What is beyond one place in the feed is beyond every earlier one.
LEMMA AheadEarlier ==
    ASSUME ServerInv, NEW e, NEW gone, NEW k \in Nat, NEW m \in Nat, k <= m, Ahead(e, m, gone)
    PROVE  Ahead(e, k, gone)
<1>1. /\ lastId \in Nat /\ \A c \in log : c.id \in Nat
      /\ \A d \in Entries : Open(d) => tx[d].id \in Nat
  BY ServerNumbers
<1>2. Trimmed(m + 1) => Trimmed(k + 1)
  BY <1>1 DEF Trimmed, Open
<1> QED
  BY <1>1, <1>2 DEF Ahead, Row

\* No step of the server takes away what was ahead, unless the feed is trimmed there.
LEMMA AheadKept ==
    ASSUME ServerInv, ServerInv', Forward, NEW e, NEW gone, NEW k \in Nat, Ahead(e, k, gone)
    PROVE  Ahead(e, k, gone)'
<1>1. \A c \in log : c.id \in Nat
  BY ServerNumbers
<1>2. lastId' \in Nat /\ (\A c \in log' : c.id \in Nat) /\ \A d \in Entries : Open(d)' => tx'[d].id \in Nat
  <2>1. lastId' \in Nat
    BY FeedConstants DEF ServerInv, ServerShape
  <2> QED
    BY <2>1 DEF ServerInv, IdsOnce
<1>3. CASE Trimmed(k + 1)
  BY <1>3 DEF Forward, Ahead
<1>4. CASE Row(e, k, gone)
  <2>1. PICK c \in log : c.entry = e /\ c.id > k /\ (Removal(c) <=> gone)
    BY <1>4 DEF Row
  <2>2. CASE c \in log'
    <3>1. Row(e, k, gone)'
      BY <2>1, <2>2 DEF Row, Removal
    <3> QED
      BY <3>1 DEF Ahead
  <2>3. CASE Trimmed(c.id)'
    <3>1. c.id \in Nat /\ k + 1 <= c.id
      BY <1>1, <2>1
    <3>2. Trimmed(k + 1)'
      BY <1>2, <2>3, <3>1 DEF Trimmed, Open
    <3> QED
      BY <3>2 DEF Ahead
  <2> QED
    BY <2>2, <2>3 DEF Forward
<1> QED
  BY <1>3, <1>4 DEF Ahead

\* So neither the rows beyond the cursor nor those beyond the page get lost while the
\* client stands where it is.
LEMMA BeyondKept ==
    ASSUME ServerInv, PullShape, [Next]_vars, NEW e, NEW gone
    PROVE  /\ cursor' = cursor /\ BeyondCursor(e, gone) => BeyondCursor(e, gone)'
           /\ pull'.next = pull.next /\ BeyondPage(e, gone) => BeyondPage(e, gone)'
           /\ cursor' = cursor /\ Behind => Behind'
<1>0. ServerInv' /\ Forward
  BY ServerKept
<1>1. PICK k \in Nat : k = cursor
  BY ClientNumbers
<1>2. PICK m \in Nat : m = pull.next
  BY ClientNumbers
<1>3. Ahead(e, k, gone) => Ahead(e, k, gone)'
  BY <1>0, AheadKept
<1>4. Ahead(e, m, gone) => Ahead(e, m, gone)'
  BY <1>0, AheadKept
<1>5. Trimmed(k + 1) => Trimmed(k + 1)'
  BY <1>0 DEF Forward
<1> QED
  BY <1>1, <1>2, <1>3, <1>4, <1>5, BeyondNext

\* A change that is not late is committed beyond the cursor and beyond the page.
LEMMA CommitAhead ==
    ASSUME ServerInv, PullShape, PassedIsLate, NEW e \in Entries, Commit(e),
           "late" \notin mishaps'
    PROVE  tx[e].id > cursor /\ tx[e].id > pull.next
<1>1. Open(e) /\ tx[e].id \in Nat /\ cursor \in Nat /\ pull.next \in Nat
      /\ log \in SUBSET Change /\ \A c \in log : c.id \in Nat
  BY ServerNumbers, ClientNumbers DEF Commit, Open, ServerInv, ServerShape
<1>2. ~(tx[e].id < GreatestId(log))
  BY DEF Commit, Note
<1>3. GreatestId(log) \in Nat /\ \A c \in log : c.id <= GreatestId(log)
  BY <1>1, GreatestFacts
<1>4. ~ \E c \in log : c.id > tx[e].id
  BY <1>1, <1>2, <1>3
<1> QED
  BY <1>1, <1>4 DEF PassedIsLate

LEMMA CommitBeyond ==
    ASSUME ServerInv, PullShape, PassedIsLate, NEW e \in Entries, Commit(e), Quiet',
           NEW gone, Removal(tx[e]) <=> gone
    PROVE  BeyondCursor(e, gone)' /\ BeyondPage(e, gone)'
<1>1. "late" \notin mishaps'
  BY DEF Quiet, Restarts
<1>2. tx[e].id > cursor /\ tx[e].id > pull.next
  BY <1>1, CommitAhead
<1>3. tx[e].entry = e /\ tx[e] \in log' /\ cursor' = cursor /\ pull' = pull
  BY CommitEffect DEF CommitFacts, Commit, localVars
<1> QED
  BY <1>2, <1>3 DEF BeyondCursor, BeyondPage, Ahead, Row, Removal

\* A step of the server while all is quiet: nothing but the row of the entry whose
\* transaction commits changes, and not while a request has read half of the feed.
LEMMA QuietServer ==
    ASSUME ServerInv, ServerStep, Quiet'
    PROVE  /\ pull.pc # "listed" \/ row' = row
           /\ pull.pc # "checked" \/ log \subseteq log'
           /\ \A d \in Entries :
                row'[d] # row[d] =>
                   /\ Commit(d)
                   /\ row'[d].status = "live" <=> ~Removal(tx[d])
<1>1. CASE \E e \in Entries, op \in Op : Begin(e, op)
  BY <1>1 DEF Begin
<1>2. CASE \E e \in Entries : Rollback(e)
  BY <1>2 DEF Rollback
<1>3. CASE \E n \in 1 .. MaxId : Prune(n)
  BY <1>3 DEF Prune, Note, Quiet, Restarts
<1>4. CASE \E e \in Entries : Commit(e)
  <2>1. PICK e \in Entries : Commit(e)
    BY <1>4
  <2>2. CommitFacts(e)
    BY <2>1, CommitEffect
  <2>3. StatusAfter(tx[e].op) = "live" <=> ~Removal(tx[e])
    BY <2>2, ChangeFields DEF CommitFacts
  <2>4. pull.pc # "listed"
    BY <2>1 DEF Commit, Note, Quiet, Restarts
  <2> QED
    BY <2>1, <2>2, <2>3, <2>4 DEF CommitFacts
<1> QED
  BY <1>1, <1>2, <1>3, <1>4 DEF ServerStep

\* A row that was found when the feed was checked tells that nothing beyond the cursor
\* is missing.
LEMMA NotBehind ==
    ASSUME ServerInv, PullShape, NEW c \in log, c.id <= cursor + 1
    PROVE  ~Behind
<1>1. c.id \in Nat /\ cursor \in Nat
  BY ServerNumbers, ClientNumbers
<1> QED
  BY <1>1 DEF Behind, Trimmed

\* What Changes asks of the feed.
LEMMA CheckFinds ==
    ASSUME ServerInv, PullShape
    PROVE  /\ ~RowsMissing => \E c \in log : c.id <= cursor + 1
           /\ Behind => RowsMissing
<1>1. /\ log \in SUBSET Change /\ cursor \in Nat /\ \A c \in log : c.id \in Nat
  BY ServerNumbers, ClientNumbers DEF ServerInv, ServerShape
<1>2. CASE log = {}
  BY <1>2 DEF RowsMissing
<1>3. CASE log # {}
  <2>1. PICK c \in log : c.id = LeastId(log) /\ LeastId(log) \in Nat
    BY <1>1, <1>3, LeastFacts
  <2>2. ~RowsMissing => c.id <= cursor + 1
    BY <1>1, <1>3, <2>1 DEF RowsMissing
  <2>3. Behind => c.id > cursor + 1
    BY DEF Behind, Trimmed
  <2> QED
    BY <1>1, <1>3, <2>1, <2>2, <2>3 DEF RowsMissing
<1> QED
  BY <1>2, <1>3
-----------------------------------------------------------------------------
(* Nothing is forgotten: the server's steps *)

LEMMA QuietBefore ==
    ASSUME Counters, [Next]_vars
    PROVE  (Quiet' => Quiet) /\ (mishaps' = {} => mishaps = {} /\ Quiet')
  BY CountersStep DEF Quiet, Restarts

LEMMA ComingServer ==
    ASSUME ServerInv, ClientInv, ComingInv, [Next]_vars,
           ServerStep, UNCHANGED <<localVars, pull, failures>>
    PROVE  ComingInv'
<1>0. /\ PullShape /\ PassedIsLate /\ FilesNamed /\ Counters
      /\ cursor' = cursor /\ pull' = pull /\ file' = file /\ pull'.next = pull.next
  BY DEF ClientInv, localVars
<1>1. (Quiet' => Quiet) /\ (mishaps' = {} => mishaps = {} /\ Quiet')
  BY <1>0, QuietBefore
<1>2. /\ \A e, gone : BeyondCursor(e, gone) => BeyondCursor(e, gone)'
      /\ \A e, gone : BeyondPage(e, gone) => BeyondPage(e, gone)'
      /\ Behind => Behind'
  BY <1>0, BeyondKept
<1>3. \A e, gone : Todo(e, gone)' <=> Todo(e, gone)
  BY <1>0 DEF Todo, Removal
<1>4. Fetching' <=> Fetching
  BY <1>0 DEF Fetching
<1>5. Quiet' => /\ pull.pc # "listed" \/ row' = row
                /\ pull.pc # "checked" \/ log \subseteq log'
  BY QuietServer
<1>6. ASSUME Quiet', NEW d \in Entries, row'[d] # row[d], NEW gone,
             row'[d].status = "live" <=> ~gone, gone \in BOOLEAN
      PROVE  BeyondCursor(d, gone)' /\ BeyondPage(d, gone)'
  <2>1. Commit(d) /\ (row'[d].status = "live" <=> ~Removal(tx[d]))
    BY <1>6, QuietServer
  <2>2. Removal(tx[d]) \in BOOLEAN
    BY DEF Removal
  <2>3. Removal(tx[d]) <=> gone
    BY <1>6, <2>1, <2>2
  <2> QED
    BY <1>0, <1>6, <2>1, <2>3, CommitBeyond
<1>7. CheckHolds'
  BY <1>0, <1>1, <1>5 DEF ComingInv, CheckHolds
<1>8. ListHolds'
  <2> SUFFICES ASSUME pull.pc = "listed", Quiet', NEW e \in Listed'
               PROVE  Todo(e, FALSE)'
    BY <1>0 DEF ListHolds
  <2>1. e \in Listed
    BY <1>5 DEF Listed
  <2> QED
    BY <1>1, <1>3, <2>1 DEF ComingInv, ListHolds
<1>9. PageHolds'
  <2> SUFFICES ASSUME pull.pc = "page", NEW c \in pull.todo, c \notin log', ~Behind'
               PROVE  FALSE
    BY <1>0 DEF PageHolds
  <2>1. c \in log /\ c.id > cursor
    BY <1>0, <1>2 DEF ComingInv, PageHolds, PullShape
  <2>2. Trimmed(c.id)'
    BY <2>1, ServerKept DEF Forward
  <2>3. PICK k \in Nat : k = cursor /\ k = cursor'
    BY <1>0, ClientNumbers
  <2>4. c.id \in Nat /\ k + 1 <= c.id
    BY <2>1, <2>3, ServerNumbers
  <2>5. ServerShape' /\ IdsOnce'
    BY ServerKept DEF ServerInv
  <2>6. lastId' \in Nat
    BY <2>5, FeedConstants DEF ServerShape
  <2>7. (\A d \in log' : d.id \in Nat) /\ \A e \in Entries : Open(e)' => tx'[e].id \in Nat
    BY <2>5, <2>6 DEF IdsOnce
  <2>8. Trimmed(k + 1)'
    BY <2>2, <2>4, <2>6, <2>7 DEF Trimmed, Open
  <2> QED
    BY <2>3, <2>8, BeyondNext
<1>10. ReturnsFollow'
  <2> SUFFICES ASSUME Quiet', Fetching, NEW c \in pull.todo, Removal(c),
                      row'[c.entry].status = "live"
               PROVE  \/ \E d \in pull.todo : d.entry = c.entry /\ ~Removal(d) /\ d.id > c.id
                      \/ BeyondPage(c.entry, FALSE)'
    <3> HIDE DEF BeyondPage
    <3> QED
      BY <1>0, <1>4 DEF ReturnsFollow, Removal, BeyondPage, Ahead, Row, Trimmed
  <2>0. c.entry \in Entries
    BY <1>0, ClientNumbers
  <2>1. CASE row'[c.entry] = row[c.entry]
    BY <1>1, <1>2, <2>1 DEF ComingInv, ReturnsFollow
  <2>2. CASE row'[c.entry] # row[c.entry]
    BY <1>6, <2>0, <2>2
  <2> QED
    BY <2>1, <2>2
<1>11. ContentComes'
  <2> SUFFICES ASSUME Quiet', NEW e \in Entries, row'[e].status = "live"
               PROVE  /\ Current(e)' \/ cursor' = 0 \/ BeyondCursor(e, FALSE)'
                      /\ Fetching' => Current(e)' \/ Todo(e, FALSE)' \/ BeyondPage(e, FALSE)'
    BY DEF ContentComes
  <2>1. CASE row'[e] = row[e]
    <3>1. Current(e)' <=> Current(e)
      BY <1>0, <2>1 DEF Current, Content
    <3> QED
      BY <1>0, <1>1, <1>2, <1>3, <1>4, <2>1, <3>1 DEF ComingInv, ContentComes
  <2>2. CASE row'[e] # row[e]
    BY <1>6, <2>2
  <2> QED
    BY <2>1, <2>2
<1>12. RemovalComes'
  <2> SUFFICES ASSUME mishaps' = {}
               PROVE  /\ pull.pc = "listed" => \A n \in Names : file[n] = NoFile
                      /\ \A n \in Names : Gone(n)' =>
                           /\ cursor' = 0 \/ BeyondCursor(file[n].entry, TRUE)'
                           /\ Fetching' => Todo(file[n].entry, TRUE)' \/ BeyondPage(file[n].entry, TRUE)'
    BY <1>0 DEF RemovalComes, BeyondCursor, BeyondPage, Ahead, Row, Trimmed, Todo
  <2>0. mishaps = {} /\ Quiet'
    BY <1>1
  <2>1. pull.pc = "listed" => \A n \in Names : file[n] = NoFile
    BY <2>0 DEF ComingInv, RemovalComes
  <2>2. ASSUME NEW n \in Names, NEW x, x = file[n].entry, Gone(n)'
        PROVE  /\ cursor' = 0 \/ BeyondCursor(x, TRUE)'
               /\ Fetching' => Todo(x, TRUE)' \/ BeyondPage(x, TRUE)'
    <3>0. x \in Entries /\ row'[x].status # "live" /\ file[n] # NoFile
      BY <1>0, <2>2 DEF FilesNamed, Gone
    <3>1. CASE row'[x] = row[x]
      <4>1. Gone(n)
        BY <2>2, <3>0, <3>1 DEF Gone
      <4> QED
        BY <1>0, <1>2, <1>3, <1>4, <2>0, <2>2, <4>1 DEF ComingInv, RemovalComes
    <3>2. CASE row'[x] # row[x]
      BY <1>6, <2>0, <3>0, <3>2
    <3> QED
      BY <3>1, <3>2
  <2> QED
    BY <1>0, <2>1, <2>2 DEF BeyondCursor, BeyondPage, Ahead, Row, Trimmed, Todo
<1> QED
  BY <1>7, <1>8, <1>9, <1>10, <1>11, <1>12 DEF ComingInv
-----------------------------------------------------------------------------
(* Nothing is forgotten: the client's steps *)

\* While the server rests, only the folder, the cursor and the pull can matter.
Resting ==
    /\ UNCHANGED serverVars
    /\ \A e \in Entries : row'[e] = row[e] /\ Content(e)' = Content(e)

LEMMA ServerRests == UNCHANGED serverVars => Resting
  BY DEF serverVars, Resting, Content

\* A removal takes away a file that is current only if its entry's return follows.
LEMMA ComingRemoval ==
    ASSUME ServerInv, ClientInv, ComingInv, [Next]_vars, NEW c \in Change, ApplyRemoval(c)
    PROVE  ComingInv'
<1>0. /\ PullShape /\ FilesNamed /\ Counters /\ UNCHANGED serverVars /\ row' = row
      /\ cursor' = cursor /\ pull' = [pull EXCEPT !.todo = @ \ {c}] /\ IsNext(c) /\ Removal(c)
  BY DEF ClientInv, ApplyRemoval, serverVars
<1>1. (Quiet' => Quiet) /\ (mishaps' = {} => mishaps = {} /\ Quiet')
  BY <1>0, QuietBefore
<1>2. /\ pull'.pc = pull.pc /\ pull'.next = pull.next /\ pull'.todo = pull.todo \ {c}
      /\ c \in pull.todo /\ \A d \in pull.todo : c.id <= d.id
      /\ pull.pc = "page"
  BY <1>0, ClientNumbers DEF IsNext, PullShape
<1>3. Fetching /\ Fetching'
  BY <1>2 DEF Fetching
<1>4. \A e, gone : /\ BeyondCursor(e, gone) => BeyondCursor(e, gone)'
                   /\ BeyondPage(e, gone) => BeyondPage(e, gone)'
  BY <1>0, <1>2, BeyondKept
<1>5. Behind => Behind'
  BY <1>0, BeyondKept
<1>6. /\ file'[NameOf[c.entry]] = NoFile
      /\ \A n \in Names : n # NameOf[c.entry] => file'[n] = file[n]
      /\ "reused" \notin mishaps' => file[NameOf[c.entry]].entry \in {c.entry, None}
  BY <1>0, RemovalEffect
<1>7. CheckHolds' /\ ListHolds'
  BY <1>2 DEF CheckHolds, ListHolds
<1>8. PageHolds'
  <2>1. \A d \in pull.todo : d \in log \/ Behind
    BY <1>2 DEF ComingInv, PageHolds
  <2>2. log' = log
    BY <1>0 DEF serverVars
  <2> QED
    BY <1>2, <1>5, <2>1, <2>2 DEF PageHolds
<1>9. Quiet => \A b \in pull.todo : Removal(b) /\ row[b.entry].status = "live" =>
                  \/ \E d \in pull.todo \ {c} : d.entry = b.entry /\ ~Removal(d) /\ d.id > b.id
                  \/ BeyondPage(b.entry, FALSE)
  <2> SUFFICES ASSUME Quiet, NEW b \in pull.todo, Removal(b), row[b.entry].status = "live",
                      NEW d \in pull.todo, d.entry = b.entry, ~Removal(d), d.id > b.id
               PROVE  d \in pull.todo \ {c}
    BY <1>3 DEF ComingInv, ReturnsFollow
  <2> QED
    BY <1>0
<1>10. ReturnsFollow'
  <2> SUFFICES ASSUME Quiet', NEW b \in pull'.todo, Removal(b), row'[b.entry].status = "live"
               PROVE  \/ \E d \in pull'.todo : d.entry = b.entry /\ ~Removal(d) /\ d.id > b.id
                      \/ BeyondPage(b.entry, FALSE)'
    BY DEF ReturnsFollow, Removal, BeyondPage, Ahead, Row, Trimmed
  <2> QED
    BY <1>0, <1>1, <1>2, <1>4, <1>9
<1>11. ContentComes'
  <2> SUFFICES ASSUME Quiet', NEW e \in Entries, row'[e].status = "live"
               PROVE  /\ Current(e)' \/ cursor' = 0 \/ BeyondCursor(e, FALSE)'
                      /\ Fetching' => Current(e)' \/ Todo(e, FALSE)' \/ BeyondPage(e, FALSE)'
    BY DEF ContentComes
  <2>0. Quiet /\ row[e].status = "live" /\ Content(e)' = Content(e) /\ NameOf[e] \in Names
    BY <1>0, <1>1, FeedConstants DEF Content
  <2>1. Todo(e, FALSE) => Todo(e, FALSE)'
    <3> SUFFICES ASSUME NEW d \in pull.todo, d.entry = e, ~Removal(d)
                 PROVE  \E b \in pull'.todo : b.entry = e /\ ~Removal(b)
      BY DEF Todo, Removal
    <3>1. d \in pull'.todo
      BY <1>0, <1>2
    <3> QED
      BY <3>1
  <2>2. /\ Current(e) \/ cursor = 0 \/ BeyondCursor(e, FALSE)
        /\ Current(e) \/ Todo(e, FALSE) \/ BeyondPage(e, FALSE)
    BY <1>3, <2>0 DEF ComingInv, ContentComes
  <2>3. CASE ~Current(e) \/ Current(e)'
    BY <1>0, <1>4, <2>1, <2>2, <2>3
  <2>4. CASE Current(e) /\ ~Current(e)'
    <3>1. NameOf[e] = NameOf[c.entry]
      BY <1>6, <2>0, <2>4 DEF Current
    <3>2. file[NameOf[e]].entry = e
      BY <2>4 DEF Current, Content
    <3>3. c.entry = e
      BY <1>6, <3>1, <3>2, FeedConstants DEF Quiet, Restarts
    <3>4. \/ \E d \in pull.todo \ {c} : d.entry = e /\ ~Removal(d) /\ d.id > c.id
          \/ BeyondPage(e, FALSE)
      BY <1>0, <1>2, <1>9, <2>0, <3>3
    <3>5. CASE BeyondPage(e, FALSE)
      <4>1. PICK k \in Nat : k = cursor
        BY <1>0, ClientNumbers
      <4>2. PICK m \in Nat : m = pull.next
        BY <1>0, ClientNumbers
      <4>3. k <= m
        BY <1>0, <1>2, <4>1, <4>2, ClientNumbers DEF PullShape
      <4>4. Ahead(e, m, FALSE)
        BY <3>5, <4>2, BeyondNext
      <4>5. Ahead(e, k, FALSE)
        BY <4>3, <4>4, AheadEarlier
      <4>6. BeyondCursor(e, FALSE)
        BY <4>1, <4>5, BeyondNext
      <4> QED
        BY <1>4, <3>5, <4>6
    <3>6. CASE \E d \in pull.todo \ {c} : d.entry = e /\ ~Removal(d) /\ d.id > c.id
      <4>1. PICK d \in pull.todo \ {c} : d.entry = e /\ ~Removal(d)
        BY <3>6
      <4>2. Todo(e, FALSE)
        BY <4>1 DEF Todo
      <4>3. d.id > cursor /\ (d \in log \/ Behind)
        BY <1>0, <1>2, <4>1 DEF PullShape, ComingInv, PageHolds
      <4>4. BeyondCursor(e, FALSE)
        BY <4>1, <4>3 DEF BeyondCursor, Ahead, Row, Behind
      <4> QED
        BY <1>4, <2>1, <4>2, <4>4
    <3> QED
      BY <3>4, <3>5, <3>6
  <2> QED
    BY <2>3, <2>4
<1>12. RemovalComes'
  <2> SUFFICES ASSUME mishaps' = {}, NEW n \in Names, NEW x, x = file'[n].entry, Gone(n)'
               PROVE  /\ cursor' = 0 \/ BeyondCursor(x, TRUE)'
                      /\ Todo(x, TRUE)' \/ BeyondPage(x, TRUE)'
    BY <1>2 DEF RemovalComes, BeyondCursor, BeyondPage, Ahead, Row, Trimmed, Todo
  <2>1. n # NameOf[c.entry] /\ file'[n] = file[n] /\ file[n] # NoFile
    BY <1>6 DEF Gone
  <2>2. x # c.entry
    BY <1>0, <2>1 DEF FilesNamed
  <2>3. Gone(n)
    BY <1>0, <2>1 DEF Gone
  <2>4. Todo(x, TRUE) => Todo(x, TRUE)'
    BY <1>2, <2>2 DEF Todo, Removal
  <2>5. /\ cursor = 0 \/ BeyondCursor(x, TRUE)
        /\ Todo(x, TRUE) \/ BeyondPage(x, TRUE)
    BY <1>1, <1>3, <2>1, <2>3 DEF ComingInv, RemovalComes
  <2> QED
    BY <1>0, <1>4, <2>4, <2>5
<1> QED
  BY <1>7, <1>8, <1>10, <1>11, <1>12 DEF ComingInv

\* A download gives the live entry of its name what it is now.
LEMMA ComingContent ==
    ASSUME ServerInv, ClientInv, ComingInv, [Next]_vars, NEW c \in Change, ApplyContent(c)
    PROVE  ComingInv'
<1>0. /\ PullShape /\ FilesNamed /\ Counters /\ UNCHANGED serverVars /\ row' = row
      /\ cursor' = cursor /\ pull' = [pull EXCEPT !.todo = @ \ {c}] /\ IsNext(c) /\ ~Removal(c)
      /\ mishaps' = mishaps
  BY DEF ClientInv, ApplyContent, serverVars
<1>2. /\ pull'.pc = pull.pc /\ pull'.next = pull.next /\ pull'.todo = pull.todo \ {c}
      /\ c \in pull.todo /\ \A d \in pull.todo : c.id <= d.id
      /\ \A d \in pull.todo : d.id \in Nat
      /\ pull.pc \in {"snapshot", "page"}
  BY <1>0, ClientNumbers DEF IsNext, PullShape
<1>3. Fetching /\ Fetching' /\ (Quiet' <=> Quiet)
  BY <1>0, <1>2 DEF Fetching, Quiet
<1>4. \A e, gone : /\ BeyondCursor(e, gone) => BeyondCursor(e, gone)'
                   /\ BeyondPage(e, gone) => BeyondPage(e, gone)'
  BY <1>0, <1>2, BeyondKept
<1>5. Behind => Behind'
  BY <1>0, BeyondKept
<1>6. \/ row[c.entry].status # "live" /\ file' = file
      \/ /\ row[c.entry].status = "live"
         /\ file'[NameOf[c.entry]] = Content(c.entry)
         /\ \A n \in Names : n # NameOf[c.entry] => file'[n] = file[n]
  BY <1>0, ContentEffect
<1>7. CheckHolds' /\ ListHolds'
  BY <1>2 DEF CheckHolds, ListHolds
<1>8. PageHolds'
  <2>1. pull.pc = "page" => \A d \in pull.todo : d \in log \/ Behind
    BY DEF ComingInv, PageHolds
  <2>2. log' = log
    BY <1>0 DEF serverVars
  <2> QED
    BY <1>2, <1>5, <2>1, <2>2 DEF PageHolds
<1>10. ReturnsFollow'
  <2> SUFFICES ASSUME Quiet', NEW b \in pull'.todo, Removal(b), row'[b.entry].status = "live"
               PROVE  \/ \E d \in pull'.todo : d.entry = b.entry /\ ~Removal(d) /\ d.id > b.id
                      \/ BeyondPage(b.entry, FALSE)'
    BY DEF ReturnsFollow, Removal, BeyondPage, Ahead, Row, Trimmed
  <2>1. b \in pull.todo /\ row[b.entry].status = "live" /\ b.id \in Nat /\ c.id \in Nat /\ c.id <= b.id
    BY <1>0, <1>2
  <2>2. \/ \E d \in pull.todo : d.entry = b.entry /\ ~Removal(d) /\ d.id > b.id
        \/ BeyondPage(b.entry, FALSE)
    BY <1>3, <2>1 DEF ComingInv, ReturnsFollow
  <2>3. ASSUME NEW d \in pull.todo, d.id > b.id PROVE d \in pull'.todo
    <3>1. d.id # c.id
      BY <1>2, <2>1, <2>3
    <3> QED
      BY <1>2, <3>1
  <2> QED
    BY <1>4, <2>2, <2>3
<1>11. ContentComes'
  <2> SUFFICES ASSUME Quiet', NEW e \in Entries, row'[e].status = "live"
               PROVE  /\ Current(e)' \/ cursor' = 0 \/ BeyondCursor(e, FALSE)'
                      /\ Fetching' => Current(e)' \/ Todo(e, FALSE)' \/ BeyondPage(e, FALSE)'
    BY DEF ContentComes
  <2>0. Quiet /\ row[e].status = "live" /\ Content(e)' = Content(e) /\ NameOf[e] \in Names
    BY <1>0, <1>3, FeedConstants DEF Content
  <2>1. CASE c.entry = e
    BY <1>6, <2>0, <2>1 DEF Current
  <2>2. CASE c.entry # e
    <3>1. Todo(e, FALSE) => Todo(e, FALSE)'
      BY <1>2, <2>2 DEF Todo, Removal
    <3>2. Current(e) => Current(e)'
      <4>1. c.entry \in Entries
        BY ChangeFields
      <4>2. row[c.entry].status = "live" => NameOf[c.entry] # NameOf[e]
        BY <2>0, <2>2, <4>1 DEF ServerInv, NamesOnce, Taken
      <4> QED
        BY <1>6, <2>0, <4>2 DEF Current
    <3> QED
      BY <1>0, <1>3, <1>4, <2>0, <3>1, <3>2 DEF ComingInv, ContentComes
  <2> QED
    BY <2>1, <2>2
<1>12. RemovalComes'
  <2> SUFFICES ASSUME mishaps' = {}, NEW n \in Names, NEW x, x = file'[n].entry, Gone(n)'
               PROVE  /\ cursor' = 0 \/ BeyondCursor(x, TRUE)'
                      /\ Todo(x, TRUE)' \/ BeyondPage(x, TRUE)'
    BY <1>2 DEF RemovalComes, BeyondCursor, BeyondPage, Ahead, Row, Trimmed, Todo
  <2>1. file'[n] = file[n]
    <3>1. row[c.entry].status = "live" => file'[n] # Content(c.entry)
      BY <1>0 DEF Gone, Content
    <3> QED
      BY <1>6, <3>1
  <2>2. Gone(n)
    BY <1>0, <2>1 DEF Gone
  <2>3. Todo(x, TRUE) => Todo(x, TRUE)'
    BY <1>0, <1>2 DEF Todo, Removal
  <2>4. /\ cursor = 0 \/ BeyondCursor(x, TRUE)
        /\ Todo(x, TRUE) \/ BeyondPage(x, TRUE)
    BY <1>0, <1>3, <2>1, <2>2 DEF ComingInv, RemovalComes
  <2> QED
    BY <1>0, <1>4, <2>3, <2>4
<1> QED
  BY <1>7, <1>8, <1>10, <1>11, <1>12 DEF ComingInv
\* Steps that leave the folder alone: what the files owe to the cursor stays owed.
LEMMA CursorRests ==
    ASSUME ServerInv, ClientInv, ComingInv, [Next]_vars,
           UNCHANGED <<serverVars, cursor, file>>, ~Fetching'
    PROVE  ReturnsFollow' /\ ContentComes' /\
           (mishaps' = {} => \A n \in Names : Gone(n)' =>
               /\ cursor' = 0 \/ BeyondCursor(file[n].entry, TRUE)'
               /\ Fetching' => Todo(file[n].entry, TRUE)' \/ BeyondPage(file[n].entry, TRUE)')
<1>0. PullShape /\ Counters /\ row' = row
  BY DEF ClientInv, serverVars
<1>1. (Quiet' => Quiet) /\ (mishaps' = {} => mishaps = {} /\ Quiet')
  BY <1>0, QuietBefore
<1>2. \A e, gone : BeyondCursor(e, gone) => BeyondCursor(e, gone)'
  BY <1>0, BeyondKept
<1>3. ReturnsFollow'
  BY DEF ReturnsFollow
<1>4. ContentComes'
  <2> SUFFICES ASSUME Quiet', NEW e \in Entries, row'[e].status = "live"
               PROVE  Current(e)' \/ cursor' = 0 \/ BeyondCursor(e, FALSE)'
    BY DEF ContentComes
  <2>1. Current(e)' <=> Current(e)
    BY <1>0 DEF Current, Content
  <2> QED
    BY <1>0, <1>1, <1>2, <2>1 DEF ComingInv, ContentComes
<1>5. ASSUME mishaps' = {}, NEW n \in Names, NEW x, x = file[n].entry, Gone(n)'
      PROVE  cursor' = 0 \/ BeyondCursor(x, TRUE)'
  <2>1. Gone(n)
    BY <1>0, <1>5 DEF Gone
  <2> QED
    BY <1>1, <1>2, <1>5, <2>1 DEF ComingInv, RemovalComes
<1> QED
  BY <1>3, <1>4, <1>5 DEF BeyondCursor, Ahead, Row, Trimmed

\* A client that has files and starts over has had a mishap.
LEMMA ComingSnapshot ==
    ASSUME ServerInv, ClientInv, ComingInv, [Next]_vars, Bootstrap \/ Reset
    PROVE  ComingInv'
<1>1. /\ UNCHANGED <<serverVars, cursor, file>> /\ row' = row
      /\ pull' = [pc |-> "listed", todo |-> Upserts(Listed), next |-> 0]
      /\ mishaps' = {} => \A n \in Names : file[n] = NoFile
  BY DEF Bootstrap, Reset, SnapshotEntries, localVars, serverVars, Note
<1>2. ~Fetching' /\ pull'.pc = "listed" /\ pull'.todo = Upserts(Listed)
  BY <1>1 DEF Fetching
<1>3. ListHolds'
  <2>1. Listed' = Listed
    BY <1>1 DEF Listed
  <2>2. \A e \in Listed : \E c \in Upserts(Listed) : c.entry = e /\ ~Removal(c)
    BY UpsertsFacts DEF Listed
  <2> QED
    BY <1>2, <2>1, <2>2 DEF ListHolds, Todo, Removal
<1>4. CheckHolds' /\ PageHolds'
  BY <1>2 DEF CheckHolds, PageHolds
<1>5. RemovalComes'
  BY <1>1 DEF RemovalComes, Gone
<1> QED
  BY <1>1, <1>2, <1>3, <1>4, <1>5, CursorRests DEF ComingInv

LEMMA ComingSnapshotCursor ==
    ASSUME ServerInv, ClientInv, ComingInv, [Next]_vars, SnapshotCursor
    PROVE  ComingInv'
<1>0. PullShape /\ pull.pc = "listed"
  BY DEF ClientInv, SnapshotCursor
<1>1. /\ UNCHANGED <<serverVars, cursor, file, mishaps>> /\ row' = row
      /\ pull' = [pc |-> "snapshot", todo |-> pull.todo, next |-> FeedEnd]
  BY ClientNumbers DEF SnapshotCursor, localVars, serverVars, ClientInv
<1>2. pull'.pc = "snapshot" /\ pull'.todo = pull.todo /\ (Quiet' <=> Quiet)
  BY <1>1 DEF Quiet
<1>3. CheckHolds' /\ ListHolds' /\ PageHolds'
  BY <1>2 DEF CheckHolds, ListHolds, PageHolds
<1>4. ReturnsFollow'
  BY <1>0, <1>2 DEF ReturnsFollow, PullShape, Removal
<1>5. \A e, gone : BeyondCursor(e, gone) => BeyondCursor(e, gone)'
  BY <1>0, <1>1, BeyondKept
<1>6. ContentComes'
  <2> SUFFICES ASSUME Quiet', NEW e \in Entries, row'[e].status = "live"
               PROVE  /\ Current(e)' \/ cursor' = 0 \/ BeyondCursor(e, FALSE)'
                      /\ Todo(e, FALSE)'
    BY DEF ContentComes
  <2>1. Current(e)' <=> Current(e)
    BY <1>1 DEF Current, Content
  <2>2. Todo(e, FALSE)
    BY <1>0, <1>1, <1>2 DEF ComingInv, ListHolds, Listed
  <2>3. Todo(e, FALSE)'
    BY <1>2, <2>2 DEF Todo, Removal
  <2> QED
    BY <1>1, <1>2, <1>5, <2>1, <2>3 DEF ComingInv, ContentComes
<1>7. RemovalComes'
  BY <1>0, <1>1, <1>2 DEF ComingInv, RemovalComes, Gone
<1> QED
  BY <1>3, <1>4, <1>6, <1>7 DEF ComingInv

LEMMA ComingChecked ==
    ASSUME ServerInv, ClientInv, ComingInv, [Next]_vars, ChangesChecked
    PROVE  ComingInv'
<1>1. /\ UNCHANGED <<serverVars, cursor, file, mishaps>> /\ ~RowsMissing
      /\ pull'.pc = "checked"
  BY ClientNumbers DEF ChangesChecked, localVars, ClientInv
<1>2. ~Fetching'
  BY <1>1 DEF Fetching
<1>3. CheckHolds'
  <2>1. \E c \in log : c.id <= cursor + 1
    BY <1>1, CheckFinds DEF ClientInv
  <2> QED
    BY <1>1, <2>1 DEF CheckHolds, serverVars
<1>4. ListHolds' /\ PageHolds'
  BY <1>1 DEF ListHolds, PageHolds
<1>5. RemovalComes'
  <2>1. pull'.pc # "listed"
    BY <1>1
  <2> QED
    BY <1>1, <1>2, <2>1, CursorRests DEF RemovalComes, BeyondCursor, Ahead, Row, Trimmed
<1> QED
  BY <1>1, <1>2, <1>3, <1>4, <1>5, CursorRests DEF ComingInv

\* What is owed beyond the cursor is in the page, or beyond it.
LEMMA PageTakes ==
    ASSUME ServerInv, PullShape, CheckHolds, Quiet, ChangesRead, NEW e, NEW gone,
           BeyondCursor(e, gone)
    PROVE  Todo(e, gone)' \/ BeyondPage(e, gone)'
<1>1. /\ log' = log /\ pull.pc = "checked"
      /\ pull' = [pc |-> "page", todo |-> Page, next |-> NextCursor(Page)]
  BY DEF ChangesRead, serverVars, Page
<1>2. ~Behind
  BY <1>1, NotBehind DEF CheckHolds
<1>3. PICK c \in log : c.entry = e /\ c.id > cursor /\ (Removal(c) <=> gone)
  BY <1>2 DEF BeyondCursor, Ahead, Row, Behind
<1>4. CASE c \in Page
  BY <1>1, <1>3, <1>4 DEF Todo, Removal
<1>5. CASE c \notin Page
  <2>1. c.id > NextCursor(Page)
    BY <1>3, <1>5, PageFacts
  <2> QED
    BY <1>1, <1>3, <2>1 DEF BeyondPage, Ahead, Row, Removal
<1> QED
  BY <1>4, <1>5

LEMMA ComingPage ==
    ASSUME ServerInv, ClientInv, ComingInv, [Next]_vars, ChangesRead
    PROVE  ComingInv'
<1>0. PullShape /\ pull.pc = "checked" /\ CheckHolds /\ cursor # 0
  <2>1. PullShape /\ pull.pc = "checked" /\ CheckHolds /\ cursor > 0
    BY DEF ClientInv, ComingInv, ChangesRead, PullShape
  <2> QED
    BY <2>1
<1>1. /\ UNCHANGED <<serverVars, cursor, file, mishaps>> /\ row' = row /\ log' = log
      /\ pull' = [pc |-> "page", todo |-> Page, next |-> NextCursor(Page)]
  BY DEF ChangesRead, localVars, serverVars, Page
<1>2. pull'.pc = "page" /\ pull'.todo = Page /\ pull'.next = NextCursor(Page) /\ (Quiet' <=> Quiet)
  BY <1>1 DEF Quiet
<1>3. CheckHolds' /\ ListHolds'
  BY <1>2 DEF CheckHolds, ListHolds
<1>4. PageHolds'
  BY <1>1, <1>2, PageFacts, <1>0 DEF PageHolds
<1>5. ReturnsFollow'
  <2> SUFFICES ASSUME NEW b \in Page, Removal(b), row[b.entry].status = "live"
               PROVE  \/ \E d \in Page : d.entry = b.entry /\ ~Removal(d) /\ d.id > b.id
                      \/ BeyondPage(b.entry, FALSE)'
    BY <1>1, <1>2 DEF ReturnsFollow, Removal, BeyondPage, Ahead, Row, Trimmed
  <2>1. b \in log /\ b.id > cursor
    BY <1>0, PageFacts
  <2>2. PICK d \in log : d.entry = b.entry /\ ~Removal(d) /\ d.id > b.id
    BY <2>1 DEF ServerInv, LiveAgain
  <2>3. d.id > cursor
    BY <1>0, <2>1, <2>2, ServerNumbers, ClientNumbers
  <2>4. CASE d \in Page
    BY <2>2, <2>4
  <2>5. CASE d \notin Page
    <3>1. d.id > pull'.next
      BY <1>0, <1>2, <2>3, <2>5, PageFacts
    <3> QED
      BY <1>1, <2>2, <3>1 DEF BeyondPage, Ahead, Row, Removal
  <2> QED
    BY <2>4, <2>5
<1>6. \A e, gone : BeyondCursor(e, gone) => BeyondCursor(e, gone)'
  BY <1>0, <1>1, BeyondKept
<1>7. Quiet => \A e, gone : BeyondCursor(e, gone) => Todo(e, gone)' \/ BeyondPage(e, gone)'
  BY <1>0, PageTakes
<1>8. ContentComes'
  <2> SUFFICES ASSUME Quiet', NEW e \in Entries, row'[e].status = "live"
               PROVE  /\ Current(e)' \/ cursor' = 0 \/ BeyondCursor(e, FALSE)'
                      /\ Current(e)' \/ Todo(e, FALSE)' \/ BeyondPage(e, FALSE)'
    BY DEF ContentComes
  <2>1. Current(e)' <=> Current(e)
    BY <1>1 DEF Current, Content
  <2>2. Current(e) \/ BeyondCursor(e, FALSE)
    BY <1>0, <1>1, <1>2 DEF ComingInv, ContentComes
  <2> QED
    BY <1>2, <1>6, <1>7, <2>1, <2>2
<1>9. RemovalComes'
  <2> SUFFICES ASSUME mishaps' = {}, NEW n \in Names, NEW x, x = file[n].entry, Gone(n)'
               PROVE  /\ BeyondCursor(x, TRUE)'
                      /\ Todo(x, TRUE)' \/ BeyondPage(x, TRUE)'
    BY <1>1, <1>2 DEF RemovalComes, BeyondCursor, BeyondPage, Ahead, Row, Trimmed, Todo
  <2>1. Gone(n) /\ mishaps = {} /\ Quiet
    BY <1>1 DEF Gone, Quiet
  <2>2. BeyondCursor(x, TRUE)
    BY <1>0, <2>1 DEF ComingInv, RemovalComes
  <2> QED
    BY <1>6, <1>7, <2>1, <2>2
<1> QED
  BY <1>3, <1>4, <1>5, <1>8, <1>9 DEF ComingInv

\* Once all of a page has been applied, what was owed beyond it is owed beyond the cursor.
LEMMA ComingDone ==
    ASSUME ServerInv, ClientInv, ComingInv, [Next]_vars, PullDone
    PROVE  ComingInv'
<1>0. PullShape /\ Fetching /\ pull.todo = {} /\ cursor' = pull.next
  <2>1. PullShape /\ pull.pc \in {"snapshot", "page"} /\ pull.todo = {}
    BY DEF ClientInv, PullDone
  <2>2. cursor' = pull.next
    BY <2>1, ClientNumbers DEF PullDone, PullShape
  <2> QED
    BY <2>1, <2>2 DEF Fetching
<1>1. /\ UNCHANGED <<serverVars, file, mishaps>> /\ row' = row /\ log' = log /\ tx' = tx
      /\ lastId' = lastId /\ pull'.pc = "idle"
  BY DEF PullDone, serverVars, NotPulling
<1>2. ~Fetching' /\ (Quiet' <=> Quiet)
  BY <1>1 DEF Fetching, Quiet
<1>3. CheckHolds' /\ ListHolds' /\ PageHolds' /\ ReturnsFollow'
  BY <1>1, <1>2 DEF CheckHolds, ListHolds, PageHolds, ReturnsFollow
<1>4. \A e, gone : BeyondPage(e, gone) => BeyondCursor(e, gone)'
  BY <1>0, <1>1 DEF BeyondPage, BeyondCursor, Ahead, Row, Trimmed, Removal
<1>5. \A e, gone : ~Todo(e, gone)
  BY <1>0 DEF Todo
<1>6. ContentComes'
  <2> SUFFICES ASSUME Quiet', NEW e \in Entries, row'[e].status = "live"
               PROVE  Current(e)' \/ BeyondCursor(e, FALSE)'
    BY <1>2 DEF ContentComes
  <2>1. Current(e)' <=> Current(e)
    BY <1>1 DEF Current, Content
  <2> QED
    BY <1>0, <1>1, <1>2, <1>4, <1>5, <2>1 DEF ComingInv, ContentComes
<1>7. RemovalComes'
  <2> SUFFICES ASSUME mishaps' = {}, NEW n \in Names, NEW x, x = file[n].entry, Gone(n)'
               PROVE  BeyondCursor(x, TRUE)'
    BY <1>1, <1>2 DEF RemovalComes, BeyondCursor, Ahead, Row, Trimmed
  <2>1. Gone(n) /\ mishaps = {}
    BY <1>1 DEF Gone
  <2> QED
    BY <1>0, <1>4, <1>5, <2>1 DEF ComingInv, RemovalComes
<1> QED
  BY <1>3, <1>6, <1>7 DEF ComingInv

\* The engine stops: the next pull begins where this one began.
LEMMA ComingStop ==
    ASSUME ServerInv, ClientInv, ComingInv, [Next]_vars, Stop
    PROVE  ComingInv'
<1>1. UNCHANGED <<serverVars, cursor, file, mishaps>> /\ pull'.pc = "idle"
  BY DEF Stop, localVars, NotPulling
<1>2. ~Fetching'
  BY <1>1 DEF Fetching
<1>3. CheckHolds' /\ ListHolds' /\ PageHolds'
  BY <1>1 DEF CheckHolds, ListHolds, PageHolds
<1>4. RemovalComes'
  <2>1. pull'.pc # "listed"
    BY <1>1
  <2> QED
    BY <1>1, <1>2, <2>1, CursorRests DEF RemovalComes, BeyondCursor, Ahead, Row, Trimmed
<1> QED
  BY <1>1, <1>2, <1>3, <1>4, CursorRests DEF ComingInv

\* A change that could not be applied is a mishap; the page goes on without it.
LEMMA ComingFails ==
    ASSUME ServerInv, ClientInv, ComingInv, [Next]_vars, NEW c \in Change, ApplyFails(c)
    PROVE  ComingInv'
<1>1. /\ UNCHANGED <<serverVars, cursor>> /\ log' = log
      /\ pull' = [pull EXCEPT !.todo = @ \ {c}] /\ PullShape
      /\ pull.pc \in {"snapshot", "page"}
      /\ "failed" \in mishaps'
  BY DEF ApplyFails, localVars, serverVars, Note, ClientInv, IsNext
<1>2. pull'.pc = pull.pc /\ pull'.todo \subseteq pull.todo
  BY <1>1, ClientNumbers
<1>3. ~Quiet' /\ mishaps' # {}
  BY <1>1 DEF Quiet, Restarts
<1>4. Behind => Behind'
  BY <1>1, BeyondKept
<1>5. PageHolds'
  BY <1>1, <1>2, <1>4 DEF ComingInv, PageHolds
<1> QED
  BY <1>3, <1>5 DEF ComingInv, CheckHolds, ListHolds, ReturnsFollow, ContentComes, RemovalComes

-----------------------------------------------------------------------------
(* The invariant, and what follows from it *)

LEMMA FeedInit == Init => FeedInv
<1> SUFFICES ASSUME Init PROVE FeedInv
  OBVIOUS
<1>1. ServerInv /\ ClientInv
  BY ServerInit, ClientInit
<1>2. \A e \in Entries : row[e].status # "live"
  BY DEF Init
<1>3. \A n \in Names : file[n] = NoFile
  BY DEF Init
<1>4. pull.pc = "idle" /\ ~Fetching
  BY DEF Init, NotPulling, Fetching
<1>5. CheckHolds /\ ListHolds /\ PageHolds /\ ReturnsFollow
  BY <1>4 DEF CheckHolds, ListHolds, PageHolds, ReturnsFollow
<1>6. ContentComes /\ RemovalComes
  BY <1>2, <1>3 DEF ContentComes, RemovalComes, Gone
<1> QED
  BY <1>1, <1>5, <1>6 DEF FeedInv, ComingInv

LEMMA FeedStep == FeedInv /\ [Next]_vars => FeedInv'
<1> SUFFICES ASSUME FeedInv, [Next]_vars PROVE FeedInv'
  OBVIOUS
<1>0. ServerInv /\ ClientInv /\ ComingInv
  BY DEF FeedInv
<1>1. ServerInv' /\ ClientInv'
  BY <1>0, ServerKept, ClientKept
<1>2. ComingInv'
  <2>1. CASE ServerStep /\ UNCHANGED <<localVars, pull, failures>>
    BY <1>0, <2>1, ComingServer
  <2>2. CASE ClientStep
    BY <1>0, <2>2, ComingSnapshot, ComingSnapshotCursor, ComingChecked, ComingPage,
       ComingRemoval, ComingContent, ComingFails, ComingDone, ComingStop DEF ClientStep
  <2>3. CASE UNCHANGED vars
    BY <1>0, <2>3
    DEF vars, serverVars, localVars, ComingInv, CheckHolds, ListHolds, PageHolds, ReturnsFollow,
        ContentComes, RemovalComes, Quiet, Fetching, Listed, Todo, Removal, Behind, BeyondPage,
        BeyondCursor, Ahead, Row, Trimmed, Current, Content, Gone
  <2> QED
    BY <2>1, <2>2, <2>3, Steps
<1> QED
  BY <1>1, <1>2 DEF FeedInv

LEMMA FeedInvariant == Spec => []FeedInv
<1> QED
  BY FeedInit, FeedStep, PTL DEF Spec

\* Every state of the server, the feed and the client is one the module declares.
THEOREM FeedTypeCorrect == Spec => []TypeOK
<1>1. FeedInv => TypeOK
  <2> SUFFICES ASSUME FeedInv PROVE TypeOK
    OBVIOUS
  <2>1. cursor \in 0 .. MaxId
    BY ClientNumbers, ServerNumbers DEF FeedInv, ClientInv
  <2> QED
    BY <2>1 DEF FeedInv, ServerInv, ClientInv, ServerShape, PullShape, FilesNamed, Counters, TypeOK
<1> QED
  BY <1>1, FeedInvariant, PTL

\* The folder of a client that has caught up mirrors the server, whatever was committed,
\* rolled back, pruned, stopped or started over on the way.
THEOREM FolderStaysInStep == Spec => []FolderInStep
<1>1. FeedInv => FolderInStep
  <2> SUFFICES ASSUME FeedInv PROVE FolderInStep
    OBVIOUS
  <2>0. ServerInv /\ PullShape /\ FilesNamed /\ ContentComes /\ RemovalComes
    BY DEF FeedInv, ClientInv, ComingInv
  <2>1. ASSUME CaughtUp, NEW e, NEW gone PROVE ~BeyondCursor(e, gone)
    <3>1. ~Behind
      BY <2>0, <2>1, CheckFinds DEF CaughtUp
    <3>2. ~ \E c \in log : c.id > cursor
      BY <2>1 DEF CaughtUp, After
    <3> QED
      BY <3>1, <3>2 DEF BeyondCursor, Ahead, Row, Behind
  <2>2. CaughtUp => cursor # 0
    BY DEF CaughtUp
  <2>3. LiveFilesArrive
    BY <2>0, <2>1, <2>2 DEF LiveFilesArrive, ContentComes, Quiet, Current
  <2>4. NothingElseRemains
    BY <2>0, <2>1, <2>2 DEF NothingElseRemains, RemovalComes, Gone
  <2>5. NodesMatchFiles
    BY <2>0, FeedConstants DEF NodesMatchFiles, FilesNamed, NoFile
  <2> QED
    BY <2>3, <2>4, <2>5 DEF FolderInStep
<1> QED
  BY <1>1, FeedInvariant, PTL

\* No change is committed behind the back of the client, unless a later id was first.
THEOREM ChangesStayAhead == Spec => NewChangesAreAhead
<1> DEFINE A == \A c \in log' \ log :
                    "late" \notin mishaps' => c.id > cursor /\ c.id > pull.next
<1>1. FeedInv /\ [Next]_vars => [A]_vars
  <2> SUFFICES ASSUME FeedInv, [Next]_vars, NEW c \in log' \ log, "late" \notin mishaps'
               PROVE  c.id > cursor /\ c.id > pull.next
    OBVIOUS
  <2>1. PICK e \in Entries : Commit(e)
    BY Steps DEF ServerStep, Begin, Rollback, Prune, After, vars, serverVars
  <2>2. c = tx[e]
    BY <2>1 DEF Commit, Logged
  <2> QED
    BY <2>1, <2>2, CommitAhead DEF FeedInv, ClientInv
<1> QED
  BY <1>1, FeedInvariant, PTL DEF Spec, NewChangesAreAhead

=============================================================================
