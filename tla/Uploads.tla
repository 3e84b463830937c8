------------------------------- MODULE Uploads -------------------------------
(***************************************************************************)
(* Resumable uploads of TR Driver: internal/uploads/service.go with the    *)
(* file store internal/storage/local.go.                                   *)
(*                                                                         *)
(* A client opens a batch (which reserves quota), appends chunks to the    *)
(* sessions of the batch at growing offsets, and completes each session,   *)
(* which turns its temporary file into a blob and its reservation into     *)
(* used bytes.  The database commits atomically; the file store does not   *)
(* take part in the transaction, so AppendChunk and CompleteFile are cut   *)
(* between their file operation and their commit.  A janitor expires       *)
(* overdue batches from a list it read earlier.  The process may crash and *)
(* a commit may take effect although the caller sees an error.             *)
(*                                                                         *)
(* Batch and session ids are fresh UUIDs: which ids a user's batches will  *)
(* get, and which of them declare a hash, is fixed in advance by Owner,    *)
(* BatchOf and Hashed.  used_bytes has other writers (see Versions); here  *)
(* only CompleteFile moves it.                                             *)
(***************************************************************************)
EXTENDS Integers, FiniteSets, FiniteSetsExt

CONSTANTS
    Users, Batches, Sessions,
    Owner,      \* [Batches -> Users]: the user_id of a batch
    BatchOf,    \* [Sessions -> Batches]: the batch_id of a session
    Hashed,     \* the sessions whose manifest entry declares a content_hash
    Sizes,      \* the expected_size values a manifest may declare
    MaxChunk,   \* cfg.UploadChunkBytes
    Quota,      \* quota_bytes + bonus_quota_bytes of every user
    MaxFaults   \* bound on crashes, lost acknowledgements and failed statements

\* The ids are UUIDs, of which there are finitely many.
ASSUME UploadConstants ==
    /\ IsFiniteSet(Batches)
    /\ IsFiniteSet(Sessions)
    /\ Owner \in [Batches -> Users]
    /\ BatchOf \in [Sessions -> Batches]
    /\ Hashed \subseteq Sessions
    /\ Sizes \subseteq Nat
    /\ MaxChunk \in Nat
    /\ Quota \in Nat
    /\ MaxFaults \in Nat

VARIABLES
    used,       \* users.used_bytes
    reserved,   \* users.reserved_bytes
    batch,      \* upload_batches rows, with due: expires_at <= now()
    session,    \* upload_sessions rows
    temp,       \* the file behind a session's temp_key
    blob,       \* the file behind the final key of the session's last CompleteFile
    phase,      \* where the handler that holds the session's row lock stands
    listed,     \* batches CleanupExpired has read and not yet handled
    stale,      \* the reserved_bytes CleanupExpired read for a listed batch
    doomed,     \* sessions whose temporary file a committed handler will delete
    faults,     \* faults so far
    lostAcks    \* commits that took effect and still reported an error

dbVars    == <<used, reserved, batch, session>>
sweepVars == <<listed, stale>>
faultVars == <<faults, lostAcks>>
vars      == <<dbVars, temp, blob, phase, sweepVars, doomed, faultVars>>

-----------------------------------------------------------------------------
BatchStatus   == {"absent", "open", "done", "aborted", "expired"}
SessionStatus == {"absent", "open", "complete", "aborted", "expired"}

\* "wrote": AppendAt stored exactly the declared bytes, commit pending;
\* "short": AppendAt failed or stored too few or too many bytes;
\* "finalized": the temporary file has been renamed, commit pending.
Phase == {"none", "wrote", "short", "finalized"}

\* A file is its size and whether its bytes are the ones the client sent
\* (FALSE once os.Truncate has filled a hole with zeros).  A missing file has
\* size 0, as Local.Size says.
File      == [present : BOOLEAN, size : Nat, good : BOOLEAN]
NoFile    == [present |-> FALSE, size |-> 0, good |-> TRUE]
EmptyFile == [present |-> TRUE,  size |-> 0, good |-> TRUE]

NoBatch   == [status |-> "absent", reserved |-> 0, due |-> FALSE]
NoSession == [status |-> "absent", size |-> 0, received |-> 0]

Files(b)  == {s \in Sessions : BatchOf[s] = b}
UserOf(s) == Owner[BatchOf[s]]
OpenFiles(b) == {s \in Files(b) : session[s].status = "open"}

\* Mutant: greatest(0, ...) is left out of an update.
Greatest0Dropped(n) == n

Greatest0(n) == IF n > 0 THEN n ELSE 0

\* Local.Truncate of a file that exists, or to size 0.
Truncate(f, n) ==
    IF n = 0 THEN EmptyFile
             ELSE [f EXCEPT !.size = n, !.good = IF n <= f.size THEN @ ELSE FALSE]

\* Local.AppendAt with k bytes read from the body, at the end of the file.
AppendAt(f, k) == [present |-> TRUE, size |-> f.size + k, good |-> f.good]

\* lockUser: no other chunk, completion or abort of the user is in flight.
UserUnlocked(u) == \A s \in Sessions : UserOf(s) = u => phase[s] = "none"

\* Mutant: the users row is updated by two statements.
ReleaseTwice(u, n) == [reserved EXCEPT ![u] = Greatest0(@ - 2 * n)]

\* users.reserved_bytes after giving n bytes back.
Release(u, n) == [reserved EXCEPT ![u] = Greatest0(@ - n)]

\* Mutant: only the status is updated.
CloseBatchStatusOnly(b, st) == [batch EXCEPT ![b].status = st]

\* A batch that was aborted or expired reserves nothing.
CloseBatch(b, st) == [batch EXCEPT ![b].status = st, ![b].reserved = 0]

TotalSize(size, S) == MapThenSumSet(LAMBDA s : size[s], S)

TypeOK ==
    /\ used \in [Users -> Nat]
    /\ reserved \in [Users -> Nat]
    /\ batch \in [Batches -> [status : BatchStatus, reserved : Nat, due : BOOLEAN]]
    /\ session \in [Sessions -> [status : SessionStatus, size : Nat, received : Nat]]
    /\ temp \in [Sessions -> File]
    /\ blob \in [Sessions -> File]
    /\ phase \in [Sessions -> Phase]
    /\ listed \in SUBSET Batches
    /\ stale \in [Batches -> Nat]
    /\ doomed \in SUBSET Sessions
    /\ faults \in 0 .. MaxFaults
    /\ lostAcks \in 0 .. MaxFaults

Init ==
    /\ used = [u \in Users |-> 0]
    /\ reserved = [u \in Users |-> 0]
    /\ batch = [b \in Batches |-> NoBatch]
    /\ session = [s \in Sessions |-> NoSession]
    /\ temp = [s \in Sessions |-> NoFile]
    /\ blob = [s \in Sessions |-> NoFile]
    /\ phase = [s \in Sessions |-> "none"]
    /\ listed = {}
    /\ stale = [b \in Batches |-> 0]
    /\ doomed = {}
    /\ faults = 0
    /\ lostAcks = 0

Fault == /\ faults < MaxFaults
         /\ faults' = faults + 1
         /\ UNCHANGED lostAcks

AckLost == /\ faults < MaxFaults
           /\ lostAcks < MaxFaults
           /\ faults' = faults + 1
           /\ lostAcks' = lostAcks + 1

-----------------------------------------------------------------------------
(* CreateBatch                                                             *)

\* The ids of the batch are still unused.
Fresh(b) == batch[b].status = "absent" /\ \A s \in Files(b) : ~temp[s].present

\* The quota check runs under the lock of the users row.  It bounds the total
\* by Quota, which is why total ranges over 0 .. Quota.
CreateBatch(b, size, total) ==
    LET u == Owner[b] IN
    /\ Fresh(b)
    /\ Files(b) # {}
    /\ total = TotalSize(size, Files(b))
    /\ used[u] + reserved[u] + total <= Quota
    /\ batch' = [batch EXCEPT ![b] = [status |-> "open", reserved |-> total, due |-> FALSE]]
    /\ session' = [s \in Sessions |->
                     IF s \in Files(b)
                       THEN [status |-> "open", size |-> size[s], received |-> 0]
                       ELSE session[s]]
    /\ temp' = [s \in Sessions |-> IF s \in Files(b) THEN EmptyFile ELSE temp[s]]
    /\ reserved' = [reserved EXCEPT ![u] = @ + total]
    /\ UNCHANGED <<used, blob, phase, sweepVars, doomed, faultVars>>

\* The transaction rolls back after EnsureEmpty has created the files.
CreateBatchFails(b) ==
    /\ Fault
    /\ Fresh(b)
    /\ temp' = [s \in Sessions |-> IF s \in Files(b) THEN EmptyFile ELSE temp[s]]
    /\ UNCHANGED <<dbVars, blob, phase, sweepVars, doomed>>

-----------------------------------------------------------------------------
(* AppendChunk                                                             *)

\* The checks made once the mutex and the session's row lock are held.
ChunkAccepted(s) ==
    /\ UserUnlocked(UserOf(s))
    /\ session[s].status = "open"
    /\ ~batch[BatchOf[s]].due

\* A file whose size is not received_bytes is cut or extended to it; the
\* handler gives up when os.Truncate finds no file.
Repairable(s) == \/ temp[s].size = session[s].received
                 \/ session[s].received = 0
                 \/ temp[s].present

Repaired(s) == IF temp[s].size = session[s].received
                 THEN temp[s]
                 ELSE Truncate(temp[s], session[s].received)

\* Mutant: the whole file is thrown away instead of the failed chunk.
CutToZero(s) == Truncate(temp[s], 0)

\* The file after an error has cut it back to the committed offset.
CutBack(s) == Truncate(temp[s], session[s].received)

\* Wrong offset or oversized chunk: nothing is written, but the repair stays.
ChunkRejected(s) ==
    /\ ChunkAccepted(s)
    /\ Repairable(s)
    /\ temp' = [temp EXCEPT ![s] = Repaired(s)]
    /\ UNCHANGED <<dbVars, blob, phase, sweepVars, doomed, faultVars>>

\* The chunk declares n bytes and its body yields k; LimitReader stops at n + 1.
ChunkWritten(s, n, k) ==
    /\ ChunkAccepted(s)
    /\ Repairable(s)
    /\ session[s].received + n <= session[s].size
    /\ k <= n + 1
    /\ temp' = [temp EXCEPT ![s] = AppendAt(Repaired(s), k)]
    /\ phase' = [phase EXCEPT ![s] = IF k = n THEN "wrote" ELSE "short"]
    /\ UNCHANGED <<dbVars, blob, sweepVars, doomed, faultVars>>

\* newOffset is what the file now holds.
ReceivedIsWritten(s) == [session EXCEPT ![s].received = temp[s].size]

ChunkCommitted(s) ==
    /\ phase[s] = "wrote"
    /\ session' = ReceivedIsWritten(s)
    /\ phase' = [phase EXCEPT ![s] = "none"]
    /\ UNCHANGED <<used, reserved, batch, temp, blob, sweepVars, doomed, faultVars>>

\* Any error after the write cuts the file back to the offset before it.
ChunkFailed(s) ==
    /\ phase[s] \in {"wrote", "short"}
    /\ temp' = [temp EXCEPT ![s] = CutBack(s)]
    /\ phase' = [phase EXCEPT ![s] = "none"]
    /\ UNCHANGED <<dbVars, blob, sweepVars, doomed, faultVars>>

\* Commit reports an error for an update that took effect.
ChunkAckLost(s) ==
    /\ AckLost
    /\ phase[s] = "wrote"
    /\ session' = ReceivedIsWritten(s)
    /\ temp' = [temp EXCEPT ![s] = CutBack(s)]
    /\ phase' = [phase EXCEPT ![s] = "none"]
    /\ UNCHANGED <<used, reserved, batch, blob, sweepVars, doomed>>

-----------------------------------------------------------------------------
(* CompleteFile                                                            *)

\* Mutants: the size, or the hash, of the file on disk is not checked.
WholeBySize(s) == temp[s].present /\ temp[s].size = session[s].size
WholeByHash(s) == temp[s].present /\ (s \in Hashed => temp[s].good)

\* The file on disk is complete and has the content hash the client declared.
WholeOnDisk(s) ==
    /\ temp[s].present
    /\ temp[s].size = session[s].size
    /\ s \in Hashed => temp[s].good

\* No other session of the batch is open.
LastOfBatch(s) == OpenFiles(BatchOf[s]) = {s}

\* Every check of the handler, then Finalize: rename to a fresh final key.
\* The batch may be overdue: only its status is checked.
Finalized(s) ==
    /\ UserUnlocked(UserOf(s))
    /\ session[s].status = "open"
    /\ batch[BatchOf[s]].status = "open"
    /\ session[s].received = session[s].size
    /\ WholeOnDisk(s)
    /\ blob' = [blob EXCEPT ![s] = temp[s]]
    /\ temp' = [temp EXCEPT ![s] = NoFile]
    /\ phase' = [phase EXCEPT ![s] = "finalized"]
    /\ UNCHANGED <<dbVars, sweepVars, doomed, faultVars>>

\* What the transaction commits.  old is the size of the content replaced, 0
\* for a new entry.
FileCompleted(s, old) ==
    LET b == BatchOf[s]
        u == UserOf(s)
        n == session[s].size
    IN  /\ phase[s] = "finalized"
        /\ session' = [session EXCEPT ![s].status = "complete"]
        /\ used' = [used EXCEPT ![u] = Greatest0(@ + n - old)]
        /\ reserved' = Release(u, n)
        /\ batch' = [batch EXCEPT
                       ![b].reserved = Greatest0(@ - n),
                       ![b].status = IF LastOfBatch(s) THEN "done" ELSE @]
        /\ phase' = [phase EXCEPT ![s] = "none"]

CompleteCommitted(s, old) ==
    /\ FileCompleted(s, old)
    /\ UNCHANGED <<temp, blob, sweepVars, doomed, faultVars>>

\* Name conflict, or any statement or the commit fails: the blob is deleted,
\* and the temporary file does not come back.
CompleteFailed(s) ==
    /\ phase[s] = "finalized"
    /\ blob' = [blob EXCEPT ![s] = NoFile]
    /\ phase' = [phase EXCEPT ![s] = "none"]
    /\ UNCHANGED <<dbVars, temp, sweepVars, doomed, faultVars>>

\* Commit reports an error for a completion that took effect.
CompleteAckLost(s, old) ==
    /\ AckLost
    /\ FileCompleted(s, old)
    /\ blob' = [blob EXCEPT ![s] = NoFile]
    /\ UNCHANGED <<temp, sweepVars, doomed>>

-----------------------------------------------------------------------------
(* AbortBatch, CleanupExpired, expireBatch                                 *)

\* Mutant: the update lacks its "status = 'open'" condition.
CloseAllSessions(b, st) ==
    session' = [s \in Sessions |->
                  IF s \in Files(b) THEN [session[s] EXCEPT !.status = st]
                                    ELSE session[s]]

\* The open sessions of b get status st; nothing else of them changes.
CloseSessions(b, st) ==
    session' = [s \in Sessions |->
                  IF s \in OpenFiles(b) THEN [session[s] EXCEPT !.status = st]
                                        ELSE session[s]]

\* Mutant: the keys are collected after the sessions have been closed.
DoomNothing(b) == doomed

\* The temporary files to delete once the closing transaction has committed.
Doom(b) == doomed \cup OpenFiles(b)

BatchAborted(b) ==
    /\ UserUnlocked(Owner[b])
    /\ batch[b].status = "open"
    /\ CloseSessions(b, "aborted")
    /\ batch' = CloseBatch(b, "aborted")
    /\ reserved' = Release(Owner[b], batch[b].reserved)
    /\ UNCHANGED <<used, temp, blob, phase, sweepVars>>

AbortBatch(b) ==
    /\ BatchAborted(b)
    /\ doomed' = Doom(b)
    /\ UNCHANGED faultVars

\* The handler returns before the deletions.
AbortAckLost(b) ==
    /\ AckLost
    /\ BatchAborted(b)
    /\ UNCHANGED doomed

\* Mutant: batches that reserve nothing are not worth sweeping.
OverdueAndReserving(b) ==
    batch[b].status = "open" /\ batch[b].due /\ batch[b].reserved > 0

Overdue(b) == batch[b].status = "open" /\ batch[b].due

CleanupExpired ==
    /\ listed = {}
    /\ listed' = {b \in Batches : Overdue(b)}
    /\ stale' = [b \in Batches |-> IF Overdue(b) THEN batch[b].reserved ELSE 0]
    /\ UNCHANGED <<dbVars, temp, blob, phase, doomed, faultVars>>

\* The session rows of b are not locked by a chunk or a completion.
RowsUnlocked(b) == \A s \in Files(b) : phase[s] = "none"

Unlist(b) ==
    /\ b \in listed
    /\ listed' = listed \ {b}
    /\ stale' = [stale EXCEPT ![b] = 0]

\* Releases the amount read by CleanupExpired, whatever has happened since.
BatchExpired(b) ==
    /\ Unlist(b)
    /\ RowsUnlocked(b)
    /\ CloseSessions(b, "expired")
    /\ batch' = IF batch[b].status = "open" THEN CloseBatch(b, "expired") ELSE batch
    /\ reserved' = Release(Owner[b], stale[b])
    /\ UNCHANGED <<used, temp, blob, phase>>

expireBatch(b) ==
    /\ BatchExpired(b)
    /\ doomed' = Doom(b)
    /\ UNCHANGED faultVars

expireAckLost(b) ==
    /\ AckLost
    /\ BatchExpired(b)
    /\ UNCHANGED doomed

\* A failed expiry is ignored; the next sweep will list the batch again.
expireBatchFails(b) ==
    /\ Fault
    /\ Unlist(b)
    /\ UNCHANGED <<dbVars, temp, blob, phase, doomed>>

DeleteTemp(s) ==
    /\ s \in doomed
    /\ temp' = [temp EXCEPT ![s] = NoFile]
    /\ doomed' = doomed \ {s}
    /\ UNCHANGED <<dbVars, blob, phase, sweepVars, faultVars>>

-----------------------------------------------------------------------------
(* The environment: time and crashes                                       *)

BecomesDue(b) ==
    /\ batch[b].status = "open"
    /\ ~batch[b].due
    /\ batch' = [batch EXCEPT ![b].due = TRUE]
    /\ UNCHANGED <<used, reserved, session, temp, blob, phase, sweepVars, doomed, faultVars>>

\* Transactions in flight roll back, locks and pending deletions are gone,
\* the files stay as they are.
Crash ==
    /\ Fault
    /\ phase' = [s \in Sessions |-> "none"]
    /\ listed' = {}
    /\ stale' = [b \in Batches |-> 0]
    /\ doomed' = {}
    /\ UNCHANGED <<dbVars, temp, blob>>

-----------------------------------------------------------------------------
Chunk(s) ==
    \/ ChunkRejected(s)
    \/ \E n \in 0 .. MaxChunk, k \in 0 .. MaxChunk + 1 : ChunkWritten(s, n, k)
    \/ ChunkCommitted(s)
    \/ ChunkFailed(s)
    \/ ChunkAckLost(s)

Complete(s) ==
    \/ Finalized(s)
    \/ \E old \in Sizes : CompleteCommitted(s, old) \/ CompleteAckLost(s, old)
    \/ CompleteFailed(s)

BatchStep(b) ==
    \/ \E size \in [Files(b) -> Sizes], total \in 0 .. Quota :
          CreateBatch(b, size, total)
    \/ CreateBatchFails(b)
    \/ AbortBatch(b)
    \/ AbortAckLost(b)
    \/ expireBatch(b)
    \/ expireAckLost(b)
    \/ expireBatchFails(b)
    \/ BecomesDue(b)

Next ==
    \/ \E s \in Sessions : Chunk(s) \/ Complete(s) \/ DeleteTemp(s)
    \/ \E b \in Batches : BatchStep(b)
    \/ CleanupExpired
    \/ Crash

\* A handler that holds the locks returns: it commits or fails.
Finish(s) ==
    \/ ChunkCommitted(s) \/ ChunkFailed(s)
    \/ CompleteFailed(s) \/ \E old \in Sizes : CompleteCommitted(s, old)

\* Time passes, handlers return, and the janitor's ticker keeps firing; clients
\* owe nothing.
Fairness ==
    /\ \A s \in Sessions : WF_vars(Finish(s))
    /\ \A b \in Batches : WF_vars(BecomesDue(b)) /\ WF_vars(expireBatch(b))
    /\ WF_vars(CleanupExpired)

Spec == Init /\ [][Next]_vars /\ Fairness

-----------------------------------------------------------------------------
(* Properties                                                              *)

Expected  == [s \in Sessions |-> session[s].size]
Reserving == [b \in Batches |-> batch[b].reserved]

OpenReserved(u) == TotalSize(Reserving, {b \in Batches : Owner[b] = u})

\* What a batch still reserves is exactly what its open sessions may still
\* store, whatever mix of completions, aborts and expiries it has seen; it is
\* open exactly while one of its sessions is, so a session never outlives its
\* batch and a finished batch is never swept again; and users.reserved_bytes
\* never exceeds what the user's open batches reserve, so none of it is lost.
BatchLedger ==
    /\ \A b \in Batches :
          /\ batch[b].reserved = TotalSize(Expected, OpenFiles(b))
          /\ batch[b].status = "open" <=> OpenFiles(b) # {}
    /\ \A u \in Users : reserved[u] <= OpenReserved(u)

\* The reservations of the open batches that users.reserved_bytes no longer
\* counts.
Gap(u) == OpenReserved(u) - reserved[u]

\* The user's counter falls behind its batches in one way only: expireBatch
\* releases an amount that CleanupExpired read before the batch changed.
OnlyStaleSweepUnderReserves ==
    [][\A u \in Users : Gap(u)' > Gap(u) =>
          \E b \in listed \ listed' : Owner[b] = u /\ stale[b] # batch[b].reserved]_vars

\* The bytes a client has been told are received are on disk, so an interrupted
\* upload can resume: the file of an open session may run ahead of
\* received_bytes, never behind it.
ReceivedOnDisk ==
    \A s \in Sessions :
        session[s].status = "open" /\ temp[s].present /\ lostAcks = 0 =>
            temp[s].good /\ temp[s].size >= session[s].received

\* The entry a completed session created has its blob, with every byte the
\* client sent, through crashes at any point; only a commit whose
\* acknowledgement was lost breaks this (CompleteFile then deletes the blob).
CompletedIntact ==
    \A s \in Sessions :
        session[s].status = "complete" /\ lostAcks = 0 =>
            blob[s] = [present |-> TRUE, size |-> session[s].size, good |-> TRUE]

\* A client that declares a content hash never gets wrong bytes stored, not
\* even when a lost acknowledgement has left a hole in the temporary file.
HashedContentIntact ==
    \A s \in Sessions :
        session[s].status = "complete" /\ s \in Hashed /\ blob[s].present =>
            blob[s].good /\ blob[s].size = session[s].size

\* Without a fault no file is left behind: the file of a closed session is
\* waiting for its deletion, and a blob belongs to a completed session or to a
\* completion in flight.
NoLeakWithoutFault ==
    faults = 0 =>
        \A s \in Sessions :
            /\ temp[s].present => session[s].status = "open" \/ s \in doomed
            /\ blob[s].present => session[s].status = "complete" \/ phase[s] = "finalized"

\* A completed, aborted or expired session or batch keeps its status: no late
\* chunk, completion, abort or sweep reopens it or closes it twice.
ClosedForever ==
    [][/\ \A s \in Sessions : session[s].status \notin {"absent", "open"} =>
                               session'[s] = session[s]
       /\ \A b \in Batches : batch[b].status \notin {"absent", "open"} =>
                              batch'[b].status = batch[b].status]_vars

\* The sessions and batches of the database do what Delivery promises, through
\* crashes, lost acknowledgements and stale sweeps: offsets never go back, a
\* file is completed once and only when all of it was received, its share of
\* the batch's reservation goes with it, and an abort or expiry closes the open
\* files of its batch and no others (service.go).
Promise == INSTANCE Delivery WITH
    Items <- Sessions, Lots <- Batches, LotOf <- BatchOf, Amounts <- Sizes,
    Room <- TotalSize,
    fate  <- [s \in Sessions |-> session[s].status],
    size  <- [s \in Sessions |-> session[s].size],
    taken <- [s \in Sessions |-> session[s].received],
    lot   <- [b \in Batches |-> batch[b].status],
    held  <- [b \in Batches |-> batch[b].reserved]

UploadsDeliver == Promise!DeliverySpec

\* Every batch is eventually closed and its reservation given up, even when the
\* client never comes back and its completions fail.
EveryBatchCloses ==
    \A b \in Batches : batch[b].status = "open" ~> batch[b].status # "open"

=============================================================================
