---------------------------- MODULE UploadsProofs ----------------------------
(***************************************************************************)
(* Proofs about Uploads, for every set of users, batches and sessions.     *)
(***************************************************************************)
EXTENDS Uploads, Sums, TLAPS

\* Files never leave their type, whatever the file store does to them.
LEMMA FileTypes ==
    /\ NoFile \in File
    /\ EmptyFile \in File
    /\ \A f \in File, n \in Nat : Truncate(f, n) \in File /\ AppendAt(f, n) \in File
<1>1. NoFile \in File /\ EmptyFile \in File
  BY DEF NoFile, EmptyFile, File
<1>2. ASSUME NEW f \in File, NEW n \in Nat PROVE Truncate(f, n) \in File
  BY <1>1 DEF File, Truncate
<1>3. ASSUME NEW f \in File, NEW n \in Nat PROVE AppendAt(f, n) \in File
  BY DEF File, AppendAt
<1> QED BY <1>1, <1>2, <1>3

\* greatest(0, n) is a natural number.
LEMMA Greatest0Type == \A n \in Int : Greatest0(n) \in Nat
BY DEF Greatest0

SessionRow == [status : SessionStatus, size : Nat, received : Nat]
BatchRow   == [status : BatchStatus, reserved : Nat, due : BOOLEAN]

\* What the repair and the cut leave behind is a file.
LEMMA RepairTypes ==
    TypeOK => \A s \in Sessions : Repaired(s) \in File /\ CutBack(s) \in File
<1> SUFFICES ASSUME TypeOK, NEW s \in Sessions
             PROVE  Repaired(s) \in File /\ CutBack(s) \in File
  OBVIOUS
<1>1. temp[s] \in File /\ session[s].received \in Nat
  BY DEF TypeOK
<1>2. Truncate(temp[s], session[s].received) \in File
  BY <1>1, FileTypes
<1> QED BY <1>1, <1>2 DEF Repaired, CutBack

\* Closing the sessions of a batch, closing a batch and releasing a
\* reservation keep the rows' types.
LEMMA CloseTypes ==
    TypeOK =>
        /\ \A b \in Batches, st \in BatchStatus : CloseBatch(b, st) \in [Batches -> BatchRow]
        /\ \A u \in Users, n \in Nat : Release(u, n) \in [Users -> Nat]
        /\ \A b \in Batches : Doom(b) \in SUBSET Sessions
        /\ \A b \in Batches, st \in SessionStatus :
              CloseSessions(b, st) => session' \in [Sessions -> SessionRow]
<1> SUFFICES ASSUME TypeOK
             PROVE  /\ \A b \in Batches, st \in BatchStatus : CloseBatch(b, st) \in [Batches -> BatchRow]
                    /\ \A u \in Users, n \in Nat : Release(u, n) \in [Users -> Nat]
                    /\ \A b \in Batches : Doom(b) \in SUBSET Sessions
                    /\ \A b \in Batches, st \in SessionStatus :
                          CloseSessions(b, st) => session' \in [Sessions -> SessionRow]
  OBVIOUS
<1>1. ASSUME NEW b \in Batches, NEW st \in BatchStatus
      PROVE  CloseBatch(b, st) \in [Batches -> BatchRow]
  BY DEF TypeOK, CloseBatch, BatchRow
<1>2. ASSUME NEW u \in Users, NEW n \in Nat
      PROVE  Release(u, n) \in [Users -> Nat]
  BY Greatest0Type DEF TypeOK, Release
<1>3. ASSUME NEW b \in Batches PROVE Doom(b) \in SUBSET Sessions
  BY DEF TypeOK, Doom, OpenFiles, Files
<1>4. ASSUME NEW b \in Batches, NEW st \in SessionStatus, CloseSessions(b, st)
      PROVE  session' \in [Sessions -> SessionRow]
  BY <1>4 DEF TypeOK, CloseSessions, SessionRow
<1> QED BY <1>1, <1>2, <1>3, <1>4

\* Type correctness of the chunk steps.
LEMMA ChunkType ==
    ASSUME TypeOK, NEW s \in Sessions, Chunk(s) PROVE TypeOK'
<1> USE UploadConstants
<1>0. Repaired(s) \in File /\ CutBack(s) \in File /\ temp[s].size \in Nat
  BY RepairTypes DEF TypeOK, File
<1>1. CASE ChunkRejected(s)
  BY <1>0, <1>1 DEF ChunkRejected, TypeOK, dbVars, sweepVars, faultVars
<1>2. ASSUME NEW n \in 0 .. MaxChunk, NEW k \in 0 .. MaxChunk + 1, ChunkWritten(s, n, k)
      PROVE  TypeOK'
  <2>1. k \in Nat
    OBVIOUS
  <2>2. AppendAt(Repaired(s), k) \in File
    BY <1>0, <2>1, FileTypes
  <2> QED BY <1>2, <2>2 DEF ChunkWritten, TypeOK, Phase, dbVars, sweepVars, faultVars
<1>3. ReceivedIsWritten(s) \in [Sessions -> SessionRow]
  BY <1>0 DEF ReceivedIsWritten, TypeOK, SessionRow
<1>4. CASE ChunkCommitted(s)
  BY <1>3, <1>4 DEF ChunkCommitted, SessionRow, TypeOK, Phase, sweepVars, faultVars
<1>5. CASE ChunkFailed(s)
  BY <1>0, <1>5 DEF ChunkFailed, TypeOK, Phase, dbVars, sweepVars, faultVars
<1>6. CASE ChunkAckLost(s)
  BY <1>0, <1>3, <1>6 DEF ChunkAckLost, AckLost, SessionRow, TypeOK, Phase, sweepVars
<1> QED BY <1>1, <1>2, <1>4, <1>5, <1>6 DEF Chunk

\* Type correctness of the completion steps.
LEMMA CompleteType ==
    ASSUME TypeOK, NEW s \in Sessions, Complete(s) PROVE TypeOK'
<1> USE UploadConstants, FileTypes
<1>1. CASE Finalized(s)
  BY <1>1 DEF Finalized, TypeOK, Phase, dbVars, sweepVars, faultVars
<1>2. ASSUME NEW old \in Sizes, FileCompleted(s, old)
      PROVE  /\ used' \in [Users -> Nat]
             /\ reserved' \in [Users -> Nat]
             /\ batch' \in [Batches -> BatchRow]
             /\ session' \in [Sessions -> SessionRow]
             /\ phase' \in [Sessions -> Phase]
  <2>1. session[s].size \in Nat /\ old \in Nat
    BY DEF TypeOK
  <2>2. UserOf(s) \in Users /\ BatchOf[s] \in Batches
    BY DEF UserOf
  <2>3. reserved' \in [Users -> Nat]
    BY <1>2, <2>1, <2>2, CloseTypes DEF FileCompleted
  <2>4. used' \in [Users -> Nat]
    <3>0. used[UserOf(s)] \in Nat
      BY <2>2 DEF TypeOK
    <3>1. Greatest0(used[UserOf(s)] + session[s].size - old) \in Nat
      <4>1. used[UserOf(s)] + session[s].size - old \in Int
        BY <2>1, <3>0
      <4> QED BY <4>1, Greatest0Type
    <3> QED BY <1>2, <3>1 DEF FileCompleted, TypeOK
  <2>5. batch' \in [Batches -> BatchRow]
    <3>0. batch[BatchOf[s]].reserved \in Nat
      BY <2>2 DEF TypeOK
    <3>1. Greatest0(batch[BatchOf[s]].reserved - session[s].size) \in Nat
      <4>1. batch[BatchOf[s]].reserved - session[s].size \in Int
        BY <2>1, <3>0
      <4> QED BY <4>1, Greatest0Type
    <3>2. \A v \in Nat, st \in BatchStatus :
             [batch EXCEPT ![BatchOf[s]].reserved = v, ![BatchOf[s]].status = st]
               \in [Batches -> BatchRow]
      <4> SUFFICES ASSUME NEW v \in Nat, NEW st \in BatchStatus
                   PROVE  [batch EXCEPT ![BatchOf[s]].reserved = v, ![BatchOf[s]].status = st]
                            \in [Batches -> BatchRow]
        OBVIOUS
      <4> DEFINE settled == [batch EXCEPT ![BatchOf[s]].reserved = v]
      <4>0. batch \in [Batches -> BatchRow] /\ BatchOf[s] \in Batches
        BY <2>2 DEF TypeOK, BatchRow
      <4>1. settled \in [Batches -> BatchRow]
        BY <4>0 DEF BatchRow
      <4> HIDE DEF settled
      <4>2. [settled EXCEPT ![BatchOf[s]].status = st] \in [Batches -> BatchRow]
        BY <4>1 DEF BatchRow
      <4> QED BY <4>2 DEF settled
    <3>3. (IF LastOfBatch(s) THEN "done" ELSE batch[BatchOf[s]].status) \in BatchStatus
      BY <2>2 DEF TypeOK, BatchStatus
    <3> QED BY <1>2, <3>1, <3>2, <3>3 DEF FileCompleted
  <2>6. session' \in [Sessions -> SessionRow] /\ phase' \in [Sessions -> Phase]
    <3>1. session' = [session EXCEPT ![s].status = "complete"]
          /\ phase' = [phase EXCEPT ![s] = "none"]
      BY <1>2 DEF FileCompleted
    <3>2. session \in [Sessions -> SessionRow] /\ phase \in [Sessions -> Phase]
      BY DEF TypeOK, SessionRow
    <3> QED BY <3>1, <3>2 DEF SessionRow, SessionStatus, Phase
  <2> QED BY <2>3, <2>4, <2>5, <2>6
<1>3. ASSUME NEW old \in Sizes, CompleteCommitted(s, old) PROVE TypeOK'
  <2>1. FileCompleted(s, old)
    BY <1>3 DEF CompleteCommitted
  <2> QED BY <1>2, <1>3, <2>1 DEF CompleteCommitted, TypeOK, BatchRow, SessionRow, sweepVars, faultVars
<1>4. ASSUME NEW old \in Sizes, CompleteAckLost(s, old) PROVE TypeOK'
  <2>1. FileCompleted(s, old)
    BY <1>4 DEF CompleteAckLost
  <2>2. faults' \in 0 .. MaxFaults /\ lostAcks' \in 0 .. MaxFaults
    BY <1>4 DEF CompleteAckLost, AckLost, TypeOK
  <2>3. blob' \in [Sessions -> File]
    BY <1>4 DEF CompleteAckLost, TypeOK
  <2> QED BY <1>2, <1>4, <2>1, <2>2, <2>3
          DEF CompleteAckLost, TypeOK, BatchRow, SessionRow, sweepVars
<1>5. CASE CompleteFailed(s)
  BY <1>5 DEF CompleteFailed, TypeOK, Phase, dbVars, sweepVars, faultVars
<1> QED BY <1>1, <1>3, <1>4, <1>5 DEF Complete

\* Type correctness of the steps on a batch.
LEMMA BatchType ==
    ASSUME TypeOK, NEW b \in Batches, BatchStep(b) PROVE TypeOK'
<1> USE UploadConstants
<1>1. ASSUME NEW size \in [Files(b) -> Sizes], NEW total \in 0 .. Quota,
             CreateBatch(b, size, total)
      PROVE  TypeOK'
  <2>1. session' \in [Sessions -> SessionRow] /\ temp' \in [Sessions -> File]
    BY <1>1, FileTypes DEF CreateBatch, TypeOK, SessionRow, SessionStatus
  <2>2. batch' \in [Batches -> BatchRow] /\ reserved' \in [Users -> Nat]
    BY <1>1 DEF CreateBatch, TypeOK, BatchRow, BatchStatus
  <2> QED BY <1>1, <2>1, <2>2 DEF CreateBatch, TypeOK, SessionRow, BatchRow, sweepVars, faultVars
<1>2. CASE CreateBatchFails(b)
  <2>1. temp' \in [Sessions -> File]
    BY <1>2, FileTypes DEF CreateBatchFails, TypeOK
  <2> QED BY <1>2, <2>1 DEF CreateBatchFails, Fault, TypeOK, dbVars, sweepVars
<1>3. CASE /\ BatchAborted(b)
           /\ doomed' = Doom(b) \/ UNCHANGED doomed
           /\ UNCHANGED faultVars \/ AckLost
  <2>1. session' \in [Sessions -> SessionRow] /\ batch' \in [Batches -> BatchRow]
    BY <1>3, CloseTypes DEF BatchAborted, SessionStatus, BatchStatus
  <2>2. batch[b].reserved \in Nat /\ Owner[b] \in Users
    BY DEF TypeOK
  <2>3. reserved' \in [Users -> Nat] /\ doomed' \in SUBSET Sessions
    BY <1>3, <2>2, CloseTypes DEF BatchAborted, TypeOK
  <2>4. faults' \in 0 .. MaxFaults /\ lostAcks' \in 0 .. MaxFaults
    BY <1>3 DEF TypeOK, AckLost, faultVars
  <2> QED BY <1>3, <2>1, <2>3, <2>4 DEF BatchAborted, TypeOK, SessionRow, BatchRow, sweepVars
<1>4. CASE /\ BatchExpired(b)
           /\ doomed' = Doom(b) \/ UNCHANGED doomed
           /\ UNCHANGED faultVars \/ AckLost
  <2>1. CloseBatch(b, "expired") \in [Batches -> BatchRow] /\ batch \in [Batches -> BatchRow]
    BY CloseTypes DEF BatchStatus, TypeOK, BatchRow
  <2>2. session' \in [Sessions -> SessionRow] /\ batch' \in [Batches -> BatchRow]
    BY <1>4, <2>1, CloseTypes DEF BatchExpired, SessionStatus
  <2>3. stale[b] \in Nat /\ Owner[b] \in Users
    BY DEF TypeOK
  <2>4. reserved' \in [Users -> Nat] /\ doomed' \in SUBSET Sessions
    BY <1>4, <2>3, CloseTypes DEF BatchExpired, TypeOK
  <2>5. faults' \in 0 .. MaxFaults /\ lostAcks' \in 0 .. MaxFaults
    BY <1>4 DEF TypeOK, AckLost, faultVars
  <2> QED BY <1>4, <2>2, <2>4, <2>5 DEF BatchExpired, Unlist, TypeOK, SessionRow, BatchRow
<1>5. CASE expireBatchFails(b)
  BY <1>5 DEF expireBatchFails, Unlist, Fault, TypeOK, dbVars
<1>6. CASE BecomesDue(b)
  BY <1>6 DEF BecomesDue, TypeOK, sweepVars, faultVars
<1> QED
  BY <1>1, <1>2, <1>3, <1>4, <1>5, <1>6
  DEF BatchStep, AbortBatch, AbortAckLost, expireBatch, expireAckLost

\* Every variable keeps its type in every behaviour: counters never become
\* negative, statuses are the ones the schema allows.
THEOREM UploadsTypeCorrect == Spec => []TypeOK
<1> USE UploadConstants, FileTypes
<1>1. Init => TypeOK
  BY DEF Init, TypeOK, NoBatch, NoSession, BatchStatus, SessionStatus, Phase
<1>2. TypeOK /\ [Next]_vars => TypeOK'
  <2> SUFFICES ASSUME TypeOK, [Next]_vars PROVE TypeOK'
    OBVIOUS
  <2>1. ASSUME NEW s \in Sessions, DeleteTemp(s) PROVE TypeOK'
    BY <2>1 DEF DeleteTemp, TypeOK, dbVars, sweepVars, faultVars
  <2>2. CASE CleanupExpired
    BY <2>2 DEF CleanupExpired, TypeOK, dbVars, faultVars
  <2>3. CASE Crash
    BY <2>3 DEF Crash, Fault, TypeOK, Phase, dbVars
  <2>4. CASE UNCHANGED vars
    BY <2>4 DEF vars, dbVars, sweepVars, faultVars, TypeOK
  <2> QED BY <2>1, <2>2, <2>3, <2>4, ChunkType, CompleteType, BatchType DEF Next
<1> QED BY <1>1, <1>2, PTL DEF Spec

-----------------------------------------------------------------------------
(* The inductive invariant behind the safety properties of files.          *)

\* What holds of one session between any two steps:
\*   - its row is locked only while it is open;
\*   - its batch exists, and is open while the session is;
\*   - its file is deleted only after the session was closed;
\*   - a chunk in flight has a file;
\*   - its file covers the bytes acknowledged, unless an acknowledgement of
\*     the server's own commit was lost;
\*   - a completion in flight, or a completed session, has its whole file
\*     under the final key.
SessionInv(s) ==
    /\ phase[s] # "none" => session[s].status = "open"
    /\ session[s].status # "absent" => batch[BatchOf[s]].status # "absent"
    /\ session[s].status = "open" => batch[BatchOf[s]].status = "open"
    /\ s \in doomed => session[s].status \in {"aborted", "expired"}
    /\ temp[s].present = TRUE \/ temp[s] = NoFile
    /\ phase[s] \in {"wrote", "short"} => temp[s].present = TRUE
    /\ (session[s].status = "open" /\ temp[s].present = TRUE /\ lostAcks = 0) =>
          (temp[s].good = TRUE /\ temp[s].size >= session[s].received)
    /\ phase[s] = "finalized" =>
          /\ blob[s].present = TRUE
          /\ blob[s].size = session[s].size
          /\ (s \in Hashed \/ lostAcks = 0) => blob[s].good = TRUE
    /\ (session[s].status = "complete" /\ lostAcks = 0) =>
          blob[s].present = TRUE /\ blob[s].good = TRUE
    /\ (session[s].status = "complete" /\ blob[s].present = TRUE) =>
          blob[s].size = session[s].size /\ (s \in Hashed => blob[s].good = TRUE)

UploadInv == TypeOK /\ \A s \in Sessions : SessionInv(s)

\* A step that leaves a session, its files and its batch alone preserves its
\* invariant; lost acknowledgements only weaken it.
LEMMA SessionInvFrame ==
    ASSUME TypeOK, NEW t \in Sessions, SessionInv(t),
           session'[t] = session[t], phase'[t] = phase[t],
           temp'[t] = temp[t], blob'[t] = blob[t], t \in doomed' => t \in doomed,
           batch[BatchOf[t]].status # "absent" => batch'[BatchOf[t]].status # "absent",
           session[t].status = "open" /\ batch[BatchOf[t]].status = "open"
               => batch'[BatchOf[t]].status = "open",
           lostAcks' = 0 => lostAcks = 0
    PROVE  SessionInv(t)'
BY DEF SessionInv

\* Lost acknowledgements are only counted up.
LEMMA LostAcksGrow == TypeOK /\ [Next]_vars => (lostAcks' = 0 => lostAcks = 0)
BY DEF Next, vars, faultVars, Chunk, ChunkRejected, ChunkWritten, ChunkCommitted, ChunkFailed,
       ChunkAckLost, Complete, Finalized, CompleteCommitted, CompleteAckLost, CompleteFailed,
       BatchStep, CreateBatch, CreateBatchFails, AbortBatch, AbortAckLost, expireBatch,
       expireAckLost, expireBatchFails, BecomesDue, DeleteTemp, CleanupExpired, Crash,
       Fault, AckLost, TypeOK

LEMMA ChunkInv ==
    ASSUME UploadInv, NEW s \in Sessions, Chunk(s), lostAcks' = 0 => lostAcks = 0,
           NEW t \in Sessions
    PROVE  SessionInv(t)'
<1> USE UploadConstants
<1>0. /\ SessionInv(s) /\ SessionInv(t)
      /\ session[s].received \in Nat /\ temp[s] \in File /\ temp[s].size \in Nat
  BY DEF UploadInv, TypeOK, File
<1>1. CASE t # s
  <2>1. /\ session'[t] = session[t] /\ phase'[t] = phase[t]
        /\ temp'[t] = temp[t] /\ blob'[t] = blob[t] /\ batch' = batch
        /\ doomed' = doomed
    BY <1>1 DEF Chunk, ChunkRejected, ChunkWritten, ChunkCommitted, ChunkFailed, ChunkAckLost,
                ReceivedIsWritten, UploadInv, TypeOK, dbVars
  <2> QED BY <1>0, <2>1, SessionInvFrame DEF UploadInv
<1>2. CASE t = s /\ ChunkRejected(s)
  BY <1>0, <1>2 DEF ChunkRejected, ChunkAccepted, Repairable, Repaired, Truncate, EmptyFile,
                    SessionInv, File, UserUnlocked, UploadInv, TypeOK, dbVars, faultVars
<1>3. ASSUME t = s, NEW n \in 0 .. MaxChunk, NEW k \in 0 .. MaxChunk + 1, ChunkWritten(s, n, k)
      PROVE  SessionInv(t)'
  <2>1. /\ session[s].status = "open" /\ phase[s] = "none"
        /\ session' = session /\ batch' = batch /\ blob' = blob /\ lostAcks' = lostAcks
        /\ doomed' = doomed
    BY <1>3 DEF ChunkWritten, ChunkAccepted, UserUnlocked, dbVars, faultVars
  <2>2. /\ Repaired(s).size = session[s].received
        /\ lostAcks = 0 => Repaired(s).good = TRUE
    BY <1>0, <1>3, <2>1 DEF ChunkWritten, Repairable, Repaired, Truncate, EmptyFile, NoFile,
                            SessionInv, File
  <2>3. temp'[s] = AppendAt(Repaired(s), k) /\ phase'[s] \in {"wrote", "short"}
    BY <1>3 DEF ChunkWritten, UploadInv, TypeOK
  <2>4. /\ temp'[s].present = TRUE
        /\ temp'[s].size = session[s].received + k
        /\ lostAcks = 0 => temp'[s].good = TRUE
    BY <2>2, <2>3 DEF AppendAt
  <2>5. temp'[s].size >= session[s].received
    BY <1>0, <2>4
  <2> QED BY <1>0, <1>3, <2>1, <2>3, <2>4, <2>5 DEF SessionInv
<1>4. CASE t = s /\ ChunkCommitted(s)
  BY <1>0, <1>4 DEF ChunkCommitted, ReceivedIsWritten, SessionInv, File, UploadInv, TypeOK, faultVars
<1>5. CASE t = s /\ ChunkFailed(s)
  BY <1>0, <1>5 DEF ChunkFailed, CutBack, Truncate, EmptyFile, SessionInv, File, UploadInv,
                    TypeOK, dbVars, faultVars
<1>6. CASE t = s /\ ChunkAckLost(s)
  BY <1>0, <1>6 DEF ChunkAckLost, AckLost, ReceivedIsWritten, CutBack, Truncate, EmptyFile,
                    SessionInv, File, UploadInv, TypeOK
<1> QED BY <1>1, <1>2, <1>3, <1>4, <1>5, <1>6 DEF Chunk

\* Completion steps preserve the invariant of every session.
LEMMA CompleteInv ==
    ASSUME UploadInv, NEW s \in Sessions, Complete(s), lostAcks' = 0 => lostAcks = 0,
           NEW t \in Sessions
    PROVE  SessionInv(t)'
<1> USE UploadConstants
<1>0. /\ SessionInv(s) /\ SessionInv(t) /\ BatchOf[t] \in Batches /\ temp[s] \in File
      /\ session \in [Sessions -> SessionRow]
  BY DEF UploadInv, TypeOK, SessionRow
<1>a. ASSUME NEW old \in Sizes, FileCompleted(s, old)
      PROVE  /\ batch[BatchOf[t]].status # "absent" => batch'[BatchOf[t]].status # "absent"
             /\ session[t].status = "open" /\ batch[BatchOf[t]].status = "open" /\ t # s
                   => batch'[BatchOf[t]].status = "open"
  <2>1. batch[BatchOf[s]].status # "absent"
    BY <1>0, <1>a DEF SessionInv, FileCompleted
  <2>2. session[t].status = "open" /\ t # s /\ BatchOf[t] = BatchOf[s] => ~LastOfBatch(s)
    BY DEF LastOfBatch, OpenFiles, Files
  <2> QED BY <1>0, <1>a, <2>1, <2>2 DEF FileCompleted, UploadInv, TypeOK
<1>b. ASSUME NEW old \in Sizes, FileCompleted(s, old)
      PROVE  /\ session' = [session EXCEPT ![s].status = "complete"]
             /\ phase' = [phase EXCEPT ![s] = "none"]
             /\ phase[s] = "finalized"
  BY <1>b DEF FileCompleted
<1>1. CASE t # s
  <2>1. CASE Finalized(s) \/ CompleteFailed(s)
    BY <1>0, <1>1, <2>1, SessionInvFrame
    DEF Finalized, CompleteFailed, UploadInv, TypeOK, dbVars
  <2>2. ASSUME NEW old \in Sizes, CompleteCommitted(s, old) \/ CompleteAckLost(s, old)
        PROVE  SessionInv(t)'
    <3>1. FileCompleted(s, old) /\ temp' = temp /\ doomed' = doomed /\ blob'[t] = blob[t]
      BY <1>1, <2>2 DEF CompleteCommitted, CompleteAckLost, UploadInv, TypeOK
    <3>2. session'[t] = session[t] /\ phase'[t] = phase[t]
      BY <1>1, <1>b, <3>1 DEF UploadInv, TypeOK
    <3> QED BY <1>0, <1>1, <1>a, <3>1, <3>2, SessionInvFrame DEF UploadInv
  <2> QED BY <2>1, <2>2 DEF Complete
<1>2. CASE t = s /\ Finalized(s)
  BY <1>0, <1>2 DEF Finalized, WholeOnDisk, NoFile, SessionInv, File, UploadInv, TypeOK,
                    dbVars, faultVars
<1>3. ASSUME t = s, NEW old \in Sizes, CompleteCommitted(s, old)
      PROVE  SessionInv(t)'
  <2>1. /\ FileCompleted(s, old) /\ temp' = temp /\ blob' = blob
        /\ doomed' = doomed /\ lostAcks' = lostAcks
    BY <1>3 DEF CompleteCommitted, faultVars
  <2>2. session'[s] = [session[s] EXCEPT !.status = "complete"] /\ phase'[s] = "none"
    BY <1>b, <2>1 DEF UploadInv, TypeOK
  <2>3. /\ session'[s].status = "complete" /\ session'[s].size = session[s].size
        /\ session'[s].received = session[s].received
    BY <1>0, <2>2 DEF SessionRow
  <2>4. session[s].status = "open" /\ s \notin doomed
    BY <1>0, <1>b, <2>1 DEF SessionInv
  <2> QED BY <1>0, <1>3, <1>a, <1>b, <2>1, <2>2, <2>3, <2>4 DEF SessionInv
<1>4. ASSUME t = s, NEW old \in Sizes, CompleteAckLost(s, old)
      PROVE  SessionInv(t)'
  <2>1. /\ FileCompleted(s, old) /\ temp' = temp /\ blob'[s] = NoFile
        /\ doomed' = doomed /\ lostAcks' = lostAcks + 1
    BY <1>4 DEF CompleteAckLost, AckLost, UploadInv, TypeOK
  <2>2. session'[s] = [session[s] EXCEPT !.status = "complete"] /\ phase'[s] = "none"
    BY <1>b, <2>1 DEF UploadInv, TypeOK
  <2>3. session'[s].status = "complete" /\ session[s].status = "open" /\ s \notin doomed
    BY <1>0, <1>b, <2>1, <2>2 DEF SessionInv, SessionRow
  <2>4. lostAcks' # 0 /\ blob'[s].present = FALSE
    BY <2>1 DEF UploadInv, TypeOK, NoFile
  <2> QED BY <1>0, <1>4, <1>a, <2>1, <2>2, <2>3, <2>4 DEF SessionInv
<1>5. CASE t = s /\ CompleteFailed(s)
  BY <1>0, <1>5 DEF CompleteFailed, NoFile, SessionInv, UploadInv, TypeOK, dbVars, faultVars
<1> QED BY <1>1, <1>2, <1>3, <1>4, <1>5 DEF Complete

\* Steps on a batch preserve the invariant of every session: a session whose
\* row is locked is never closed by an abort or an expiry.
LEMMA BatchInv ==
    ASSUME UploadInv, NEW b \in Batches, BatchStep(b), lostAcks' = 0 => lostAcks = 0,
           NEW t \in Sessions
    PROVE  SessionInv(t)'
<1> USE UploadConstants
<1>0. /\ SessionInv(t) /\ BatchOf[t] \in Batches
      /\ session \in [Sessions -> SessionRow] /\ batch \in [Batches -> BatchRow]
  BY DEF UploadInv, TypeOK, SessionRow, BatchRow
<1>1. ASSUME NEW size \in [Files(b) -> Sizes], NEW total \in 0 .. Quota,
             CreateBatch(b, size, total)
      PROVE  SessionInv(t)'
  <2>0. /\ phase' = phase /\ blob' = blob /\ doomed' = doomed /\ lostAcks' = lostAcks
        /\ batch'[b].status = "open"
        /\ \A c \in Batches : c # b => batch'[c] = batch[c]
    BY <1>0, <1>1 DEF CreateBatch, faultVars, BatchRow
  <2>1. CASE t \in Files(b)
    <3>1. session[t].status = "absent"
      BY <1>0, <1>1, <2>1 DEF CreateBatch, Fresh, Files, SessionInv
    <3>2. /\ session'[t].status = "open" /\ session'[t].received = 0
          /\ temp'[t] = EmptyFile
      BY <1>1, <2>1 DEF CreateBatch
    <3>3. phase[t] = "none" /\ t \notin doomed /\ BatchOf[t] = b
      BY <1>0, <2>1, <3>1 DEF SessionInv, Files
    <3> QED BY <2>0, <3>2, <3>3 DEF SessionInv, EmptyFile
  <2>2. CASE t \notin Files(b)
    BY <1>0, <1>1, <2>0, <2>2, SessionInvFrame DEF CreateBatch, UploadInv, Files
  <2> QED BY <2>1, <2>2
<1>2. CASE CreateBatchFails(b)
  <2>1. CASE t \in Files(b)
    <3>1. /\ session[t].status = "absent" /\ phase[t] = "none" /\ t \notin doomed
      BY <1>0, <1>2, <2>1 DEF CreateBatchFails, Fresh, Files, SessionInv
    <3>2. /\ session' = session /\ phase' = phase /\ blob' = blob /\ doomed' = doomed
          /\ temp'[t].present = TRUE
      BY <1>2, <2>1 DEF CreateBatchFails, dbVars, EmptyFile
    <3> QED BY <3>1, <3>2 DEF SessionInv
  <2>2. CASE t \notin Files(b)
    BY <1>0, <1>2, <2>2, SessionInvFrame DEF CreateBatchFails, Fault, UploadInv, dbVars
  <2> QED BY <2>1, <2>2
<1>3. ASSUME NEW st \in {"aborted", "expired"},
             CloseSessions(b, st),
             batch' = CloseBatch(b, st) \/ batch' = batch,
             doomed' = Doom(b) \/ UNCHANGED doomed,
             UNCHANGED <<temp, blob, phase>>,
             phase[t] = "none" \/ t \notin Files(b)
      PROVE  SessionInv(t)'
  <2>1. batch[BatchOf[t]].status # "absent" => batch'[BatchOf[t]].status # "absent"
    <3>1. CASE batch' = CloseBatch(b, st)
      <4>1. batch \in [Batches -> BatchRow] /\ BatchOf[t] \in Batches
        BY <1>0
      <4>2. DOMAIN batch[b] = {"status", "reserved", "due"} /\ st # "absent"
        BY <1>3, <4>1 DEF BatchRow
      <4>3. batch'[b].status = st /\ \A c \in Batches \ {b} : batch'[c] = batch[c]
        BY <3>1, <4>1, <4>2 DEF CloseBatch
      <4> QED BY <4>1, <4>2, <4>3
    <3> QED BY <1>3, <3>1
  <2>2. CASE t \in OpenFiles(b)
    <3>1. /\ session[t].status = "open" /\ phase[t] = "none"
          /\ session'[t].status = st
      BY <1>0, <1>3, <2>2 DEF CloseSessions, OpenFiles, SessionRow
    <3> QED BY <1>0, <1>3, <2>1, <3>1 DEF SessionInv
  <2>3. CASE t \notin OpenFiles(b)
    <3>1. session'[t] = session[t] /\ (t \in doomed' => t \in doomed)
      BY <1>3, <2>3 DEF CloseSessions, Doom
    <3>2. session[t].status = "open" => BatchOf[t] # b
      BY <2>3 DEF OpenFiles, Files
    <3>3. session[t].status = "open" /\ batch[BatchOf[t]].status = "open"
             => batch'[BatchOf[t]].status = "open"
      BY <1>0, <1>3, <3>2 DEF CloseBatch
    <3> QED BY <1>0, <1>3, <2>1, <3>1, <3>3, SessionInvFrame DEF UploadInv
  <2> QED BY <2>2, <2>3
<1>4. CASE AbortBatch(b) \/ AbortAckLost(b)
  <2>1. phase[t] = "none" \/ t \notin Files(b)
    BY <1>4 DEF AbortBatch, AbortAckLost, BatchAborted, UserUnlocked, UserOf, Files
  <2> QED BY <1>3, <1>4, <2>1 DEF AbortBatch, AbortAckLost, BatchAborted
<1>5. CASE expireBatch(b) \/ expireAckLost(b)
  <2>1. phase[t] = "none" \/ t \notin Files(b)
    BY <1>5 DEF expireBatch, expireAckLost, BatchExpired, RowsUnlocked
  <2> QED BY <1>3, <1>5, <2>1 DEF expireBatch, expireAckLost, BatchExpired
<1>6. CASE expireBatchFails(b)
  BY <1>0, <1>6, SessionInvFrame DEF expireBatchFails, UploadInv, dbVars
<1>7. CASE BecomesDue(b)
  BY <1>0, <1>7, SessionInvFrame DEF BecomesDue, UploadInv, BatchRow
<1> QED BY <1>1, <1>2, <1>4, <1>5, <1>6, <1>7 DEF BatchStep

LEMMA UploadInvStep == UploadInv /\ TypeOK' /\ [Next]_vars => UploadInv'
<1> SUFFICES ASSUME UploadInv, TypeOK', [Next]_vars, NEW t \in Sessions
             PROVE  SessionInv(t)'
  BY DEF UploadInv
<1>0. /\ SessionInv(t) /\ TypeOK /\ (lostAcks' = 0 => lostAcks = 0)
      /\ BatchOf[t] \in Batches
  BY LostAcksGrow, UploadConstants DEF UploadInv
<1>1. ASSUME NEW s \in Sessions, DeleteTemp(s) PROVE SessionInv(t)'
  <2>1. CASE t = s
    BY <1>0, <1>1, <2>1 DEF DeleteTemp, SessionInv, NoFile, TypeOK, dbVars, faultVars
  <2>2. CASE t # s
    BY <1>0, <1>1, <2>2, SessionInvFrame DEF DeleteTemp, TypeOK, dbVars
  <2> QED BY <2>1, <2>2
<1>2. CASE CleanupExpired
  BY <1>0, <1>2, SessionInvFrame DEF CleanupExpired, dbVars
<1>3. CASE Crash
  BY <1>0, <1>3 DEF Crash, Fault, SessionInv, dbVars
<1>4. CASE UNCHANGED vars
  BY <1>0, <1>4, SessionInvFrame DEF vars, dbVars
<1> QED BY <1>0, <1>1, <1>2, <1>3, <1>4, ChunkInv, CompleteInv, BatchInv DEF Next

\* The invariant holds in every behaviour.
THEOREM UploadInvariant == Spec => []UploadInv
<1>1. Init /\ TypeOK => UploadInv
  BY UploadConstants DEF Init, UploadInv, SessionInv, NoSession, NoFile
<1>2. TypeOK /\ UploadInv /\ TypeOK' /\ [Next]_vars => UploadInv'
  BY UploadInvStep
<1> QED BY <1>1, <1>2, UploadsTypeCorrect, PTL DEF Spec

\* Every acknowledged byte of an open upload is on disk, however chunks,
\* completions, aborts, sweeps and crashes interleave.
THEOREM UploadsReceivedOnDisk == Spec => []ReceivedOnDisk
<1>1. UploadInv => ReceivedOnDisk
  BY DEF UploadInv, SessionInv, ReceivedOnDisk
<1> QED BY <1>1, UploadInvariant, PTL

\* A completed session has its whole blob, unless the acknowledgement of a
\* commit was lost.
THEOREM UploadsCompletedIntact == Spec => []CompletedIntact
<1>1. UploadInv => CompletedIntact
  <2> SUFFICES ASSUME UploadInv, NEW s \in Sessions,
                      session[s].status = "complete", lostAcks = 0
               PROVE  blob[s] = [present |-> TRUE, size |-> session[s].size, good |-> TRUE]
    BY DEF CompletedIntact
  <2>1. /\ blob[s].present = TRUE /\ blob[s].good = TRUE
        /\ blob[s].size = session[s].size /\ blob[s] \in File
    BY DEF UploadInv, SessionInv, TypeOK
  <2> QED BY <2>1 DEF File
<1> QED BY <1>1, UploadInvariant, PTL

\* A declared content hash guards the stored bytes even when acknowledgements
\* are lost.
THEOREM UploadsHashedContentIntact == Spec => []HashedContentIntact
<1>1. UploadInv => HashedContentIntact
  BY DEF UploadInv, SessionInv, HashedContentIntact
<1> QED BY <1>1, UploadInvariant, PTL

\* A closed session or batch keeps its status: no interleaving completes,
\* aborts or expires anything twice.
THEOREM UploadsClosedForever == Spec => ClosedForever
<1> DEFINE Stays == /\ \A s \in Sessions : session[s].status \notin {"absent", "open"} =>
                                             session'[s] = session[s]
                    /\ \A b \in Batches : batch[b].status \notin {"absent", "open"} =>
                                            batch'[b].status = batch[b].status
<1>1. UploadInv /\ [Next]_vars => Stays
  <2> SUFFICES ASSUME UploadInv, [Next]_vars PROVE Stays
    OBVIOUS
  <2> USE UploadConstants
  <2>0. /\ TypeOK /\ \A s \in Sessions : SessionInv(s) /\ BatchOf[s] \in Batches
        /\ session \in [Sessions -> SessionRow] /\ batch \in [Batches -> BatchRow]
    BY DEF UploadInv, TypeOK, SessionRow, BatchRow
  <2>u. ASSUME UNCHANGED <<session, batch>> PROVE Stays
    BY <2>u
  <2>1. ASSUME NEW s \in Sessions, Chunk(s) PROVE Stays
    <3>2. CASE ChunkCommitted(s) \/ ChunkAckLost(s)
      <4>1. /\ session[s].status = "open" /\ batch' = batch
            /\ session' = ReceivedIsWritten(s)
        BY <2>0, <3>2 DEF ChunkCommitted, ChunkAckLost, SessionInv
      <4> QED BY <2>0, <4>1 DEF ReceivedIsWritten
    <3> QED BY <2>1, <2>u, <3>2 DEF Chunk, ChunkRejected, ChunkWritten, ChunkFailed, dbVars
  <2>2. ASSUME NEW s \in Sessions, Complete(s) PROVE Stays
    <3>1. ASSUME NEW old \in Sizes, FileCompleted(s, old) PROVE Stays
      <4>1. session[s].status = "open" /\ batch[BatchOf[s]].status = "open"
        BY <2>0, <3>1 DEF FileCompleted, SessionInv
      <4>2. /\ \A t \in Sessions : t # s => session'[t] = session[t]
            /\ \A b \in Batches : b # BatchOf[s] => batch'[b] = batch[b]
        BY <2>0, <3>1 DEF FileCompleted
      <4> QED BY <2>0, <4>1, <4>2
    <3> QED BY <2>2, <2>u, <3>1
            DEF Complete, Finalized, CompleteFailed, CompleteCommitted, CompleteAckLost, dbVars
  <2>3. ASSUME NEW b \in Batches, BatchStep(b) PROVE Stays
    <3>1. ASSUME NEW size \in [Files(b) -> Sizes], NEW total \in 0 .. Quota,
                 CreateBatch(b, size, total)
          PROVE  Stays
      <4>1. batch[b].status = "absent" /\ \A s \in Files(b) : session[s].status = "absent"
        BY <2>0, <3>1 DEF CreateBatch, Fresh, Files, SessionInv
      <4> QED BY <2>0, <3>1, <4>1 DEF CreateBatch
    <3>2. ASSUME NEW st \in {"aborted", "expired"}, CloseSessions(b, st),
                 batch' = batch \/ (batch[b].status = "open" /\ batch' = CloseBatch(b, st))
          PROVE  Stays
      <4>1. \A s \in Sessions : session[s].status # "open" => session'[s] = session[s]
        BY <3>2 DEF CloseSessions, OpenFiles
      <4>2. \A c \in Batches : c # b => batch'[c] = batch[c]
        BY <2>0, <3>2 DEF CloseBatch
      <4> QED BY <2>0, <3>2, <4>1, <4>2
    <3>3. CASE BecomesDue(b)
      BY <2>0, <3>3 DEF BecomesDue
    <3> QED BY <2>3, <2>u, <3>1, <3>2, <3>3
            DEF BatchStep, CreateBatchFails, AbortBatch, AbortAckLost, BatchAborted,
                expireBatch, expireAckLost, BatchExpired, expireBatchFails, dbVars
  <2> QED BY <2>u, <2>1, <2>2, <2>3 DEF Next, DeleteTemp, CleanupExpired, Crash, vars, dbVars
<1> QED BY <1>1, UploadInvariant, PTL DEF Spec, ClosedForever

-----------------------------------------------------------------------------
(* No file is left behind unless something failed.                         *)

\* What NoLeakWithoutFault says of one session, and that a completion in
\* flight has renamed the temporary file away.
NothingLeft(s) ==
    faults = 0 =>
        /\ temp[s].present = TRUE => session[s].status = "open" \/ s \in doomed
        /\ blob[s].present = TRUE => session[s].status = "complete" \/ phase[s] = "finalized"
        /\ phase[s] = "finalized" => temp[s].present = FALSE

LeakInv == \A s \in Sessions : NothingLeft(s)

\* Faults are only counted up.
LEMMA FaultsGrow == TypeOK /\ [Next]_vars => (faults' = 0 => faults = 0)
BY DEF Next, vars, faultVars, Chunk, ChunkRejected, ChunkWritten, ChunkCommitted, ChunkFailed,
       ChunkAckLost, Complete, Finalized, CompleteCommitted, CompleteAckLost, CompleteFailed,
       BatchStep, CreateBatch, CreateBatchFails, AbortBatch, AbortAckLost, expireBatch,
       expireAckLost, expireBatchFails, BecomesDue, DeleteTemp, CleanupExpired, Crash,
       Fault, AckLost, TypeOK

\* A step that leaves a session and its files alone leaves nothing behind.
LEMMA NothingLeftFrame ==
    ASSUME NEW t \in Sessions, NothingLeft(t), faults' = 0 => faults = 0,
           session'[t] = session[t], phase'[t] = phase[t],
           temp'[t] = temp[t], blob'[t] = blob[t], t \in doomed => t \in doomed'
    PROVE  NothingLeft(t)'
BY DEF NothingLeft

LEMMA LeakInvStep ==
    ASSUME UploadInv, LeakInv, [Next]_vars, NEW t \in Sessions
    PROVE  NothingLeft(t)'
<1> USE UploadConstants
<1>0. /\ TypeOK /\ SessionInv(t) /\ NothingLeft(t) /\ (faults' = 0 => faults = 0)
      /\ session \in [Sessions -> SessionRow] /\ faults \in Nat
  BY FaultsGrow DEF UploadInv, LeakInv, TypeOK, SessionRow
<1> SUFFICES ASSUME faults' = 0 PROVE NothingLeft(t)'
  BY DEF NothingLeft
<1>f. ~Fault /\ ~AckLost
  BY <1>0 DEF Fault, AckLost
<1>1. ASSUME NEW s \in Sessions, Chunk(s) PROVE NothingLeft(t)'
  <2>1. CASE t # s
    <3>1. /\ session'[t] = session[t] /\ phase'[t] = phase[t]
          /\ temp'[t] = temp[t] /\ blob'[t] = blob[t] /\ doomed' = doomed
      BY <1>0, <1>1, <2>1 DEF Chunk, ChunkRejected, ChunkWritten, ChunkCommitted, ChunkFailed,
                  ChunkAckLost, ReceivedIsWritten, TypeOK, dbVars
    <3> QED BY <1>0, <3>1, NothingLeftFrame
  <2>2. CASE t = s
    <3>1. session[t].status = "open" /\ phase[t] # "finalized"
      BY <1>0, <1>1, <1>f, <2>2
      DEF Chunk, ChunkRejected, ChunkWritten, ChunkAccepted, ChunkCommitted, ChunkFailed,
          ChunkAckLost, SessionInv, UserUnlocked
    <3>2. session'[t].status = "open" /\ blob'[t] = blob[t] /\ phase'[t] # "finalized"
      <4>1. session' = session \/ session' = ReceivedIsWritten(s)
        BY <1>1 DEF Chunk, ChunkRejected, ChunkWritten, ChunkCommitted, ChunkFailed,
                    ChunkAckLost, dbVars
      <4>2. session'[t].status = "open"
        BY <1>0, <2>2, <3>1, <4>1 DEF ReceivedIsWritten, SessionRow
      <4>3. blob'[t] = blob[t] /\ phase'[t] # "finalized"
        BY <1>0, <1>1, <2>2, <3>1 DEF Chunk, ChunkRejected, ChunkWritten, ChunkCommitted,
                    ChunkFailed, ChunkAckLost, TypeOK
      <4> QED BY <4>2, <4>3
    <3> QED BY <1>0, <3>1, <3>2 DEF NothingLeft
  <2> QED BY <2>1, <2>2
<1>2. ASSUME NEW s \in Sessions, Complete(s) PROVE NothingLeft(t)'
  <2>1. CASE t # s
    <3>1. /\ session'[t] = session[t] /\ phase'[t] = phase[t]
          /\ temp'[t] = temp[t] /\ blob'[t] = blob[t] /\ doomed' = doomed
      BY <1>0, <1>2, <2>1 DEF Complete, Finalized, CompleteCommitted, CompleteAckLost,
                  CompleteFailed, FileCompleted, TypeOK, dbVars
    <3> QED BY <1>0, <3>1, NothingLeftFrame
  <2>2. CASE t = s /\ Finalized(s)
    BY <1>0, <2>2 DEF Finalized, NothingLeft, NoFile, TypeOK, dbVars, faultVars
  <2>3. ASSUME t = s, NEW old \in Sizes, CompleteCommitted(s, old) PROVE NothingLeft(t)'
    <3>1. /\ phase[s] = "finalized" /\ session'[s].status = "complete"
          /\ phase'[s] = "none" /\ temp' = temp
      BY <1>0, <2>3 DEF CompleteCommitted, FileCompleted, SessionRow, TypeOK
    <3> QED BY <1>0, <2>3, <3>1 DEF NothingLeft
  <2>4. CASE t = s /\ CompleteFailed(s)
    <3>1. /\ session' = session /\ temp' = temp /\ phase'[s] = "none" /\ blob'[s] = NoFile
          /\ doomed' = doomed
      BY <1>0, <2>4 DEF CompleteFailed, dbVars, TypeOK
    <3> QED BY <1>0, <2>4, <3>1 DEF NothingLeft, NoFile
  <2> QED BY <1>2, <1>f, <2>1, <2>2, <2>3, <2>4 DEF Complete, CompleteAckLost
<1>3. ASSUME NEW b \in Batches, BatchStep(b) PROVE NothingLeft(t)'
  <2>1. ASSUME NEW size \in [Files(b) -> Sizes], NEW total \in 0 .. Quota,
               CreateBatch(b, size, total)
        PROVE  NothingLeft(t)'
    <3>0. phase' = phase /\ blob' = blob /\ doomed' = doomed
      BY <2>1 DEF CreateBatch
    <3>1. CASE t \in Files(b)
      <4>1. session[t].status = "absent" /\ phase[t] = "none"
        BY <1>0, <2>1, <3>1 DEF CreateBatch, Fresh, Files, SessionInv
      <4>2. session'[t].status = "open"
        BY <2>1, <3>1 DEF CreateBatch
      <4> QED BY <1>0, <3>0, <4>1, <4>2 DEF NothingLeft
    <3>2. CASE t \notin Files(b)
      BY <1>0, <2>1, <3>0, <3>2, NothingLeftFrame DEF CreateBatch
    <3> QED BY <3>1, <3>2
  <2>2. ASSUME NEW st \in {"aborted", "expired"}, CloseSessions(b, st), doomed' = Doom(b),
               UNCHANGED <<temp, blob, phase>>, phase[t] = "none" \/ t \notin Files(b)
        PROVE  NothingLeft(t)'
    <3>1. CASE t \in OpenFiles(b)
      <4>1. t \in doomed' /\ session[t].status = "open" /\ phase[t] = "none"
        BY <2>2, <3>1 DEF Doom, OpenFiles
      <4> QED BY <1>0, <2>2, <4>1 DEF NothingLeft
    <3>2. CASE t \notin OpenFiles(b)
      <4>1. session'[t] = session[t] /\ (t \in doomed => t \in doomed')
        BY <2>2, <3>2 DEF CloseSessions, Doom
      <4> QED BY <1>0, <2>2, <4>1, NothingLeftFrame
    <3> QED BY <3>1, <3>2
  <2>3. CASE AbortBatch(b)
    <3>1. phase[t] = "none" \/ t \notin Files(b)
      BY <2>3 DEF AbortBatch, BatchAborted, UserUnlocked, UserOf, Files
    <3> QED BY <2>2, <2>3, <3>1 DEF AbortBatch, BatchAborted
  <2>4. CASE expireBatch(b)
    <3>1. phase[t] = "none" \/ t \notin Files(b)
      BY <2>4 DEF expireBatch, BatchExpired, RowsUnlocked
    <3> QED BY <2>2, <2>4, <3>1 DEF expireBatch, BatchExpired
  <2>5. CASE BecomesDue(b)
    BY <1>0, <2>5, NothingLeftFrame DEF BecomesDue
  <2> QED BY <1>3, <1>f, <2>1, <2>3, <2>4, <2>5
          DEF BatchStep, CreateBatchFails, AbortAckLost, expireAckLost, expireBatchFails
<1>4. ASSUME NEW s \in Sessions, DeleteTemp(s) PROVE NothingLeft(t)'
  <2>1. CASE t = s
    <3>1. session' = session /\ blob' = blob /\ phase' = phase /\ temp'[t] = NoFile
      BY <1>0, <1>4, <2>1 DEF DeleteTemp, dbVars, TypeOK
    <3> QED BY <1>0, <3>1 DEF NothingLeft, NoFile
  <2>2. CASE t # s
    BY <1>0, <1>4, <2>2, NothingLeftFrame DEF DeleteTemp, dbVars, TypeOK
  <2> QED BY <2>1, <2>2
<1>5. CASE CleanupExpired
  BY <1>0, <1>5, NothingLeftFrame DEF CleanupExpired, dbVars
<1>6. CASE UNCHANGED vars
  BY <1>0, <1>6, NothingLeftFrame DEF vars, dbVars
<1> QED BY <1>1, <1>2, <1>3, <1>4, <1>5, <1>6, <1>f DEF Next, Crash

\* As long as nothing has failed, every temporary file belongs to an open
\* session or waits for its deletion, and every blob to a completed session or
\* to a completion in flight.
THEOREM UploadsNoLeak == Spec => []NoLeakWithoutFault
<1>1. Init => LeakInv
  BY DEF Init, LeakInv, NothingLeft, NoFile
<1>2. UploadInv /\ LeakInv /\ [Next]_vars => LeakInv'
  BY LeakInvStep DEF LeakInv
<1>3. UploadInv /\ LeakInv => NoLeakWithoutFault
  BY DEF LeakInv, NothingLeft, NoLeakWithoutFault, UploadInv, TypeOK, File
<1> QED BY <1>1, <1>2, <1>3, UploadInvariant, PTL DEF Spec

-----------------------------------------------------------------------------
(* The ledger of reservations.                                             *)

\* The amount CleanupExpired read for a batch is never less than what the batch
\* reserves when expireBatch gets to it.
StaleCovers == \A b \in listed : batch[b].status # "absent" /\ stale[b] >= batch[b].reserved

LedgerInv == BatchLedger /\ StaleCovers

OwnedBy(u) == {b \in Batches : Owner[b] = u}

LEMMA LedgerSets ==
    /\ \A b \in Batches : IsFiniteSet(Files(b)) /\ IsFiniteSet(OpenFiles(b))
    /\ \A u : IsFiniteSet(OwnedBy(u))
BY UploadConstants, FS_Subset DEF Files, OpenFiles, OwnedBy

LEMMA TotalIsSum == \A f, S : TotalSize(f, S) = SumOf(f, S)
BY DEF TotalSize, SumOf

\* The sums of the model are sums of natural numbers.
LEMMA LedgerTypes ==
    ASSUME TypeOK
    PROVE  /\ \A s \in Sessions : Expected[s] = session[s].size /\ Expected[s] \in Nat
           /\ \A b \in Batches : Reserving[b] = batch[b].reserved /\ Reserving[b] \in Nat
           /\ \A u : OpenReserved(u) = SumOf(Reserving, OwnedBy(u)) /\ OpenReserved(u) \in Nat
<1>1. \A s \in Sessions : Expected[s] = session[s].size /\ Expected[s] \in Nat
  BY DEF Expected, TypeOK
<1>2. \A b \in Batches : Reserving[b] = batch[b].reserved /\ Reserving[b] \in Nat
  BY DEF Reserving, TypeOK
<1>3. ASSUME NEW u
      PROVE  OpenReserved(u) = SumOf(Reserving, OwnedBy(u)) /\ OpenReserved(u) \in Nat
  <2>1. OpenReserved(u) = SumOf(Reserving, OwnedBy(u))
    BY TotalIsSum DEF OpenReserved, OwnedBy
  <2>2. SumOf(Reserving, OwnedBy(u)) \in Nat
    BY <1>2, LedgerSets, SumType DEF OwnedBy
  <2> QED BY <2>1, <2>2
<1> QED BY <1>1, <1>2, <1>3

\* What a user's batches reserve changes by as much as one batch does.
LEMMA OpenReservedChange ==
    ASSUME TypeOK, TypeOK', NEW b \in Batches,
           \A c \in Batches \ {b} : batch'[c].reserved = batch[c].reserved
    PROVE  /\ \A u : u # Owner[b] => OpenReserved(u)' = OpenReserved(u)
           /\ OpenReserved(Owner[b])'
                = OpenReserved(Owner[b]) - batch[b].reserved + batch'[b].reserved
           /\ OpenReserved(Owner[b]) >= batch[b].reserved
<1> DEFINE before == [c \in Batches |-> batch[c].reserved]
           after  == [c \in Batches |-> batch'[c].reserved]
<1>0. Reserving = before /\ Reserving' = after
  BY DEF Reserving
<1>1. /\ \A c \in Batches : before[c] \in Nat /\ after[c] \in Nat
      /\ \A c \in Batches \ {b} : after[c] = before[c]
      /\ before[b] = batch[b].reserved /\ after[b] = batch'[b].reserved
  BY DEF TypeOK
<1>2. \A u : /\ OpenReserved(u) = SumOf(before, OwnedBy(u))
             /\ OpenReserved(u)' = SumOf(after, OwnedBy(u))
  BY <1>0, TotalIsSum DEF OpenReserved, OwnedBy
<1> HIDE DEF before, after
<1>3. ASSUME NEW u, u # Owner[b] PROVE OpenReserved(u)' = OpenReserved(u)
  <2>1. \A c \in OwnedBy(u) : after[c] = before[c]
    BY <1>1, <1>3 DEF OwnedBy
  <2>2. SumOf(after, OwnedBy(u)) = SumOf(before, OwnedBy(u))
    BY <2>1, LedgerSets, SumCongruent
  <2> QED BY <1>2, <2>2
<1>4. /\ OpenReserved(Owner[b])' = OpenReserved(Owner[b]) - batch[b].reserved + batch'[b].reserved
      /\ OpenReserved(Owner[b]) >= batch[b].reserved
  <2>1. /\ b \in OwnedBy(Owner[b]) /\ IsFiniteSet(OwnedBy(Owner[b]))
        /\ \A c \in OwnedBy(Owner[b]) : before[c] \in Nat /\ after[c] \in Nat
        /\ \A c \in OwnedBy(Owner[b]) \ {b} : after[c] = before[c]
    BY <1>1, LedgerSets DEF OwnedBy
  <2> DEFINE mine == OwnedBy(Owner[b])
  <2> HIDE DEF mine
  <2>2. /\ SumOf(after, mine) = SumOf(before, mine) - before[b] + after[b]
        /\ SumOf(before, mine) >= before[b]
    BY <2>1, SumChange DEF mine
  <2> QED BY <1>1, <1>2, <2>2 DEF mine
<1> QED BY <1>3, <1>4

\* A batch whose open sessions stay as they are keeps its ledger.
LEMMA SameOpenFiles ==
    ASSUME TypeOK, TypeOK', NEW b \in Batches,
           OpenFiles(b)' = OpenFiles(b),
           \A s \in OpenFiles(b) : session'[s].size = session[s].size
    PROVE  TotalSize(Expected, OpenFiles(b))' = TotalSize(Expected, OpenFiles(b))
<1>1. \A s \in OpenFiles(b) : Expected'[s] = Expected[s]
  BY DEF Expected, OpenFiles, Files
<1>2. SumOf(Expected', OpenFiles(b)) = SumOf(Expected, OpenFiles(b))
  BY <1>1, LedgerSets, SumCongruent
<1>3. /\ TotalSize(Expected, OpenFiles(b)) = SumOf(Expected, OpenFiles(b))
      /\ TotalSize(Expected, OpenFiles(b))' = SumOf(Expected', OpenFiles(b)')
  BY TotalIsSum
<1> QED BY <1>2, <1>3

\* A closed or unused batch reserves nothing.
LEMMA ClosedReservesNothing ==
    ASSUME LedgerInv, NEW b \in Batches, OpenFiles(b) = {}
    PROVE  batch[b].reserved = 0 /\ batch[b].status # "open"
<1>1. TotalSize(Expected, {}) = 0
  BY SumEmpty, TotalIsSum
<1> QED BY <1>1 DEF LedgerInv, BatchLedger

\* The ledger of one batch.
LedgerOf(b) ==
    /\ batch[b].reserved = TotalSize(Expected, OpenFiles(b))
    /\ batch[b].status = "open" <=> OpenFiles(b) # {}

LEMMA LedgerParts ==
    LedgerInv <=> /\ \A b \in Batches : LedgerOf(b)
                  /\ \A u \in Users : reserved[u] <= OpenReserved(u)
                  /\ StaleCovers
BY DEF LedgerInv, BatchLedger, LedgerOf

\* A batch that a step leaves alone keeps its ledger.
LEMMA LedgerOfFrame ==
    ASSUME TypeOK, TypeOK', NEW b \in Batches, LedgerOf(b),
           batch'[b].reserved = batch[b].reserved,
           batch'[b].status = "open" <=> batch[b].status = "open",
           OpenFiles(b)' = OpenFiles(b),
           \A s \in OpenFiles(b) : session'[s].size = session[s].size
    PROVE  LedgerOf(b)'
BY SameOpenFiles DEF LedgerOf

\* A step that moves no reservation.
LedgerQuiet ==
    /\ reserved' = reserved
    /\ \A b \in Batches : /\ batch'[b].reserved = batch[b].reserved
                          /\ batch'[b].status = "open" <=> batch[b].status = "open"
    /\ \A s \in Sessions : /\ session'[s].size = session[s].size
                           /\ session'[s].status = "open" <=> session[s].status = "open"
    /\ StaleCovers'

LEMMA QuietKeepsLedger ==
    ASSUME TypeOK, TypeOK', LedgerInv, LedgerQuiet
    PROVE  LedgerInv' /\ \A u \in Users : Gap(u)' = Gap(u)
<1>1. \A b \in Batches : LedgerOf(b)'
  <2> SUFFICES ASSUME NEW b \in Batches PROVE LedgerOf(b)'
    OBVIOUS
  <2>1. OpenFiles(b)' = OpenFiles(b)
    BY DEF LedgerQuiet, OpenFiles, Files
  <2>2. \A s \in OpenFiles(b) : session'[s].size = session[s].size
    BY DEF LedgerQuiet, OpenFiles, Files
  <2> QED BY <2>1, <2>2, LedgerOfFrame, LedgerParts DEF LedgerQuiet
<1>2. ASSUME NEW u \in Users PROVE OpenReserved(u)' = OpenReserved(u)
  <2> DEFINE before == [c \in Batches |-> batch[c].reserved]
             after  == [c \in Batches |-> batch'[c].reserved]
  <2>1. before = after
    BY DEF LedgerQuiet
  <2>2. Reserving = before /\ Reserving' = after
    BY DEF Reserving
  <2> QED BY <2>1, <2>2 DEF OpenReserved
<1>3. \A u \in Users : reserved'[u] <= OpenReserved(u)' /\ Gap(u)' = Gap(u)
  BY <1>2, LedgerParts DEF LedgerQuiet, Gap
<1> QED BY <1>1, <1>3 DEF LedgerQuiet, LedgerInv, BatchLedger, LedgerOf

\* A step that moves reservations of batch b: its owner's counter does not fall
\* below zero and otherwise falls by at least as much as the batch's reservation.
LedgerStep(b) ==
    /\ \A c \in Batches \ {b} : batch'[c] = batch[c]
    /\ \A s \in Sessions \ Files(b) : session'[s] = session[s]
    /\ LedgerOf(b)'
    /\ \A u \in Users : u # Owner[b] => reserved'[u] = reserved[u]
    /\ \/ reserved'[Owner[b]] = 0
       \/ reserved'[Owner[b]] <= reserved[Owner[b]] - batch[b].reserved + batch'[b].reserved
    /\ listed' \subseteq listed
    /\ \A c \in listed' : stale'[c] = stale[c]
    /\ b \in listed' => batch'[b].reserved <= batch[b].reserved /\ batch'[b].status # "absent"

LEMMA StepKeepsLedger ==
    ASSUME TypeOK, TypeOK', LedgerInv, NEW b \in Batches, LedgerStep(b)
    PROVE  LedgerInv'
<1>1. \A c \in Batches : LedgerOf(c)'
  <2> SUFFICES ASSUME NEW c \in Batches, c # b PROVE LedgerOf(c)'
    BY DEF LedgerStep
  <2>1. \A s \in Files(c) : s \in Sessions \ Files(b)
    BY DEF Files
  <2>2. OpenFiles(c)' = OpenFiles(c) /\ \A s \in OpenFiles(c) : session'[s].size = session[s].size
    BY <2>1 DEF LedgerStep, OpenFiles, Files
  <2>3. batch'[c] = batch[c]
    BY DEF LedgerStep
  <2> QED BY <2>2, <2>3, LedgerOfFrame, LedgerParts
<1>2. \A u \in Users : reserved'[u] <= OpenReserved(u)'
  <2> SUFFICES ASSUME NEW u \in Users PROVE reserved'[u] <= OpenReserved(u)'
    OBVIOUS
  <2>0. \A c \in Batches \ {b} : batch'[c].reserved = batch[c].reserved
    BY DEF LedgerStep
  <2>1. /\ reserved[u] \in Nat /\ reserved'[u] \in Nat /\ reserved[u] <= OpenReserved(u)
        /\ batch[b].reserved \in Nat /\ batch'[b].reserved \in Nat
    BY LedgerParts DEF TypeOK
  <2>2. OpenReserved(u) \in Nat
    BY LedgerTypes
  <2>3. CASE u # Owner[b]
    BY <2>0, <2>1, <2>3, OpenReservedChange DEF LedgerStep
  <2>4. CASE u = Owner[b]
    <3>1. /\ OpenReserved(u)' = OpenReserved(u) - batch[b].reserved + batch'[b].reserved
          /\ OpenReserved(u) >= batch[b].reserved
      BY <2>0, <2>4, OpenReservedChange
    <3>2. \/ reserved'[u] = 0
          \/ reserved'[u] <= reserved[u] - batch[b].reserved + batch'[b].reserved
      BY <2>4 DEF LedgerStep
    <3> QED BY <2>1, <2>2, <3>1, <3>2
  <2> QED BY <2>3, <2>4
<1>3. StaleCovers'
  <2> SUFFICES ASSUME NEW c \in listed'
               PROVE  batch'[c].status # "absent" /\ stale'[c] >= batch'[c].reserved
    BY DEF StaleCovers
  <2>1. /\ c \in Batches /\ c \in listed /\ stale'[c] = stale[c]
        /\ batch[c].status # "absent" /\ stale[c] >= batch[c].reserved
        /\ stale[c] \in Nat /\ batch[c].reserved \in Nat /\ batch'[c].reserved \in Nat
    BY LedgerParts DEF LedgerStep, StaleCovers, TypeOK
  <2> QED BY <2>1 DEF LedgerStep
<1> QED BY <1>1, <1>2, <1>3 DEF LedgerInv, BatchLedger, LedgerOf

\* The gap of the owner grows only by what the counter loses beyond the batch.
LEMMA StepKeepsGap ==
    ASSUME TypeOK, TypeOK', NEW b \in Batches, LedgerStep(b), NEW u \in Users, Gap(u)' > Gap(u)
    PROVE  /\ u = Owner[b]
           /\ reserved'[u] < reserved[u] - batch[b].reserved + batch'[b].reserved
<1>0. \A c \in Batches \ {b} : batch'[c].reserved = batch[c].reserved
  BY DEF LedgerStep
<1>1. /\ reserved[u] \in Nat /\ reserved'[u] \in Nat
      /\ batch[b].reserved \in Nat /\ batch'[b].reserved \in Nat /\ OpenReserved(u) \in Nat
  BY LedgerTypes DEF TypeOK
<1>2. u = Owner[b]
  <2> SUFFICES ASSUME u # Owner[b] PROVE FALSE
    OBVIOUS
  <2>1. reserved'[u] = reserved[u] /\ OpenReserved(u)' = OpenReserved(u)
    BY <1>0, OpenReservedChange DEF LedgerStep
  <2> QED BY <1>1, <2>1 DEF Gap
<1>3. OpenReserved(u)' = OpenReserved(u) - batch[b].reserved + batch'[b].reserved
  BY <1>0, <1>2, OpenReservedChange
<1> QED BY <1>1, <1>2, <1>3 DEF Gap

-----------------------------------------------------------------------------
(* Every step moves the ledger in one of these two ways.                   *)

\* The opening of a batch reserves what its sessions declare.
LEMMA CreateLedger ==
    ASSUME UploadInv, TypeOK', LedgerInv, NEW b \in Batches,
           NEW size \in [Files(b) -> Sizes], NEW total \in 0 .. Quota,
           CreateBatch(b, size, total)
    PROVE  /\ LedgerStep(b)
           /\ reserved'[Owner[b]] = reserved[Owner[b]] - batch[b].reserved + batch'[b].reserved
<1> USE UploadConstants
<1>0. /\ TypeOK /\ \A s \in Sessions : SessionInv(s)
      /\ reserved[Owner[b]] \in Nat /\ Owner[b] \in Users /\ total \in Nat
  BY DEF UploadInv, TypeOK
<1>1. /\ batch[b].status = "absent" /\ b \notin listed
      /\ \A s \in Files(b) : session[s].status = "absent"
  BY <1>0 DEF CreateBatch, Fresh, Files, SessionInv, LedgerInv, StaleCovers
<1>2. batch[b].reserved = 0
  <2>1. OpenFiles(b) = {}
    BY <1>1 DEF OpenFiles
  <2> QED BY <2>1, ClosedReservesNothing
<1>3. batch'[b] = [status |-> "open", reserved |-> total, due |-> FALSE]
  BY <1>0 DEF CreateBatch, TypeOK
<1>4. OpenFiles(b)' = Files(b)
  BY DEF CreateBatch, OpenFiles, Files
<1>5. TotalSize(Expected, OpenFiles(b))' = total
  <2>1. \A s \in Files(b) : s \in Sessions /\ session'[s].size = size[s]
    BY DEF CreateBatch, Files
  <2>2. \A s \in Files(b) : Expected'[s] = size[s]
    BY <2>1 DEF Expected
  <2>3. SumOf(Expected', Files(b)) = SumOf(size, Files(b))
    BY <2>2, LedgerSets, SumCongruent
  <2>4. total = SumOf(size, Files(b))
    BY TotalIsSum DEF CreateBatch
  <2>5. TotalSize(Expected, OpenFiles(b))' = TotalSize(Expected', OpenFiles(b)')
    OBVIOUS
  <2> QED BY <1>4, <2>3, <2>4, <2>5, TotalIsSum
<1>6. LedgerOf(b)'
  <2>1. batch'[b].reserved = total /\ batch'[b].status = "open" /\ Files(b) # {}
    BY <1>3 DEF CreateBatch
  <2> QED BY <1>4, <1>5, <2>1 DEF LedgerOf
<1>7. /\ \A c \in Batches \ {b} : batch'[c] = batch[c]
      /\ \A s \in Sessions \ Files(b) : session'[s] = session[s]
      /\ \A u \in Users : u # Owner[b] => reserved'[u] = reserved[u]
      /\ reserved'[Owner[b]] = reserved[Owner[b]] + total
      /\ listed' = listed /\ stale' = stale
  BY <1>0 DEF CreateBatch, TypeOK, sweepVars
<1>8. reserved'[Owner[b]] = reserved[Owner[b]] - batch[b].reserved + batch'[b].reserved
  BY <1>0, <1>2, <1>3, <1>7
<1>9. reserved'[Owner[b]] <= reserved[Owner[b]] - batch[b].reserved + batch'[b].reserved
  BY <1>0, <1>2, <1>3, <1>7
<1> QED BY <1>1, <1>6, <1>7, <1>8, <1>9 DEF LedgerStep

\* Closing a batch whose sessions are unlocked ends its ledger.
LEMMA CloseLedger ==
    ASSUME UploadInv, TypeOK', LedgerInv, NEW b \in Batches,
           NEW st \in {"aborted", "expired"}, CloseSessions(b, st),
           batch' = IF batch[b].status = "open" THEN CloseBatch(b, st) ELSE batch
    PROVE  /\ \A c \in Batches \ {b} : batch'[c] = batch[c]
           /\ \A s \in Sessions \ Files(b) : session'[s] = session[s]
           /\ LedgerOf(b)' /\ batch'[b].reserved = 0
           /\ batch[b].status # "absent" => batch'[b].status # "absent"
<1>0. /\ TypeOK /\ batch \in [Batches -> BatchRow] /\ session \in [Sessions -> SessionRow]
  BY DEF UploadInv, TypeOK, BatchRow, SessionRow
<1>1. /\ \A c \in Batches \ {b} : batch'[c] = batch[c]
      /\ \A s \in Sessions \ Files(b) : session'[s] = session[s]
  BY <1>0 DEF CloseBatch, CloseSessions, OpenFiles
<1>2. OpenFiles(b)' = {}
  <2>1. \A s \in Files(b) : s \in Sessions /\ session'[s].status # "open"
    BY <1>0 DEF CloseSessions, OpenFiles, Files, SessionRow
  <2> QED BY <2>1 DEF OpenFiles, Files
<1>3. /\ batch'[b].reserved = 0 /\ batch'[b].status # "open"
      /\ batch[b].status # "absent" => batch'[b].status # "absent"
  <2>1. CASE batch[b].status = "open"
    BY <1>0, <2>1 DEF CloseBatch, BatchRow
  <2>2. CASE batch[b].status # "open"
    <3>1. OpenFiles(b) = {}
      BY <2>2 DEF LedgerInv, BatchLedger
    <3> QED BY <2>2, <3>1, ClosedReservesNothing
  <2> QED BY <2>1, <2>2
<1>4. TotalSize(Expected, OpenFiles(b))' = 0
  <2>1. TotalSize(Expected, OpenFiles(b))' = TotalSize(Expected', OpenFiles(b)')
    OBVIOUS
  <2> QED BY <1>2, <2>1, TotalIsSum, SumEmpty
<1>5. LedgerOf(b)'
  BY <1>2, <1>3, <1>4 DEF LedgerOf
<1> QED BY <1>1, <1>3, <1>5

\* An abort gives back exactly what the batch reserves, or what is left of it.
LEMMA AbortLedger ==
    ASSUME UploadInv, TypeOK', LedgerInv, NEW b \in Batches, BatchAborted(b)
    PROVE  /\ LedgerStep(b)
           /\ reserved'[Owner[b]] >= reserved[Owner[b]] - batch[b].reserved + batch'[b].reserved
<1> USE UploadConstants
<1>0. /\ TypeOK /\ reserved[Owner[b]] \in Nat /\ Owner[b] \in Users /\ batch[b].reserved \in Nat
  BY DEF UploadInv, TypeOK
<1>1. /\ CloseSessions(b, "aborted") /\ batch[b].status = "open"
      /\ batch' = CloseBatch(b, "aborted")
      /\ reserved' = Release(Owner[b], batch[b].reserved)
      /\ listed' = listed /\ stale' = stale
  BY DEF BatchAborted, sweepVars
<1>2. /\ \A c \in Batches \ {b} : batch'[c] = batch[c]
      /\ \A s \in Sessions \ Files(b) : session'[s] = session[s]
      /\ LedgerOf(b)' /\ batch'[b].reserved = 0 /\ batch'[b].status # "absent"
  BY <1>1, CloseLedger
<1>3. /\ \A u \in Users : u # Owner[b] => reserved'[u] = reserved[u]
      /\ reserved'[Owner[b]] = Greatest0(reserved[Owner[b]] - batch[b].reserved)
  BY <1>0, <1>1 DEF Release, TypeOK
<1>4. /\ \/ reserved'[Owner[b]] = 0
         \/ reserved'[Owner[b]] <= reserved[Owner[b]] - batch[b].reserved + batch'[b].reserved
      /\ reserved'[Owner[b]] >= reserved[Owner[b]] - batch[b].reserved + batch'[b].reserved
  BY <1>0, <1>2, <1>3 DEF Greatest0
<1> QED BY <1>0, <1>1, <1>2, <1>3, <1>4 DEF LedgerStep

\* An expiry gives back what the sweep had read, which is never less.
LEMMA ExpireLedger ==
    ASSUME UploadInv, TypeOK', LedgerInv, NEW b \in Batches, BatchExpired(b)
    PROVE  /\ LedgerStep(b)
           /\ b \in listed \ listed'
           /\ stale[b] = batch[b].reserved =>
                 reserved'[Owner[b]] >= reserved[Owner[b]] - batch[b].reserved + batch'[b].reserved
<1> USE UploadConstants
<1>0. /\ TypeOK /\ reserved[Owner[b]] \in Nat /\ Owner[b] \in Users
      /\ batch[b].reserved \in Nat /\ stale[b] \in Nat
  BY DEF UploadInv, TypeOK
<1>1. /\ CloseSessions(b, "expired") /\ b \in listed /\ listed' = listed \ {b}
      /\ batch' = IF batch[b].status = "open" THEN CloseBatch(b, "expired") ELSE batch
      /\ reserved' = Release(Owner[b], stale[b])
      /\ \A c \in listed' : stale'[c] = stale[c]
  BY <1>0 DEF BatchExpired, Unlist, TypeOK
<1>2. /\ \A c \in Batches \ {b} : batch'[c] = batch[c]
      /\ \A s \in Sessions \ Files(b) : session'[s] = session[s]
      /\ LedgerOf(b)' /\ batch'[b].reserved = 0
  BY <1>1, CloseLedger
<1>3. /\ \A u \in Users : u # Owner[b] => reserved'[u] = reserved[u]
      /\ reserved'[Owner[b]] = Greatest0(reserved[Owner[b]] - stale[b])
  BY <1>0, <1>1 DEF Release, TypeOK
<1>4. stale[b] >= batch[b].reserved
  BY <1>1 DEF LedgerInv, StaleCovers
<1>5. /\ \/ reserved'[Owner[b]] = 0
         \/ reserved'[Owner[b]] <= reserved[Owner[b]] - batch[b].reserved + batch'[b].reserved
      /\ stale[b] = batch[b].reserved =>
            reserved'[Owner[b]] >= reserved[Owner[b]] - batch[b].reserved + batch'[b].reserved
  BY <1>0, <1>2, <1>3, <1>4 DEF Greatest0
<1> QED BY <1>0, <1>1, <1>2, <1>3, <1>5 DEF LedgerStep

\* A completion takes its session's size off the batch, and off the owner's
\* counter as far as that goes.
LEMMA CompletionLedger ==
    ASSUME UploadInv, TypeOK', LedgerInv, NEW s \in Sessions, NEW old \in Sizes,
           FileCompleted(s, old), UNCHANGED sweepVars
    PROVE  LET b == BatchOf[s]
           IN  /\ LedgerStep(b)
               /\ reserved'[Owner[b]] >= reserved[Owner[b]] - batch[b].reserved + batch'[b].reserved
<1> USE UploadConstants
<1> DEFINE b == BatchOf[s]
           n == session[s].size
<1>0. /\ TypeOK /\ b \in Batches /\ Owner[b] \in Users /\ reserved[Owner[b]] \in Nat
      /\ batch \in [Batches -> BatchRow] /\ session \in [Sessions -> SessionRow]
      /\ n \in Nat /\ batch[b].reserved \in Nat
  BY DEF UploadInv, TypeOK, BatchRow, SessionRow
<1>1. /\ session' = [session EXCEPT ![s].status = "complete"]
      /\ reserved' = Release(Owner[b], n)
      /\ batch' = [batch EXCEPT ![b].reserved = Greatest0(@ - n),
                                ![b].status = IF LastOfBatch(s) THEN "done" ELSE @]
      /\ session[s].status = "open" /\ batch[b].status = "open"
  BY DEF FileCompleted, UserOf, UploadInv, SessionInv
<1>2. s \in OpenFiles(b) /\ IsFiniteSet(OpenFiles(b)) /\ OpenFiles(b) \subseteq Sessions
  BY <1>0, <1>1, LedgerSets DEF OpenFiles, Files
<1>3. /\ \A t \in Sessions : session'[t].size = session[t].size
      /\ \A t \in Sessions \ {s} : session'[t] = session[t]
      /\ session'[s].status # "open"
  BY <1>0, <1>1 DEF SessionRow
<1>4. OpenFiles(b)' = OpenFiles(b) \ {s}
  BY <1>3 DEF OpenFiles, Files
<1> DEFINE rest == SumOf(Expected, OpenFiles(b) \ {s})
<1>5. rest \in Nat /\ batch[b].reserved = n + rest
  <2>1. \A t \in OpenFiles(b) : Expected[t] \in Nat
    BY <1>0, <1>2, LedgerTypes
  <2>2. /\ rest \in Nat
        /\ SumOf(Expected, OpenFiles(b)) = Expected[s] + rest
    BY <1>2, <2>1, SumElement
  <2>3. batch[b].reserved = SumOf(Expected, OpenFiles(b)) /\ Expected[s] = n
    BY <1>0, LedgerTypes, TotalIsSum DEF LedgerInv, BatchLedger
  <2> QED BY <2>2, <2>3
<1>6. TotalSize(Expected, OpenFiles(b))' = rest
  <2>1. \A t \in OpenFiles(b) \ {s} : Expected'[t] = Expected[t]
    BY <1>2, <1>3 DEF Expected
  <2>2. SumOf(Expected', OpenFiles(b) \ {s}) = rest
    BY <1>2, <2>1, FS_Subset, SumCongruent
  <2>3. TotalSize(Expected, OpenFiles(b))' = TotalSize(Expected', OpenFiles(b)')
    OBVIOUS
  <2> QED BY <1>4, <2>2, <2>3, TotalIsSum
<1>7. batch'[b].reserved = rest /\ (batch'[b].status = "open" <=> ~LastOfBatch(s))
      /\ batch'[b].status # "absent" /\ \A c \in Batches \ {b} : batch'[c] = batch[c]
  <2> HIDE DEF rest, n
  <2>0. Greatest0(batch[b].reserved - n) = rest
    BY <1>0, <1>5 DEF Greatest0
  <2> DEFINE settled == [batch EXCEPT ![b].reserved = Greatest0(batch[b].reserved - n)]
  <2>1. settled \in [Batches -> BatchRow] /\ settled[b].reserved = rest
        /\ settled[b].status = "open" /\ \A c \in Batches \ {b} : settled[c] = batch[c]
    BY <1>0, <1>1, <1>5, <2>0 DEF BatchRow
  <2>2. batch' = [settled EXCEPT ![b].status = IF LastOfBatch(s) THEN "done" ELSE "open"]
    BY <1>0, <1>1
  <2> HIDE DEF settled, b
  <2> QED BY <1>0, <2>1, <2>2 DEF BatchRow
<1>8. LedgerOf(b)'
  <2>1. LastOfBatch(s) <=> OpenFiles(b) \ {s} = {}
    BY <1>2 DEF LastOfBatch
  <2> HIDE DEF b, rest
  <2> QED BY <1>4, <1>6, <1>7, <2>1 DEF LedgerOf
<1>9. /\ \A u \in Users : u # Owner[b] => reserved'[u] = reserved[u]
      /\ reserved'[Owner[b]] = Greatest0(reserved[Owner[b]] - n)
  BY <1>0, <1>1 DEF Release, TypeOK
<1>10. /\ \/ reserved'[Owner[b]] = 0
          \/ reserved'[Owner[b]] <= reserved[Owner[b]] - batch[b].reserved + batch'[b].reserved
       /\ reserved'[Owner[b]] >= reserved[Owner[b]] - batch[b].reserved + batch'[b].reserved
       /\ batch'[b].reserved <= batch[b].reserved
  <2> HIDE DEF b, rest, n
  <2> QED BY <1>0, <1>5, <1>7, <1>9 DEF Greatest0
<1>11. /\ \A t \in Sessions \ Files(b) : session'[t] = session[t]
       /\ listed' = listed /\ stale' = stale
  BY <1>3 DEF Files, sweepVars
<1>12. LedgerStep(b)
  <2> HIDE DEF b
  <2> QED BY <1>7, <1>8, <1>9, <1>10, <1>11 DEF LedgerStep
<1> QED BY <1>10, <1>12

\* The counter of every user keeps pace with the user's batches, except where
\* an expiry gives back an amount that is out of date.
KeepsPace == \A u \in Users : Gap(u)' > Gap(u) =>
                \E b \in listed \ listed' : Owner[b] = u /\ stale[b] # batch[b].reserved

LEMMA LedgerInvStep ==
    ASSUME UploadInv, TypeOK', LedgerInv, [Next]_vars
    PROVE  LedgerInv' /\ KeepsPace
<1> USE UploadConstants
<1>0. /\ TypeOK /\ \A s \in Sessions : SessionInv(s)
      /\ batch \in [Batches -> BatchRow] /\ session \in [Sessions -> SessionRow]
  BY DEF UploadInv, TypeOK, BatchRow, SessionRow
<1>q. ASSUME LedgerQuiet PROVE LedgerInv' /\ KeepsPace
  <2>1. /\ LedgerInv'
        /\ \A u \in Users : Gap(u)' = Gap(u)
    BY <1>0, <1>q, QuietKeepsLedger
  <2>2. \A u \in Users : Gap(u) \in Int
    BY <1>0, LedgerTypes DEF Gap, TypeOK
  <2> QED BY <2>1, <2>2 DEF KeepsPace
<1>s. ASSUME NEW b \in Batches, LedgerStep(b),
             \/ b \in listed \ listed' /\ stale[b] # batch[b].reserved
             \/ reserved'[Owner[b]] >= reserved[Owner[b]] - batch[b].reserved + batch'[b].reserved
      PROVE  LedgerInv' /\ KeepsPace
  <2>1. LedgerInv'
    BY <1>0, <1>s, StepKeepsLedger
  <2>2. ASSUME NEW u \in Users, Gap(u)' > Gap(u)
        PROVE  \E c \in listed \ listed' : Owner[c] = u /\ stale[c] # batch[c].reserved
    <3>1. /\ u = Owner[b]
          /\ reserved'[u] < reserved[u] - batch[b].reserved + batch'[b].reserved
      BY <1>0, <1>s, <2>2, StepKeepsGap
    <3>2. /\ reserved[u] \in Nat /\ reserved'[u] \in Nat
          /\ batch[b].reserved \in Nat /\ batch'[b].reserved \in Nat
      BY <1>0 DEF TypeOK
    <3> QED BY <1>s, <3>1, <3>2
  <2> QED BY <2>1, <2>2 DEF KeepsPace
<1>u. ASSUME UNCHANGED <<reserved, batch, session>>, listed' \subseteq listed,
             \A c \in listed' : stale'[c] = stale[c]
      PROVE  LedgerQuiet
  BY <1>u DEF LedgerQuiet, LedgerInv, StaleCovers
<1>1. ASSUME NEW s \in Sessions, Chunk(s) PROVE LedgerInv' /\ KeepsPace
  <2>1. /\ UNCHANGED <<reserved, batch, listed, stale>>
        /\ session' = session \/ session' = ReceivedIsWritten(s)
    BY <1>1 DEF Chunk, ChunkRejected, ChunkWritten, ChunkCommitted, ChunkFailed, ChunkAckLost,
                dbVars, sweepVars
  <2>2. \A t \in Sessions : /\ session'[t].size = session[t].size
                            /\ session'[t].status = session[t].status
    BY <1>0, <2>1 DEF ReceivedIsWritten, SessionRow
  <2>3. LedgerQuiet
    BY <2>1, <2>2 DEF LedgerQuiet, LedgerInv, StaleCovers
  <2> QED BY <1>q, <2>3
<1>2. ASSUME NEW s \in Sessions, Complete(s) PROVE LedgerInv' /\ KeepsPace
  <2>1. CASE Finalized(s) \/ CompleteFailed(s)
    <3>1. LedgerQuiet
      BY <1>u, <2>1 DEF Finalized, CompleteFailed, dbVars, sweepVars
    <3> QED BY <1>q, <3>1
  <2>2. ASSUME NEW old \in Sizes, CompleteCommitted(s, old) \/ CompleteAckLost(s, old)
        PROVE  LedgerInv' /\ KeepsPace
    <3>1. FileCompleted(s, old) /\ UNCHANGED sweepVars
      BY <2>2 DEF CompleteCommitted, CompleteAckLost
    <3>2. BatchOf[s] \in Batches
      OBVIOUS
    <3> QED BY <1>s, <3>1, <3>2, CompletionLedger
  <2> QED BY <1>2, <2>1, <2>2 DEF Complete
<1>3. ASSUME NEW b \in Batches, BatchStep(b) PROVE LedgerInv' /\ KeepsPace
  <2>1. ASSUME NEW size \in [Files(b) -> Sizes], NEW total \in 0 .. Quota,
               CreateBatch(b, size, total)
        PROVE  LedgerInv' /\ KeepsPace
    <3>1. /\ LedgerStep(b)
          /\ reserved'[Owner[b]] = reserved[Owner[b]] - batch[b].reserved + batch'[b].reserved
      BY <2>1, CreateLedger
    <3>2. reserved'[Owner[b]] \in Nat
      BY DEF TypeOK
    <3>3. reserved'[Owner[b]] >= reserved[Owner[b]] - batch[b].reserved + batch'[b].reserved
      BY <3>1, <3>2
    <3> QED BY <1>s, <3>1, <3>3
  <2>2. CASE CreateBatchFails(b)
    <3>1. LedgerQuiet
      BY <1>u, <2>2 DEF CreateBatchFails, dbVars, sweepVars
    <3> QED BY <1>q, <3>1
  <2>3. CASE AbortBatch(b) \/ AbortAckLost(b)
    <3>1. BatchAborted(b)
      BY <2>3 DEF AbortBatch, AbortAckLost
    <3> QED BY <1>s, <3>1, AbortLedger
  <2>4. CASE expireBatch(b) \/ expireAckLost(b)
    <3>1. BatchExpired(b)
      BY <2>4 DEF expireBatch, expireAckLost
    <3> QED BY <1>s, <3>1, ExpireLedger
  <2>5. CASE expireBatchFails(b)
    <3>1. LedgerQuiet
      BY <1>0, <1>u, <2>5 DEF expireBatchFails, Unlist, dbVars, TypeOK
    <3> QED BY <1>q, <3>1
  <2>6. CASE BecomesDue(b)
    <3>1. /\ UNCHANGED <<reserved, session, listed, stale>>
          /\ \A c \in Batches : /\ batch'[c].reserved = batch[c].reserved
                                /\ batch'[c].status = batch[c].status
      BY <1>0, <2>6 DEF BecomesDue, sweepVars, BatchRow
    <3>2. LedgerQuiet
      BY <1>0, <3>1 DEF LedgerQuiet, LedgerInv, StaleCovers, TypeOK
    <3> QED BY <1>q, <3>2
  <2> QED BY <1>3, <2>1, <2>2, <2>3, <2>4, <2>5, <2>6 DEF BatchStep
<1>4. ASSUME NEW s \in Sessions, DeleteTemp(s) PROVE LedgerInv' /\ KeepsPace
  <2>1. LedgerQuiet
    BY <1>4, <1>u DEF DeleteTemp, dbVars, sweepVars
  <2> QED BY <1>q, <2>1
<1>5. CASE CleanupExpired
  <2>1. UNCHANGED <<reserved, batch, session>>
    BY <1>5 DEF CleanupExpired, dbVars
  <2>2. StaleCovers'
    BY <1>0, <1>5, <2>1 DEF CleanupExpired, StaleCovers, Overdue, TypeOK
  <2>3. LedgerQuiet
    BY <2>1, <2>2 DEF LedgerQuiet
  <2> QED BY <1>q, <2>3
<1>6. CASE Crash
  <2>1. LedgerQuiet
    BY <1>6, <1>u DEF Crash, dbVars
  <2> QED BY <1>q, <2>1
<1>7. CASE UNCHANGED vars
  <2>1. LedgerQuiet
    BY <1>7, <1>u DEF vars, dbVars, sweepVars
  <2> QED BY <1>q, <2>1
<1> QED BY <1>1, <1>2, <1>3, <1>4, <1>5, <1>6, <1>7 DEF Next

\* Nothing is reserved before the first batch.
LEMMA LedgerInit == Init => LedgerInv
<1> SUFFICES ASSUME Init PROVE LedgerInv
  OBVIOUS
<1>1. \A b \in Batches : OpenFiles(b) = {}
  BY DEF Init, OpenFiles, Files, NoSession
<1>2. TotalSize(Expected, {}) = 0
  BY SumEmpty, TotalIsSum
<1>3. \A b \in Batches : LedgerOf(b)
  BY <1>1, <1>2 DEF Init, LedgerOf, NoBatch
<1>4. TypeOK
  BY UploadConstants, FileTypes
  DEF Init, TypeOK, NoBatch, NoSession, BatchStatus, SessionStatus, Phase
<1>5. \A u \in Users : reserved[u] <= OpenReserved(u)
  BY <1>4, LedgerTypes DEF Init
<1> QED BY <1>3, <1>5, LedgerParts DEF Init, StaleCovers

LEMMA LedgerHolds == Spec => [](UploadInv /\ TypeOK /\ LedgerInv)
<1>1. UploadInv /\ TypeOK' /\ LedgerInv /\ [Next]_vars => LedgerInv'
  BY LedgerInvStep
<1> QED BY <1>1, LedgerInit, UploadInvariant, UploadsTypeCorrect, PTL DEF Spec

\* What a batch still reserves is what its open sessions may still store, a
\* batch is open exactly while one of its sessions is, and no user's counter
\* exceeds what the user's batches reserve: for every number of batches, files
\* and users, whatever completions, aborts, sweeps, crashes and lost
\* acknowledgements happen.
THEOREM UploadsBatchLedger == Spec => []BatchLedger
<1>1. LedgerInv => BatchLedger
  BY DEF LedgerInv
<1> QED BY <1>1, LedgerHolds, PTL

\* A user's counter falls behind the user's batches only in expireBatch, when
\* the batch has changed since CleanupExpired read it.
THEOREM UploadsOnlyStaleSweepUnderReserves == Spec => OnlyStaleSweepUnderReserves
<1>1. UploadInv /\ TypeOK' /\ LedgerInv /\ [Next]_vars => KeepsPace
  BY LedgerInvStep
<1> QED BY <1>1, LedgerHolds, PTL DEF Spec, OnlyStaleSweepUnderReserves, KeepsPace

-----------------------------------------------------------------------------
(* Uploads implements Delivery.  The ledger says that a file's share of    *)
(* the reservation is there to be given up, and that nothing is open in a  *)
(* batch that is swept again.  What is missing is the way of an offset.    *)

\* A chunk that was stored whole ends between the offset and the size; a file
\* that was renamed has been received to the end.
ProgressOf(s) ==
    /\ session[s].received <= session[s].size
    /\ phase[s] = "wrote" =>
           session[s].received <= temp[s].size /\ temp[s].size <= session[s].size
    /\ phase[s] = "finalized" => session[s].received = session[s].size

ProgressInv == \A s \in Sessions : ProgressOf(s)

LEMMA ProgressFrame ==
    ASSUME NEW t \in Sessions, ProgressOf(t),
           session'[t].received = session[t].received, session'[t].size = session[t].size,
           phase'[t] \in {"none", "short"} \/ (phase'[t] = phase[t] /\ temp'[t] = temp[t])
    PROVE  ProgressOf(t)'
BY DEF ProgressOf

\* The row of a session whose batch is not there yet is not locked.
LEMMA FreshRows ==
    ASSUME UploadInv, NEW b \in Batches, batch[b].status = "absent", NEW s \in Files(b)
    PROVE  phase[s] = "none"
BY DEF UploadInv, SessionInv, Files

LEMMA ChunkProgress ==
    ASSUME UploadInv, ProgressInv, NEW s \in Sessions, Chunk(s), NEW t \in Sessions
    PROVE  ProgressOf(t)'
<1> USE UploadConstants
<1>0. /\ ProgressOf(t) /\ ProgressOf(s) /\ session \in [Sessions -> SessionRow]
      /\ session[s].received \in Nat /\ session[s].size \in Nat
      /\ temp \in [Sessions -> File] /\ temp[s].size \in Nat
      /\ phase \in [Sessions -> Phase]
  BY DEF UploadInv, TypeOK, SessionRow, File, ProgressInv
<1>1. CASE t # s
  <2>1. session'[t] = session[t] /\ phase'[t] = phase[t] /\ temp'[t] = temp[t]
    BY <1>0, <1>1 DEF Chunk, ChunkRejected, ChunkWritten, ChunkCommitted, ChunkFailed, ChunkAckLost,
                ReceivedIsWritten, dbVars
  <2> QED BY <1>0, <2>1, ProgressFrame
<1>2. CASE t = s /\ ChunkRejected(s)
  <2>1. phase'[s] = "none" /\ session' = session
    BY <1>2 DEF ChunkRejected, ChunkAccepted, UserUnlocked, dbVars
  <2> QED BY <1>0, <1>2, <2>1, ProgressFrame
<1>3. ASSUME t = s, NEW n \in 0 .. MaxChunk, NEW k \in 0 .. MaxChunk + 1, ChunkWritten(s, n, k)
      PROVE  ProgressOf(t)'
  <2>1. /\ session' = session /\ session[s].received + n <= session[s].size
        /\ phase'[s] = IF k = n THEN "wrote" ELSE "short"
        /\ temp'[s] = AppendAt(Repaired(s), k)
    BY <1>0, <1>3 DEF ChunkWritten, dbVars
  <2>2. Repaired(s).size = session[s].received
    BY <1>0 DEF Repaired, Truncate, EmptyFile, File
  <2>3. temp'[s].size = session[s].received + k
    BY <2>1, <2>2 DEF AppendAt
  <2> QED BY <1>0, <1>3, <2>1, <2>3 DEF ProgressOf
<1>4. CASE t = s /\ (ChunkCommitted(s) \/ ChunkAckLost(s))
  <2>1. phase[s] = "wrote" /\ session' = ReceivedIsWritten(s) /\ phase'[s] = "none"
    BY <1>0, <1>4 DEF ChunkCommitted, ChunkAckLost
  <2>2. session'[s].received = temp[s].size /\ session'[s].size = session[s].size
    BY <1>0, <2>1 DEF ReceivedIsWritten, SessionRow
  <2> QED BY <1>0, <1>4, <2>1, <2>2 DEF ProgressOf
<1>5. CASE t = s /\ ChunkFailed(s)
  <2>1. phase'[s] = "none" /\ session' = session
    BY <1>0, <1>5 DEF ChunkFailed, dbVars
  <2> QED BY <1>0, <1>5, <2>1, ProgressFrame
<1> QED BY <1>1, <1>2, <1>3, <1>4, <1>5 DEF Chunk

LEMMA CompleteProgress ==
    ASSUME UploadInv, ProgressInv, NEW s \in Sessions, Complete(s), NEW t \in Sessions
    PROVE  ProgressOf(t)'
<1> USE UploadConstants
<1>0. /\ ProgressOf(t) /\ session \in [Sessions -> SessionRow] /\ phase \in [Sessions -> Phase]
      /\ temp \in [Sessions -> File]
  BY DEF UploadInv, TypeOK, SessionRow, ProgressInv
<1>1. CASE Finalized(s)
  <2>1. /\ session' = session /\ session[s].received = session[s].size /\ phase'[s] = "finalized"
        /\ t # s => phase'[t] = phase[t] /\ temp'[t] = temp[t]
    BY <1>0, <1>1 DEF Finalized, dbVars
  <2>2. CASE t # s
    BY <1>0, <2>1, <2>2, ProgressFrame
  <2>3. CASE t = s
    BY <1>0, <2>1, <2>3 DEF ProgressOf
  <2> QED BY <2>2, <2>3
<1>2. ASSUME session' = session \/ session' = [session EXCEPT ![s].status = "complete"],
             phase' = [phase EXCEPT ![s] = "none"], temp' = temp
      PROVE  ProgressOf(t)'
  <2>1. session'[t].received = session[t].received /\ session'[t].size = session[t].size
    BY <1>0, <1>2 DEF SessionRow
  <2> QED BY <1>0, <1>2, <2>1, ProgressFrame
<1>3. CASE ~Finalized(s)
  BY <1>2, <1>3 DEF Complete, CompleteCommitted, CompleteAckLost, CompleteFailed, FileCompleted, dbVars
<1> QED BY <1>1, <1>3

LEMMA BatchProgress ==
    ASSUME UploadInv, ProgressInv, NEW b \in Batches, BatchStep(b), NEW t \in Sessions
    PROVE  ProgressOf(t)'
<1> USE UploadConstants
<1>0. /\ ProgressOf(t) /\ session \in [Sessions -> SessionRow] /\ phase \in [Sessions -> Phase]
      /\ temp \in [Sessions -> File] /\ session[t].received \in Nat
  BY DEF UploadInv, TypeOK, SessionRow, ProgressInv
<1>1. ASSUME NEW size \in [Files(b) -> Sizes], NEW total \in 0 .. Quota, CreateBatch(b, size, total)
      PROVE  ProgressOf(t)'
  <2>1. phase' = phase /\ batch[b].status = "absent"
    BY <1>1 DEF CreateBatch, Fresh
  <2>2. CASE t \in Files(b)
    <3>1. session'[t].received = 0 /\ session'[t].size = size[t] /\ size[t] \in Nat
      BY <1>1, <2>2 DEF CreateBatch
    <3> QED BY <2>1, <2>2, <3>1, FreshRows DEF ProgressOf
  <2>3. CASE t \notin Files(b)
    <3>1. session'[t] = session[t] /\ temp'[t] = temp[t]
      BY <1>1, <2>3 DEF CreateBatch
    <3> QED BY <1>0, <2>1, <3>1, ProgressFrame
  <2> QED BY <2>2, <2>3
<1>2. CASE CreateBatchFails(b)
  <2>1. phase' = phase /\ session' = session /\ batch[b].status = "absent"
        /\ (t \notin Files(b) => temp'[t] = temp[t])
    BY <1>2 DEF CreateBatchFails, Fresh, dbVars
  <2>2. t \in Files(b) => phase[t] = "none"
    BY <2>1, FreshRows
  <2> QED BY <1>0, <2>1, <2>2, ProgressFrame
<1>3. ASSUME UNCHANGED <<temp, phase>>,
             session' = session \/ \E st \in SessionStatus : CloseSessions(b, st)
      PROVE  ProgressOf(t)'
  <2>1. session'[t].received = session[t].received /\ session'[t].size = session[t].size
    BY <1>0, <1>3 DEF CloseSessions, SessionRow
  <2> QED BY <1>0, <1>3, <2>1, ProgressFrame
<1>4. CASE AbortBatch(b) \/ AbortAckLost(b) \/ expireBatch(b) \/ expireAckLost(b)
  <2>1. UNCHANGED <<temp, phase>> /\ \E st \in {"aborted", "expired"} : CloseSessions(b, st)
    BY <1>4 DEF AbortBatch, AbortAckLost, BatchAborted, expireBatch, expireAckLost, BatchExpired
  <2> QED BY <1>3, <2>1 DEF SessionStatus
<1>5. CASE expireBatchFails(b) \/ BecomesDue(b)
  BY <1>3, <1>5 DEF expireBatchFails, BecomesDue, dbVars
<1> QED BY <1>1, <1>2, <1>4, <1>5 DEF BatchStep

LEMMA ProgressStep == UploadInv /\ ProgressInv /\ [Next]_vars => ProgressInv'
<1> SUFFICES ASSUME UploadInv, ProgressInv, [Next]_vars, NEW t \in Sessions PROVE ProgressOf(t)'
  BY DEF ProgressInv
<1>0. ProgressOf(t)
  BY DEF ProgressInv
<1>1. ASSUME NEW s \in Sessions, DeleteTemp(s) PROVE ProgressOf(t)'
  <2>1. phase' = phase /\ session' = session /\ (t # s => temp'[t] = temp[t])
    BY <1>1 DEF DeleteTemp, UploadInv, TypeOK, dbVars
  <2>2. phase[s] = "none"
    BY <1>1 DEF DeleteTemp, UploadInv, SessionInv, TypeOK, Phase
  <2> QED BY <1>0, <2>1, <2>2, ProgressFrame
<1>2. CASE CleanupExpired \/ UNCHANGED vars
  BY <1>0, <1>2, ProgressFrame DEF CleanupExpired, vars, dbVars
<1>3. CASE Crash
  BY <1>0, <1>3, ProgressFrame DEF Crash, dbVars
<1> QED BY <1>1, <1>2, <1>3, ChunkProgress, CompleteProgress, BatchProgress DEF Next

\* No offset is beyond the size that was declared, and a file is renamed to its
\* final key only once its last byte has been received.
THEOREM UploadsProgress == Spec => []ProgressInv
<1>1. Init => ProgressInv
  BY DEF Init, ProgressInv, ProgressOf, NoSession
<1> QED BY <1>1, ProgressStep, UploadInvariant, PTL DEF Spec

-----------------------------------------------------------------------------
(* The steps of Delivery, told by the rows of the database.                *)

SameBatch(b) == batch'[b].status = batch[b].status /\ batch'[b].reserved = batch[b].reserved

SameSession(s) == /\ session'[s].status = session[s].status
                  /\ session'[s].size = session[s].size
                  /\ session'[s].received = session[s].received

LEMMA DeliveryRests ==
    ASSUME \A s \in Sessions : SameSession(s), \A b \in Batches : SameBatch(b)
    PROVE  UNCHANGED Promise!deliveryVars
BY DEF SameSession, SameBatch, Promise!deliveryVars

LEMMA DeliveryTakes ==
    ASSUME NEW s \in Sessions, session[s].status = "open",
           NEW n \in session[s].received .. session[s].size,
           session'[s].received = n, session'[s].size = session[s].size,
           session'[s].status = session[s].status,
           \A t \in Sessions \ {s} : SameSession(t), \A b \in Batches : SameBatch(b)
    PROVE  Promise!Take(s)
<1>1. /\ [t \in Sessions |-> session'[t].status] = [t \in Sessions |-> session[t].status]
      /\ [t \in Sessions |-> session'[t].size] = [t \in Sessions |-> session[t].size]
      /\ [t \in Sessions |-> session'[t].received]
           = [[t \in Sessions |-> session[t].received] EXCEPT ![s] = n]
  BY DEF SameSession
<1>2. /\ [b \in Batches |-> batch'[b].status] = [b \in Batches |-> batch[b].status]
      /\ [b \in Batches |-> batch'[b].reserved] = [b \in Batches |-> batch[b].reserved]
  BY DEF SameBatch
<1> QED BY <1>1, <1>2 DEF Promise!Take

LEMMA DeliveryDelivers ==
    ASSUME NEW s \in Sessions, NEW b \in Batches, b = BatchOf[s],
           session[s].status = "open", session[s].received = session[s].size,
           session'[s].status = "complete", session'[s].size = session[s].size,
           session'[s].received = session[s].received,
           batch'[b].status = IF LastOfBatch(s) THEN "done" ELSE "open",
           batch'[b].reserved = batch[b].reserved - session[s].size,
           \A t \in Sessions \ {s} : SameSession(t), \A c \in Batches \ {b} : SameBatch(c)
    PROVE  Promise!Deliver(s)
<1>1. /\ [t \in Sessions |-> session'[t].status]
           = [[t \in Sessions |-> session[t].status] EXCEPT ![s] = "complete"]
      /\ [t \in Sessions |-> session'[t].size] = [t \in Sessions |-> session[t].size]
      /\ [t \in Sessions |-> session'[t].received] = [t \in Sessions |-> session[t].received]
  BY DEF SameSession
<1>2. /\ [c \in Batches |-> batch'[c].status]
           = [[c \in Batches |-> batch[c].status] EXCEPT ![b] = IF LastOfBatch(s) THEN "done" ELSE "open"]
      /\ [c \in Batches |-> batch'[c].reserved]
           = [[c \in Batches |-> batch[c].reserved] EXCEPT ![b] = batch[b].reserved - session[s].size]
  BY DEF SameBatch
<1>3. Promise!OpenItems(b) = OpenFiles(b)
  BY DEF Promise!OpenItems, Promise!ItemsOf, OpenFiles, Files
<1> QED BY <1>1, <1>2, <1>3 DEF Promise!Deliver, LastOfBatch

LEMMA DeliveryGivesUp ==
    ASSUME NEW b \in Batches, NEW st \in {"aborted", "expired"}, batch[b].status = "open",
           \A s \in OpenFiles(b) : /\ session'[s].status = st
                                   /\ session'[s].size = session[s].size
                                   /\ session'[s].received = session[s].received,
           \A s \in Sessions \ OpenFiles(b) : SameSession(s),
           batch'[b].status = st, batch'[b].reserved = 0,
           \A c \in Batches \ {b} : SameBatch(c)
    PROVE  Promise!GiveUp(b, st)
<1>0. Promise!OpenItems(b) = OpenFiles(b)
  BY DEF Promise!OpenItems, Promise!ItemsOf, OpenFiles, Files
<1>1. /\ [s \in Sessions |-> session'[s].status]
           = [s \in Sessions |-> IF s \in OpenFiles(b) THEN st
                                 ELSE [t \in Sessions |-> session[t].status][s]]
      /\ [s \in Sessions |-> session'[s].size] = [s \in Sessions |-> session[s].size]
      /\ [s \in Sessions |-> session'[s].received] = [s \in Sessions |-> session[s].received]
  BY DEF SameSession
<1>2. /\ [c \in Batches |-> batch'[c].status] = [[c \in Batches |-> batch[c].status] EXCEPT ![b] = st]
      /\ [c \in Batches |-> batch'[c].reserved] = [[c \in Batches |-> batch[c].reserved] EXCEPT ![b] = 0]
  BY DEF SameBatch
<1> QED BY <1>0, <1>1, <1>2 DEF Promise!GiveUp

LEMMA DeliveryAnnounces ==
    ASSUME NEW b \in Batches, NEW size \in [Files(b) -> Sizes], batch[b].status = "absent",
           Files(b) # {},
           \A s \in Files(b) : /\ session'[s].status = "open"
                               /\ session'[s].size = size[s]
                               /\ session'[s].received = 0,
           \A s \in Sessions \ Files(b) : SameSession(s),
           batch'[b].status = "open", batch'[b].reserved = TotalSize(size, Files(b)),
           \A c \in Batches \ {b} : SameBatch(c)
    PROVE  Promise!Announce(b, size)
<1>0. Promise!ItemsOf(b) = Files(b)
  BY DEF Promise!ItemsOf, Files
<1>1. /\ [s \in Sessions |-> session'[s].status]
           = [s \in Sessions |-> IF s \in Files(b) THEN "open"
                                 ELSE [t \in Sessions |-> session[t].status][s]]
      /\ [s \in Sessions |-> session'[s].size]
           = [s \in Sessions |-> IF s \in Files(b) THEN size[s]
                                 ELSE [t \in Sessions |-> session[t].size][s]]
      /\ [s \in Sessions |-> session'[s].received]
           = [s \in Sessions |-> IF s \in Files(b) THEN 0
                                 ELSE [t \in Sessions |-> session[t].received][s]]
  BY DEF SameSession
<1>2. /\ [c \in Batches |-> batch'[c].status] = [[c \in Batches |-> batch[c].status] EXCEPT ![b] = "open"]
      /\ [c \in Batches |-> batch'[c].reserved]
           = [[c \in Batches |-> batch[c].reserved] EXCEPT ![b] = TotalSize(size, Files(b))]
  BY DEF SameBatch
<1> QED BY <1>0, <1>1, <1>2 DEF Promise!Announce

-----------------------------------------------------------------------------
LEMMA ChunkDelivers ==
    ASSUME UploadInv, ProgressInv, NEW s \in Sessions, Chunk(s)
    PROVE  Promise!Take(s) \/ UNCHANGED Promise!deliveryVars
<1>0. /\ ProgressOf(s) /\ SessionInv(s) /\ session \in [Sessions -> SessionRow]
      /\ session[s].received \in Nat /\ session[s].size \in Nat /\ temp[s].size \in Nat
  BY DEF UploadInv, TypeOK, SessionRow, File, ProgressInv
<1>1. CASE ChunkCommitted(s) \/ ChunkAckLost(s)
  <2>1. /\ phase[s] = "wrote" /\ session' = ReceivedIsWritten(s) /\ batch' = batch
    BY <1>1 DEF ChunkCommitted, ChunkAckLost
  <2>2. /\ session[s].status = "open" /\ temp[s].size \in session[s].received .. session[s].size
    BY <1>0, <2>1 DEF SessionInv, ProgressOf
  <2>3. /\ session'[s].received = temp[s].size /\ session'[s].size = session[s].size
        /\ session'[s].status = session[s].status
        /\ \A t \in Sessions \ {s} : session'[t] = session[t]
    BY <1>0, <2>1 DEF ReceivedIsWritten, SessionRow
  <2> QED BY <2>1, <2>2, <2>3, DeliveryTakes DEF SameSession, SameBatch
<1>2. CASE ~(ChunkCommitted(s) \/ ChunkAckLost(s))
  <2>1. session' = session /\ batch' = batch
    BY <1>2 DEF Chunk, ChunkRejected, ChunkWritten, ChunkFailed, dbVars
  <2> QED BY <2>1, DeliveryRests DEF SameSession, SameBatch
<1> QED BY <1>1, <1>2

\* The file's share is in the batch's reservation, so all of it goes.
LEMMA CompletionDelivers ==
    ASSUME UploadInv, ProgressInv, LedgerInv, NEW s \in Sessions, NEW old \in Sizes,
           FileCompleted(s, old)
    PROVE  Promise!Deliver(s)
<1> USE UploadConstants
<1> DEFINE b == BatchOf[s]
           n == session[s].size
<1>0. /\ b \in Batches /\ batch \in [Batches -> BatchRow] /\ session \in [Sessions -> SessionRow]
      /\ n \in Nat /\ batch[b].reserved \in Nat /\ TypeOK
  BY DEF UploadInv, TypeOK, BatchRow, SessionRow
<1>1. /\ session' = [session EXCEPT ![s].status = "complete"]
      /\ batch' = [batch EXCEPT ![b].reserved = Greatest0(@ - n),
                                ![b].status = IF LastOfBatch(s) THEN "done" ELSE @]
      /\ session[s].status = "open" /\ batch[b].status = "open"
      /\ session[s].received = session[s].size
  BY DEF FileCompleted, UserOf, UploadInv, SessionInv, ProgressInv, ProgressOf
<1>2. batch[b].reserved >= n
  <2>1. s \in OpenFiles(b) /\ IsFiniteSet(OpenFiles(b))
    BY <1>0, <1>1, LedgerSets DEF OpenFiles, Files
  <2>2. \A t \in OpenFiles(b) : Expected[t] \in Nat
    BY <1>0, LedgerTypes DEF OpenFiles, Files
  <2>3. SumOf(Expected, OpenFiles(b)) >= Expected[s]
    BY <2>1, <2>2, SumElement
  <2>4. batch[b].reserved = SumOf(Expected, OpenFiles(b)) /\ Expected[s] = n
    BY <1>0, LedgerTypes, TotalIsSum DEF LedgerInv, BatchLedger
  <2> QED BY <2>3, <2>4
<1>3. Greatest0(batch[b].reserved - n) = batch[b].reserved - n
  BY <1>0, <1>2 DEF Greatest0
<1>4. /\ session'[s].status = "complete" /\ session'[s].size = session[s].size
      /\ session'[s].received = session[s].received
      /\ \A t \in Sessions \ {s} : session'[t] = session[t]
  BY <1>0, <1>1 DEF SessionRow
<1>5. /\ batch'[b].reserved = batch[b].reserved - n
      /\ batch'[b].status = IF LastOfBatch(s) THEN "done" ELSE "open"
      /\ \A c \in Batches \ {b} : batch'[c] = batch[c]
  <2> DEFINE left == batch[b].reserved - n
             settled == [batch EXCEPT ![b].reserved = left]
  <2>0. left \in Nat
    BY <1>0, <1>2
  <2> HIDE DEF n, left
  <2>1. settled \in [Batches -> BatchRow] /\ settled[b].reserved = left
        /\ settled[b].status = "open" /\ \A c \in Batches \ {b} : settled[c] = batch[c]
    BY <1>0, <1>1, <2>0 DEF BatchRow
  <2>2. batch' = [settled EXCEPT ![b].status = IF LastOfBatch(s) THEN "done" ELSE "open"]
    BY <1>0, <1>1, <1>3 DEF left
  <2> HIDE DEF settled, b
  <2>3. /\ batch'[b].reserved = left /\ batch'[b].status = IF LastOfBatch(s) THEN "done" ELSE "open"
        /\ \A c \in Batches \ {b} : batch'[c] = batch[c]
    BY <1>0, <2>1, <2>2 DEF BatchRow
  <2> QED BY <2>3 DEF left
<1> QED BY <1>0, <1>1, <1>4, <1>5, DeliveryDelivers DEF SameSession, SameBatch

\* A batch that is swept once more has nothing open.
LEMMA ClosingDelivers ==
    ASSUME UploadInv, LedgerInv, NEW b \in Batches, NEW st \in {"aborted", "expired"},
           CloseSessions(b, st),
           batch' = IF batch[b].status = "open" THEN CloseBatch(b, st) ELSE batch
    PROVE  Promise!GiveUp(b, st) \/ UNCHANGED Promise!deliveryVars
<1>0. batch \in [Batches -> BatchRow] /\ session \in [Sessions -> SessionRow]
  BY DEF UploadInv, TypeOK, BatchRow, SessionRow
<1>1. /\ \A s \in OpenFiles(b) : /\ session'[s].status = st
                                 /\ session'[s].size = session[s].size
                                 /\ session'[s].received = session[s].received
      /\ \A s \in Sessions \ OpenFiles(b) : SameSession(s)
  BY <1>0 DEF CloseSessions, SameSession, SessionRow, OpenFiles, Files
<1>2. CASE batch[b].status = "open"
  <2>1. batch'[b].status = st /\ batch'[b].reserved = 0 /\ \A c \in Batches \ {b} : batch'[c] = batch[c]
    BY <1>0, <1>2 DEF CloseBatch, BatchRow
  <2> QED BY <1>1, <1>2, <2>1, DeliveryGivesUp DEF SameBatch
<1>3. CASE batch[b].status # "open"
  <2>1. OpenFiles(b) = {}
    BY <1>3 DEF LedgerInv, BatchLedger
  <2> QED BY <1>1, <1>3, <2>1, DeliveryRests DEF SameBatch
<1> QED BY <1>2, <1>3

LEMMA BatchDelivers ==
    ASSUME UploadInv, LedgerInv, NEW b \in Batches, BatchStep(b)
    PROVE  \/ \E amount \in [Files(b) -> Sizes] : Promise!Announce(b, amount)
           \/ \E st \in {"aborted", "expired"} : Promise!GiveUp(b, st)
           \/ UNCHANGED Promise!deliveryVars
<1> USE UploadConstants
<1>0. batch \in [Batches -> BatchRow] /\ session \in [Sessions -> SessionRow]
  BY DEF UploadInv, TypeOK, BatchRow, SessionRow
<1>1. ASSUME NEW size \in [Files(b) -> Sizes], NEW total \in 0 .. Quota, CreateBatch(b, size, total)
      PROVE  Promise!Announce(b, size)
  <2>1. /\ batch[b].status = "absent" /\ Files(b) # {} /\ total = TotalSize(size, Files(b))
        /\ batch'[b] = [status |-> "open", reserved |-> total, due |-> FALSE]
        /\ \A c \in Batches \ {b} : batch'[c] = batch[c]
    BY <1>0, <1>1 DEF CreateBatch, Fresh
  <2>2. /\ \A s \in Files(b) : /\ session'[s].status = "open"
                               /\ session'[s].size = size[s]
                               /\ session'[s].received = 0
        /\ \A s \in Sessions \ Files(b) : session'[s] = session[s]
    BY <1>1 DEF CreateBatch, Files
  <2>3. batch'[b].status = "open" /\ batch'[b].reserved = TotalSize(size, Files(b))
    BY <2>1
  <2> QED BY <2>1, <2>2, <2>3, DeliveryAnnounces DEF SameSession, SameBatch
<1>2. CASE AbortBatch(b) \/ AbortAckLost(b)
  <2>1. CloseSessions(b, "aborted") /\ batch[b].status = "open" /\ batch' = CloseBatch(b, "aborted")
    BY <1>2 DEF AbortBatch, AbortAckLost, BatchAborted
  <2> QED BY <2>1, ClosingDelivers
<1>3. CASE expireBatch(b) \/ expireAckLost(b)
  <2>1. /\ CloseSessions(b, "expired")
        /\ batch' = IF batch[b].status = "open" THEN CloseBatch(b, "expired") ELSE batch
    BY <1>3 DEF expireBatch, expireAckLost, BatchExpired
  <2> QED BY <2>1, ClosingDelivers
<1>4. CASE CreateBatchFails(b) \/ expireBatchFails(b)
  <2>1. session' = session /\ batch' = batch
    BY <1>4 DEF CreateBatchFails, expireBatchFails, dbVars
  <2> QED BY <2>1, DeliveryRests DEF SameSession, SameBatch
<1>5. CASE BecomesDue(b)
  <2>1. session' = session /\ \A c \in Batches : SameBatch(c)
    BY <1>0, <1>5 DEF BecomesDue, SameBatch, BatchRow
  <2> QED BY <2>1, DeliveryRests DEF SameSession
<1> QED BY <1>1, <1>2, <1>3, <1>4, <1>5 DEF BatchStep

LEMMA DeliveryStep ==
    UploadInv /\ LedgerInv /\ ProgressInv /\ [Next]_vars => [Promise!DeliveryNext]_(Promise!deliveryVars)
<1> SUFFICES ASSUME UploadInv, LedgerInv, ProgressInv, [Next]_vars
             PROVE  Promise!DeliveryNext \/ UNCHANGED Promise!deliveryVars
  OBVIOUS
<1>1. ASSUME NEW s \in Sessions, Chunk(s)
      PROVE  Promise!DeliveryNext \/ UNCHANGED Promise!deliveryVars
  BY <1>1, ChunkDelivers DEF Promise!DeliveryNext
<1>2. ASSUME NEW s \in Sessions, Complete(s)
      PROVE  Promise!DeliveryNext \/ UNCHANGED Promise!deliveryVars
  <2>1. CASE Finalized(s) \/ CompleteFailed(s)
    <3>1. session' = session /\ batch' = batch
      BY <2>1 DEF Finalized, CompleteFailed, dbVars
    <3> QED BY <3>1, DeliveryRests DEF SameSession, SameBatch
  <2>2. ASSUME NEW old \in Sizes, CompleteCommitted(s, old) \/ CompleteAckLost(s, old)
        PROVE  Promise!DeliveryNext
    BY <2>2, CompletionDelivers DEF CompleteCommitted, CompleteAckLost, Promise!DeliveryNext
  <2> QED BY <1>2, <2>1, <2>2 DEF Complete
<1>3. ASSUME NEW b \in Batches, BatchStep(b)
      PROVE  Promise!DeliveryNext \/ UNCHANGED Promise!deliveryVars
  <2>1. Promise!ItemsOf(b) = Files(b)
    BY DEF Promise!ItemsOf, Files
  <2> QED BY <1>3, <2>1, BatchDelivers DEF Promise!DeliveryNext
<1>4. ASSUME session' = session, batch' = batch
      PROVE  UNCHANGED Promise!deliveryVars
  BY <1>4, DeliveryRests DEF SameSession, SameBatch
<1>5. CASE CleanupExpired \/ Crash \/ UNCHANGED vars \/ \E s \in Sessions : DeleteTemp(s)
  BY <1>4, <1>5 DEF CleanupExpired, Crash, vars, DeleteTemp, dbVars
<1> QED BY <1>1, <1>2, <1>3, <1>5 DEF Next

\* Uploads implements Delivery: through every crash, lost acknowledgement and
\* stale sweep the rows of a batch and its sessions go the way it promises.
THEOREM UploadsImplementDelivery == Spec => UploadsDeliver
<1>1. Init => Promise!DeliveryInit
  BY DEF Init, Promise!DeliveryInit, NoSession, NoBatch
<1> QED BY <1>1, DeliveryStep, LedgerHolds, UploadsProgress, PTL
       DEF Spec, UploadsDeliver, Promise!DeliverySpec

=============================================================================
