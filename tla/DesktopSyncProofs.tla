------------------------- MODULE DesktopSyncProofs -------------------------
(***************************************************************************)
(* Proofs about DesktopSync, for any paths, contents, entries and          *)
(* incidents: its states are well formed, and no mixture of two contents   *)
(* gets into the folder, the jobs or the server unless a download is       *)
(* resumed.                                                                *)
(***************************************************************************)
EXTENDS DesktopSync, TLAPS

\* The rows of entries that there are.
Statuses == {"live", "gone"}
Stored   == [name : Names, content : Contents, status : Statuses]

(***************************************************************************)
(* TypeOK in parts: what the folder and the switches hold, the client's    *)
(* nodes, its jobs, and the server.                                        *)
(***************************************************************************)
FolderTyped ==
    /\ running \in BOOLEAN /\ paused \in BOOLEAN /\ resumed \in BOOLEAN
    /\ file \in [Names -> 0 .. Torn]
    /\ partial \in [Names -> 0 .. Torn]
    /\ noticed \in [Names -> SUBSET {"write", "remove"}]
    /\ last \in 0 .. MaxContent
    /\ incidents \in 0 .. MaxIncidents

NodesTyped ==
    /\ node \in [Names -> 0 .. MaxEntries]
    /\ \A n, m \in Names : node[n] = node[m] => n = m \/ node[n] = 0

JobsTyped ==
    /\ jobs \subseteq Uploads \cup Trashes
    /\ work = AtRest \/ (work \in [job : Uploads, read : Contents] /\ work.job \in jobs)

NamesUnique ==
    \A d, e \in Entries :
        entry[d].status = "live" /\ entry[d].status = entry[e].status
          /\ entry[d].name = entry[e].name => d = e

ServerTyped ==
    /\ entry \in [Entries -> {NoEntry} \cup Stored]
    /\ NamesUnique
    /\ feed \in Seq(Changes)

LEMMA TypeParts == TypeOK <=> FolderTyped /\ NodesTyped /\ JobsTyped /\ ServerTyped
  BY DEF TypeOK, FolderTyped, NodesTyped, JobsTyped, ServerTyped, NamesUnique, Stored, Statuses

\* At the start there is nothing.
LEMMA InitTyped == Init => TypeOK
<1> SUFFICES ASSUME Init PROVE FolderTyped /\ NodesTyped /\ JobsTyped /\ ServerTyped
  BY TypeParts
<1> USE DesktopConstants DEF Init
<1>1. FolderTyped
  <2>1. 0 \in 0 .. Torn /\ 0 \in 0 .. MaxContent /\ 0 \in 0 .. MaxIncidents
    BY DEF Torn
  <2>2. noticed \in [Names -> SUBSET {"write", "remove"}]
    OBVIOUS
  <2> QED
    BY <2>1, <2>2 DEF FolderTyped
<1>2. NodesTyped
  BY DEF NodesTyped
<1>3. JobsTyped
  BY DEF JobsTyped
<1>4. ServerTyped
  BY DEF ServerTyped, NamesUnique, NoEntry
<1> QED
  BY <1>1, <1>2, <1>3, <1>4

-----------------------------------------------------------------------------
(* Facts about the operators *)

\* What an entry is: a live one has a name and a content.
LEMMA StoredFields ==
    ASSUME ServerTyped, NEW e \in Entries, entry[e] # NoEntry
    PROVE  /\ entry[e] \in Stored
           /\ entry[e].name \in Names /\ entry[e].content \in Contents
           /\ entry[e] = [name |-> entry[e].name, content |-> entry[e].content,
                          status |-> entry[e].status]
<1>1. entry[e] \in Stored
  BY DEF ServerTyped
<1> QED
  BY <1>1 DEF Stored

LEMMA LiveStored ==
    ASSUME ServerTyped, NEW e \in Entries, entry[e].status \in Statuses
    PROVE  entry[e] # NoEntry
  BY DEF NoEntry, Statuses

\* An upload's job, and a removal's.
LEMMA UploadFields ==
    ASSUME NEW job \in Uploads
    PROVE  /\ job.kind = "upload" /\ job.name \in Names /\ job.hash \in Contents
           /\ job = Upload(job.name, job.hash)
  BY DEF Uploads, Upload

LEMMA TrashFields ==
    ASSUME NEW job \in Trashes
    PROVE  job.kind = "trash_remote" /\ job.id \in Entries /\ job = Trash(job.id)
  BY DEF Trashes, Trash

\* A change of one entry keeps the server's types, if its new row is one and its
\* name, should it be live, is free or its own.
LEMMA ChangeTyped ==
    ASSUME ServerTyped, NEW e \in Entries, NEW with \in Stored, Change(e, with),
           with.status = "live" =>
              \/ NameFree(with.name)
              \/ Live(e) /\ with.name = entry[e].name
    PROVE  ServerTyped'
<1> USE DEF Change
<1>1. with.name \in Names /\ with.status \in Statuses
  BY DEF Stored
<1>2. entry' \in [Entries -> {NoEntry} \cup Stored]
  BY DEF ServerTyped
<1>3. entry'[e] = with /\ \A d \in Entries \ {e} : entry'[d] = entry[d]
  BY DEF ServerTyped
<1>4. feed' \in Seq(Changes)
  <2>1. [id |-> e, name |-> with.name, gone |-> with.status = "gone"] \in Changes
    <3>1. (with.status = "gone") \in BOOLEAN
      OBVIOUS
    <3> QED
      BY <1>1, <3>1 DEF Changes
  <2> QED
    BY <2>1 DEF ServerTyped
<1>5. NamesUnique'
  <2> SUFFICES ASSUME NEW c \in Entries, NEW d \in Entries,
                      entry'[c].status = "live", entry'[c].status = entry'[d].status,
                      entry'[c].name = entry'[d].name
               PROVE  c = d
    BY DEF NamesUnique
  <2>1. \A b \in Entries \ {e} : with.status = "live" /\ Live(b) => entry[b].name # with.name
    BY DEF NameFree, Live, ServerTyped, NamesUnique
  <2>2. CASE c = e
    BY <1>3, <2>1, <2>2 DEF Live
  <2>3. CASE c # e
    BY <1>3, <2>1, <2>3 DEF Live, ServerTyped, NamesUnique
  <2> QED
    BY <2>2, <2>3
<1> QED
  BY <1>2, <1>4, <1>5 DEF ServerTyped

LEMMA CreateTyped ==
    ASSUME ServerTyped, NEW e \in Entries, NEW n \in Names, NEW x \in Contents,
           CreateEntry(e, n, x)
    PROVE  ServerTyped'
<1> DEFINE with == [name |-> n, content |-> x, status |-> "live"]
<1>1. with \in Stored /\ with.name = n /\ Change(e, with) /\ NameFree(n)
  BY DEF CreateEntry, Stored, Statuses
<1> QED
  BY <1>1, ChangeTyped

LEMMA TrashTyped ==
    ASSUME ServerTyped, NEW e \in Entries, TrashEntry(e)
    PROVE  ServerTyped'
<1> DEFINE with == [entry[e] EXCEPT !.status = "gone"]
<1>1. entry[e] \in Stored
  BY LiveStored, StoredFields DEF TrashEntry, Live, Statuses
<1>2. with \in Stored /\ with.status # "live"
  BY <1>1 DEF Stored, Statuses
<1>3. Change(e, with)
  BY DEF TrashEntry
<1> QED
  BY <1>2, <1>3, ChangeTyped

\* The feed's first change, and what is left without it.
LEMMA HeadTyped ==
    ASSUME ServerTyped, feed # <<>>
    PROVE  /\ Head(feed).id \in Entries /\ Head(feed).name \in Names
           /\ Tail(feed) \in Seq(Changes)
<1>1. Head(feed) \in Changes /\ Tail(feed) \in Seq(Changes)
  BY DEF ServerTyped
<1> QED
  BY <1>1 DEF Changes

\* The path a change is applied to.
LEMMA PathTyped ==
    ASSUME NEW c, c.name \in Names
    PROVE  resolveLocalRel(c) \in Names
  BY DEF resolveLocalRel

\* A node is stored at most once, whatever the database refuses.
LEMMA UpsertTyped ==
    ASSUME NodesTyped, NEW n \in Names, NEW e \in Entries, UpsertNode(n, e)
    PROVE  NodesTyped'
<1>1. e \in 0 .. MaxEntries /\ e # 0
  BY DesktopConstants DEF Entries
<1>2. CASE \E m \in Names \ {n} : node[m] = e
  BY <1>2 DEF UpsertNode, NodesTyped
<1>3. CASE ~\E m \in Names \ {n} : node[m] = e
  <2>1. node' = [node EXCEPT ![n] = e]
    BY <1>3 DEF UpsertNode
  <2> QED
    BY <1>1, <1>3, <2>1 DEF NodesTyped
<1> QED
  BY <1>2, <1>3

\* The watcher's report.
LEMMA NoticeTyped ==
    ASSUME noticed \in [Names -> SUBSET {"write", "remove"}], NEW n \in Names,
           NEW op \in {"write", "remove"}, Notice(n, op)
    PROVE  noticed' \in [Names -> SUBSET {"write", "remove"}]
  BY DEF Notice
-----------------------------------------------------------------------------
(* Type correctness, part by part *)

\* The server: its own changes, and those the client asks for.
LEMMA ServerStep ==
    ASSUME TypeOK, [Next]_desktopVars
    PROVE  ServerTyped'
<1>0. ServerTyped /\ FolderTyped /\ JobsTyped
  BY TypeParts
<1> USE <1>0
<1>1. CASE RemoteWrite
  <2>1. last' \in Contents
    BY <1>1, DesktopConstants DEF RemoteWrite, Contents, Torn, FolderTyped
  <2> SUFFICES ASSUME NEW e \in Entries,
                      \/ \E n \in Names : CreateEntry(e, n, last')
                      \/ Live(e) /\ Change(e, [entry[e] EXCEPT !.content = last'])
               PROVE  ServerTyped'
    BY <1>1 DEF RemoteWrite
  <2>2. CASE \E n \in Names : CreateEntry(e, n, last')
    BY <2>1, <2>2, CreateTyped
  <2>3. CASE Live(e) /\ Change(e, [entry[e] EXCEPT !.content = last'])
    <3> DEFINE with == [entry[e] EXCEPT !.content = last']
    <3>1. entry[e] \in Stored
      BY <2>3, LiveStored, StoredFields DEF Live, Statuses
    <3>2. with \in Stored /\ with.name = entry[e].name
      BY <2>1, <3>1 DEF Stored
    <3> HIDE DEF with
    <3> QED
      BY <2>3, <3>2, ChangeTyped DEF with
  <2> QED
    BY <2>2, <2>3
<1>2. CASE RemoteRename
  <2> SUFFICES ASSUME NEW e \in Entries, NEW n \in Names, Live(e), NameFree(n),
                      Change(e, [entry[e] EXCEPT !.name = n])
               PROVE  ServerTyped'
    BY <1>2 DEF RemoteRename
  <2> DEFINE with == [entry[e] EXCEPT !.name = n]
  <2>1. entry[e] \in Stored
    BY LiveStored, StoredFields DEF Live, Statuses
  <2>2. with \in Stored /\ with.name = n
    BY <2>1 DEF Stored
  <2>3. Change(e, with)
    OBVIOUS
  <2> HIDE DEF with
  <2> QED
    BY <2>2, <2>3, ChangeTyped
<1>3. CASE RemoteTrash
  BY <1>3, TrashTyped DEF RemoteTrash
<1>4. CASE RemoteRestore
  <2> SUFFICES ASSUME NEW e \in Entries, entry[e].status = "gone", NameFree(entry[e].name),
                      Change(e, [entry[e] EXCEPT !.status = "live"])
               PROVE  ServerTyped'
    BY <1>4 DEF RemoteRestore
  <2> DEFINE with == [entry[e] EXCEPT !.status = "live"]
  <2>1. entry[e] \in Stored
    BY LiveStored, StoredFields DEF Statuses
  <2>2. with \in Stored /\ with.name = entry[e].name
    BY <2>1 DEF Stored, Statuses
  <2>3. Change(e, with)
    OBVIOUS
  <2> HIDE DEF with
  <2> QED
    BY <2>2, <2>3, ChangeTyped
<1>5. CASE \E answered \in BOOLEAN : UploadAccepted(answered)
  <2> SUFFICES ASSUME NEW answered \in BOOLEAN, UploadAccepted(answered), work # AtRest,
                      NEW sent \in Sent, NEW e \in Entries,
                      HashAgrees(sent, work.job.hash),
                      CreateEntry(e, work.job.name, sent)
               PROVE  ServerTyped'
    BY <1>5 DEF UploadAccepted
  <2>1. work.job \in Uploads
    BY DEF JobsTyped
  <2>2. work.job.name \in Names /\ sent \in Contents
    BY <2>1, UploadFields DEF HashAgrees
  <2> QED
    BY <2>2, CreateTyped
<1>6. CASE \E job \in Trashes, answered \in BOOLEAN : TrashRemote(job, answered)
  <2> SUFFICES ASSUME NEW job \in Trashes, TrashEntry(job.id)
               PROVE  ServerTyped'
    BY <1>6 DEF TrashRemote
  <2> QED
    BY TrashFields, TrashTyped
<1>7. CASE ApplyRemoval \/ ApplyContent \/ ApplyFailed
  <2>1. feed # <<>> /\ feed' = Tail(feed) /\ entry' = entry
    BY <1>7 DEF ApplyRemoval, ApplyContent, ApplyFailed
  <2> QED
    BY <2>1, HeadTyped DEF ServerTyped, NamesUnique
<1>8. CASE Stop
  <2>1. entry' = entry /\ \E k \in 0 .. Len(feed) : feed' = SubSeq(feed, k + 1, Len(feed))
    BY <1>8 DEF Stop
  <2>2. feed' \in Seq(Changes)
    BY <2>1 DEF ServerTyped
  <2> QED
    BY <2>1, <2>2 DEF ServerTyped, NamesUnique
<1>9. CASE UNCHANGED <<entry, feed>>
  BY <1>9 DEF ServerTyped, NamesUnique
<1> QED
  BY <1>1, <1>2, <1>3, <1>4, <1>5, <1>6, <1>7, <1>8, <1>9
  DEF Next, desktopVars, EditFile, RemoveFile, NoticeLost, localEvent, scan, BeginUpload,
      UploadRefused, UploadFailed, Start, Pause, Resume

\* The jobs: an upload that is under way is in the table until its answer.
LEMMA QueueTyped ==
    ASSUME FolderTyped, JobsTyped, NEW n \in Names, queueUpload(n)
    PROVE  jobs \subseteq jobs' /\ jobs' \subseteq Uploads \cup Trashes
<1>1. file[n] # 0 => file[n] \in Contents
  BY DesktopConstants DEF FolderTyped, Contents, Torn
<1>2. file[n] # 0 => Upload(n, file[n]) \in Uploads
  BY <1>1 DEF Uploads
<1> QED
  BY <1>2 DEF queueUpload, EnqueueJob, JobsTyped

LEMMA JobsStep ==
    ASSUME TypeOK, [Next]_desktopVars
    PROVE  JobsTyped'
<1>0. FolderTyped /\ NodesTyped /\ JobsTyped
  BY TypeParts
<1> USE <1>0
<1>1. CASE \E n \in Names : localEvent(n)
  <2> SUFFICES ASSUME NEW n \in Names, localEvent(n)
               PROVE  JobsTyped'
    BY <1>1
  <2>1. work' = work
    BY DEF localEvent
  <2>2. jobs \subseteq jobs' /\ jobs' \subseteq Uploads \cup Trashes
    <3>1. CASE queueUpload(n)
      BY <3>1, QueueTyped
    <3>2. CASE jobs' = IF node[n] = 0 THEN jobs ELSE EnqueueJob(Trash(node[n]))
      <4>1. node[n] # 0 => Trash(node[n]) \in Trashes
        BY DesktopConstants DEF NodesTyped, Trashes, Entries
      <4> QED
        BY <3>2, <4>1 DEF EnqueueJob, JobsTyped
    <3> QED
      BY <3>1, <3>2 DEF localEvent
  <2> QED
    BY <2>1, <2>2 DEF JobsTyped, AtRest
<1>2. CASE \E n \in Names : scan(n)
  <2>1. jobs \subseteq jobs' /\ jobs' \subseteq Uploads \cup Trashes /\ work' = work
    BY <1>2, QueueTyped DEF scan
  <2> QED
    BY <2>1 DEF JobsTyped, AtRest
<1>3. CASE \E job \in Uploads : BeginUpload(job)
  <2> SUFFICES ASSUME NEW job \in Uploads, BeginUpload(job)
               PROVE  JobsTyped'
    BY <1>3
  <2>1. job.name \in Names
    BY UploadFields
  <2>2. file[job.name] \in Contents
    BY <2>1, DesktopConstants DEF BeginUpload, FolderTyped, Contents, Torn
  <2> QED
    BY <2>2 DEF BeginUpload, JobsTyped
<1>4. CASE UploadRefused \/ UploadFailed \/ Stop
  <2>1. jobs' = jobs /\ work' = AtRest
    BY <1>4 DEF UploadRefused, UploadFailed, Stop
  <2> QED
    BY <2>1 DEF JobsTyped, AtRest
<1>5. CASE \E answered \in BOOLEAN : UploadAccepted(answered)
  <2>1. jobs' \in {jobs, jobs \ {work.job}} /\ work' = AtRest
    BY <1>5 DEF UploadAccepted
  <2> QED
    BY <2>1 DEF JobsTyped, AtRest
<1>6. CASE \E job \in Trashes, answered \in BOOLEAN : TrashRemote(job, answered)
  <2>1. work = AtRest /\ work' = work /\ jobs' \subseteq jobs
    BY <1>6 DEF TrashRemote, Ready
  <2> QED
    BY <2>1 DEF JobsTyped, AtRest
<1>7. CASE UNCHANGED <<jobs, work>>
  BY <1>7 DEF JobsTyped, AtRest
<1> QED
  BY <1>1, <1>2, <1>3, <1>4, <1>5, <1>6, <1>7
  DEF Next, desktopVars, RemoteWrite, RemoteRename, RemoteTrash, RemoteRestore, EditFile,
      RemoveFile, NoticeLost, ApplyRemoval, ApplyContent, ApplyFailed, Start, Pause, Resume

\* The nodes: no entry at two paths.
LEMMA NodesStep ==
    ASSUME TypeOK, [Next]_desktopVars
    PROVE  NodesTyped'
<1>0. NodesTyped /\ JobsTyped /\ ServerTyped
  BY TypeParts
<1> USE <1>0
<1>1. CASE \E answered \in BOOLEAN : UploadAccepted(answered)
  <2> SUFFICES ASSUME NEW answered \in BOOLEAN, UploadAccepted(answered), work # AtRest,
                      NEW e \in Entries,
                      \/ UpsertNode(work.job.name, e)
                      \/ UNCHANGED node
               PROVE  NodesTyped'
    BY <1>1 DEF UploadAccepted
  <2>1. work.job.name \in Names
    BY UploadFields DEF JobsTyped
  <2>2. CASE UNCHANGED node
    BY <2>2 DEF NodesTyped
  <2> QED
    BY <2>1, <2>2, UpsertTyped
<1>2. CASE ApplyRemoval
  <2>1. node' = [n \in Names |-> IF node[n] = Head(feed).id THEN 0 ELSE node[n]]
    BY <1>2 DEF ApplyRemoval
  <2> QED
    BY <2>1, DesktopConstants DEF NodesTyped
<1>3. CASE ApplyContent
  <2>1. feed # <<>> /\ UpsertNode(resolveLocalRel(Head(feed)), Head(feed).id)
    BY <1>3 DEF ApplyContent
  <2> QED
    BY <2>1, HeadTyped, PathTyped, UpsertTyped
<1>4. CASE UNCHANGED node
  BY <1>4 DEF NodesTyped
<1> QED
  BY <1>1, <1>2, <1>3, <1>4
  DEF Next, desktopVars, RemoteWrite, RemoteRename, RemoteTrash, RemoteRestore, EditFile,
      RemoveFile, NoticeLost, localEvent, scan, BeginUpload, UploadRefused, UploadFailed,
      TrashRemote, ApplyFailed, Start, Stop, Pause, Resume
\* A bounded counter that moves by one.
LEMMA IncidentTyped ==
    ASSUME incidents \in 0 .. MaxIncidents, Incident \/ UNCHANGED incidents
    PROVE  incidents' \in 0 .. MaxIncidents
  BY DesktopConstants DEF Incident

LEMMA WrittenTyped ==
    ASSUME last \in 0 .. MaxContent, last < MaxContent, last' = last + 1
    PROVE  last' \in 0 .. MaxContent /\ last' \in 0 .. Torn
  BY DesktopConstants DEF Torn

\* The folder, what is known of it, and the counters.
LEMMA FolderStep ==
    ASSUME TypeOK, [Next]_desktopVars
    PROVE  FolderTyped'
<1>0. FolderTyped /\ ServerTyped
  BY TypeParts
<1> USE <1>0
<1> DEFINE Reports == [Names -> SUBSET {"write", "remove"}]
<1>1. 0 \in 0 .. Torn /\ Torn \in 0 .. Torn
  BY DesktopConstants DEF Torn
<1>2. \A e \in Entries : Live(e) => entry[e].content \in 0 .. Torn
  <2> SUFFICES ASSUME NEW e \in Entries, Live(e) PROVE entry[e].content \in 0 .. Torn
    OBVIOUS
  <2>1. entry[e].content \in Contents
    BY LiveStored, StoredFields DEF Live, Statuses
  <2> QED
    BY <2>1, DesktopConstants DEF Contents, Torn
<1>3. UNCHANGED localVars => /\ file' \in [Names -> 0 .. Torn]
                             /\ partial' \in [Names -> 0 .. Torn]
                             /\ noticed' \in Reports
  BY DEF localVars, FolderTyped
<1>4. CASE RemoteWrite
  BY <1>3, <1>4, WrittenTyped DEF RemoteWrite, FolderTyped
<1>5. CASE RemoteRename \/ RemoteTrash
  BY <1>3, <1>5, IncidentTyped DEF RemoteRename, RemoteTrash, FolderTyped
<1>6. CASE \E n \in Names : EditFile(n) \/ RemoveFile(n) \/ NoticeLost(n)
  <2> SUFFICES ASSUME NEW n \in Names, EditFile(n) \/ RemoveFile(n) \/ NoticeLost(n)
               PROVE  FolderTyped'
    BY <1>6
  <2>1. CASE EditFile(n)
    <3>1. noticed' \in Reports
      BY <2>1, NoticeTyped DEF EditFile, FolderTyped
    <3>2. last' \in 0 .. MaxContent /\ last' \in 0 .. Torn
      BY <2>1, WrittenTyped DEF EditFile, FolderTyped
    <3>3. file' \in [Names -> 0 .. Torn]
      BY <2>1, <3>2 DEF EditFile, FolderTyped
    <3> QED
      BY <2>1, <3>1, <3>2, <3>3 DEF EditFile, FolderTyped
  <2>2. CASE RemoveFile(n)
    <3>1. noticed' \in Reports
      BY <2>2, NoticeTyped DEF RemoveFile, FolderTyped
    <3>2. file' \in [Names -> 0 .. Torn]
      BY <1>1, <2>2 DEF RemoveFile, FolderTyped
    <3> QED
      BY <2>2, <3>1, <3>2, IncidentTyped DEF RemoveFile, FolderTyped
  <2>3. CASE NoticeLost(n)
    <3>1. noticed' \in Reports
      BY <2>3 DEF NoticeLost, FolderTyped
    <3> QED
      BY <2>3, <3>1, IncidentTyped DEF NoticeLost, FolderTyped
  <2> QED
    BY <2>1, <2>2, <2>3
<1>7. CASE \E n \in Names : localEvent(n)
  <2>1. noticed' \in Reports
    BY <1>7 DEF localEvent, FolderTyped
  <2> QED
    BY <1>7, <2>1 DEF localEvent, FolderTyped
<1>8. CASE \E answered \in BOOLEAN : UploadAccepted(answered)
  <2>1. UNCHANGED <<running, paused, localVars, last, resumed>> /\ (Incident \/ UNCHANGED incidents)
    BY <1>8 DEF UploadAccepted
  <2> QED
    BY <1>3, <2>1, IncidentTyped DEF FolderTyped
<1>9. CASE UploadFailed \/ \E job \in Trashes, answered \in BOOLEAN : TrashRemote(job, answered)
  <2>1. UNCHANGED <<running, paused, localVars, last, resumed>> /\ (Incident \/ UNCHANGED incidents)
    BY <1>9 DEF UploadFailed, TrashRemote
  <2> QED
    BY <1>3, <2>1, IncidentTyped DEF FolderTyped
<1>10. CASE ApplyRemoval
  <2> DEFINE n == resolveLocalRel(Head(feed))
  <2>1. n \in Names
    BY <1>10, HeadTyped, PathTyped DEF ApplyRemoval
  <2>2. noticed' \in Reports
    BY <1>10, <2>1, NoticeTyped DEF ApplyRemoval, FolderTyped
  <2>3. file' \in [Names -> 0 .. Torn]
    BY <1>1, <1>10, <2>1 DEF ApplyRemoval, FolderTyped
  <2> QED
    BY <1>10, <2>2, <2>3 DEF ApplyRemoval, FolderTyped
<1>11. CASE ApplyContent
  <2> DEFINE n == resolveLocalRel(Head(feed))
             x == entry[Head(feed).id].content
             stale == partial[n] \notin {0, x}
  <2>1. n \in Names /\ x \in 0 .. Torn
    BY <1>2, <1>11, HeadTyped, PathTyped DEF ApplyContent
  <2>2. /\ file' = [file EXCEPT ![n] = IF stale THEN Torn ELSE x]
        /\ partial' = [partial EXCEPT ![n] = 0]
        /\ resumed' = (resumed \/ stale)
        /\ Notice(n, "write")
        /\ UNCHANGED <<running, paused, last, incidents>>
    BY <1>11 DEF ApplyContent
  <2> HIDE DEF n, x, stale
  <2>3. noticed' \in Reports
    BY <2>1, <2>2, NoticeTyped DEF FolderTyped
  <2>4. file' \in [Names -> 0 .. Torn] /\ partial' \in [Names -> 0 .. Torn]
    BY <1>1, <2>1, <2>2 DEF FolderTyped
  <2>5. resumed' \in BOOLEAN
    BY <2>2 DEF FolderTyped
  <2> QED
    BY <2>2, <2>3, <2>4, <2>5 DEF FolderTyped
<1>12. CASE ApplyFailed
  <2> DEFINE n == resolveLocalRel(Head(feed))
             x == entry[Head(feed).id].content
  <2>1. n \in Names
    BY <1>12, HeadTyped, PathTyped DEF ApplyFailed
  <2>2. UNCHANGED <<running, paused, file, noticed, last, resumed>> /\ (Incident \/ UNCHANGED incidents)
    BY <1>12 DEF ApplyFailed
  <2>3. \/ UNCHANGED partial
        \/ /\ x \in 0 .. Torn
           /\ partial' = [partial EXCEPT ![n] = IF @ \in {0, x} THEN x ELSE Torn]
    BY <1>2, <1>12, HeadTyped DEF ApplyFailed
  <2> HIDE DEF n, x
  <2>4. partial' \in [Names -> 0 .. Torn]
    BY <1>1, <2>1, <2>3 DEF FolderTyped
  <2> QED
    BY <2>2, <2>4, IncidentTyped DEF FolderTyped
<1>13. CASE Start \/ Resume
  BY <1>3, <1>13 DEF Start, Resume, FolderTyped
<1>14. CASE Stop \/ Pause
  <2>1. noticed' \in Reports
    BY <1>14 DEF Stop, Pause
  <2> QED
    BY <1>14, <2>1, IncidentTyped DEF Stop, Pause, FolderTyped
<1>15. CASE UNCHANGED <<running, paused, localVars, last, incidents, resumed>>
  BY <1>3, <1>15 DEF FolderTyped
<1> QED
  BY <1>4, <1>5, <1>6, <1>7, <1>8, <1>9, <1>10, <1>11, <1>12, <1>13, <1>14, <1>15
  DEF Next, desktopVars, RemoteRestore, scan, BeginUpload, UploadRefused

\* Every state of the client and of the server is one the module declares.
THEOREM DesktopTypeCorrect == Spec => []TypeOK
<1>1. TypeOK /\ [Next]_desktopVars => TypeOK'
  <2> SUFFICES ASSUME TypeOK, [Next]_desktopVars PROVE TypeOK'
    OBVIOUS
  <2>1. FolderTyped' /\ NodesTyped' /\ JobsTyped' /\ ServerTyped'
    BY FolderStep, NodesStep, JobsStep, ServerStep
  <2> QED
    BY <2>1, TypeParts, PTL
<1> QED
  BY <1>1, InitTyped, PTL DEF Spec

-----------------------------------------------------------------------------
(* Genuine contents *)

\* What is written is never the mixture.
LEMMA WrittenGenuine == TypeOK /\ last < MaxContent /\ last' = last + 1 => last' # Torn
  BY DesktopConstants DEF TypeOK, Torn

\* One step keeps the folder, the jobs and the entries genuine: a torn reading does
\* not have the hash of its job, and a torn beginning makes its download a resumed one.
LEMMA GenuineStep ==
    ASSUME TypeOK, ContentsGenuine, [Next]_desktopVars
    PROVE  ContentsGenuine'
<1>1. resumed => resumed'
  BY DEF Next, desktopVars, RemoteWrite, RemoteRename, RemoteTrash, RemoteRestore, EditFile,
         RemoveFile, NoticeLost, localEvent, scan, BeginUpload, UploadRefused, UploadFailed,
         UploadAccepted, TrashRemote, ApplyRemoval, ApplyContent, ApplyFailed, Start, Stop,
         Pause, Resume
<1> SUFFICES ASSUME ~resumed' PROVE ContentsGenuine'
  BY DEF ContentsGenuine
<1> DEFINE FilesGenuine   == \A n \in Names : file[n] # Torn
           EntriesGenuine == \A e \in Entries : entry[e].content # Torn
           JobsGenuine    == \A n \in Names, job \in jobs : job # Upload(n, Torn)
<1>2. FilesGenuine /\ EntriesGenuine /\ JobsGenuine
  BY <1>1 DEF ContentsGenuine
<1>3. FolderTyped /\ NodesTyped /\ JobsTyped /\ ServerTyped
  BY TypeParts
<1>4. Torn # 0
  BY DesktopConstants DEF Torn
<1>5. FilesGenuine'
  <2>1. CASE \E n \in Names : EditFile(n)
    BY <1>2, <1>3, <2>1, WrittenGenuine DEF EditFile, FolderTyped
  <2>2. CASE \E n \in Names : RemoveFile(n)
    BY <1>2, <1>3, <1>4, <2>2 DEF RemoveFile, FolderTyped
  <2>3. CASE ApplyRemoval
    <3>1. \E n \in Names : file' = [file EXCEPT ![n] = 0]
      BY <1>3, <2>3, HeadTyped, PathTyped DEF ApplyRemoval
    <3> QED
      BY <1>2, <1>3, <1>4, <3>1 DEF FolderTyped
  <2>4. CASE ApplyContent
    <3>1. \E n \in Names, e \in Entries : file' = [file EXCEPT ![n] = entry[e].content]
      BY <1>3, <2>4, HeadTyped, PathTyped DEF ApplyContent
    <3> QED
      BY <1>2, <1>3, <3>1 DEF FolderTyped
  <2>5. CASE UNCHANGED file
    BY <1>2, <2>5 DEF Torn
  <2> QED
    BY <2>1, <2>2, <2>3, <2>4, <2>5
    DEF Next, desktopVars, localVars, RemoteWrite, RemoteRename, RemoteTrash, RemoteRestore,
        NoticeLost, localEvent, scan, BeginUpload, UploadRefused, UploadFailed,
        UploadAccepted, TrashRemote, ApplyFailed, Start, Stop, Pause, Resume
<1>6. JobsGenuine'
  <2>1. \A n \in Names, m \in Names, x \in Contents :
            Upload(n, x) = Upload(m, Torn) => x = Torn
    BY DEF Upload
  <2>2. \A n \in Names, e \in Entries : Trash(e) # Upload(n, Torn)
    BY DEF Upload, Trash
  <2>3. ASSUME NEW n \in Names, queueUpload(n) PROVE JobsGenuine'
    <3>1. file[n] # 0 => \A m \in Names : Upload(n, file[n]) # Upload(m, Torn)
      BY <1>2 DEF Upload
    <3> QED
      BY <1>2, <2>3, <3>1 DEF queueUpload, EnqueueJob, Torn, Upload
  <2>4. CASE \E n \in Names : localEvent(n) \/ scan(n)
    <3> SUFFICES ASSUME NEW n \in Names, localEvent(n) \/ scan(n) PROVE JobsGenuine'
      BY <2>4
    <3>1. CASE queueUpload(n)
      BY <2>3, <3>1
    <3>2. CASE jobs' = IF node[n] = 0 THEN jobs ELSE EnqueueJob(Trash(node[n]))
      <4>1. node[n] # 0 => node[n] \in Entries
        BY <1>3, DesktopConstants DEF NodesTyped, Entries
      <4> QED
        BY <1>2, <2>2, <3>2, <4>1 DEF EnqueueJob, Upload, Torn
    <3> QED
      BY <3>1, <3>2 DEF localEvent, scan
  <2>5. CASE jobs' \subseteq jobs
    BY <1>2, <2>5 DEF Upload, Torn
  <2>6. ASSUME NEW answered \in BOOLEAN, UploadAccepted(answered) PROVE jobs' \subseteq jobs
    BY <2>6 DEF UploadAccepted
  <2> QED
    BY <2>4, <2>5, <2>6
    DEF Next, desktopVars, RemoteWrite, RemoteRename, RemoteTrash, RemoteRestore, EditFile,
        RemoveFile, NoticeLost, BeginUpload, UploadRefused, UploadFailed, TrashRemote,
        ApplyRemoval, ApplyContent, ApplyFailed, Start, Stop, Pause, Resume
<1>7. EntriesGenuine'
  <2>1. ASSUME NEW e \in Entries, NEW with, with.content # Torn, Change(e, with)
        PROVE  EntriesGenuine'
    BY <1>2, <1>3, <2>1 DEF Change, ServerTyped, Torn
  <2>2. ASSUME NEW e \in Entries, Live(e) \/ entry[e].status = "gone"
        PROVE  entry[e] \in Stored
    BY <1>3, <2>2, LiveStored, StoredFields DEF Live, Statuses
  <2>3. CASE RemoteWrite
    <3>1. last' # Torn
      BY <2>3, WrittenGenuine DEF RemoteWrite
    <3> SUFFICES ASSUME NEW e \in Entries,
                        \/ \E n \in Names : CreateEntry(e, n, last')
                        \/ Live(e) /\ Change(e, [entry[e] EXCEPT !.content = last'])
                 PROVE  EntriesGenuine'
      BY <2>3 DEF RemoteWrite
    <3>2. CASE \E n \in Names : CreateEntry(e, n, last')
      BY <2>1, <3>1, <3>2 DEF CreateEntry
    <3>3. CASE Live(e) /\ Change(e, [entry[e] EXCEPT !.content = last'])
      <4>1. [entry[e] EXCEPT !.content = last'].content = last'
        BY <2>2, <3>3 DEF Stored
      <4> QED
        BY <2>1, <3>1, <3>3, <4>1
    <3> QED
      BY <3>2, <3>3
  <2>4. ASSUME NEW e \in Entries, TrashEntry(e) PROVE EntriesGenuine'
    <3>1. [entry[e] EXCEPT !.status = "gone"].content = entry[e].content
      BY <2>2, <2>4 DEF Stored, TrashEntry
    <3> QED
      BY <1>2, <2>1, <2>4, <3>1 DEF TrashEntry
  <2>5. CASE RemoteRename
    <3> SUFFICES ASSUME NEW e \in Entries, NEW n \in Names, Live(e),
                        Change(e, [entry[e] EXCEPT !.name = n])
                 PROVE  EntriesGenuine'
      BY <2>5 DEF RemoteRename
    <3>1. [entry[e] EXCEPT !.name = n].content = entry[e].content
      BY <2>2 DEF Stored
    <3> QED
      BY <1>2, <2>1, <3>1
  <2>6. CASE RemoteRestore
    <3> SUFFICES ASSUME NEW e \in Entries, entry[e].status = "gone",
                        Change(e, [entry[e] EXCEPT !.status = "live"])
                 PROVE  EntriesGenuine'
      BY <2>6 DEF RemoteRestore
    <3>1. [entry[e] EXCEPT !.status = "live"].content = entry[e].content
      BY <2>2 DEF Stored
    <3> QED
      BY <1>2, <2>1, <3>1
  <2>7. CASE \E answered \in BOOLEAN : UploadAccepted(answered)
    <3> SUFFICES ASSUME NEW sent, NEW e \in Entries, work # AtRest,
                        HashAgrees(sent, work.job.hash),
                        CreateEntry(e, work.job.name, sent)
                 PROVE  EntriesGenuine'
      BY <2>7 DEF UploadAccepted
    <3>1. work.job \in Uploads /\ work.job \in jobs
      BY <1>3 DEF JobsTyped
    <3>2. work.job.name \in Names /\ work.job = Upload(work.job.name, work.job.hash)
      BY <3>1, UploadFields
    <3>3. sent # Torn
      BY <1>2, <3>1, <3>2 DEF HashAgrees
    <3> QED
      BY <2>1, <3>3 DEF CreateEntry
  <2>8. CASE RemoteTrash \/ \E job \in Trashes, answered \in BOOLEAN : TrashRemote(job, answered)
    BY <2>4, <2>8, TrashFields DEF RemoteTrash, TrashRemote
  <2>9. CASE UNCHANGED entry
    BY <1>2, <2>9 DEF Torn
  <2> QED
    BY <2>3, <2>5, <2>6, <2>7, <2>8, <2>9
    DEF Next, desktopVars, EditFile, RemoveFile, NoticeLost, localEvent, scan, BeginUpload,
        UploadRefused, UploadFailed, ApplyRemoval, ApplyContent, ApplyFailed, Start, Stop,
        Pause, Resume
<1> QED
  BY <1>5, <1>6, <1>7 DEF ContentsGenuine

\* Whatever is written to a file while it is being uploaded, no mixture of two contents
\* becomes an entry, a job or a file: only a resumed download mixes versions.
THEOREM GenuineHolds == Spec => []ContentsGenuine
<1>1. Init => ContentsGenuine
  BY DesktopConstants DEF Init, ContentsGenuine, Torn, NoEntry
<1> QED
  BY <1>1, GenuineStep, DesktopTypeCorrect, PTL DEF Spec

=============================================================================
