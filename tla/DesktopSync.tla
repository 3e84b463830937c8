---------------------------- MODULE DesktopSync -----------------------------
(***************************************************************************)
(* The desktop client's other half: how a file that is written in a synced *)
(* folder reaches the server, while changes of the server are applied to   *)
(* the same folder (internal/watcher, syncengine, syncstore, syncclient).  *)
(*                                                                         *)
(* Three goroutines share one folder and one database: the watcher, which  *)
(* reports what changes in the folder; consume, which turns reports and    *)
(* rescans into jobs; and loop, which alternates between the jobs that are *)
(* due and the changes of the server.  Where those come from is module     *)
(* SyncFeed, how chunks travel module Uploads; here a change is an item of *)
(* a queue and an upload is one answer.  The files lie directly in the     *)
(* folder; a content is a number, and its hash is the same number.         *)
(***************************************************************************)
EXTENDS Integers, Sequences

CONSTANTS
    Names,         \* paths of files in the folder
    MaxContent,    \* bound on the contents written, by whomever
    MaxEntries,    \* bound on the entries of the server
    MaxIncidents   \* bound on the incidents

ASSUME DesktopConstants ==
    MaxContent \in Nat /\ MaxEntries \in Nat \ {0} /\ MaxIncidents \in Nat

VARIABLES
    running,    \* between Start and Stop
    paused,     \* roots.paused
    file,       \* the content of each file, 0 where there is none
    partial,    \* the content whose beginning a .partial file holds
    noticed,    \* what the watcher has not yet handed over, of each path
    node,       \* nodes: the entry of each path, 0 if it is unknown
    jobs,       \* the table jobs
    work,       \* the upload that process is at
    entry,      \* file_entries
    feed,       \* changes the client has not applied
    last,       \* contents written so far
    incidents,  \* whatever else than writing and syncing has happened so far
    resumed     \* history: a download was resumed although the entry had changed

localVars   == <<file, partial, noticed>>
desktopVars == <<running, paused, localVars, node, jobs, work, entry, feed, last, incidents,
                 resumed>>

-----------------------------------------------------------------------------
Entries  == 1 .. MaxEntries
Torn     == MaxContent + 1            \* a mixture that nobody wrote
Contents == 1 .. Torn
Upload(n, hash) == [kind |-> "upload", name |-> n, hash |-> hash, id |-> 0]
Trash(e)        == [kind |-> "trash_remote", name |-> "-", hash |-> 0, id |-> e]
Uploads  == {Upload(n, hash) : n \in Names, hash \in Contents}
Trashes  == {Trash(e) : e \in Entries}
Changes  == [id : Entries, name : Names, gone : BOOLEAN]
NoEntry  == [name |-> "-", content |-> 0, status |-> "none"]
AtRest   == [job |-> Trash(0), read |-> 0]

TypeOK ==
    /\ running \in BOOLEAN /\ paused \in BOOLEAN /\ resumed \in BOOLEAN
    /\ file \in [Names -> 0 .. Torn]
    /\ partial \in [Names -> 0 .. Torn]
    /\ noticed \in [Names -> SUBSET {"write", "remove"}]
    /\ node \in [Names -> 0 .. MaxEntries]
    /\ \A n, m \in Names : node[n] = node[m] => n = m \/ node[n] = 0
    /\ jobs \subseteq Uploads \cup Trashes
    /\ work = AtRest \/ (work \in [job : Uploads, read : Contents] /\ work.job \in jobs)
    /\ entry \in [Entries -> {NoEntry} \cup
                    [name : Names, content : Contents, status : {"live", "gone"}]]
    /\ \A d, e \in Entries :
         entry[d].status = "live" /\ entry[d].status = entry[e].status
           /\ entry[d].name = entry[e].name => d = e
    /\ feed \in Seq(Changes)
    /\ last \in 0 .. MaxContent
    /\ incidents \in 0 .. MaxIncidents

Init ==
    /\ running = FALSE /\ paused = FALSE
    /\ file = [n \in Names |-> 0] /\ partial = [n \in Names |-> 0]
    /\ noticed = [n \in Names |-> {}] /\ node = [n \in Names |-> 0]
    /\ jobs = {} /\ work = AtRest
    /\ entry = [e \in Entries |-> NoEntry] /\ feed = <<>>
    /\ last = 0 /\ incidents = 0 /\ resumed = FALSE

Watching == running /\ ~paused

\* Files and entries are removed and renamed, the client is stopped and
\* paused, requests fail and their answers and the watcher's reports are lost: all
\* that is counted and bounded.
Incident == incidents < MaxIncidents /\ incidents' = incidents + 1

-----------------------------------------------------------------------------
(* The server, as uploads.CompleteFile, files.Delete and the feed show it *)

Live(e)     == entry[e].status = "live"
NameFree(n) == \A e \in Entries : Live(e) => entry[e].name # n
Room        == \E e \in Entries : entry[e] = NoEntry

\* The client's own changes come back to it as well: pull does not ask whose they are.
Change(e, with) ==
    /\ entry' = [entry EXCEPT ![e] = with]
    /\ feed' = Append(feed, [id |-> e, name |-> with.name, gone |-> with.status = "gone"])

CreateEntry(e, n, content) ==
    /\ entry[e] = NoEntry /\ NameFree(n)
    /\ Change(e, [name |-> n, content |-> content, status |-> "live"])

TrashEntry(e) == Live(e) /\ Change(e, [entry[e] EXCEPT !.status = "gone"])

\* Other devices, and the person in the browser.
RemoteWrite ==
    /\ last < MaxContent /\ last' = last + 1
    /\ \E e \in Entries : \/ \E n \in Names : CreateEntry(e, n, last')
                          \/ Live(e) /\ Change(e, [entry[e] EXCEPT !.content = last'])
    /\ UNCHANGED <<running, paused, localVars, node, jobs, work, incidents, resumed>>

RemoteRename ==
    /\ Incident
    /\ \E e \in Entries, n \in Names :
         Live(e) /\ NameFree(n) /\ Change(e, [entry[e] EXCEPT !.name = n])
    /\ UNCHANGED <<running, paused, localVars, node, jobs, work, last, resumed>>

RemoteTrash ==
    /\ Incident
    /\ \E e \in Entries : TrashEntry(e)
    /\ UNCHANGED <<running, paused, localVars, node, jobs, work, last, resumed>>

RemoteRestore ==
    /\ \E e \in Entries : /\ entry[e].status = "gone" /\ NameFree(entry[e].name)
                          /\ Change(e, [entry[e] EXCEPT !.status = "live"])
    /\ UNCHANGED <<running, paused, localVars, node, jobs, work, last, incidents, resumed>>

-----------------------------------------------------------------------------
(* The folder and its watcher *)

\* What happens within a quarter of a second is one report, of its last event.  The
\* two reports of a path make different jobs, so that their order is immaterial.
Notice(n, op) ==
    \E seen \in {{}, noticed[n]} :
       noticed' = IF Watching THEN [noticed EXCEPT ![n] = seen \cup {op}] ELSE noticed

EditFile(n) ==
    /\ last < MaxContent /\ last' = last + 1
    /\ file' = [file EXCEPT ![n] = last']
    /\ Notice(n, "write")
    /\ UNCHANGED <<running, paused, partial, node, jobs, work, entry, feed, incidents, resumed>>

RemoveFile(n) ==
    /\ file[n] # 0
    /\ Incident
    /\ file' = [file EXCEPT ![n] = 0]
    /\ Notice(n, "remove")
    /\ UNCHANGED <<running, paused, partial, node, jobs, work, entry, feed, last,
                   resumed>>

\* An error of the operating system's queue: a later rescan is to make up for it.
NoticeLost(n) ==
    /\ noticed[n] # {}
    /\ Incident
    /\ noticed' = [noticed EXCEPT ![n] = {}]
    /\ UNCHANGED <<running, paused, file, partial, node, jobs, work, entry, feed, last,
                   resumed>>

-----------------------------------------------------------------------------
(* consume *)

\* One job for each root, kind and payload; the payload holds path and hash.
EnqueueJobOnce(job) ==          \* mutant: the hash does not count
    IF \E j \in jobs : j.kind = job.kind /\ j.name = job.name /\ j.id = job.id
    THEN jobs ELSE jobs \cup {job}
EnqueueJobInstead(job) ==       \* mutant: a newer job of the path takes the older's place
    {j \in jobs : j.kind # job.kind \/ j.name # job.name} \cup {job}
EnqueueJob(job) == jobs \cup {job}

\* Nothing ever stores the state "syncing" that queueUpload asks about.
queueUpload(n) == jobs' = IF file[n] = 0 THEN jobs ELSE EnqueueJob(Upload(n, file[n]))

localEvent(n) ==
    /\ Watching
    /\ \E op \in noticed[n] :
         /\ noticed' = [noticed EXCEPT ![n] = @ \ {op}]
         /\ IF op = "write" THEN queueUpload(n)
            ELSE jobs' = IF node[n] = 0 THEN jobs ELSE EnqueueJob(Trash(node[n]))
    /\ UNCHANGED <<running, paused, file, partial, node, work, entry, feed, last, incidents,
                   resumed>>

scan(n) ==
    /\ Watching
    /\ queueUpload(n)
    /\ UNCHANGED <<running, paused, localVars, node, work, entry, feed, last, incidents,
                   resumed>>

-----------------------------------------------------------------------------
(* loop: process *)

UpsertNode(n, e) ==   \* nodes.id is the primary key; the error is ignored
    node' = IF \E m \in Names \ {n} : node[m] = e THEN node ELSE [node EXCEPT ![n] = e]

Ready == Watching /\ work = AtRest

\* A job whose file is gone is put off, like every other that fails.
BeginUpload(job) ==
    /\ Ready /\ job \in jobs /\ job.kind = "upload"
    /\ file[job.name] # 0
    /\ work' = [job |-> job, read |-> file[job.name]]
    /\ UNCHANGED <<running, paused, localVars, node, jobs, entry, feed, last, incidents,
                   resumed>>

\* A file that is written to while it is read is sent as it was, as it is, or torn.
Sent == {work.read} \cup
        IF file[work.job.name] = work.read THEN {} ELSE {file[work.job.name], Torn} \ {0}

HashUnchecked(sent, hash) == TRUE       \* mutant: what was sent is stored as it is
HashAgrees(sent, hash) == sent = hash

UploadRefused ==
    /\ work # AtRest
    /\ \/ \E sent \in Sent : ~HashAgrees(sent, work.job.hash)
       \/ ~NameFree(work.job.name) \/ ~Room
    /\ work' = AtRest
    /\ UNCHANGED <<running, paused, localVars, node, jobs, entry, feed, last, incidents,
                   resumed>>

\* The entry exists as soon as the server has committed it; the node is kept and the
\* job deleted only when the client has the answer.
UploadAccepted(answered) ==
    /\ work # AtRest
    /\ \E sent \in Sent, e \in Entries :
         /\ HashAgrees(sent, work.job.hash)
         /\ CreateEntry(e, work.job.name, sent)
         /\ IF answered THEN /\ UpsertNode(work.job.name, e)
                             /\ jobs' = jobs \ {work.job} /\ UNCHANGED incidents
            ELSE Incident /\ UNCHANGED <<node, jobs>>
    /\ work' = AtRest
    /\ UNCHANGED <<running, paused, localVars, last, resumed>>

UploadFailed ==
    /\ work # AtRest
    /\ Incident
    /\ work' = AtRest
    /\ UNCHANGED <<running, paused, localVars, node, jobs, entry, feed, last, resumed>>

\* Only a live entry can be trashed: otherwise the answer is an error and the job stays.
TrashRemote(job, answered) ==
    /\ Ready /\ job \in jobs /\ job.kind = "trash_remote"
    /\ TrashEntry(job.id)
    /\ IF answered THEN jobs' = jobs \ {job} /\ UNCHANGED incidents
       ELSE Incident /\ UNCHANGED jobs
    /\ UNCHANGED <<running, paused, localVars, node, work, last, resumed>>

-----------------------------------------------------------------------------
(* loop: pull *)

\* A node that is known keeps its path, whatever the change says of its name.
resolveLocalRel(c) ==
    IF \E n \in Names : node[n] = c.id THEN CHOOSE n \in Names : node[n] = c.id ELSE c.name

ApplyRemoval ==
    /\ Ready /\ feed # <<>> /\ Head(feed).gone
    /\ LET n == resolveLocalRel(Head(feed))
       IN  /\ file' = [file EXCEPT ![n] = 0]
           /\ IF file[n] = 0 THEN UNCHANGED noticed ELSE Notice(n, "remove")
    /\ node' = [n \in Names |-> IF node[n] = Head(feed).id THEN 0 ELSE node[n]]
    /\ feed' = Tail(feed)
    /\ UNCHANGED <<running, paused, partial, jobs, work, entry, last, incidents, resumed>>

\* Nothing ever stores the state "dirty", so that an edit not yet sent is overwritten.
ApplyContent ==
    /\ Ready /\ feed # <<>> /\ ~Head(feed).gone
    /\ LET e == Head(feed).id
           n == resolveLocalRel(Head(feed))
           stale == partial[n] \notin {0, entry[e].content}
       IN  /\ Live(e)
           /\ file' = [file EXCEPT ![n] = IF stale THEN Torn ELSE entry[e].content]
           /\ partial' = [partial EXCEPT ![n] = 0]
           /\ resumed' = (resumed \/ stale)
           /\ Notice(n, "write")
           /\ UpsertNode(n, e)
    /\ feed' = Tail(feed)
    /\ UNCHANGED <<running, paused, jobs, work, entry, last, incidents>>

\* A download that is refused or breaks off is not repeated: the cursor moves on.
ApplyFailed ==
    /\ Ready /\ feed # <<>> /\ ~Head(feed).gone
    /\ LET e == Head(feed).id
           n == resolveLocalRel(Head(feed))
       IN  \/ ~Live(e) /\ UNCHANGED <<partial, incidents>>
           \/ /\ Live(e) /\ Incident
              /\ partial' = [partial EXCEPT ![n] = IF @ \in {0, entry[e].content}
                                                   THEN entry[e].content ELSE Torn]
    /\ feed' = Tail(feed)
    /\ UNCHANGED <<running, paused, file, noticed, node, jobs, work, entry, last, resumed>>

-----------------------------------------------------------------------------
(* Start, Stop, Pause, Resume *)

Start ==
    /\ ~running /\ running' = TRUE
    /\ UNCHANGED <<paused, localVars, node, jobs, work, entry, feed, last, incidents, resumed>>

\* What is under way fails; the changes of a page that is being applied are skipped.
Stop ==
    /\ running /\ running' = FALSE
    /\ Incident
    /\ noticed' = [n \in Names |-> {}]
    /\ work' = AtRest
    /\ \E k \in 0 .. Len(feed) : feed' = SubSeq(feed, k + 1, Len(feed))
    /\ UNCHANGED <<paused, file, partial, node, jobs, entry, last, resumed>>

\* Only the watcher stops at once: an upload that is under way is finished.
Pause ==
    /\ ~paused /\ paused' = TRUE
    /\ Incident
    /\ noticed' = [n \in Names |-> {}]
    /\ UNCHANGED <<running, file, partial, node, jobs, work, entry, feed, last, resumed>>

Resume ==
    /\ paused /\ paused' = FALSE
    /\ UNCHANGED <<running, localVars, node, jobs, work, entry, feed, last, incidents, resumed>>

-----------------------------------------------------------------------------
Next ==
    \/ RemoteWrite \/ RemoteRename \/ RemoteTrash \/ RemoteRestore
    \/ \E n \in Names : \/ EditFile(n) \/ RemoveFile(n) \/ NoticeLost(n)
                        \/ localEvent(n) \/ scan(n)
    \/ \E job \in Uploads : BeginUpload(job)
    \/ UploadRefused \/ UploadFailed \/ \E answered \in BOOLEAN : UploadAccepted(answered)
    \/ \E job \in Trashes, answered \in BOOLEAN : TrashRemote(job, answered)
    \/ ApplyRemoval \/ ApplyContent \/ ApplyFailed
    \/ Start \/ Stop \/ Pause \/ Resume

\* A folder that is watched is rescanned every half minute.  Every job becomes due
\* again after at most 256 seconds, and process goes through those that are due; that
\* pulls come between them makes the fairness of each a strong one.
Spec ==
    /\ Init /\ [][Next]_desktopVars
    /\ \A n \in Names : WF_desktopVars(scan(n))
    /\ \A job \in Uploads : SF_desktopVars(BeginUpload(job))
    /\ WF_desktopVars(UploadRefused \/ UploadAccepted(TRUE))

-----------------------------------------------------------------------------
(* Properties *)

Arrived(n, x) == \E e \in Entries :
                    Live(e) /\ entry[e].name = n /\ entry[e].content = x

\* A file that lies in a watched folder reaches the server, whichever reports the
\* watcher lost, however often it was written while an upload of it was under way, and
\* whether or not the answer to an upload was lost: unless it is changed again, the
\* watching ends, or an entry of another content has its name.
NewFilesArrive ==
    \A n \in Names, x \in Contents :
       file[n] = x /\ Watching ~>
         Arrived(n, x) \/ file[n] # x \/ ~Watching \/ ~Room \/ ~NameFree(n)

\* Only a resumed download mixes two versions: a file that is written to while it is
\* uploaded never becomes an entry of mixed content, on the server or, from there, in
\* the folder.
ContentsGenuine ==
    \/ resumed
    \/ /\ \A n \in Names : file[n] # Torn
       /\ \A e \in Entries : entry[e].content # Torn
       /\ \A n \in Names, job \in jobs : job # Upload(n, Torn)
=============================================================================
