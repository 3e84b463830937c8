------------------------------- MODULE Links --------------------------------
(***************************************************************************)
(* Public share links: internal/shares and the calls it makes of           *)
(* internal/files.                                                         *)
(*                                                                         *)
(* One link of one entry and the visits that follow it.  A visit reads the *)
(* row once and decides by what it has read; the only statement that looks *)
(* at the row again is the one that counts a download.  A link may still   *)
(* have the hash an older release gave its password, which the first right *)
(* password replaces.                                                      *)
(***************************************************************************)
EXTENDS Integers, FiniteSets

CONSTANTS
    Visitors,      \* visits that may run at the same time
    Offers,        \* links an owner may create: see Link
    MaxHash,       \* bound on the hashes a password is given
    MaxTries,      \* password attempts in ten minutes: 10 in handler.go
    MaxVisits      \* bound on the downloads delivered

VARIABLES
    link,        \* the row of share_links
    shared,      \* the entry: "live", "trashed" or "gone"
    attempts,    \* shareLimiter: recent passwords of the address
    visit,       \* what each visit has read
    proofs,      \* cookies handed out: the hashes they prove
    sent,        \* history: attachments delivered through a "download" link
    spoiled      \* history: a hash was replaced although it was not the one read,
                 \* or a replacement was not stored

linksVars == <<link, shared, attempts, visit, proofs, sent, spoiled>>

-----------------------------------------------------------------------------
Hashes    == 0 .. MaxHash           \* 0: no password
Unlimited == -1
Modes     == {"browser", "content", "meta", "list"}

Link == [there : {TRUE}, permission : {"view", "download"},
         hash : Hashes, legacy : BOOLEAN, expired : {FALSE}, count : {0},
         max : {Unlimited} \cup 1 .. MaxVisits]

ASSUME LinksConstants ==
    /\ MaxHash \in Nat /\ MaxTries \in Nat \ {0} /\ MaxVisits \in Nat
    /\ IsFiniteSet(Visitors)
    /\ Offers \subseteq Link

NoLink  == [there |-> FALSE, was |-> FALSE]
Deleted == [there |-> FALSE, was |-> TRUE]
Nothing == [at |-> "idle", mode |-> "meta", password |-> FALSE, right |-> FALSE,
            proof |-> 0, hash |-> 0, count |-> 0]

LinksTypeOK ==
    /\ link \in {NoLink, Deleted} \/
       link \in [there : {TRUE}, permission : {"view", "download"},
                 hash : Hashes, legacy : BOOLEAN, expired : BOOLEAN, count : 0 .. MaxVisits,
                 max : {Unlimited} \cup Nat]
    /\ shared \in {"live", "trashed", "gone"}
    /\ attempts \in 0 .. MaxTries
    /\ visit \in [Visitors ->
           [at : {"idle", "resolve", "upgrade", "count", "serve"}, mode : Modes,
            password : BOOLEAN, right : BOOLEAN, proof : Hashes, hash : Hashes,
            count : 0 .. MaxVisits]]
    /\ proofs \subseteq 1 .. MaxHash
    /\ sent \in Nat /\ spoiled \in BOOLEAN

LinksInit ==
    /\ link = NoLink /\ shared = "live" /\ attempts = 0
    /\ visit = [v \in Visitors |-> Nothing]
    /\ proofs = {} /\ sent = 0 /\ spoiled = FALSE

-----------------------------------------------------------------------------
(* The owner *)

\* Handler.API, Service.Create, once in a behaviour: insert ... select from
\* the live entry.  The links of an older release come with a legacy hash.
CreateLink ==
    /\ link = NoLink /\ shared = "live"
    /\ link' \in Offers
    /\ UNCHANGED <<shared, attempts, visit, proofs, sent, spoiled>>

\* Handler.API, Service.Revoke
RevokeLink ==
    /\ link.there
    /\ link' = Deleted
    /\ UNCHANGED <<shared, attempts, visit, proofs, sent, spoiled>>

\* The owner trashes, restores or purges the entry; the link goes with the row.
EntryChanges ==
    /\ shared # "gone"
    /\ shared' \in {"live", "trashed", "gone"} \ {shared}
    /\ shared' = "gone" => shared = "trashed"
    /\ link' = IF shared' = "gone" /\ link.there THEN Deleted ELSE link
    /\ UNCHANGED <<attempts, visit, proofs, sent, spoiled>>

Expires ==
    /\ link.there /\ ~link.expired
    /\ link' = [link EXCEPT !.expired = TRUE]
    /\ UNCHANGED <<shared, attempts, visit, proofs, sent, spoiled>>

\* pruneShareAttempts
AttemptForgotten ==
    /\ attempts > 0
    /\ attempts' = attempts - 1
    /\ UNCHANGED <<link, shared, visit, proofs, sent, spoiled>>

-----------------------------------------------------------------------------
(* A visit *)

Leave(v) == visit' = [visit EXCEPT ![v] = Nothing]

\* DownloadPublic up to Meta or Resolve: the cookie counts only without a
\* password, and a password only while the limiter allows one.
DownloadPublic(v) ==
    /\ visit[v] = Nothing
    /\ \E mode \in Modes, password, right \in BOOLEAN, proof \in proofs \cup {0} :
         /\ password => proof = 0 /\ attempts < MaxTries
         /\ right => password
         /\ attempts' = IF password THEN attempts + 1 ELSE attempts
         /\ visit' = [visit EXCEPT ![v] = [Nothing EXCEPT
                !.at = "resolve", !.mode = mode, !.password = password,
                !.right = right, !.proof = proof]]
    /\ UNCHANGED <<link, shared, proofs, sent, spoiled>>

\* verifySharePassword, validShareUnlockProof
Unlocks(v) == link.hash = 0 \/ visit[v].right \/ visit[v].proof = link.hash

\* countDownload: not a page for a browser, and never a view
Counts(v) == visit[v].mode = "content" /\ link.permission = "download"

LimitReached(count) == link.max # Unlimited /\ count >= link.max

\* What comes after the password; Meta ends here.
LetIn(v) ==
    IF visit[v].mode = "meta" THEN "idle" ELSE IF Counts(v) THEN "count" ELSE "serve"

\* Resolve and Meta: one read; only Meta's requires the live entry.
Resolve(v) ==
    /\ visit[v].at = "resolve"
    /\ IF /\ link.there /\ ~link.expired /\ Unlocks(v)
          /\ visit[v].mode = "meta" => shared = "live"
       THEN IF visit[v].right /\ link.hash # 0 /\ link.legacy
            THEN visit' = [visit EXCEPT ![v].at = "upgrade", ![v].hash = link.hash,
                                        ![v].count = link.count]
            ELSE IF LetIn(v) = "idle" \/ (LetIn(v) = "serve" /\ LimitReached(link.count))
            THEN Leave(v)
            ELSE visit' = [visit EXCEPT ![v].at = LetIn(v), ![v].hash = link.hash,
                                        ![v].count = link.count]
       ELSE Leave(v)
    /\ UNCHANGED <<link, shared, attempts, proofs, sent, spoiled>>

\* The hashes that are stored, read or handed out.
KnownHashes == {visit[v].hash : v \in Visitors} \cup proofs \cup
               (IF link.there THEN {link.hash} ELSE {})

\* link.PasswordHash = upgraded
HashAsRead(v, fresh) == visit[v].hash                        \* mutant
HashAfterwards(v, fresh) == fresh

\* update share_links set password_hash, without asking whether it is still
\* the one that was read; an error is ignored and the new hash used anyway.
UpgradeHash(v) ==
    /\ visit[v].at = "upgrade"
    /\ \E fresh \in 1 .. MaxHash :
         /\ fresh \notin KnownHashes /\ 1 .. fresh - 1 \subseteq KnownHashes
         /\ \/ /\ link.there
               /\ link' = [link EXCEPT !.hash = fresh, !.legacy = FALSE]
               /\ spoiled' = (spoiled \/ link.hash # visit[v].hash)
            \/ UNCHANGED link /\ spoiled' = TRUE
         /\ IF link.there /\ LetIn(v) # "idle"
               /\ ~(LetIn(v) = "serve" /\ LimitReached(visit[v].count))
            THEN visit' = [visit EXCEPT ![v].at = LetIn(v), ![v].hash = HashAfterwards(v, fresh)]
            ELSE Leave(v)
    /\ UNCHANGED <<shared, attempts, proofs, sent>>

\* where max_downloads is null or download_count < max_downloads
MayCountAsRead(v) == ~LimitReached(visit[v].count)           \* mutant
MayCount(v) == ~LimitReached(link.count)

\* Once the row is gone, what the visit still does is of no interest here.
CountDownload(v) ==
    /\ visit[v].at = "count"
    /\ IF link.there /\ MayCount(v)
       THEN /\ link.count < MaxVisits
            /\ link' = [link EXCEPT !.count = @ + 1]
            /\ visit' = [visit EXCEPT ![v].at = "serve"]
       ELSE Leave(v) /\ UNCHANGED link
    /\ UNCHANGED <<shared, attempts, proofs, sent, spoiled>>

\* The rest of DownloadPublic: the cookie, then a page, a refusal or the
\* content of the shared file or of a file below the shared folder.  A browser
\* gets the content of a file too, and is not counted.
Attached(v) == Counts(v) /\ shared = "live"

Serve(v) ==
    /\ visit[v].at = "serve"
    /\ proofs' = IF visit[v].password /\ visit[v].hash # 0 /\ visit[v].mode # "list"
                 THEN proofs \cup {visit[v].hash} ELSE proofs
    /\ sent' \in {sent, IF link.there /\ Attached(v) THEN sent + 1 ELSE sent}
    /\ Leave(v)
    /\ UNCHANGED <<link, shared, attempts, spoiled>>

\* A statement fails or the visitor goes away.
VisitFails(v) ==
    /\ visit[v] # Nothing
    /\ Leave(v)
    /\ UNCHANGED <<link, shared, attempts, proofs, sent, spoiled>>

-----------------------------------------------------------------------------
LinksNext ==
    \/ CreateLink \/ RevokeLink \/ EntryChanges \/ Expires \/ AttemptForgotten
    \/ \E v \in Visitors :
         \/ DownloadPublic(v) \/ Resolve(v) \/ UpgradeHash(v) \/ CountDownload(v)
         \/ Serve(v) \/ VisitFails(v)

LinksSpec == LinksInit /\ [][LinksNext]_linksVars

-----------------------------------------------------------------------------
(* Properties *)

\* However many visits overlap, a link delivers at most as many attachments
\* as it counts, and counts at most as many as its owner allowed.
DownloadsWithinLimit ==
    link.there =>
        /\ sent <= link.count
        /\ link.max # Unlimited => link.count <= link.max

\* The cookie that a right password has earned keeps opening the link - unless
\* two visits replaced its legacy hash at the same time, or a replacement
\* failed (shares/service.go:190).
ProofsStayValid ==
    link.there /\ ~spoiled => proofs \subseteq {link.hash}

=============================================================================
