------------------------------- MODULE Quota --------------------------------
(***************************************************************************)
(* One row of users and everybody who moves its bytes: plain uploads       *)
(* (files.Upload, UploadBytes, UploadStream), batches as users.reserved_   *)
(* bytes sees them (the detailed protocol is module Uploads), purges, and  *)
(* the administrator's plans and quotas (admin, plans).                    *)
(*                                                                         *)
(* A plain upload compares used_bytes with the quota twice: before it      *)
(* stores the bytes, and again under the row's lock.  Neither looks at     *)
(* reserved_bytes; the batches do.                                         *)
(***************************************************************************)
EXTENDS Integers, FiniteSets, FiniteSetsExt

CONSTANTS
    Writers,      \* plain uploads that may run at the same time
    Sessions,     \* open upload batches
    Files,        \* places for files, live or in the trash
    MaxSize,      \* largest file
    MaxQuota      \* largest quota, in the same unit

ASSUME QuotaConstants ==
    /\ IsFiniteSet(Sessions) /\ IsFiniteSet(Files)
    /\ MaxSize \in Nat \ {0} /\ MaxQuota \in Nat \ {0}

VARIABLES
    row,        \* quota_bytes, bonus_quota_bytes, used_bytes, reserved_bytes
    freePlan,   \* plans.quota_bytes of 'free', kept equal to default_quota_bytes
    stored,     \* the size of each file, 0 where there is none
    session,    \* the bytes each open batch has reserved
    writing,    \* what each plain upload is doing
    squeezed,   \* history: room that was reserved has been given away
    assigned    \* history: plans.Assign has set a quota below what is used

quotaVars == <<row, freePlan, stored, session, writing, squeezed, assigned>>

-----------------------------------------------------------------------------
Sizes  == 1 .. MaxSize
Quotas == 0 .. MaxQuota
Absent == [at |-> "idle", size |-> 0]

QuotaTypeOK ==
    /\ row \in [quota : Nat, bonus : Quotas, used : Nat, reserved : Nat]
    /\ freePlan \in Quotas
    /\ stored \in [Files -> 0 .. MaxSize]
    /\ session \in [Sessions -> 0 .. MaxSize]
    /\ writing \in [Writers -> [at : {"idle", "saved"}, size : 0 .. MaxSize]]
    /\ squeezed \in BOOLEAN /\ assigned \in BOOLEAN

QuotaInit ==
    /\ row = [quota |-> MaxQuota, bonus |-> 0, used |-> 0, reserved |-> 0]
    /\ freePlan = MaxQuota
    /\ stored = [f \in Files |-> 0]
    /\ session = [s \in Sessions |-> 0]
    /\ writing = [w \in Writers |-> Absent]
    /\ squeezed = FALSE /\ assigned = FALSE

\* quota_bytes + coalesce(bonus_quota_bytes, 0)
Effective(r) == r.quota + r.bonus
Greatest(a, b) == IF a > b THEN a ELSE b

\* A step that stays within the quota by used_bytes alone but not together
\* with what batches have reserved is remembered.
SqueezedBy(new) ==
    squeezed' = (squeezed \/ (new.used <= Effective(new)
                              /\ new.used + new.reserved > Effective(new)))

-----------------------------------------------------------------------------
(* Plain uploads *)

HasRoom(size) == row.used + size <= Effective(row)

\* Upload, UploadBytes, UploadStream up to Save
Upload(w) ==
    /\ writing[w] = Absent
    /\ \E size \in Sizes :
         /\ HasRoom(size)
         /\ writing' = [writing EXCEPT ![w] = [at |-> "saved", size |-> size]]
    /\ UNCHANGED <<row, freePlan, stored, session, squeezed, assigned>>

\* freshUsed + written <= quota, under the row's lock
RoomAsRead(w) == TRUE                                        \* mutant
StillHasRoom(w) == HasRoom(writing[w].size)

\* insertUploadedFile and uploadStreamInner: a new file, or one that is
\* overwritten; the room is asked for as if it were new.
InsertUploaded(w) ==
    /\ writing[w].at = "saved"
    /\ \/ /\ StillHasRoom(w)
          /\ \E f \in Files :
               /\ stored' = [stored EXCEPT ![f] = writing[w].size]
               /\ row' = [row EXCEPT !.used = @ - stored[f] + writing[w].size]
          /\ SqueezedBy(row')
       \/ UNCHANGED <<row, stored, squeezed>>   \* refused, or the upload fails
    /\ writing' = [writing EXCEPT ![w] = Absent]
    /\ UNCHANGED <<freePlan, session, assigned>>

-----------------------------------------------------------------------------
(* Batches and purges, as this row sees them *)

\* used + reserved + total <= quota
RoomToReserve(total) == row.used + row.reserved + total <= Effective(row)

CreateBatch(s) ==
    /\ session[s] = 0
    /\ \E total \in Sizes :
         /\ RoomToReserve(total)
         /\ session' = [session EXCEPT ![s] = total]
         /\ row' = [row EXCEPT !.reserved = @ + total]
    /\ UNCHANGED <<freePlan, stored, writing, squeezed, assigned>>

CompleteFile(s) ==
    /\ session[s] # 0
    /\ \E f \in Files :
         /\ stored' = [stored EXCEPT ![f] = session[s]]
         /\ row' = [row EXCEPT !.used = Greatest(0, @ + session[s] - stored[f]),
                               !.reserved = Greatest(0, @ - session[s])]
    /\ session' = [session EXCEPT ![s] = 0]
    /\ UNCHANGED <<freePlan, writing, squeezed, assigned>>

\* AbortBatch, expireBatch
CloseBatch(s) ==
    /\ session[s] # 0
    /\ row' = [row EXCEPT !.reserved = Greatest(0, @ - session[s])]
    /\ session' = [session EXCEPT ![s] = 0]
    /\ UNCHANGED <<freePlan, stored, writing, squeezed, assigned>>

PurgeFile(f) ==
    /\ stored[f] # 0
    /\ row' = [row EXCEPT !.used = Greatest(0, @ - stored[f])]
    /\ stored' = [stored EXCEPT ![f] = 0]
    /\ UNCHANGED <<freePlan, session, writing, squeezed, assigned>>

-----------------------------------------------------------------------------
(* The administrator; 'free' is the only active plan *)

Granted(new) ==
    /\ row' = new
    /\ SqueezedBy(new)
    /\ UNCHANGED <<freePlan, stored, session, writing, assigned>>

\* admin.SetPlan: never below what is used
PlanFor(r) == Greatest(freePlan, r.used - r.bonus)
SetPlan    == Granted([row EXCEPT !.quota = PlanFor(row)])

SetQuota ==
    \E quota \in Quotas :
        /\ row.used <= quota + row.bonus
        /\ Granted([row EXCEPT !.quota = quota])

SetBonusQuota ==
    \E bonus \in {0, 1} :
        /\ row.used <= row.quota + bonus
        /\ Granted([row EXCEPT !.bonus = bonus])

\* plans.Assign: any plan, active or not, whatever is used; the plans that
\* are not active keep the quota of the day they were seeded.
Assign ==
    \E quota \in {freePlan, MaxQuota} :
        /\ row' = [row EXCEPT !.quota = quota]
        /\ assigned' = (assigned \/ row.used > Effective(row'))
        /\ SqueezedBy(row')
        /\ UNCHANGED <<freePlan, stored, session, writing>>

\* SetDefaultQuotaBytes and MatchDefaultQuotaToDisk: the accounts that exist
\* keep their quota.
SetDefaultQuotaBytes ==
    /\ freePlan' \in Quotas
    /\ UNCHANGED <<row, stored, session, writing, squeezed, assigned>>

-----------------------------------------------------------------------------
QuotaNext ==
    \/ \E w \in Writers : Upload(w) \/ InsertUploaded(w)
    \/ \E s \in Sessions : CreateBatch(s) \/ CompleteFile(s) \/ CloseBatch(s)
    \/ \E f \in Files : PurgeFile(f)
    \/ SetPlan \/ SetQuota \/ SetBonusQuota \/ Assign \/ SetDefaultQuotaBytes

QuotaSpec == QuotaInit /\ [][QuotaNext]_quotaVars

-----------------------------------------------------------------------------
(* Properties *)

Total(size, S) == MapThenSumSet(LAMBDA x : size[x], S)

\* The row's sums are those of the files and the open batches.
LedgerAdds == row.used = Total(stored, Files) /\ row.reserved = Total(session, Sessions)

\* What is used and what batches have been promised fit into the quota,
\* whichever uploads and administrators overlap - unless a plain upload or
\* an administrator took room that was reserved (files/service.go:225, and
\* the conditions of SetQuota and SetPlan, which read used_bytes alone), or
\* Assign set a quota below what is used.
QuotaKept ==
    /\ LedgerAdds
    /\ ~squeezed /\ ~assigned => row.used + row.reserved <= Effective(row)
=============================================================================
