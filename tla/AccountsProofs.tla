---------------------------- MODULE AccountsProofs ----------------------------
(***************************************************************************)
(* Proofs about Accounts, for any number of requests, challenges and       *)
(* tokens and whatever clients ask for: it implements SingleUse, every     *)
(* challenge lets its holder in at most once; a reset signs out; guesses   *)
(* stay within the limits but for overlapping requests; a code of an       *)
(* authenticator, which has been proved, admits once; and every count, row *)
(* and request is well formed, which takes all of these together.          *)
(***************************************************************************)
EXTENDS Accounts, FiniteSetTheorems, TLAPS

(***************************************************************************)
(* Why it holds.  A request consumes the challenge it has chosen by one    *)
(* statement that asks again whether it is open, so the step needs nothing *)
(* of what was read before - but that it has chosen a challenge at all,    *)
(* and that no step makes a row of the table blank or opens it again.      *)
(***************************************************************************)

\* The rows that have been inserted, and those that are closed.
Issued == {c \in Challenges : challenge[c] # NoChallenge}
Closed == {c \in Challenges : challenge[c] # NoChallenge /\ ~challenge[c].open}

\* A row has the columns of auth_challenges, and is blank or has a purpose.
Row(row) ==
    /\ DOMAIN row = {"purpose", "open", "live", "attempts", "pw", "since"}
    /\ row.open \in BOOLEAN
    /\ row = NoChallenge \/ row.purpose \in Purposes

\* The steps that follow the choice of a challenge.
AfterChoice == {"match", "advance", "count", "close", "consume"}

\* A request that has chosen a challenge names one of those inserted, and the
\* password is verified again for the security settings only.
Sound(work, inserted) ==
    /\ DOMAIN work =
           {"op", "at", "pw", "since", "c", "t", "older", "right", "s", "k"}
    /\ work.at \in AfterChoice => work.c \in inserted
    /\ work.at = "verify" => work.op \in {"email2FA", "totpSetup", "totpEnable", "totpDisable"}

RowsKept ==
    /\ challenge = [c \in Challenges |-> challenge[c]]
    /\ \A c \in Challenges : Row(challenge[c])

RequestsSound ==
    /\ req = [r \in Requests |-> req[r]]
    /\ \A r \in Requests : Sound(req[r], Issued)

ApprovalInv == RowsKept /\ RequestsSound

-----------------------------------------------------------------------------
\* Nothing has been inserted and nothing is asked for.
LEMMA ApprovalInit == AccountsInit => ApprovalInv
<1> SUFFICES ASSUME AccountsInit PROVE ApprovalInv
  OBVIOUS
<1>1. RowsKept
  BY DEF AccountsInit, RowsKept, Row, NoChallenge
<1>2. RequestsSound
  BY DEF AccountsInit, RequestsSound, Sound, Idle, AfterChoice
<1> QED
  BY <1>1, <1>2 DEF ApprovalInv

\* When one request does something sound, the requests are sound.
LEMMA RequestMoves ==
    ASSUME RequestsSound, NEW r \in Requests, NEW work, Issued \subseteq Issued',
           Sound(work, Issued'), req' = [req EXCEPT ![r] = work]
    PROVE  RequestsSound'
<1>1. req' = [q \in Requests |-> req'[q]]
  BY DEF RequestsSound
<1>2. ASSUME NEW q \in Requests PROVE Sound(req'[q], Issued')
  <2>1. CASE q = r
    BY <2>1 DEF RequestsSound
  <2>2. CASE q # r
    <3>1. Sound(req[q], Issued) /\ req'[q] = req[q]
      BY <2>2 DEF RequestsSound
    <3> QED
      BY <3>1 DEF Sound
  <2> QED
    BY <2>1, <2>2
<1> QED
  BY <1>1, <1>2 DEF RequestsSound

\* A request that is over is sound.
LEMMA RequestEnds ==
    ASSUME RequestsSound, NEW r \in Requests, Issued \subseteq Issued', Done(r)
    PROVE  RequestsSound'
<1>1. Sound(Idle, Issued')
  BY DEF Sound, Idle, AfterChoice
<1> QED
  BY <1>1, RequestMoves DEF Done

\* A request that goes on to a step that needs no choice, or has made one, is sound.
LEMMA RequestGoes ==
    ASSUME RequestsSound, NEW r \in Requests, NEW step, Issued \subseteq Issued',
           step \in AfterChoice => req[r].at \in AfterChoice,
           step # "verify", Go(r, step)
    PROVE  RequestsSound'
<1> DEFINE work == [req[r] EXCEPT !.at = step]
<1>1. Sound(req[r], Issued)
  BY DEF RequestsSound
<1>2. Sound(work, Issued')
  BY <1>1 DEF Sound
<1>3. req' = [req EXCEPT ![r] = work]
  BY DEF Go
<1> QED
  BY <1>2, <1>3, RequestMoves

-----------------------------------------------------------------------------
(* The steps that leave the challenges alone. *)

\* A request that begins names a challenge only if it is one inserted.
LEMMA RequestBegins ==
    ASSUME ApprovalInv, NEW r \in Requests, UNCHANGED challenge,
           \/ Login(r) \/ DeviceLogin(r) \/ Login2FA(r) \/ DeviceLogin2FA(r)
           \/ Devices(r) \/ CreateQRLogin(r) \/ RedeemQRLogin(r)
           \/ ForgotRequest(r) \/ ResetRequest(r)
           \/ Security(r) \/ TOTPSetup(r) \/ TOTPEnable(r) \/ TOTPDisable(r)
    PROVE  RequestsSound'
<1>0. Issued' = Issued /\ RequestsSound
  BY DEF Issued, ApprovalInv
<1>b. ASSUME NEW work, Sound(work, Issued), Begin(r, work) PROVE RequestsSound'
  BY <1>0, <1>b, RequestMoves DEF Begin
<1>1. CASE Login(r) \/ DeviceLogin(r)
  <2>1. PICK op, p :
          Begin(r, [Idle EXCEPT !.op = op, !.at = "password", !.pw = p,
                                !.since = swept["session"]])
    BY <1>1 DEF Login, DeviceLogin, WithPassword
  <2>2. Sound([Idle EXCEPT !.op = op, !.at = "password", !.pw = p,
                           !.since = swept["session"]], Issued)
    BY DEF Sound, Idle, AfterChoice
  <2> QED
    BY <1>b, <2>1, <2>2
<1>2. CASE Login2FA(r) \/ DeviceLogin2FA(r)
  <2>1. PICK op, c, s, k, right :
          Begin(r, [Idle EXCEPT !.op = op, !.at = "select", !.c = c, !.right = right,
                                !.s = s, !.k = k, !.pw = challenge[c].pw,
                                !.since = challenge[c].since])
    BY <1>2 DEF Login2FA, DeviceLogin2FA, CompleteLogin2FA
  <2>2. Sound([Idle EXCEPT !.op = op, !.at = "select", !.c = c, !.right = right,
                           !.s = s, !.k = k, !.pw = challenge[c].pw,
                           !.since = challenge[c].since], Issued)
    BY DEF Sound, Idle, AfterChoice
  <2> QED
    BY <1>b, <2>1, <2>2
<1>3. CASE Devices(r) \/ CreateQRLogin(r)
  <2>1. PICK op \in {"devices", "qrCreate"}, step \in {"createDevice", "createQR"},
             t \in Tokens :
          Begin(r, [Idle EXCEPT !.op = op, !.at = step,
                                !.pw = token[t].pw, !.since = token[t].since])
    BY <1>3 DEF Devices, CreateQRLogin
  <2>2. Sound([Idle EXCEPT !.op = op, !.at = step,
                           !.pw = token[t].pw, !.since = token[t].since], Issued)
    BY DEF Sound, Idle, AfterChoice
  <2> QED
    BY <1>b, <2>1, <2>2
<1>4. CASE RedeemQRLogin(r)
  <2>1. PICK c \in Challenges :
          /\ Open(c)
          /\ Begin(r, [Idle EXCEPT !.op = "qrRedeem", !.at = "consume", !.c = c,
                                   !.pw = challenge[c].pw, !.since = challenge[c].since])
    BY <1>4 DEF RedeemQRLogin
  <2>2. c \in Issued
    BY <2>1 DEF Issued, Open, NoChallenge
  <2>3. Sound([Idle EXCEPT !.op = "qrRedeem", !.at = "consume", !.c = c,
                           !.pw = challenge[c].pw, !.since = challenge[c].since], Issued)
    BY <2>2 DEF Sound, Idle, AfterChoice
  <2> QED
    BY <1>b, <2>1, <2>3
<1>5. CASE ForgotRequest(r)
  <2>1. Sound([Idle EXCEPT !.op = "forgot", !.at = "forgot"], Issued)
    BY DEF Sound, Idle, AfterChoice
  <2> QED
    BY <1>5, <1>b, <2>1 DEF ForgotRequest
<1>6. CASE ResetRequest(r)
  <2>1. PICK right : Begin(r, [Idle EXCEPT !.op = "reset", !.at = "select", !.right = right])
    BY <1>6 DEF ResetRequest
  <2>2. Sound([Idle EXCEPT !.op = "reset", !.at = "select", !.right = right], Issued)
    BY DEF Sound, Idle, AfterChoice
  <2> QED
    BY <1>b, <2>1, <2>2
<1>7. CASE Security(r) \/ TOTPSetup(r) \/ TOTPEnable(r) \/ TOTPDisable(r)
  <2>0. PICK op \in {"email2FA", "totpSetup", "totpEnable", "totpDisable"},
             secrets \in {{0}, 0 .. account.secrets}, rights \in {BOOLEAN, {FALSE}} :
          SecurityRequest(r, op, secrets, rights)
    BY <1>7 DEF Security, TOTPSetup, TOTPEnable, TOTPDisable
  <2>1. PICK p, s, k, right :
          Begin(r, [Idle EXCEPT !.op = op, !.at = "verify", !.pw = p, !.s = s, !.k = k,
                                !.right = right])
    BY <2>0 DEF SecurityRequest
  <2>2. Sound([Idle EXCEPT !.op = op, !.at = "verify", !.pw = p, !.s = s, !.k = k,
                           !.right = right], Issued)
    BY DEF Sound, Idle, AfterChoice
  <2> QED
    BY <1>b, <2>1, <2>2
<1> QED
  BY <1>1, <1>2, <1>3, <1>4, <1>5, <1>6, <1>7

\* A request that goes on makes its choice among the inserted, or has made it.
LEMMA RequestContinues ==
    ASSUME ApprovalInv, NEW r \in Requests, UNCHANGED challenge,
           \/ authenticatePassword(r) \/ SelectChallenge(r) \/ MatchTOTP(r)
           \/ AdvanceCounter(r) \/ issueSession(r) \/ DropSession(r) \/ CreateDevice(r)
           \/ ForgotPassword(r) \/ ResetPassword(r) \/ Verify(r) \/ SetEmail2FA(r)
           \/ ReadEnabled(r) \/ StoreSecret(r) \/ EnableTOTP(r) \/ DisableTOTP(r)
           \/ StatementFails(r)
    PROVE  RequestsSound'
<1>0. Issued' = Issued /\ Issued \subseteq Issued' /\ RequestsSound
  BY DEF Issued, ApprovalInv
<1>a. Sound(req[r], Issued)
  BY <1>0 DEF RequestsSound
<1>b. CASE Done(r)
  BY <1>0, <1>b, RequestEnds
<1>c. CASE \E step : /\ Go(r, step) /\ step # "verify"
                     /\ step \in AfterChoice => req[r].at \in AfterChoice
  BY <1>0, <1>c, RequestGoes
<1> USE DEF AfterChoice
<1>1. CASE authenticatePassword(r)
  BY <1>1, <1>b, <1>c DEF authenticatePassword, Refused, AfterPassword
<1>2. CASE SelectChallenge(r)
  <2>1. ASSUME NEW c \in Challenges, Open(c),
               NEW step \in {"close", "match", "consume", "count"},
               req' = [req EXCEPT ![r].c = c, ![r].at = step]
        PROVE  RequestsSound'
    <3>1. req' = [req EXCEPT ![r] = [req[r] EXCEPT !.c = c, !.at = step]]
      BY <1>0, <2>1 DEF RequestsSound
    <3>2. c \in Issued'
      BY <1>0, <2>1 DEF Issued, Open, NoChallenge
    <3>3. Sound([req[r] EXCEPT !.c = c, !.at = step], Issued')
      BY <1>a, <3>2 DEF Sound
    <3> QED
      BY <1>0, <3>1, <3>3, RequestMoves
  <2> QED
    BY <1>2, <1>b, <2>1 DEF SelectChallenge, Refused, Latest
<1>3. CASE MatchTOTP(r)
  BY <1>3, <1>c DEF MatchTOTP
<1>4. CASE AdvanceCounter(r)
  BY <1>4, <1>b, <1>c DEF AdvanceCounter, Refused
<1>5. CASE issueSession(r)
  <2>1. ASSUME NEW t, req' = [req EXCEPT ![r].at = "dropSession", ![r].t = t]
        PROVE  RequestsSound'
    <3>1. req' = [req EXCEPT ![r] = [req[r] EXCEPT !.at = "dropSession", !.t = t]]
      BY <1>0, <2>1 DEF RequestsSound
    <3>2. Sound([req[r] EXCEPT !.at = "dropSession", !.t = t], Issued')
      BY <1>a DEF Sound
    <3> QED
      BY <1>0, <3>1, <3>2, RequestMoves
  <2> QED
    BY <1>5, <1>b, <2>1 DEF issueSession
<1>6. CASE DropSession(r)
  BY <1>6, <1>c DEF DropSession
<1>7. CASE CreateDevice(r)
  BY <1>7, <1>b DEF CreateDevice
<1>8. CASE ForgotPassword(r)
  BY <1>8, <1>b, <1>c DEF ForgotPassword
<1>9. CASE ResetPassword(r)
  BY <1>9, <1>b, <1>c DEF ResetPassword
<1>10. CASE Verify(r)
  <2>1. req[r].at = "verify" /\ (Go(r, Verified(r)) \/ Done(r))
    BY <1>10 DEF Verify
  <2>2. Verified(r) \in {"setEmail2FA", "readEnabled", "enable", "refused", "disable"}
    BY <1>a, <2>1 DEF Sound, Verified
  <2> QED
    BY <1>b, <1>c, <2>1, <2>2
<1>11. CASE SetEmail2FA(r) \/ StoreSecret(r) \/ EnableTOTP(r) \/ DisableTOTP(r)
  BY <1>11, <1>b DEF SetEmail2FA, StoreSecret, EnableTOTP, DisableTOTP
<1>12. CASE ReadEnabled(r)
  BY <1>12, <1>b, <1>c DEF ReadEnabled
<1>13. CASE StatementFails(r)
  BY <1>13, <1>b DEF StatementFails, Refused
<1> QED
  BY <1>1, <1>2, <1>3, <1>4, <1>5, <1>6, <1>7, <1>8, <1>9, <1>10, <1>11, <1>12, <1>13

-----------------------------------------------------------------------------
(* The steps that write to the table of challenges. *)

\* What such a step makes of the rows, as SingleUse sees it.
Promised == Approval!ApprovalNext \/ UNCHANGED Approval!approvalVars

\* A step that leaves the challenges and the admissions alone is a stutter.
LEMMA NothingPromised ==
    ASSUME ApprovalInv, UNCHANGED <<challenge, admitted>>
    PROVE  Promised /\ RowsKept'
BY DEF Promised, Approval!approvalVars, ApprovalInv, RowsKept, Row

\* What a step may do to approvals.
LEMMA Withdrawn ==
    ASSUME NEW W \in SUBSET Challenges, Approval!Withdraw(W) PROVE Promised
BY DEF Promised, Approval!ApprovalNext

LEMMA Admitted ==
    ASSUME NEW c \in Challenges, Approval!Admit(c) PROVE Promised
BY DEF Promised, Approval!ApprovalNext

\* Writing one row that was inserted, without opening it again, withdraws it or
\* changes nothing SingleUse sees.
LEMMA RowWritten ==
    ASSUME ApprovalInv, NEW c \in Issued, NEW row, Row(row), row.purpose \in Purposes,
           challenge' = [challenge EXCEPT ![c] = row],
           row.open => challenge[c].open, UNCHANGED admitted
    PROVE  Promised /\ RowsKept' /\ Issued' = Issued
<1> USE DEF Issued, ApprovalInv, RowsKept
<1>0. row # NoChallenge
  BY DEF NoChallenge, Purposes
<1>1. RowsKept' /\ Issued' = Issued
  BY <1>0 DEF Row
<1>2. CASE row.open = challenge[c].open
  <2>1. Closed' = Closed
    BY <1>0, <1>2 DEF Closed
  <2> QED
    BY <1>1, <2>1 DEF Closed, Promised, Approval!approvalVars
<1>3. CASE row.open # challenge[c].open
  <2>1. challenge[c].open /\ ~row.open
    BY <1>3 DEF Row
  <2>2. Closed' = Closed \cup {c} /\ {c} \subseteq Issued \ Closed
    BY <1>0, <2>1 DEF Closed
  <2>3. {c} \in SUBSET Challenges
    OBVIOUS
  <2>4. Approval!Withdraw({c})
    BY <1>1, <2>2 DEF Closed, Approval!Withdraw
  <2> QED
    BY <1>1, <2>3, <2>4, Withdrawn
<1> QED
  BY <1>2, <1>3, <1>1

\* The older challenges of the purpose are withdrawn together.
LEMMA OlderWithdrawn ==
    ASSUME ApprovalInv, NEW r \in Requests, NEW purpose \in Purposes,
           ConsumeOlder(r, purpose)
    PROVE  Promised /\ ApprovalInv'
<1>w. PICK W : W = {c \in Challenges : challenge[c].purpose = purpose /\ challenge[c].open}
  OBVIOUS
<1>a. \A c \in Challenges : Row(challenge[c])
  BY DEF ApprovalInv, RowsKept
<1>1. Issued' = Issued => RequestsSound'
  <2>1. DEFINE work == [req[r] EXCEPT !.older = TRUE]
  <2>2. Sound(req[r], Issued) /\ RequestsSound
    BY DEF ApprovalInv, RequestsSound
  <2>3. Sound(work, Issued) /\ req' = [req EXCEPT ![r] = work]
    BY <2>2 DEF ConsumeOlder, Sound
  <2> QED
    BY <2>2, <2>3, RequestMoves
<1>2. CASE UNCHANGED challenge
  <2>1. UNCHANGED admitted
    BY DEF ConsumeOlder
  <2> QED
    BY <1>1, <1>2, <2>1, NothingPromised DEF ApprovalInv, Issued
<1>3. CASE challenge' = [c \in Challenges |->
               IF challenge[c].purpose = purpose THEN [challenge[c] EXCEPT !.open = FALSE]
               ELSE challenge[c]]
  <2>1. \A c \in Challenges :
          /\ Row(challenge'[c])
          /\ challenge'[c] # NoChallenge <=> challenge[c] # NoChallenge
          /\ challenge'[c].open <=> challenge[c].open /\ c \notin W
    <3> TAKE c \in Challenges
    <3>1. Row(challenge[c])
      BY <1>a
    <3>2. CASE challenge[c].purpose = purpose
      <4>1. challenge'[c] = [challenge[c] EXCEPT !.open = FALSE]
        BY <1>3, <3>2
      <4>2. challenge[c] # NoChallenge
        BY <3>2 DEF NoChallenge, Purposes
      <4> QED
        BY <1>w, <3>1, <3>2, <4>1, <4>2 DEF Row, NoChallenge, Purposes
    <3>3. CASE challenge[c].purpose # purpose
      BY <1>w, <1>3, <3>1, <3>3 DEF Row
    <3> QED
      BY <3>2, <3>3
  <2>2. RowsKept' /\ Issued' = Issued
    BY <1>3, <2>1 DEF RowsKept, Issued
  <2>3. W \subseteq Issued \ Closed /\ Closed' = Closed \cup W
    BY <1>w, <2>1 DEF Issued, Closed, NoChallenge
  <2>4. Approval!Withdraw(W)
    BY <2>2, <2>3 DEF Approval!Withdraw, Issued, Closed, ConsumeOlder
  <2>5. W \in SUBSET Challenges
    BY <1>w
  <2>6. Promised
    BY <2>4, <2>5, Withdrawn
  <2> QED
    BY <1>1, <2>2, <2>6 DEF ApprovalInv
<1> QED
  BY <1>2, <1>3 DEF ConsumeOlder

\* The new challenge is offered, for the first time.
LEMMA ChallengeOffered ==
    ASSUME ApprovalInv, NEW r \in Requests, NEW purpose \in Purposes,
           InsertChallenge(r, purpose)
    PROVE  Promised /\ ApprovalInv'
<1>1. PICK c \in 1 .. load.challenges :
        /\ challenge[c] = NoChallenge
        /\ challenge' = [challenge EXCEPT ![c] = NewChallenge(r, purpose)]
  BY DEF InsertChallenge
<1>2. /\ Row(NewChallenge(r, purpose)) /\ NewChallenge(r, purpose) # NoChallenge
      /\ NewChallenge(r, purpose).open
  BY DEF Row, NewChallenge, NoChallenge, Purposes
<1>3. CASE c \in Challenges
  <2>1. RowsKept' /\ Issued' = Issued \cup {c} /\ c \notin Issued /\ Closed' = Closed
    BY <1>1, <1>2, <1>3 DEF ApprovalInv, RowsKept, Issued, Closed
  <2>2. RequestsSound'
    BY <2>1, RequestEnds DEF InsertChallenge, ApprovalInv
  <2>3. Approval!Offer(c)
    BY <2>1 DEF Approval!Offer, Issued, Closed, InsertChallenge
  <2> QED
    BY <1>3, <2>1, <2>2, <2>3 DEF Promised, Approval!ApprovalNext, ApprovalInv
<1>4. CASE c \notin Challenges
  <2>1. challenge' = challenge
    BY <1>1, <1>4 DEF ApprovalInv, RowsKept
  <2>2. Issued' = Issued /\ UNCHANGED admitted
    BY <2>1 DEF Issued, InsertChallenge
  <2>3. RequestsSound'
    BY <2>2, RequestEnds DEF InsertChallenge, ApprovalInv
  <2> QED
    BY <2>1, <2>2, <2>3, NothingPromised DEF ApprovalInv
<1> QED
  BY <1>3, <1>4

\* The period of a challenge passes.
LEMMA ChallengeExpires ==
    ASSUME ApprovalInv, NEW c \in Challenges, Expire(c)
    PROVE  Promised /\ ApprovalInv'
<1> DEFINE row == [challenge[c] EXCEPT !.live = FALSE]
<1>1. Row(challenge[c])
  BY DEF ApprovalInv, RowsKept
<1>2. c \in Issued
  BY DEF Expire, Issued, NoChallenge
<1>3. Row(row) /\ row.purpose \in Purposes /\ row.open = challenge[c].open
  BY <1>1, <1>2 DEF Row, Issued
<1>4. /\ challenge' = [challenge EXCEPT ![c] = row]
      /\ UNCHANGED <<admitted, req>>
  BY DEF Expire
<1>5. Promised /\ RowsKept' /\ Issued' = Issued
  BY <1>2, <1>3, <1>4, RowWritten
<1> QED
  BY <1>4, <1>5 DEF ApprovalInv, RequestsSound, Sound

\* A wrong code is counted, or the challenge is closed when too many were.
LEMMA ChallengeTried ==
    ASSUME ApprovalInv, NEW r \in Requests, CountAttempt(r) \/ CloseChallenge(r)
    PROVE  Promised /\ ApprovalInv'
<1> DEFINE c     == req[r].c
           tried == [challenge[c] EXCEPT !.attempts = challenge[c].attempts + 1]
           shut  == [challenge[c] EXCEPT !.open = FALSE]
<1>1. c \in Issued
  BY DEF CountAttempt, CloseChallenge, ApprovalInv, RequestsSound, Sound, AfterChoice
<1>2. Row(challenge[c]) /\ challenge[c] # NoChallenge
  BY <1>1 DEF Issued, ApprovalInv, RowsKept
<1>3. /\ Row(tried) /\ tried.purpose \in Purposes /\ tried.open = challenge[c].open
      /\ Row(shut) /\ shut.purpose \in Purposes /\ ~shut.open
  BY <1>2 DEF Row
<1>4. /\ \/ challenge' = [challenge EXCEPT ![c] = tried]
         \/ challenge' = [challenge EXCEPT ![c] = shut]
      /\ Done(r) /\ UNCHANGED admitted
  BY DEF CountAttempt, CloseChallenge, Refused
<1>5. Promised /\ RowsKept' /\ Issued' = Issued
  BY <1>1, <1>3, <1>4, RowWritten
<1> QED
  BY <1>4, <1>5, RequestEnds DEF ApprovalInv

\* The challenge that is still open is used up as it lets its holder in.
LEMMA ChallengeConsumed ==
    ASSUME ApprovalInv, NEW r \in Requests, Consume(r)
    PROVE  Promised /\ ApprovalInv'
<1>c. PICK c : c = req[r].c
  OBVIOUS
<1> DEFINE row == [challenge[c] EXCEPT !.open = FALSE]
<1>0. RequestsSound /\ RowsKept
  BY DEF ApprovalInv
<1>1. c \in Issued /\ req[r].at \in AfterChoice
  BY <1>c DEF Consume, ApprovalInv, RequestsSound, Sound, AfterChoice
<1>2. c \in Challenges /\ Row(challenge[c]) /\ challenge[c] # NoChallenge
  BY <1>0, <1>1 DEF Issued, RowsKept
<1>3. CASE StillOpen(c)
  <2>1. /\ challenge' = [challenge EXCEPT ![c] = row] /\ admitted' = admitted + 1
        /\ \E step \in {"setPassword", "createDevice", "issueSession"} : Go(r, step)
    BY <1>c, <1>3 DEF Consume
  <2>2. Row(row) /\ row # NoChallenge /\ ~row.open
    BY <1>2 DEF Row, NoChallenge, Purposes
  <2>3. RowsKept' /\ Issued' = Issued /\ c \notin Closed /\ Closed' = Closed \cup {c}
    BY <1>0, <1>2, <1>3, <2>1, <2>2 DEF RowsKept, Issued, Closed, StillOpen
  <2>4. RequestsSound'
    BY <1>0, <1>1, <2>1, <2>3, RequestGoes DEF AfterChoice
  <2>5. Approval!Admit(c)
    BY <1>1, <2>1, <2>3 DEF Approval!Admit, Issued, Closed
  <2>6. Promised
    BY <1>2, <2>5, Admitted
  <2> QED
    BY <2>3, <2>4, <2>6 DEF ApprovalInv
<1>4. CASE ~StillOpen(c)
  <2>1. Done(r) /\ UNCHANGED <<challenge, admitted>>
    BY <1>c, <1>4 DEF Consume
  <2>2. Issued' = Issued
    BY <2>1 DEF Issued
  <2> QED
    BY <1>0, <2>1, <2>2, NothingPromised, RequestEnds DEF ApprovalInv
<1> QED
  BY <1>3, <1>4

-----------------------------------------------------------------------------
(* Every step, and the specification. *)

LEMMA StepPromised ==
    ASSUME ApprovalInv, AccountsNext
    PROVE  Promised /\ ApprovalInv'
<1>a. ASSUME UNCHANGED <<challenge, admitted>>, RequestsSound'
      PROVE  Promised /\ ApprovalInv'
  BY <1>a, NothingPromised DEF ApprovalInv
<1>b. ASSUME UNCHANGED <<challenge, admitted, req>> PROVE Promised /\ ApprovalInv'
  BY <1>b, <1>a DEF ApprovalInv, RequestsSound, Sound, Issued
<1>1. ASSUME NEW r \in Requests,
             \/ Login(r) \/ DeviceLogin(r) \/ Login2FA(r) \/ DeviceLogin2FA(r)
             \/ Devices(r) \/ CreateQRLogin(r) \/ RedeemQRLogin(r)
             \/ ForgotRequest(r) \/ ResetRequest(r)
             \/ Security(r) \/ TOTPSetup(r) \/ TOTPEnable(r) \/ TOTPDisable(r)
      PROVE  Promised /\ ApprovalInv'
  <2>1. UNCHANGED <<challenge, admitted>>
    BY <1>1 DEF Login, DeviceLogin, WithPassword, Login2FA, DeviceLogin2FA, CompleteLogin2FA,
       Devices, CreateQRLogin, RedeemQRLogin, ForgotRequest, ResetRequest, Security,
       TOTPSetup, TOTPEnable, TOTPDisable, SecurityRequest
  <2> QED
    BY <1>1, <1>a, <2>1, RequestBegins
<1>2. ASSUME NEW r \in Requests,
             \/ authenticatePassword(r) \/ SelectChallenge(r) \/ MatchTOTP(r)
             \/ AdvanceCounter(r) \/ issueSession(r) \/ DropSession(r) \/ CreateDevice(r)
             \/ ForgotPassword(r) \/ ResetPassword(r) \/ Verify(r) \/ SetEmail2FA(r)
             \/ ReadEnabled(r) \/ StoreSecret(r) \/ EnableTOTP(r) \/ DisableTOTP(r)
             \/ StatementFails(r)
      PROVE  Promised /\ ApprovalInv'
  <2>1. UNCHANGED <<challenge, admitted>>
    BY <1>2 DEF authenticatePassword, SelectChallenge, MatchTOTP, AdvanceCounter, issueSession,
       DropSession, CreateDevice, ForgotPassword, ResetPassword, Verify, SetEmail2FA,
       ReadEnabled, StoreSecret, EnableTOTP, DisableTOTP, StatementFails
  <2> QED
    BY <1>2, <1>a, <2>1, RequestContinues
<1>3. ASSUME NEW r \in Requests,
             startLogin2FA(r) \/ startTOTPLogin(r) \/ createChallenge(r) \/ createQR(r)
      PROVE  Promised /\ ApprovalInv'
  <2>1. PICK purpose \in Purposes : ConsumeOlder(r, purpose) \/ InsertChallenge(r, purpose)
    BY <1>3 DEF startLogin2FA, startTOTPLogin, createChallenge, createQR, Challenge, Purposes
  <2> QED
    BY <2>1, OlderWithdrawn, ChallengeOffered
<1>4. ASSUME NEW t \in Tokens, Logout(t) \/ RevokeDevice(t) PROVE Promised /\ ApprovalInv'
  BY <1>4, <1>b DEF Logout, RevokeDevice
<1>5. ASSUME (\E key \in Keys : WindowPasses(key)) \/ Tick PROVE Promised /\ ApprovalInv'
  BY <1>5, <1>b DEF WindowPasses, Tick
<1> QED
  BY <1>1, <1>2, <1>3, <1>4, <1>5, ChallengeExpires, ChallengeTried, ChallengeConsumed
     DEF AccountsNext

\* The challenges stay well formed and the requests sound.
THEOREM ApprovalInvariant == AccountsSpec => []ApprovalInv
<1>1. ApprovalInv /\ [AccountsNext]_accountVars => ApprovalInv'
  <2> SUFFICES ASSUME ApprovalInv, UNCHANGED accountVars PROVE ApprovalInv'
    BY StepPromised
  <2> QED
    BY DEF accountVars, ApprovalInv, RowsKept, RequestsSound, Row, Sound, Issued
<1> QED
  BY <1>1, ApprovalInit, PTL DEF AccountsSpec

\* Accounts implements SingleUse: a challenge that has been inserted is an
\* approval that is offered, a consumed one is spent, and each is admitted at
\* most once (consumeChallenge, consumeTOTPChallenge, RedeemQRLogin).
THEOREM ChallengesAdmitOnce == AccountsSpec => ApprovalsAdmitOnce
<1>1. AccountsInit => Approval!ApprovalInit
  BY DEF AccountsInit, Approval!ApprovalInit
<1>2. ApprovalInv /\ [AccountsNext]_accountVars => [Approval!ApprovalNext]_(Approval!approvalVars)
  <2>1. ASSUME UNCHANGED accountVars PROVE UNCHANGED Approval!approvalVars
    BY <2>1 DEF accountVars, Approval!approvalVars
  <2> QED
    BY <2>1, StepPromised DEF Promised
<1> QED
  BY <1>1, <1>2, ApprovalInvariant, PTL DEF AccountsSpec, ApprovalsAdmitOnce, Approval!ApprovalSpec

-----------------------------------------------------------------------------
(***************************************************************************)
(* A reset signs out.  What a login, an approval or a token carries is the *)
(* password it was obtained with and the number of sweeps there had been   *)
(* when it began; a password is never older than the sweeps before it, for *)
(* a reset writes the password first and sweeps afterwards.  The resets    *)
(* that are still to sweep are counted, for there may be several.          *)
(***************************************************************************)
Deleting == {r \in Requests : req[r].at = "deleteSessions"}
Revoking == {r \in Requests : req[r].at = "revokeDevices"}

SweepsFollow ==
    /\ DOMAIN account = {"pw", "email2FA", "totp", "secret", "last", "secrets"}
    /\ account.pw \in Nat
    /\ swept \in [Kinds -> Nat]
    /\ swept["session"] + Cardinality(Deleting) < account.pw
    /\ swept["device"] + Cardinality(Revoking) <= swept["session"]

\* Obtained with a password that is newer than the sweeps before.
Backed(x) == x.pw \in Nat /\ x.since \in Nat /\ x.since < x.pw

\* The steps of those that are as good as signed in.
SignedInSteps ==
    {"startLogin2FA", "startTOTPLogin", "createQR", "issueSession", "dropSession", "createDevice"}

\* What a request carries, given the password of now.
Fit(work, pw) ==
    /\ work.at = "password" => work.since \in Nat /\ work.since < pw
    /\ work.at \in SignedInSteps => Backed(work)
    /\ work.at \in {"select", "match", "advance", "consume"} /\ work.op # "reset" => Backed(work)

RowsBacked ==
    \A c \in Challenges :
        challenge[c].purpose \in {"login_2fa", "login_totp", "qr_login"} => Backed(challenge[c])

TokensBacked ==
    /\ token = [t \in Tokens |-> token[t]]
    /\ \A t \in Tokens : token[t].alive =>
         token[t].kind \in Kinds /\ token[t].minted = swept[token[t].kind] /\ Backed(token[t])

RequestsFit == \A r \in Requests : Fit(req[r], account.pw)

SignOutInv == ApprovalInv /\ SweepsFollow /\ RowsBacked /\ TokensBacked /\ RequestsFit

-----------------------------------------------------------------------------
LEMMA SignOutInit == AccountsInit => SignOutInv
<1> SUFFICES ASSUME AccountsInit PROVE SignOutInv
  OBVIOUS
<1> USE DEF AccountsInit
<1>1. Deleting = {} /\ Revoking = {}
  BY DEF Deleting, Revoking, Idle
<1>2. SweepsFollow
  BY <1>1, FS_EmptySet DEF SweepsFollow, Kinds
<1>3. RowsBacked /\ RequestsFit
  BY DEF RowsBacked, RequestsFit, NoChallenge, Fit, Idle, SignedInSteps
<1>4. TokensBacked
  <2>1. \A t \in Tokens : token[t].alive => t = 1 /\ load.signedIn
    BY DEF NoToken
  <2>2. \A t \in Tokens : t = 1 /\ load.signedIn =>
          token[t].kind = "session" /\ token[t].pw = 1 /\ token[t].since = 0 /\ token[t].minted = 0
    BY DEF NoToken
  <2>3. token = [t \in Tokens |-> token[t]]
    OBVIOUS
  <2>4. swept["session"] = 0
    BY DEF Kinds
  <2> QED
    BY <2>1, <2>2, <2>3, <2>4 DEF TokensBacked, Backed, Kinds
<1> QED
  BY <1>2, <1>3, <1>4, ApprovalInit DEF SignOutInv

\* The resets between their statements are finitely many.
LEMMA ResetsFinite ==
    /\ IsFiniteSet(Deleting) /\ Cardinality(Deleting) \in Nat
    /\ IsFiniteSet(Revoking) /\ Cardinality(Revoking) \in Nat
<1>1. Deleting \subseteq Requests /\ Revoking \subseteq Requests
  BY DEF Deleting, Revoking
<1> QED
  BY <1>1, AccountConstants, FS_Subset, FS_CardinalityType

\* Taking one out or putting one in.
LEMMA OneMoreOrLess ==
    ASSUME NEW S, IsFiniteSet(S), NEW r
    PROVE  /\ Cardinality(S \cup {r}) \in Nat /\ Cardinality(S \cup {r}) <= Cardinality(S) + 1
           /\ Cardinality(S \ {r}) \in Nat /\ Cardinality(S \ {r}) <= Cardinality(S)
           /\ r \in S => Cardinality(S \ {r}) + 1 = Cardinality(S)
<1>1. Cardinality(S) \in Nat
  BY FS_CardinalityType
<1>2. Cardinality(S \cup {r}) = IF r \in S THEN Cardinality(S) ELSE Cardinality(S) + 1
  BY FS_AddElement
<1>3. Cardinality(S \ {r}) = IF r \in S THEN Cardinality(S) - 1 ELSE Cardinality(S)
  BY FS_RemoveElement
<1>4. r \in S => Cardinality(S) # 0
  BY <1>1, FS_EmptySet
<1> QED
  BY <1>1, <1>2, <1>3, <1>4

\* A request moves, and not to a sweep.
LEMMA FitMoves ==
    ASSUME SignOutInv, NEW r \in Requests, NEW work, req' = [req EXCEPT ![r] = work],
           work.at \notin {"deleteSessions", "revokeDevices"}, Fit(work, account'.pw),
           DOMAIN account' = DOMAIN account, account'.pw = account.pw, UNCHANGED swept
    PROVE  SweepsFollow' /\ RequestsFit'
<1> USE DEF SignOutInv, ApprovalInv, RequestsSound
<1>1. req'[r] = work /\ \A q \in Requests \ {r} : req'[q] = req[q]
  OBVIOUS
<1>2. Deleting' = Deleting \ {r} /\ Revoking' = Revoking \ {r}
  BY <1>1 DEF Deleting, Revoking
<1>3. /\ Cardinality(Deleting') \in Nat /\ Cardinality(Deleting') <= Cardinality(Deleting)
      /\ Cardinality(Revoking') \in Nat /\ Cardinality(Revoking') <= Cardinality(Revoking)
  BY <1>2, ResetsFinite, OneMoreOrLess
<1>4. swept["session"] \in Nat /\ swept["device"] \in Nat
  BY DEF SweepsFollow, Kinds
<1>5. SweepsFollow'
  BY <1>3, <1>4, ResetsFinite DEF SweepsFollow
<1>6. RequestsFit'
  BY <1>1 DEF RequestsFit
<1> QED
  BY <1>5, <1>6

\* Tokens that stay, go or are minted by one that is as good as signed in.
LEMMA TokensStay ==
    ASSUME SignOutInv, UNCHANGED swept,
           \/ UNCHANGED token
           \/ \E t : token' = [token EXCEPT ![t] = Gone]
           \/ \E t \in Tokens, r \in Requests, kind \in Kinds :
                 Mint(t, r, kind) /\ Backed(req[r])
    PROVE  TokensBacked'
<1> USE DEF SignOutInv, TokensBacked
<1>1. CASE UNCHANGED token
  BY <1>1 DEF Backed
<1>2. ASSUME NEW t, token' = [token EXCEPT ![t] = Gone] PROVE TokensBacked'
  <2>1. ~Gone.alive
    BY DEF Gone, NoToken
  <2> QED
    BY <1>2, <2>1 DEF Backed
<1>3. ASSUME NEW t \in Tokens, NEW r \in Requests, NEW kind \in Kinds,
             Mint(t, r, kind), Backed(req[r])
      PROVE  TokensBacked'
  <2>1. /\ NewToken(r, kind).kind = kind /\ NewToken(r, kind).minted = swept[kind]
        /\ Backed(NewToken(r, kind))
    BY <1>3 DEF NewToken, Backed
  <2>2. token' = [token EXCEPT ![t] = NewToken(r, kind)]
    BY <1>3 DEF Mint
  <2> QED
    BY <2>1, <2>2 DEF Backed
<1> QED
  BY <1>1, <1>2, <1>3

\* What is asked with a password, a code or a session is backed by them.
LEMMA BeginsFit ==
    ASSUME SignOutInv, NEW r \in Requests,
           \/ Login(r) \/ DeviceLogin(r) \/ Login2FA(r) \/ DeviceLogin2FA(r)
           \/ Devices(r) \/ CreateQRLogin(r) \/ RedeemQRLogin(r)
           \/ ForgotRequest(r) \/ ResetRequest(r)
           \/ Security(r) \/ TOTPSetup(r) \/ TOTPEnable(r) \/ TOTPDisable(r)
    PROVE  SweepsFollow' /\ RequestsFit'
<1> USE DEF SignOutInv
<1>0. UNCHANGED <<account, swept>>
  BY DEF Login, DeviceLogin, WithPassword, Login2FA, DeviceLogin2FA, CompleteLogin2FA,
     Devices, CreateQRLogin, RedeemQRLogin, ForgotRequest, ResetRequest, Security,
     TOTPSetup, TOTPEnable, TOTPDisable, SecurityRequest
<1>b. ASSUME NEW work, Fit(work, account.pw), Begin(r, work),
             work.at \notin {"deleteSessions", "revokeDevices"}
      PROVE  SweepsFollow' /\ RequestsFit'
  BY <1>0, <1>b, FitMoves DEF Begin
<1>1. CASE Login(r) \/ DeviceLogin(r)
  <2>1. PICK op, p :
          Begin(r, [Idle EXCEPT !.op = op, !.at = "password", !.pw = p,
                                !.since = swept["session"]])
    BY <1>1 DEF Login, DeviceLogin, WithPassword
  <2> DEFINE work == [Idle EXCEPT !.op = op, !.at = "password", !.pw = p,
                                  !.since = swept["session"]]
  <2>2. work.at = "password" /\ work.since = swept["session"]
    BY DEF Idle
  <2>3. swept["session"] \in Nat /\ swept["session"] < account.pw
    BY ResetsFinite DEF SweepsFollow, Kinds
  <2>4. Fit(work, account.pw)
    BY <2>2, <2>3 DEF Fit, SignedInSteps
  <2> QED
    BY <1>b, <2>1, <2>2, <2>4
<1>2. CASE Login2FA(r) \/ DeviceLogin2FA(r)
  <2>0. PICK op \in {"login2FA", "device2FA"} : CompleteLogin2FA(r, op)
    BY <1>2 DEF Login2FA, DeviceLogin2FA
  <2>1. PICK c \in Challenges, s \in 0 .. account.secrets, k \in 0 .. clock + 1,
             right \in BOOLEAN :
          /\ challenge[c].purpose \in {"login_2fa", "login_totp"}
          /\ (challenge[c].purpose = "login_2fa") => s = 0
          /\ s = 0 => k = 0
          /\ (challenge[c].purpose = "login_totp") => ~right
          /\ Begin(r, [Idle EXCEPT !.op = op, !.at = "select", !.c = c, !.right = right,
                                   !.s = s, !.k = k, !.pw = challenge[c].pw,
                                   !.since = challenge[c].since])
    BY <2>0 DEF CompleteLogin2FA
  <2> DEFINE work == [Idle EXCEPT !.op = op, !.at = "select", !.c = c, !.right = right,
                                  !.s = s, !.k = k, !.pw = challenge[c].pw,
                                  !.since = challenge[c].since]
  <2>2. work.at = "select" /\ work.pw = challenge[c].pw /\ work.since = challenge[c].since
    BY DEF Idle
  <2>3. Backed(challenge[c])
    BY <2>1 DEF RowsBacked
  <2>4. Fit(work, account.pw)
    BY <2>2, <2>3 DEF Fit, SignedInSteps, Backed
  <2> QED
    BY <1>b, <2>1, <2>2, <2>4
<1>3. CASE Devices(r) \/ CreateQRLogin(r)
  <2>1. PICK op \in {"devices", "qrCreate"}, step \in {"createDevice", "createQR"},
             t \in Tokens :
          /\ token[t].alive
          /\ Begin(r, [Idle EXCEPT !.op = op, !.at = step,
                                   !.pw = token[t].pw, !.since = token[t].since])
    BY <1>3 DEF Devices, CreateQRLogin, RequireSession, UserBySession
  <2> DEFINE work == [Idle EXCEPT !.op = op, !.at = step,
                                  !.pw = token[t].pw, !.since = token[t].since]
  <2>2. work.at = step /\ work.pw = token[t].pw /\ work.since = token[t].since
    BY DEF Idle
  <2>3. Backed(token[t])
    BY <2>1 DEF TokensBacked
  <2>4. Fit(work, account.pw)
    BY <2>2, <2>3 DEF Fit, SignedInSteps, Backed
  <2> QED
    BY <1>b, <2>1, <2>2, <2>4
<1>4. CASE RedeemQRLogin(r)
  <2>1. PICK c \in Challenges :
          /\ challenge[c].purpose = "qr_login"
          /\ Begin(r, [Idle EXCEPT !.op = "qrRedeem", !.at = "consume", !.c = c,
                                   !.pw = challenge[c].pw, !.since = challenge[c].since])
    BY <1>4 DEF RedeemQRLogin
  <2> DEFINE work == [Idle EXCEPT !.op = "qrRedeem", !.at = "consume", !.c = c,
                                  !.pw = challenge[c].pw, !.since = challenge[c].since]
  <2>2. work.at = "consume" /\ work.pw = challenge[c].pw /\ work.since = challenge[c].since
    BY DEF Idle
  <2>3. Backed(challenge[c])
    BY <2>1 DEF RowsBacked
  <2>4. Fit(work, account.pw)
    BY <2>2, <2>3 DEF Fit, SignedInSteps, Backed
  <2> QED
    BY <1>b, <2>1, <2>2, <2>4
<1>5. CASE ForgotRequest(r)
  <2> DEFINE work == [Idle EXCEPT !.op = "forgot", !.at = "forgot"]
  <2>1. work.at = "forgot"
    BY DEF Idle
  <2>2. Fit(work, account.pw)
    BY <2>1 DEF Fit, SignedInSteps
  <2> QED
    BY <1>5, <1>b, <2>1, <2>2 DEF ForgotRequest
<1>6. CASE ResetRequest(r)
  <2>1. PICK right : Begin(r, [Idle EXCEPT !.op = "reset", !.at = "select", !.right = right])
    BY <1>6 DEF ResetRequest
  <2> DEFINE work == [Idle EXCEPT !.op = "reset", !.at = "select", !.right = right]
  <2>2. work.at = "select" /\ work.op = "reset"
    BY DEF Idle
  <2>3. Fit(work, account.pw)
    BY <2>2 DEF Fit, SignedInSteps
  <2> QED
    BY <1>b, <2>1, <2>2, <2>3
<1>7. CASE Security(r) \/ TOTPSetup(r) \/ TOTPEnable(r) \/ TOTPDisable(r)
  <2>0. PICK op, secrets, rights : SecurityRequest(r, op, secrets, rights)
    BY <1>7 DEF Security, TOTPSetup, TOTPEnable, TOTPDisable
  <2>1. PICK p, s, k, right :
          Begin(r, [Idle EXCEPT !.op = op, !.at = "verify", !.pw = p, !.s = s, !.k = k,
                                !.right = right])
    BY <2>0 DEF SecurityRequest
  <2> DEFINE work == [Idle EXCEPT !.op = op, !.at = "verify", !.pw = p, !.s = s, !.k = k,
                                  !.right = right]
  <2>2. work.at = "verify"
    BY DEF Idle
  <2>3. Fit(work, account.pw)
    BY <2>2 DEF Fit, SignedInSteps
  <2> QED
    BY <1>b, <2>1, <2>2, <2>3
<1> QED
  BY <1>1, <1>2, <1>3, <1>4, <1>5, <1>6, <1>7

\* A request that is over carries nothing, and one that goes on keeps what it
\* carries.
LEMMA EndsFit ==
    ASSUME SignOutInv, NEW r \in Requests, Done(r),
           DOMAIN account' = DOMAIN account, account'.pw = account.pw, UNCHANGED swept
    PROVE  SweepsFollow' /\ RequestsFit'
<1>1. Idle.at = "idle"
  BY DEF Idle
<1>2. Fit(Idle, account'.pw)
  BY <1>1 DEF Fit, SignedInSteps
<1> QED
  BY <1>1, <1>2, FitMoves DEF Done

LEMMA GoesFit ==
    ASSUME SignOutInv, NEW r \in Requests, NEW step, Go(r, step),
           step \notin {"deleteSessions", "revokeDevices", "password"},
           \/ step \notin SignedInSteps \cup {"select", "match", "advance", "consume"}
           \/ Backed(req[r])
           \/ req[r].op = "reset" /\ step \notin SignedInSteps,
           DOMAIN account' = DOMAIN account, account'.pw = account.pw, UNCHANGED swept
    PROVE  SweepsFollow' /\ RequestsFit'
<1> DEFINE work == [req[r] EXCEPT !.at = step]
<1>1. Sound(req[r], Issued)
  BY DEF SignOutInv, ApprovalInv, RequestsSound
<1>2. /\ work.at = step /\ work.op = req[r].op
      /\ work.pw = req[r].pw /\ work.since = req[r].since
  BY <1>1 DEF Sound
<1>3. Fit(work, account'.pw)
  BY <1>2 DEF Fit, Backed
<1>4. req' = [req EXCEPT ![r] = work]
  BY DEF Go
<1> QED
  BY <1>2, <1>3, <1>4, FitMoves

\* The steps before the last ones of a reset: a password that is right is the
\* one of now, and it is newer than every sweep.
LEMMA ContinuesFit ==
    ASSUME SignOutInv, NEW r \in Requests,
           \/ authenticatePassword(r) \/ SelectChallenge(r) \/ MatchTOTP(r)
           \/ AdvanceCounter(r) \/ issueSession(r) \/ DropSession(r) \/ CreateDevice(r)
           \/ ForgotPassword(r) \/ Verify(r) \/ SetEmail2FA(r)
           \/ ReadEnabled(r) \/ StoreSecret(r) \/ EnableTOTP(r) \/ DisableTOTP(r)
           \/ StatementFails(r)
    PROVE  SweepsFollow' /\ RequestsFit'
<1>0. /\ DOMAIN account' = DOMAIN account /\ account'.pw = account.pw
      /\ UNCHANGED swept
  BY DEF SignOutInv, SweepsFollow, authenticatePassword, SelectChallenge, MatchTOTP,
     AdvanceCounter, issueSession, DropSession, CreateDevice, ForgotPassword, Verify,
     SetEmail2FA, ReadEnabled, StoreSecret, Pending, EnableTOTP, DisableTOTP, StatementFails
<1>a. Sound(req[r], Issued) /\ Fit(req[r], account.pw)
  BY DEF SignOutInv, ApprovalInv, RequestsSound, RequestsFit
<1>b. CASE Done(r)
  BY <1>0, <1>b, EndsFit
<1>c. CASE \E step : /\ Go(r, step)
                     /\ step \notin {"deleteSessions", "revokeDevices", "password"}
                     /\ \/ step \notin SignedInSteps \cup {"select", "match", "advance", "consume"}
                        \/ Backed(req[r])
                        \/ req[r].op = "reset" /\ step \notin SignedInSteps
  BY <1>0, <1>c, GoesFit
<1> USE DEF SignedInSteps
<1>1. CASE authenticatePassword(r)
  <2>1. CASE Done(r)
    BY <1>b, <2>1
  <2>2. CASE ~Done(r)
    <3>1. req[r].at = "password" /\ req[r].pw = account.pw /\ Go(r, AfterPassword(r))
      BY <1>1, <2>2 DEF authenticatePassword, Refused
    <3>2. Backed(req[r])
      BY <1>a, <3>1 DEF Fit, Backed, SignOutInv, SweepsFollow
    <3>3. AfterPassword(r) \notin {"deleteSessions", "revokeDevices", "password"}
      BY DEF AfterPassword
    <3> QED
      BY <1>c, <3>1, <3>2, <3>3
  <2> QED
    BY <2>1, <2>2
<1>2. CASE SelectChallenge(r)
  <2>1. ASSUME NEW c \in Challenges,
               NEW step \in {"close", "match", "consume", "count"},
               req[r].at = "select",
               req' = [req EXCEPT ![r].c = c, ![r].at = step]
        PROVE  SweepsFollow' /\ RequestsFit'
    <3> DEFINE work == [req[r] EXCEPT !.c = c, !.at = step]
    <3>1. req' = [req EXCEPT ![r] = work]
      BY <2>1 DEF SignOutInv, ApprovalInv, RequestsSound
    <3>2. /\ work.at = step /\ work.op = req[r].op
          /\ work.pw = req[r].pw /\ work.since = req[r].since
      BY <1>a DEF Sound
    <3>3. Fit(work, account'.pw)
      BY <1>a, <2>1, <3>2 DEF Fit, Backed
    <3> QED
      BY <1>0, <3>1, <3>2, <3>3, FitMoves
  <2> QED
    BY <1>2, <1>b, <2>1 DEF SelectChallenge, Refused
<1>3. CASE MatchTOTP(r) \/ AdvanceCounter(r)
  <2>1. /\ req[r].at \in {"match", "advance"}
        /\ Done(r) \/ \E step \in {"advance", "count", "consume"} : Go(r, step)
    BY <1>3 DEF MatchTOTP, AdvanceCounter, Refused
  <2>2. req[r].op # "reset" => Backed(req[r])
    BY <1>a, <2>1 DEF Fit
  <2> QED
    BY <1>b, <1>c, <2>1, <2>2
<1>4. CASE issueSession(r)
  <2>1. ASSUME NEW t, req[r].at = "issueSession",
               req' = [req EXCEPT ![r].at = "dropSession", ![r].t = t]
        PROVE  SweepsFollow' /\ RequestsFit'
    <3> DEFINE work == [req[r] EXCEPT !.at = "dropSession", !.t = t]
    <3>1. req' = [req EXCEPT ![r] = work]
      BY <2>1 DEF SignOutInv, ApprovalInv, RequestsSound
    <3>2. work.at = "dropSession" /\ work.pw = req[r].pw /\ work.since = req[r].since
      BY <1>a DEF Sound
    <3>3. Fit(work, account'.pw)
      BY <1>a, <2>1, <3>2 DEF Fit, Backed
    <3> QED
      BY <1>0, <3>1, <3>2, <3>3, FitMoves
  <2> QED
    BY <1>4, <1>b, <2>1 DEF issueSession
<1>5. CASE DropSession(r)
  <2>1. req[r].at = "dropSession" /\ Go(r, "createDevice")
    BY <1>5 DEF DropSession
  <2>2. Backed(req[r])
    BY <1>a, <2>1 DEF Fit
  <2> QED
    BY <1>c, <2>1, <2>2
<1>6. CASE CreateDevice(r) \/ SetEmail2FA(r) \/ StoreSecret(r) \/ EnableTOTP(r)
           \/ DisableTOTP(r) \/ StatementFails(r)
  BY <1>6, <1>b DEF CreateDevice, SetEmail2FA, StoreSecret, EnableTOTP, DisableTOTP,
     StatementFails, Refused
<1>7. CASE ForgotPassword(r) \/ ReadEnabled(r)
  BY <1>7, <1>b, <1>c DEF ForgotPassword, ReadEnabled
<1>8. CASE Verify(r)
  <2>1. req[r].at = "verify" /\ (Go(r, Verified(r)) \/ Done(r))
    BY <1>8 DEF Verify
  <2>2. Verified(r) \in {"setEmail2FA", "readEnabled", "enable", "refused", "disable"}
    BY <1>a, <2>1 DEF Sound, Verified
  <2> QED
    BY <1>b, <1>c, <2>1, <2>2
<1> QED
  BY <1>1, <1>2, <1>3, <1>4, <1>5, <1>6, <1>7, <1>8

\* A challenge that is consumed by a reset signs nobody in.
LEMMA ConsumesFit ==
    ASSUME SignOutInv, NEW r \in Requests, Consume(r)
    PROVE  SweepsFollow' /\ RequestsFit'
<1>0. UNCHANGED <<account, swept>> /\ req[r].at = "consume"
  BY DEF Consume
<1>a. Fit(req[r], account.pw)
  BY DEF SignOutInv, RequestsFit
<1>1. CASE Done(r)
  BY <1>0, <1>1, EndsFit
<1>2. CASE ~Done(r) /\ req[r].op = "reset"
  <2>1. Go(r, "setPassword")
    BY <1>2 DEF Consume
  <2> QED
    BY <1>0, <2>1, GoesFit DEF SignedInSteps
<1>3. CASE ~Done(r) /\ req[r].op # "reset"
  <2>1. PICK step \in {"createDevice", "issueSession"} : Go(r, step)
    BY <1>3 DEF Consume
  <2>2. Backed(req[r])
    BY <1>0, <1>3, <1>a DEF Fit
  <2> QED
    BY <1>0, <2>1, <2>2, GoesFit
<1> QED
  BY <1>1, <1>2, <1>3

\* The other steps that write to the table of challenges.
LEMMA ChallengesFit ==
    ASSUME SignOutInv, NEW r \in Requests, NEW purpose,
           \/ ConsumeOlder(r, purpose) \/ InsertChallenge(r, purpose)
           \/ CountAttempt(r) \/ CloseChallenge(r)
    PROVE  SweepsFollow' /\ RequestsFit'
<1>0. UNCHANGED <<account, swept>>
  BY DEF ConsumeOlder, InsertChallenge, CountAttempt, CloseChallenge
<1>1. CASE Done(r)
  BY <1>0, <1>1, EndsFit
<1>2. CASE ConsumeOlder(r, purpose)
  <2> DEFINE work == [req[r] EXCEPT !.older = TRUE]
  <2>1. Sound(req[r], Issued) /\ Fit(req[r], account.pw)
    BY DEF SignOutInv, ApprovalInv, RequestsSound, RequestsFit
  <2>2. /\ work.at = req[r].at /\ work.op = req[r].op
        /\ work.pw = req[r].pw /\ work.since = req[r].since
    BY <2>1 DEF Sound
  <2>3. Fit(work, account.pw)
    BY <2>1, <2>2 DEF Fit, Backed
  <2>4. req' = [req EXCEPT ![r] = work]
    BY <1>2 DEF ConsumeOlder
  <2>5. CASE req[r].at \in {"deleteSessions", "revokeDevices"}
    <3>1. req'[r].at = req[r].at /\ \A q \in Requests \ {r} : req'[q] = req[q]
      BY <2>2, <2>4 DEF SignOutInv, ApprovalInv, RequestsSound
    <3>2. Deleting' = Deleting /\ Revoking' = Revoking
      BY <3>1 DEF Deleting, Revoking
    <3>3. RequestsFit'
      BY <1>0, <2>3, <2>4 DEF SignOutInv, ApprovalInv, RequestsSound, RequestsFit
    <3> QED
      BY <1>0, <3>2, <3>3 DEF SignOutInv, SweepsFollow
  <2> QED
    BY <1>0, <2>2, <2>3, <2>4, <2>5, FitMoves
<1> QED
  BY <1>1, <1>2 DEF InsertChallenge, CountAttempt, CloseChallenge, Refused

\* The three statements of a reset, each with the count of those to come.
LEMMA ResetsFit ==
    ASSUME SignOutInv, NEW r \in Requests, ResetPassword(r)
    PROVE  SweepsFollow' /\ RequestsFit' /\ TokensBacked'
<1> USE DEF SignOutInv
<1>0. /\ swept["session"] \in Nat /\ swept["device"] \in Nat /\ account.pw \in Nat
      /\ \A kind \in Kinds : swept[kind] \in Nat
  BY DEF SweepsFollow, Kinds
<1>a. Sound(req[r], Issued) /\ req = [q \in Requests |-> req[q]]
  BY DEF ApprovalInv, RequestsSound
<1>b. ASSUME NEW step,
             step \notin SignedInSteps \cup {"select", "match", "advance", "consume", "password"},
             NEW work, req' = [req EXCEPT ![r] = work], work.at = step,
             account'.pw \in Nat, account.pw <= account'.pw
      PROVE  /\ RequestsFit'
             /\ Deleting' = IF step = "deleteSessions" THEN Deleting \cup {r} ELSE Deleting \ {r}
             /\ Revoking' = IF step = "revokeDevices" THEN Revoking \cup {r} ELSE Revoking \ {r}
  <2>1. req'[r] = work /\ \A q \in Requests \ {r} : req'[q] = req[q]
    BY <1>a, <1>b
  <2>2. Fit(work, account'.pw)
    BY <1>b DEF Fit
  <2>3. \A q \in Requests \ {r} : Fit(req[q], account'.pw)
    BY <1>0, <1>b DEF RequestsFit, Fit
  <2>4. RequestsFit'
    BY <2>1, <2>2, <2>3 DEF RequestsFit
  <2> QED
    BY <1>b, <2>1, <2>4 DEF Deleting, Revoking
<1>c. ASSUME NEW step PROVE [req[r] EXCEPT !.at = step].at = step
  BY <1>a DEF Sound
<1>1. CASE req[r].at = "setPassword"
  <2>1. /\ account' = [account EXCEPT !.pw = account.pw + 1]
        /\ req' = [req EXCEPT ![r] = [req[r] EXCEPT !.at = "deleteSessions"]]
        /\ UNCHANGED <<token, swept>>
    BY <1>1 DEF ResetPassword, Go
  <2>2. account'.pw = account.pw + 1 /\ DOMAIN account' = DOMAIN account
    BY <2>1 DEF SweepsFollow
  <2>3. RequestsFit' /\ Deleting' = Deleting \cup {r} /\ Revoking' = Revoking \ {r}
    <3>1. PICK work : work = [req[r] EXCEPT !.at = "deleteSessions"]
      OBVIOUS
    <3>2. work.at = "deleteSessions"
      BY <1>c, <3>1
    <3>3. req' = [req EXCEPT ![r] = work] /\ account'.pw \in Nat /\ account.pw <= account'.pw
      BY <1>0, <2>1, <2>2, <3>1
    <3> QED
      BY <1>b, <3>2, <3>3 DEF SignedInSteps
  <2>4. /\ Cardinality(Deleting') \in Nat /\ Cardinality(Deleting') <= Cardinality(Deleting) + 1
        /\ Cardinality(Revoking') \in Nat /\ Cardinality(Revoking') <= Cardinality(Revoking)
    BY <2>3, ResetsFinite, OneMoreOrLess
  <2>5. SweepsFollow'
    BY <1>0, <2>1, <2>2, <2>4, ResetsFinite DEF SweepsFollow
  <2> QED
    BY <2>1, <2>3, <2>5, TokensStay
<1>2. CASE req[r].at = "deleteSessions"
  <2>1. /\ token' = Without("session") /\ UNCHANGED account
        /\ req' = [req EXCEPT ![r] = [req[r] EXCEPT !.at = "revokeDevices"]]
        /\ swept' = [swept EXCEPT !["session"] = swept["session"] + 1]
    BY <1>2 DEF ResetPassword, Go
  <2>2. RequestsFit' /\ Deleting' = Deleting \ {r} /\ Revoking' = Revoking \cup {r}
    <3>1. PICK work : work = [req[r] EXCEPT !.at = "revokeDevices"]
      OBVIOUS
    <3>2. work.at = "revokeDevices"
      BY <1>c, <3>1
    <3>3. req' = [req EXCEPT ![r] = work] /\ account'.pw \in Nat /\ account.pw <= account'.pw
      BY <1>0, <2>1, <3>1
    <3> QED
      BY <1>b, <3>2, <3>3 DEF SignedInSteps
  <2>3. /\ Cardinality(Deleting') \in Nat /\ Cardinality(Deleting') + 1 = Cardinality(Deleting)
        /\ Cardinality(Revoking') \in Nat /\ Cardinality(Revoking') <= Cardinality(Revoking) + 1
    <3>1. r \in Deleting
      BY <1>2 DEF Deleting
    <3> QED
      BY <2>2, <3>1, ResetsFinite, OneMoreOrLess
  <2>4. /\ swept' \in [Kinds -> Nat] /\ swept'["session"] = swept["session"] + 1
        /\ swept'["device"] = swept["device"]
    BY <1>0, <2>1 DEF SweepsFollow, Kinds
  <2>5. SweepsFollow'
    BY <1>0, <2>1, <2>3, <2>4, ResetsFinite DEF SweepsFollow
  <2>6. TokensBacked'
    BY <2>1, <2>4 DEF TokensBacked, Without, Gone, NoToken, Kinds, Backed
  <2> QED
    BY <2>2, <2>5, <2>6
<1>3. CASE req[r].at = "revokeDevices"
  <2>1. /\ token' = Without("device") /\ UNCHANGED account
        /\ req' = [req EXCEPT ![r] = Idle]
        /\ swept' = [swept EXCEPT !["device"] = swept["device"] + 1]
    BY <1>3 DEF ResetPassword, Done
  <2>2. RequestsFit' /\ Deleting' = Deleting \ {r} /\ Revoking' = Revoking \ {r}
    <3>1. PICK work : work = Idle
      OBVIOUS
    <3>2. work.at = "idle"
      BY <3>1 DEF Idle
    <3>3. req' = [req EXCEPT ![r] = work] /\ account'.pw \in Nat /\ account.pw <= account'.pw
      BY <1>0, <2>1, <3>1
    <3> QED
      BY <1>b, <3>2, <3>3 DEF SignedInSteps
  <2>3. /\ Cardinality(Deleting') \in Nat /\ Cardinality(Deleting') <= Cardinality(Deleting)
        /\ Cardinality(Revoking') \in Nat /\ Cardinality(Revoking') + 1 = Cardinality(Revoking)
    <3>1. r \in Revoking
      BY <1>3 DEF Revoking
    <3> QED
      BY <2>2, <3>1, ResetsFinite, OneMoreOrLess
  <2>4. /\ swept' \in [Kinds -> Nat] /\ swept'["session"] = swept["session"]
        /\ swept'["device"] = swept["device"] + 1
    BY <1>0, <2>1 DEF SweepsFollow, Kinds
  <2>5. SweepsFollow'
    BY <1>0, <2>1, <2>3, <2>4, ResetsFinite DEF SweepsFollow
  <2>6. TokensBacked'
    BY <2>1, <2>4 DEF TokensBacked, Without, Gone, NoToken, Kinds, Backed
  <2> QED
    BY <2>2, <2>5, <2>6
<1> QED
  BY <1>1, <1>2, <1>3 DEF ResetPassword

-----------------------------------------------------------------------------
\* What is minted is backed by the request it is minted for.
LEMMA MintsBacked ==
    ASSUME SignOutInv, NEW r \in Requests,
           issueSession(r) \/ DropSession(r) \/ CreateDevice(r)
    PROVE  TokensBacked'
<1>0. UNCHANGED swept
  BY DEF issueSession, DropSession, CreateDevice
<1>1. CASE issueSession(r)
  <2>1. PICK t \in Tokens : Mint(t, r, "session")
    BY <1>1 DEF issueSession
  <2>2. Backed(req[r])
    BY <1>1 DEF issueSession, SignOutInv, RequestsFit, Fit, SignedInSteps
  <2> QED
    BY <1>0, <2>1, <2>2, TokensStay DEF Kinds
<1>2. CASE DropSession(r)
  BY <1>0, <1>2, TokensStay DEF DropSession
<1>3. CASE CreateDevice(r)
  <2>1. Backed(req[r])
    BY <1>3 DEF CreateDevice, SignOutInv, RequestsFit, Fit, SignedInSteps
  <2>2. UNCHANGED token \/ \E t \in Tokens : Mint(t, r, "device")
    BY <1>3 DEF CreateDevice
  <2> QED
    BY <1>0, <2>1, <2>2, TokensStay DEF Kinds
<1> QED
  BY <1>1, <1>2, <1>3

\* A row that is written keeps what it carries, and a row that is inserted
\* carries what its request does.
LEMMA RowsStay ==
    ASSUME SignOutInv, NEW r \in Requests,
           \/ startLogin2FA(r) \/ startTOTPLogin(r) \/ createChallenge(r) \/ createQR(r)
           \/ CountAttempt(r) \/ CloseChallenge(r) \/ Consume(r)
    PROVE  RowsBacked'
<1>0. RowsKept /\ RowsBacked
  BY DEF SignOutInv, ApprovalInv
<1>a. ASSUME NEW c \in Challenges, NEW row,
             challenge' = [challenge EXCEPT ![c] = row],
             row.purpose = challenge[c].purpose, row.pw = challenge[c].pw,
             row.since = challenge[c].since
      PROVE  RowsBacked'
  BY <1>0, <1>a DEF RowsKept, RowsBacked, Backed
<1>b. ASSUME UNCHANGED challenge PROVE RowsBacked'
  BY <1>0, <1>b DEF RowsBacked
<1>c. \A c \in Challenges : Row(challenge[c])
  BY <1>0 DEF RowsKept
<1>1. ASSUME NEW purpose \in Purposes, ConsumeOlder(r, purpose) PROVE RowsBacked'
  <2>1. \A c \in Challenges : /\ challenge'[c].purpose = challenge[c].purpose
                             /\ challenge'[c].pw = challenge[c].pw
                             /\ challenge'[c].since = challenge[c].since
    BY <1>1, <1>c DEF ConsumeOlder, Row
  <2> QED
    BY <1>0, <2>1 DEF RowsBacked, Backed
<1>2. ASSUME NEW purpose \in Purposes, InsertChallenge(r, purpose),
             purpose # "password_reset" => Backed(req[r])
      PROVE  RowsBacked'
  <2>1. PICK c : challenge' = [challenge EXCEPT ![c] = NewChallenge(r, purpose)]
    BY <1>2 DEF InsertChallenge
  <2>2. /\ NewChallenge(r, purpose).purpose = purpose
        /\ NewChallenge(r, purpose).pw = req[r].pw
        /\ NewChallenge(r, purpose).since = req[r].since
    BY DEF NewChallenge
  <2>3. \A d \in Challenges : challenge'[d] = IF d = c THEN NewChallenge(r, purpose)
                                             ELSE challenge[d]
    BY <1>0, <2>1 DEF RowsKept
  <2>4. ASSUME NEW d \in Challenges,
               challenge'[d].purpose \in {"login_2fa", "login_totp", "qr_login"}
        PROVE  Backed(challenge'[d])
    BY <1>0, <1>2, <2>2, <2>3, <2>4 DEF RowsBacked, Backed
  <2> QED
    BY <2>4 DEF RowsBacked, Backed
<1>3. CASE startLogin2FA(r) \/ startTOTPLogin(r) \/ createChallenge(r) \/ createQR(r)
  <2>1. PICK purpose \in Purposes :
          /\ ConsumeOlder(r, purpose) \/ InsertChallenge(r, purpose)
          /\ purpose # "password_reset" =>
                 req[r].at \in {"startLogin2FA", "startTOTPLogin", "createQR"}
    BY <1>3 DEF startLogin2FA, startTOTPLogin, createChallenge, createQR, Challenge, Purposes
  <2>2. purpose # "password_reset" => Backed(req[r])
    BY <2>1 DEF SignOutInv, RequestsFit, Fit, SignedInSteps
  <2> QED
    BY <1>1, <1>2, <2>1, <2>2
<1>4. CASE CountAttempt(r) \/ CloseChallenge(r) \/ Consume(r)
  <2>0. PICK c : c = req[r].c
    OBVIOUS
  <2>1. c \in Challenges
    BY <1>4, <2>0 DEF CountAttempt, CloseChallenge, Consume, SignOutInv, ApprovalInv,
       RequestsSound, Sound, AfterChoice, Issued
  <2>2. \/ UNCHANGED challenge
        \/ challenge' = [challenge EXCEPT ![c] =
               [challenge[c] EXCEPT !.attempts = challenge[c].attempts + 1]]
        \/ challenge' = [challenge EXCEPT ![c] = [challenge[c] EXCEPT !.open = FALSE]]
    BY <1>4, <2>0 DEF CountAttempt, CloseChallenge, Consume
  <2>3. \A x : /\ [challenge[c] EXCEPT !.attempts = x].purpose = challenge[c].purpose
               /\ [challenge[c] EXCEPT !.attempts = x].pw = challenge[c].pw
               /\ [challenge[c] EXCEPT !.attempts = x].since = challenge[c].since
               /\ [challenge[c] EXCEPT !.open = FALSE].purpose = challenge[c].purpose
               /\ [challenge[c] EXCEPT !.open = FALSE].pw = challenge[c].pw
               /\ [challenge[c] EXCEPT !.open = FALSE].since = challenge[c].since
    BY <1>c, <2>1 DEF Row
  <2> QED
    BY <1>a, <1>b, <2>1, <2>2, <2>3
<1> QED
  BY <1>3, <1>4

\* Every step keeps the sweeps behind the passwords.
LEMMA SignOutStep ==
    ASSUME SignOutInv, AccountsNext
    PROVE  SignOutInv'
<1>0. ApprovalInv'
  BY StepPromised DEF SignOutInv
<1>a. ASSUME UNCHANGED <<challenge, token, swept>>, SweepsFollow' /\ RequestsFit'
      PROVE  SignOutInv'
  BY <1>0, <1>a, TokensStay DEF SignOutInv, RowsBacked
<1>b. ASSUME UNCHANGED <<account, challenge, swept, req>>, TokensBacked' PROVE SignOutInv'
  BY <1>0, <1>b DEF SignOutInv, RowsBacked, SweepsFollow, Deleting, Revoking, RequestsFit
<1>1. ASSUME NEW r \in Requests,
             \/ Login(r) \/ DeviceLogin(r) \/ Login2FA(r) \/ DeviceLogin2FA(r)
             \/ Devices(r) \/ CreateQRLogin(r) \/ RedeemQRLogin(r)
             \/ ForgotRequest(r) \/ ResetRequest(r)
             \/ Security(r) \/ TOTPSetup(r) \/ TOTPEnable(r) \/ TOTPDisable(r)
      PROVE  SignOutInv'
  <2>1. UNCHANGED <<challenge, token, swept>>
    BY <1>1 DEF Login, DeviceLogin, WithPassword, Login2FA, DeviceLogin2FA, CompleteLogin2FA,
       Devices, CreateQRLogin, RedeemQRLogin, ForgotRequest, ResetRequest, Security,
       TOTPSetup, TOTPEnable, TOTPDisable, SecurityRequest
  <2> QED
    BY <1>1, <1>a, <2>1, BeginsFit
<1>2. ASSUME NEW r \in Requests,
             \/ authenticatePassword(r) \/ SelectChallenge(r) \/ MatchTOTP(r)
             \/ AdvanceCounter(r) \/ ForgotPassword(r) \/ Verify(r) \/ SetEmail2FA(r)
             \/ ReadEnabled(r) \/ StoreSecret(r) \/ EnableTOTP(r) \/ DisableTOTP(r)
             \/ StatementFails(r)
      PROVE  SignOutInv'
  <2>1. UNCHANGED <<challenge, token, swept>>
    BY <1>2 DEF authenticatePassword, SelectChallenge, MatchTOTP, AdvanceCounter,
       ForgotPassword, Verify, SetEmail2FA, ReadEnabled, StoreSecret, EnableTOTP,
       DisableTOTP, StatementFails
  <2> QED
    BY <1>2, <1>a, <2>1, ContinuesFit
<1>3. ASSUME NEW r \in Requests, issueSession(r) \/ DropSession(r) \/ CreateDevice(r)
      PROVE  SignOutInv'
  <2>1. UNCHANGED challenge
    BY <1>3 DEF issueSession, DropSession, CreateDevice
  <2> QED
    BY <1>0, <1>3, <2>1, ContinuesFit, MintsBacked DEF SignOutInv, RowsBacked
<1>4. ASSUME NEW r \in Requests, ResetPassword(r) PROVE SignOutInv'
  <2>1. UNCHANGED challenge
    BY <1>4 DEF ResetPassword
  <2> QED
    BY <1>0, <1>4, <2>1, ResetsFit DEF SignOutInv, RowsBacked
<1>5. ASSUME NEW r \in Requests,
             \/ startLogin2FA(r) \/ startTOTPLogin(r) \/ createChallenge(r) \/ createQR(r)
             \/ CountAttempt(r) \/ CloseChallenge(r) \/ Consume(r)
      PROVE  SignOutInv'
  <2>1. UNCHANGED <<token, swept>>
    BY <1>5 DEF startLogin2FA, startTOTPLogin, createChallenge, createQR, Challenge,
       ConsumeOlder, InsertChallenge, CountAttempt, CloseChallenge, Consume
  <2>2. SweepsFollow' /\ RequestsFit'
    BY <1>5, ChallengesFit, ConsumesFit DEF startLogin2FA, startTOTPLogin, createChallenge,
       createQR, Challenge
  <2>3. RowsBacked'
    BY <1>5, RowsStay
  <2>4. TokensBacked'
    BY <2>1, TokensStay
  <2> QED
    BY <1>0, <2>2, <2>3, <2>4 DEF SignOutInv
<1>6. ASSUME NEW t \in Tokens, Logout(t) \/ RevokeDevice(t) PROVE SignOutInv'
  <2>1. /\ token' = [token EXCEPT ![t] = Gone]
        /\ UNCHANGED <<account, challenge, swept, req>>
    BY <1>6 DEF Logout, RevokeDevice
  <2> QED
    BY <1>b, <2>1, TokensStay
<1>7. ASSUME NEW c \in Challenges, Expire(c) PROVE SignOutInv'
  <2>1. UNCHANGED <<account, token, swept, req>>
    BY <1>7 DEF Expire
  <2>2. \A d \in Challenges : /\ challenge'[d].purpose = challenge[d].purpose
                             /\ challenge'[d].pw = challenge[d].pw
                             /\ challenge'[d].since = challenge[d].since
    BY <1>7 DEF Expire, SignOutInv, ApprovalInv, RowsKept, Row
  <2>3. RowsBacked'
    BY <2>2 DEF SignOutInv, RowsBacked, Backed
  <2> QED
    BY <1>0, <2>1, <2>3, TokensStay DEF SignOutInv, SweepsFollow, Deleting, Revoking, RequestsFit
<1>8. ASSUME (\E key \in Keys : WindowPasses(key)) \/ Tick PROVE SignOutInv'
  <2>1. UNCHANGED <<account, challenge, token, swept, req>>
    BY <1>8 DEF WindowPasses, Tick
  <2> QED
    BY <1>b, <2>1, TokensStay
<1> QED
  BY <1>1, <1>2, <1>3, <1>4, <1>5, <1>6, <1>7, <1>8 DEF AccountsNext

LEMMA SignOutSteps == SignOutInv /\ [AccountsNext]_accountVars => SignOutInv'
<1> SUFFICES ASSUME SignOutInv, UNCHANGED accountVars PROVE SignOutInv'
  BY SignOutStep
<1>1. ApprovalInv'
  BY DEF SignOutInv, accountVars, ApprovalInv, RowsKept, RequestsSound, Row, Sound, Issued
<1> QED
  BY <1>1, TokensStay DEF accountVars, SignOutInv, RowsBacked, SweepsFollow, Deleting,
     Revoking, RequestsFit

\* Once the resets have done their statements, no session or device is left that
\* is older than the last of them (ResetPassword).
THEOREM ResetsSignOut == AccountsSpec => []ResetSignsOut
<1>1. SignOutInv /\ [AccountsNext]_accountVars => SignOutInv'
  BY SignOutSteps
<1>2. SignOutInv => ResetSignsOut
  <2> SUFFICES ASSUME SignOutInv, account.pw = 1 + swept["device"],
                      NEW t \in Tokens, token[t].alive, token[t].pw < account.pw
               PROVE  /\ token[t].since < swept["session"]
                      /\ token[t].minted = swept[token[t].kind]
    BY DEF ResetSignsOut
  <2>1. Backed(token[t]) /\ token[t].minted = swept[token[t].kind]
    BY DEF SignOutInv, TokensBacked
  <2>2. swept["device"] \in Nat /\ swept["session"] \in Nat /\ swept["device"] <= swept["session"]
    BY ResetsFinite DEF SignOutInv, SweepsFollow, Kinds
  <2> QED
    BY <2>1, <2>2 DEF Backed
<1> QED
  BY <1>1, <1>2, SignOutInit, PTL DEF AccountsSpec

-----------------------------------------------------------------------------
(***************************************************************************)
(* Guesses.  A request that has seen a challenge below its limit, or an    *)
(* address that is not blocked, owes one failure at most from then on, and *)
(* there are no more of them than requests: so what has been counted and   *)
(* what is still owed never passes the limit by more than their number.    *)
(***************************************************************************)
SecurityOps == {"email2FA", "totpSetup", "totpEnable", "totpDisable"}

\* The steps of a request that is answering a challenge.
Answering == {"select"} \cup AfterChoice

\* Which operations come to which steps.
Shaped(work) ==
    /\ work.at = "password" => work.op \in {"login", "deviceLogin"}
    /\ work.at = "forgot" => work.op = "forgot"
    /\ work.at \in Answering =>
         \/ work.op \in {"login2FA", "device2FA", "reset"}
         \/ work.at = "consume" /\ work.op = "qrRedeem"

\* A request that may still report a failure under this key of the limiter.
Owes(work, key) ==
    \/ key = "login" /\ work.at = "password"
    \/ key = "2fa" /\ work.at \in Answering /\ work.op \in {"login2FA", "device2FA"}
    \/ key = "reset-complete" /\ work.at \in Answering /\ work.op = "reset"
    \/ key = "reset" /\ work.at = "forgot"
    \/ key = work.op /\ work.at = "verify"

\* A request that may still count an attempt of this challenge.
StillCounts(work, c) == work.at \in {"match", "count"} /\ work.c = c

Failing(key) == {r \in Requests : Owes(req[r], key)}
Counting(c)  == {r \in Requests : StillCounts(req[r], c)}

AttemptsKept ==
    \A c \in Challenges :
        /\ challenge[c].attempts \in Nat
        /\ challenge[c].attempts + Cardinality(Counting(c))
               < MaxAttempts + Cardinality(Requests)

TriesKept ==
    /\ DOMAIN tries = Keys
    /\ \A key \in Keys :
        /\ tries[key] \in Nat
        /\ tries[key] + Cardinality(Failing(key)) < Limit + Cardinality(Requests)

AllShaped == \A r \in Requests : Shaped(req[r])

GuessInv == AllShaped /\ AttemptsKept /\ TriesKept

-----------------------------------------------------------------------------
(* Where a request is after a step. *)

\* The others stay, and this request has these fields; the rest of what it
\* holds decides neither guesses nor codes.
Others(r) == \A q \in Requests \ {r} : req'[q] = req[q]

MovesTo(r, at, op, c, s, k) ==
    /\ Others(r)
    /\ req'[r].at = at /\ req'[r].op = op /\ req'[r].c = c
    /\ req'[r].s = s /\ req'[r].k = k

LEMMA Ends ==
    ASSUME RequestsSound, NEW r \in Requests, Done(r)
    PROVE  MovesTo(r, "idle", "none", 0, 0, 0)
BY DEF RequestsSound, Done, MovesTo, Others, Idle

LEMMA StepsOn ==
    ASSUME RequestsSound, NEW r \in Requests, NEW step, Go(r, step)
    PROVE  MovesTo(r, step, req[r].op, req[r].c, req[r].s, req[r].k)
<1>1. Sound(req[r], Issued)
  BY DEF RequestsSound
<1> DEFINE work == [req[r] EXCEPT !.at = step]
<1>2. /\ work.at = step /\ work.op = req[r].op /\ work.c = req[r].c
      /\ work.s = req[r].s /\ work.k = req[r].k
  BY <1>1 DEF Sound
<1>3. req'[r] = work /\ Others(r)
  BY DEF RequestsSound, Go, Others
<1> QED
  BY <1>2, <1>3 DEF MovesTo

\* A request that begins is at one of these steps, and was let in by a limiter
\* if it may report to it.
Started(r, at, op, c, s, k) ==
    /\ MovesTo(r, at, op, c, s, k)
    /\ \/ at = "password" /\ op \in {"login", "deviceLogin"} /\ ~blocked("login")
       \/ at = "select" /\ op \in {"login2FA", "device2FA"} /\ ~blocked("2fa")
       \/ at = "select" /\ op = "reset" /\ ~blocked("reset-complete")
       \/ at = "forgot" /\ op = "forgot" /\ ~blocked("reset")
       \/ at = "verify" /\ op \in SecurityOps /\ ~blocked(op)
       \/ at \in {"createDevice", "createQR"}
       \/ at = "consume" /\ op = "qrRedeem" /\ challenge[c].purpose = "qr_login"
    /\ k \in Int
    /\ account.secrets \in Nat => s \in 0 .. account.secrets

LEMMA Begins ==
    ASSUME RequestsSound, NEW r \in Requests,
           \/ Login(r) \/ DeviceLogin(r) \/ Login2FA(r) \/ DeviceLogin2FA(r)
           \/ Devices(r) \/ CreateQRLogin(r) \/ RedeemQRLogin(r)
           \/ ForgotRequest(r) \/ ResetRequest(r)
           \/ Security(r) \/ TOTPSetup(r) \/ TOTPEnable(r) \/ TOTPDisable(r)
    PROVE  /\ \E at, op, c, s, k : Started(r, at, op, c, s, k)
           /\ UNCHANGED <<account, challenge, tries, marks>>
<1>z. 0 \in Int /\ (account.secrets \in Nat => 0 \in 0 .. account.secrets)
  OBVIOUS
<1>b. ASSUME NEW at, NEW op, NEW c, NEW s, NEW k, NEW work, Begin(r, work),
             work.at = at, work.op = op, work.c = c, work.s = s, work.k = k
      PROVE  MovesTo(r, at, op, c, s, k)
  BY <1>b DEF Begin, RequestsSound, MovesTo, Others
<1>1. CASE Login(r) \/ DeviceLogin(r)
  <2>0. PICK op \in {"login", "deviceLogin"} : WithPassword(r, op)
    BY <1>1 DEF Login, DeviceLogin
  <2>1. PICK p :
          Begin(r, [Idle EXCEPT !.op = op, !.at = "password", !.pw = p,
                                !.since = swept["session"]])
    BY <2>0 DEF WithPassword
  <2> DEFINE work == [Idle EXCEPT !.op = op, !.at = "password", !.pw = p,
                                  !.since = swept["session"]]
  <2>f. work.at = "password" /\ work.op = op /\ work.c = 0 /\ work.s = 0 /\ work.k = 0
    BY DEF Idle
  <2>2. MovesTo(r, "password", op, 0, 0, 0)
    BY <1>b, <2>1, <2>f
  <2>3. ~blocked("login") /\ UNCHANGED <<account, challenge, tries, marks>>
    BY <2>0 DEF WithPassword
  <2>4. Started(r, "password", op, 0, 0, 0)
    BY <1>z, <2>2, <2>3 DEF Started
  <2> QED
    BY <2>3, <2>4
<1>2. CASE Login2FA(r) \/ DeviceLogin2FA(r)
  <2>0. PICK op \in {"login2FA", "device2FA"} : CompleteLogin2FA(r, op)
    BY <1>2 DEF Login2FA, DeviceLogin2FA
  <2>1. PICK c \in Challenges, s \in 0 .. account.secrets, k \in 0 .. clock + 1,
             right \in BOOLEAN :
          Begin(r, [Idle EXCEPT !.op = op, !.at = "select", !.c = c, !.right = right,
                                !.s = s, !.k = k, !.pw = challenge[c].pw,
                                !.since = challenge[c].since])
    BY <2>0 DEF CompleteLogin2FA
  <2> DEFINE work == [Idle EXCEPT !.op = op, !.at = "select", !.c = c, !.right = right,
                                  !.s = s, !.k = k, !.pw = challenge[c].pw,
                                  !.since = challenge[c].since]
  <2>f. work.at = "select" /\ work.op = op /\ work.c = c /\ work.s = s /\ work.k = k
    BY DEF Idle
  <2>2. MovesTo(r, "select", op, c, s, k)
    BY <1>b, <2>1, <2>f
  <2>3. ~blocked("2fa") /\ UNCHANGED <<account, challenge, tries, marks>>
    BY <2>0 DEF CompleteLogin2FA
  <2>4. Started(r, "select", op, c, s, k)
    BY <1>z, <2>2, <2>3 DEF Started
  <2> QED
    BY <2>3, <2>4
<1>3. CASE Devices(r) \/ CreateQRLogin(r)
  <2>1. PICK op \in {"devices", "qrCreate"}, step \in {"createDevice", "createQR"},
             t \in Tokens :
          Begin(r, [Idle EXCEPT !.op = op, !.at = step,
                                !.pw = token[t].pw, !.since = token[t].since])
    BY <1>3 DEF Devices, CreateQRLogin
  <2> DEFINE work == [Idle EXCEPT !.op = op, !.at = step,
                                  !.pw = token[t].pw, !.since = token[t].since]
  <2>f. work.at = step /\ work.op = op /\ work.c = 0 /\ work.s = 0 /\ work.k = 0
    BY DEF Idle
  <2>2. MovesTo(r, step, op, 0, 0, 0)
    BY <1>b, <2>1, <2>f
  <2>3. UNCHANGED <<account, challenge, tries, marks>>
    BY <1>3 DEF Devices, CreateQRLogin
  <2>4. Started(r, step, op, 0, 0, 0)
    BY <1>z, <2>2 DEF Started
  <2> QED
    BY <2>3, <2>4
<1>4. CASE RedeemQRLogin(r)
  <2>1. PICK c : /\ challenge[c].purpose = "qr_login"
                 /\ Begin(r, [Idle EXCEPT !.op = "qrRedeem", !.at = "consume", !.c = c,
                                          !.pw = challenge[c].pw,
                                          !.since = challenge[c].since])
    BY <1>4 DEF RedeemQRLogin
  <2> DEFINE work == [Idle EXCEPT !.op = "qrRedeem", !.at = "consume", !.c = c,
                                  !.pw = challenge[c].pw, !.since = challenge[c].since]
  <2>f. /\ work.at = "consume" /\ work.op = "qrRedeem" /\ work.c = c
        /\ work.s = 0 /\ work.k = 0
    BY DEF Idle
  <2>2. MovesTo(r, "consume", "qrRedeem", c, 0, 0)
    BY <1>b, <2>1, <2>f
  <2>3. UNCHANGED <<account, challenge, tries, marks>>
    BY <1>4 DEF RedeemQRLogin
  <2>4. Started(r, "consume", "qrRedeem", c, 0, 0)
    BY <1>z, <2>1, <2>2 DEF Started
  <2> QED
    BY <2>3, <2>4
<1>5. CASE ForgotRequest(r)
  <2> DEFINE work == [Idle EXCEPT !.op = "forgot", !.at = "forgot"]
  <2>f. /\ work.at = "forgot" /\ work.op = "forgot" /\ work.c = 0
        /\ work.s = 0 /\ work.k = 0
    BY DEF Idle
  <2>1. MovesTo(r, "forgot", "forgot", 0, 0, 0)
    BY <1>5, <1>b, <2>f DEF ForgotRequest
  <2>2. Started(r, "forgot", "forgot", 0, 0, 0)
    BY <1>5, <1>z, <2>1 DEF Started, ForgotRequest
  <2> QED
    BY <1>5, <2>2 DEF ForgotRequest
<1>6. CASE ResetRequest(r)
  <2>1. PICK right \in BOOLEAN :
          Begin(r, [Idle EXCEPT !.op = "reset", !.at = "select", !.right = right])
    BY <1>6 DEF ResetRequest
  <2> DEFINE work == [Idle EXCEPT !.op = "reset", !.at = "select", !.right = right]
  <2>f. work.at = "select" /\ work.op = "reset" /\ work.c = 0 /\ work.s = 0 /\ work.k = 0
    BY DEF Idle
  <2>2. MovesTo(r, "select", "reset", 0, 0, 0)
    BY <1>b, <2>1, <2>f
  <2>3. Started(r, "select", "reset", 0, 0, 0)
    BY <1>6, <1>z, <2>2 DEF Started, ResetRequest
  <2> QED
    BY <1>6, <2>3 DEF ResetRequest
<1>7. CASE Security(r) \/ TOTPSetup(r) \/ TOTPEnable(r) \/ TOTPDisable(r)
  <2>0. PICK op \in SecurityOps, secrets \in {{0}, 0 .. account.secrets},
             rights \in {BOOLEAN, {FALSE}} :
          SecurityRequest(r, op, secrets, rights)
    BY <1>7 DEF Security, TOTPSetup, TOTPEnable, TOTPDisable, SecurityOps
  <2>1. PICK t \in Tokens, p \in 0 .. account.pw, s \in secrets, k \in 0 .. clock + 1,
             right \in rights :
          /\ securityAttempt(t, op)
          /\ Begin(r, [Idle EXCEPT !.op = op, !.at = "verify", !.pw = p, !.s = s, !.k = k,
                                   !.right = right])
    BY <2>0 DEF SecurityRequest
  <2> DEFINE work == [Idle EXCEPT !.op = op, !.at = "verify", !.pw = p, !.s = s, !.k = k,
                                  !.right = right]
  <2>f. work.at = "verify" /\ work.op = op /\ work.c = 0 /\ work.s = s /\ work.k = k
    BY DEF Idle
  <2>2. MovesTo(r, "verify", op, 0, s, k)
    BY <1>b, <2>1, <2>f
  <2>3. account.secrets \in Nat => s \in 0 .. account.secrets
    OBVIOUS
  <2>4. Started(r, "verify", op, 0, s, k)
    BY <2>1, <2>2, <2>3 DEF Started, securityAttempt
  <2>5. UNCHANGED <<account, challenge, tries, marks>>
    BY <2>0 DEF SecurityRequest
  <2> QED
    BY <2>4, <2>5
<1> QED
  BY <1>1, <1>2, <1>3, <1>4, <1>5, <1>6, <1>7

-----------------------------------------------------------------------------
(* Counting. *)

\* There are no more requests of a kind than requests.
LEMMA SomeRequests ==
    ASSUME NEW S \in SUBSET Requests
    PROVE  /\ IsFiniteSet(S) /\ Cardinality(S) \in Nat
           /\ Cardinality(Requests) \in Nat /\ Cardinality(S) <= Cardinality(Requests)
BY AccountConstants, FS_Subset, FS_CardinalityType

\* One request moves: under every key it owes no more than before, or it was let
\* in by a limiter below its limit, or it pays what it owes.
LEMMA TriesFrame ==
    ASSUME TriesKept, NEW r \in Requests, Others(r),
           \/ /\ UNCHANGED tries
              /\ \A key \in Keys : Owes(req'[r], key) => Owes(req[r], key) \/ ~blocked(key)
           \/ /\ \E key \in Keys : add(key) /\ Owes(req[r], key)
              /\ \A key \in Keys : ~Owes(req'[r], key)
    PROVE  TriesKept'
<1>0. /\ Limit \in Nat /\ Cardinality(Requests) \in Nat /\ DOMAIN tries = Keys
      /\ \A q \in Requests \ {r} : req'[q] = req[q]
  BY AccountConstants, SomeRequests DEF TriesKept, Others
<1>1. ASSUME NEW key \in Keys
      PROVE  /\ tries[key] \in Nat
             /\ tries[key] + Cardinality(Failing(key)) < Limit + Cardinality(Requests)
             /\ Cardinality(Failing(key)) \in Nat /\ IsFiniteSet(Failing(key))
             /\ Cardinality(Failing(key)') \in Nat
             /\ Cardinality(Failing(key)') <= Cardinality(Requests)
  BY SomeRequests DEF TriesKept, Failing
<1>2. CASE UNCHANGED tries
           /\ \A key \in Keys : Owes(req'[r], key) => Owes(req[r], key) \/ ~blocked(key)
  <2>1. ASSUME NEW key \in Keys
        PROVE  tries'[key] + Cardinality(Failing(key)') < Limit + Cardinality(Requests)
    <3>1. CASE ~blocked(key)
      <4>1. tries[key] < Limit
        BY <1>0, <1>1, <3>1 DEF blocked
      <4> QED
        BY <1>0, <1>1, <1>2, <4>1
    <3>2. CASE blocked(key)
      <4>1. Failing(key)' \subseteq Failing(key)
        BY <1>0, <1>2, <3>2 DEF Failing
      <4>2. Cardinality(Failing(key)') <= Cardinality(Failing(key))
        BY <1>1, <4>1, FS_Subset
      <4> QED
        BY <1>0, <1>1, <1>2, <4>2
    <3> QED
      BY <3>1, <3>2
  <2> QED
    BY <1>0, <1>1, <1>2, <2>1 DEF TriesKept
<1>3. CASE /\ \E key \in Keys : add(key) /\ Owes(req[r], key)
           /\ \A key \in Keys : ~Owes(req'[r], key)
  <2>1. PICK paid \in Keys : add(paid) /\ Owes(req[r], paid)
    BY <1>3
  <2>2. /\ DOMAIN tries' = Keys /\ tries'[paid] \in Nat /\ tries'[paid] <= tries[paid] + 1
        /\ \A key \in Keys \ {paid} : tries'[key] = tries[key]
    BY <1>0, <1>1, <2>1 DEF add
  <2>3. \A key \in Keys : Failing(key)' = Failing(key) \ {r}
    BY <1>0, <1>3 DEF Failing
  <2>4. r \in Failing(paid)
    BY <2>1 DEF Failing
  <2>5. Cardinality(Failing(paid)') + 1 = Cardinality(Failing(paid))
    BY <1>1, <2>3, <2>4, OneMoreOrLess
  <2>6. \A key \in Keys : Cardinality(Failing(key)') <= Cardinality(Failing(key))
    BY <1>1, <2>3, OneMoreOrLess
  <2>7. ASSUME NEW key \in Keys
        PROVE  /\ tries'[key] \in Nat
               /\ tries'[key] + Cardinality(Failing(key)') < Limit + Cardinality(Requests)
    <3>1. CASE key = paid
      BY <1>0, <1>1, <2>2, <2>5, <3>1
    <3>2. CASE key # paid
      BY <1>0, <1>1, <2>2, <2>6, <3>2
    <3> QED
      BY <3>1, <3>2
  <2> QED
    BY <2>2, <2>7 DEF TriesKept
<1> QED
  BY <1>2, <1>3

\* The same of the challenges.
LEMMA AttemptsFrame ==
    ASSUME AttemptsKept, NEW r \in Requests, Others(r),
           \/ \A c \in Challenges :
                 /\ challenge'[c].attempts = challenge[c].attempts
                 /\ StillCounts(req'[r], c) =>
                        StillCounts(req[r], c) \/ challenge[c].attempts < MaxAttempts
           \/ /\ \A c \in Challenges : ~StillCounts(req'[r], c)
              /\ \E d \in Challenges :
                    /\ StillCounts(req[r], d)
                    /\ challenge'[d].attempts = challenge[d].attempts + 1
                    /\ \A c \in Challenges \ {d} :
                          challenge'[c].attempts = challenge[c].attempts
    PROVE  AttemptsKept'
<1>0. /\ MaxAttempts \in Nat /\ Cardinality(Requests) \in Nat
      /\ \A q \in Requests \ {r} : req'[q] = req[q]
  BY AccountConstants, SomeRequests DEF Others
<1>1. ASSUME NEW c \in Challenges
      PROVE  /\ challenge[c].attempts \in Nat
             /\ challenge[c].attempts + Cardinality(Counting(c))
                    < MaxAttempts + Cardinality(Requests)
             /\ Cardinality(Counting(c)) \in Nat /\ IsFiniteSet(Counting(c))
             /\ Cardinality(Counting(c)') \in Nat
             /\ Cardinality(Counting(c)') <= Cardinality(Requests)
  BY SomeRequests DEF AttemptsKept, Counting
<1>2. CASE \A c \in Challenges :
             /\ challenge'[c].attempts = challenge[c].attempts
             /\ StillCounts(req'[r], c) =>
                    StillCounts(req[r], c) \/ challenge[c].attempts < MaxAttempts
  <2>1. ASSUME NEW c \in Challenges
        PROVE  challenge'[c].attempts + Cardinality(Counting(c)')
                   < MaxAttempts + Cardinality(Requests)
    <3>1. CASE challenge[c].attempts < MaxAttempts
      BY <1>0, <1>1, <1>2, <3>1
    <3>2. CASE ~(challenge[c].attempts < MaxAttempts)
      <4>1. Counting(c)' \subseteq Counting(c)
        BY <1>0, <1>2, <3>2 DEF Counting
      <4>2. Cardinality(Counting(c)') <= Cardinality(Counting(c))
        BY <1>1, <4>1, FS_Subset
      <4> QED
        BY <1>0, <1>1, <1>2, <4>2
    <3> QED
      BY <3>1, <3>2
  <2> QED
    BY <1>1, <1>2, <2>1 DEF AttemptsKept
<1>3. ASSUME \A c \in Challenges : ~StillCounts(req'[r], c),
             NEW d \in Challenges, StillCounts(req[r], d),
             challenge'[d].attempts = challenge[d].attempts + 1,
             \A c \in Challenges \ {d} : challenge'[c].attempts = challenge[c].attempts
      PROVE  AttemptsKept'
  <2>1. \A c \in Challenges : Counting(c)' = Counting(c) \ {r}
    BY <1>0, <1>3 DEF Counting
  <2>2. r \in Counting(d)
    BY <1>3 DEF Counting
  <2>3. Cardinality(Counting(d)') + 1 = Cardinality(Counting(d))
    BY <1>1, <2>1, <2>2, OneMoreOrLess
  <2>4. \A c \in Challenges : Cardinality(Counting(c)') <= Cardinality(Counting(c))
    BY <1>1, <2>1, OneMoreOrLess
  <2>5. ASSUME NEW c \in Challenges
        PROVE  /\ challenge'[c].attempts \in Nat
               /\ challenge'[c].attempts + Cardinality(Counting(c)')
                      < MaxAttempts + Cardinality(Requests)
    <3>1. CASE c = d
      BY <1>0, <1>1, <1>3, <2>3, <3>1
    <3>2. CASE c # d
      BY <1>0, <1>1, <1>3, <2>4, <3>2
    <3> QED
      BY <3>1, <3>2
  <2> QED
    BY <2>5 DEF AttemptsKept
<1> QED
  BY <1>2, <1>3

\* The three parts together.
LEMMA ShapedFrame ==
    ASSUME AllShaped, NEW r \in Requests, Others(r), Shaped(req'[r])
    PROVE  AllShaped'
<1>1. \A q \in Requests \ {r} : Shaped(req'[q])
  BY DEF AllShaped, Others
<1> QED
  BY <1>1 DEF AllShaped

-----------------------------------------------------------------------------
(* What a step may be, as the counters see it. *)

\* The attempts stay.
SameAttempts == \A c \in Challenges : challenge'[c].attempts = challenge[c].attempts

\* A request goes on to a step at which it owes nothing.
LEMMA FreeOfDebt ==
    ASSUME GuessInv, NEW r \in Requests, NEW at, NEW op, NEW c, NEW s, NEW k,
           MovesTo(r, at, op, c, s, k), UNCHANGED tries, SameAttempts,
           at \notin Answering \cup {"password", "forgot", "verify"}
    PROVE  GuessInv'
<1>1. Others(r) /\ Shaped(req'[r])
  BY DEF MovesTo, Shaped
<1>2. \A key \in Keys : ~Owes(req'[r], key)
  BY DEF MovesTo, Owes
<1>3. \A d \in Challenges : ~StillCounts(req'[r], d)
  BY DEF MovesTo, StillCounts, Answering, AfterChoice
<1>4. AllShaped'
  BY <1>1, ShapedFrame DEF GuessInv
<1>5. TriesKept'
  BY <1>1, <1>2, TriesFrame DEF GuessInv
<1>6. AttemptsKept'
  BY <1>1, <1>3, AttemptsFrame DEF GuessInv, SameAttempts
<1> QED
  BY <1>4, <1>5, <1>6 DEF GuessInv

\* A request reports the failure it owes and goes on to such a step.
LEMMA DebtPaid ==
    ASSUME GuessInv, NEW r \in Requests, NEW at, NEW op, NEW c, NEW s, NEW k,
           MovesTo(r, at, op, c, s, k), SameAttempts,
           NEW key \in Keys, Owes(req[r], key), add(key),
           at \notin Answering \cup {"password", "forgot", "verify"}
    PROVE  GuessInv'
<1>1. Others(r) /\ Shaped(req'[r])
  BY DEF MovesTo, Shaped
<1>2. \A other \in Keys : ~Owes(req'[r], other)
  BY DEF MovesTo, Owes
<1>3. \A d \in Challenges : ~StillCounts(req'[r], d)
  BY DEF MovesTo, StillCounts, Answering, AfterChoice
<1>4. AllShaped'
  BY <1>1, ShapedFrame DEF GuessInv
<1>5. TriesKept'
  BY <1>1, <1>2, TriesFrame DEF GuessInv
<1>6. AttemptsKept'
  BY <1>1, <1>3, AttemptsFrame DEF GuessInv, SameAttempts
<1> QED
  BY <1>4, <1>5, <1>6 DEF GuessInv

\* What answers a challenge owes a failure to the key of its operation.
LEMMA OwedKey ==
    ASSUME NEW work, Shaped(work), work.at \in Answering \cup {"password"},
           work.op # "qrRedeem"
    PROVE  KeyOf(work.op) \in Keys /\ Owes(work, KeyOf(work.op))
<1>1. CASE work.at = "password"
  BY <1>1 DEF Shaped, KeyOf, Keys, Owes
<1>2. CASE work.at \in Answering
  <2>1. work.op \in {"login2FA", "device2FA", "reset"}
    BY <1>2 DEF Shaped
  <2> QED
    BY <1>2, <2>1 DEF KeyOf, Keys, Owes
<1> QED
  BY <1>1, <1>2

\* A refused request pays.
LEMMA RefusalPays ==
    ASSUME GuessInv, RequestsSound, NEW r \in Requests, Refused(r), SameAttempts,
           req[r].at \in Answering \cup {"password"}, req[r].op # "qrRedeem"
    PROVE  GuessInv'
<1>1. MovesTo(r, "idle", "none", 0, 0, 0)
  BY Ends DEF Refused
<1>2. KeyOf(req[r].op) \in Keys /\ Owes(req[r], KeyOf(req[r].op))
  BY OwedKey DEF GuessInv, AllShaped
<1>3. "idle" \notin Answering \cup {"password", "forgot", "verify"}
  BY DEF Answering, AfterChoice
<1> QED
  BY <1>1, <1>2, <1>3, DebtPaid DEF Refused

\* A request that is over, without a failure.
LEMMA EndIsFree ==
    ASSUME GuessInv, RequestsSound, NEW r \in Requests, Done(r), SameAttempts,
           UNCHANGED tries
    PROVE  GuessInv'
<1>1. "idle" \notin Answering \cup {"password", "forgot", "verify"}
  BY DEF Answering, AfterChoice
<1> QED
  BY <1>1, Ends, FreeOfDebt

\* A request goes on to a step that answers nothing.
LEMMA GoingIsFree ==
    ASSUME GuessInv, RequestsSound, NEW r \in Requests, NEW step, Go(r, step), SameAttempts,
           step \notin Answering \cup {"password", "forgot", "verify"},
           UNCHANGED tries
    PROVE  GuessInv'
<1>1. MovesTo(r, step, req[r].op, req[r].c, req[r].s, req[r].k)
  BY StepsOn
<1> QED
  BY <1>1, FreeOfDebt

-----------------------------------------------------------------------------
(* Guesses, step by step. *)

LEMMA GuessesBegin ==
    ASSUME GuessInv, RequestsSound, NEW r \in Requests,
           \/ Login(r) \/ DeviceLogin(r) \/ Login2FA(r) \/ DeviceLogin2FA(r)
           \/ Devices(r) \/ CreateQRLogin(r) \/ RedeemQRLogin(r)
           \/ ForgotRequest(r) \/ ResetRequest(r)
           \/ Security(r) \/ TOTPSetup(r) \/ TOTPEnable(r) \/ TOTPDisable(r)
    PROVE  GuessInv'
<1>1. PICK at, op, c, s, k : Started(r, at, op, c, s, k)
  BY Begins
<1>2. UNCHANGED <<challenge, tries>>
  BY Begins
<1>3. Others(r) /\ req'[r].at = at /\ req'[r].op = op
  BY <1>1 DEF Started, MovesTo
<1>4. Shaped(req'[r])
  BY <1>1, <1>3 DEF Started, Shaped, Answering, AfterChoice
<1>5. \A key \in Keys : Owes(req'[r], key) => ~blocked(key)
  BY <1>1, <1>3 DEF Started, Owes, Answering, AfterChoice, SecurityOps
<1>6. \A d \in Challenges : ~StillCounts(req'[r], d)
  BY <1>1, <1>3 DEF Started, StillCounts
<1>7. AllShaped'
  BY <1>3, <1>4, ShapedFrame DEF GuessInv
<1>8. TriesKept'
  BY <1>2, <1>3, <1>5, TriesFrame DEF GuessInv
<1>9. AttemptsKept'
  BY <1>2, <1>3, <1>6, AttemptsFrame DEF GuessInv
<1> QED
  BY <1>7, <1>8, <1>9 DEF GuessInv

\* The challenge is chosen while its attempts are below the limit.
LEMMA GuessesSelect ==
    ASSUME GuessInv, RequestsSound, NEW r \in Requests, SelectChallenge(r)
    PROVE  GuessInv'
<1>0. req[r].at = "select" /\ UNCHANGED challenge /\ SameAttempts
  BY DEF SelectChallenge, SameAttempts
<1>1. req[r].op \in {"login2FA", "device2FA", "reset"}
  BY <1>0 DEF GuessInv, AllShaped, Shaped, Answering
<1>2. CASE Refused(r)
  BY <1>0, <1>1, <1>2, RefusalPays DEF Answering
<1>3. ASSUME NEW c \in Challenges,
             NEW step \in {"close", "match", "consume", "count"},
             req' = [req EXCEPT ![r].c = c, ![r].at = step],
             step # "close" => ~Exhausted(c), UNCHANGED tries
      PROVE  GuessInv'
  <2>1. Sound(req[r], Issued)
    BY DEF RequestsSound
  <2>2. req'[r] = [req[r] EXCEPT !.c = c, !.at = step] /\ Others(r)
    BY <1>3 DEF RequestsSound, Others
  <2>3. req'[r].at = step /\ req'[r].op = req[r].op /\ req'[r].c = c
    BY <2>1, <2>2 DEF Sound
  <2>4. Shaped(req'[r])
    BY <1>1, <2>3 DEF Shaped, Answering, AfterChoice
  <2>5. \A key \in Keys : Owes(req'[r], key) => Owes(req[r], key)
    BY <1>0, <1>1, <2>3 DEF Owes, Answering
  <2>6. challenge[c].attempts \in Nat
    BY DEF GuessInv, AttemptsKept
  <2>7. \A d \in Challenges : StillCounts(req'[r], d) => challenge[d].attempts < MaxAttempts
    BY <1>3, <2>3, <2>6, AccountConstants DEF StillCounts, Exhausted
  <2>8. AllShaped'
    BY <2>2, <2>4, ShapedFrame DEF GuessInv
  <2>9. TriesKept'
    BY <1>3, <2>2, <2>5, TriesFrame DEF GuessInv
  <2>10. AttemptsKept'
    BY <1>0, <2>2, <2>7, AttemptsFrame DEF GuessInv, SameAttempts
  <2> QED
    BY <2>8, <2>9, <2>10 DEF GuessInv
<1>4. Refused(r) \/ \E c \in Challenges, step \in {"close", "match", "consume", "count"} :
          /\ req' = [req EXCEPT ![r].c = c, ![r].at = step]
          /\ step # "close" => ~Exhausted(c)
          /\ UNCHANGED tries
  <2>1. CASE Refused(r)
    BY <2>1
  <2>2. ASSUME NEW c \in Challenges,
               req' = [req EXCEPT ![r].c = c,
                   ![r].at = IF Exhausted(c) THEN "close"
                             ELSE IF challenge[c].purpose = "login_totp" THEN "match"
                             ELSE IF req[r].right THEN "consume" ELSE "count"],
               UNCHANGED tries
        PROVE  \E step \in {"close", "match", "consume", "count"} :
                  /\ req' = [req EXCEPT ![r].c = c, ![r].at = step]
                  /\ step # "close" => ~Exhausted(c)
                  /\ UNCHANGED tries
    <3> DEFINE step == IF Exhausted(c) THEN "close"
                       ELSE IF challenge[c].purpose = "login_totp" THEN "match"
                       ELSE IF req[r].right THEN "consume" ELSE "count"
    <3>1. step \in {"close", "match", "consume", "count"} /\ (step # "close" => ~Exhausted(c))
      OBVIOUS
    <3>2. req' = [req EXCEPT ![r].c = c, ![r].at = step]
      BY <2>2
    <3> QED
      BY <2>2, <3>1, <3>2
  <2> QED
    BY <2>1, <2>2 DEF SelectChallenge
<1> QED
  BY <1>2, <1>3, <1>4

\* The code is compared, or its counter moved.
LEMMA GuessesCompare ==
    ASSUME GuessInv, RequestsSound, NEW r \in Requests, MatchTOTP(r) \/ AdvanceCounter(r)
    PROVE  GuessInv'
<1>0. /\ req[r].at \in {"match", "advance"} /\ UNCHANGED challenge /\ SameAttempts
      /\ req[r].op \in {"login2FA", "device2FA", "reset"}
  BY DEF MatchTOTP, AdvanceCounter, SameAttempts, GuessInv, AllShaped, Shaped, Answering,
     AfterChoice
<1>1. CASE Refused(r)
  BY <1>0, <1>1, RefusalPays DEF Answering, AfterChoice
<1>2. ASSUME NEW step \in {"advance", "count", "consume"}, Go(r, step), UNCHANGED tries,
             step = "count" => req[r].at = "match"
      PROVE  GuessInv'
  <2>1. MovesTo(r, step, req[r].op, req[r].c, req[r].s, req[r].k)
    BY <1>2, StepsOn
  <2>2. Others(r) /\ Shaped(req'[r])
    BY <1>0, <2>1 DEF MovesTo, Shaped, Answering, AfterChoice
  <2>3. \A key \in Keys : Owes(req'[r], key) => Owes(req[r], key)
    BY <1>0, <2>1 DEF MovesTo, Owes, Answering, AfterChoice
  <2>4. \A d \in Challenges : StillCounts(req'[r], d) => StillCounts(req[r], d)
    BY <1>0, <1>2, <2>1 DEF MovesTo, StillCounts
  <2>5. AllShaped'
    BY <2>2, ShapedFrame DEF GuessInv
  <2>6. TriesKept'
    BY <1>2, <2>2, <2>3, TriesFrame DEF GuessInv
  <2>7. AttemptsKept'
    BY <1>0, <2>2, <2>4, AttemptsFrame DEF GuessInv, SameAttempts
  <2> QED
    BY <2>5, <2>6, <2>7 DEF GuessInv
<1>3. CASE MatchTOTP(r)
  BY <1>2, <1>3 DEF MatchTOTP
<1>4. CASE AdvanceCounter(r)
  BY <1>1, <1>2, <1>4 DEF AdvanceCounter
<1> QED
  BY <1>3, <1>4

\* An attempt is counted, a challenge closed or used up.
LEMMA GuessesAnswer ==
    ASSUME GuessInv, ApprovalInv, NEW r \in Requests,
           CountAttempt(r) \/ CloseChallenge(r) \/ Consume(r)
    PROVE  GuessInv'
<1>c. PICK c : c = req[r].c
  OBVIOUS
<1>0. /\ RequestsSound /\ req[r].at \in {"count", "close", "consume"}
      /\ Shaped(req[r]) /\ Sound(req[r], Issued)
  BY DEF ApprovalInv, RequestsSound, GuessInv, AllShaped, CountAttempt, CloseChallenge, Consume
<1>1. c \in Challenges /\ Row(challenge[c]) /\ challenge = [d \in Challenges |-> challenge[d]]
  BY <1>0, <1>c DEF Sound, AfterChoice, Issued, ApprovalInv, RowsKept
<1>2. ASSUME challenge' = [challenge EXCEPT ![c] = [challenge[c] EXCEPT !.open = FALSE]]
      PROVE  SameAttempts
  BY <1>1, <1>2 DEF Row, SameAttempts
<1>3. CASE CountAttempt(r)
  <2>1. /\ req[r].at = "count" /\ Refused(r)
        /\ challenge' = [challenge EXCEPT ![c] =
               [challenge[c] EXCEPT !.attempts = challenge[c].attempts + 1]]
    BY <1>3, <1>c DEF CountAttempt
  <2>2. MovesTo(r, "idle", "none", 0, 0, 0)
    BY <1>0, <2>1, Ends DEF Refused
  <2>3. /\ challenge'[c].attempts = challenge[c].attempts + 1
        /\ \A d \in Challenges \ {c} : challenge'[d].attempts = challenge[d].attempts
    BY <1>1, <2>1 DEF Row
  <2>4. StillCounts(req[r], c) /\ \A d \in Challenges : ~StillCounts(req'[r], d)
    BY <1>c, <2>1, <2>2 DEF StillCounts, MovesTo
  <2>5. req[r].op # "qrRedeem" /\ req[r].at \in Answering
    BY <1>0, <2>1 DEF Shaped, Answering, AfterChoice
  <2>6. KeyOf(req[r].op) \in Keys /\ Owes(req[r], KeyOf(req[r].op))
    BY <1>0, <2>5, OwedKey
  <2>7. Others(r) /\ Shaped(req'[r]) /\ \A key \in Keys : ~Owes(req'[r], key)
    BY <2>2 DEF MovesTo, Shaped, Owes, Answering, AfterChoice
  <2>8. AllShaped'
    BY <2>7, ShapedFrame DEF GuessInv
  <2>9. TriesKept'
    BY <2>1, <2>6, <2>7, TriesFrame DEF GuessInv, Refused
  <2>10. AttemptsKept'
    BY <1>1, <2>3, <2>4, <2>7, AttemptsFrame DEF GuessInv
  <2> QED
    BY <2>8, <2>9, <2>10 DEF GuessInv
<1>4. CASE CloseChallenge(r)
  <2>1. /\ req[r].at = "close" /\ Refused(r) /\ SameAttempts
    BY <1>2, <1>4, <1>c DEF CloseChallenge
  <2>2. req[r].op # "qrRedeem" /\ req[r].at \in Answering
    BY <1>0, <2>1 DEF Shaped, Answering, AfterChoice
  <2> QED
    BY <1>0, <2>1, <2>2, RefusalPays
<1>5. CASE Consume(r)
  <2>0. req[r].at = "consume" /\ req[r].at \in Answering
    BY <1>5 DEF Consume, Answering, AfterChoice
  <2>1. ASSUME StillOpen(c) PROVE GuessInv'
    <3>1. /\ SameAttempts /\ UNCHANGED tries
          /\ \E step \in {"setPassword", "createDevice", "issueSession"} : Go(r, step)
      BY <1>2, <1>5, <1>c, <2>1 DEF Consume
    <3>2. \A step \in {"setPassword", "createDevice", "issueSession"} :
              step \notin Answering \cup {"password", "forgot", "verify"}
      BY DEF Answering, AfterChoice
    <3> QED
      BY <1>0, <3>1, <3>2, GoingIsFree
  <2>2. ASSUME ~StillOpen(c) PROVE GuessInv'
    <3>1. /\ SameAttempts /\ Done(r)
          /\ IF req[r].op = "qrRedeem" THEN UNCHANGED tries ELSE add(KeyOf(req[r].op))
      BY <1>5, <1>c, <2>2 DEF Consume, SameAttempts
    <3>2. CASE req[r].op = "qrRedeem"
      BY <1>0, <3>1, <3>2, EndIsFree
    <3>3. CASE req[r].op # "qrRedeem"
      BY <1>0, <2>0, <3>1, <3>3, RefusalPays DEF Refused
    <3> QED
      BY <3>2, <3>3
  <2> QED
    BY <2>1, <2>2
<1> QED
  BY <1>3, <1>4, <1>5

\* Every other request that goes on or ends.
LEMMA GuessesContinue ==
    ASSUME GuessInv, RequestsSound, NEW r \in Requests,
           \/ authenticatePassword(r) \/ issueSession(r) \/ DropSession(r)
           \/ CreateDevice(r) \/ ForgotPassword(r) \/ ResetPassword(r) \/ Verify(r)
           \/ SetEmail2FA(r) \/ ReadEnabled(r) \/ StoreSecret(r) \/ EnableTOTP(r)
           \/ DisableTOTP(r) \/ StatementFails(r)
    PROVE  GuessInv'
<1>0. UNCHANGED challenge /\ SameAttempts
  BY DEF authenticatePassword, issueSession, DropSession, CreateDevice, ForgotPassword,
     ResetPassword, Verify, SetEmail2FA, ReadEnabled, StoreSecret, EnableTOTP, DisableTOTP,
     StatementFails, SameAttempts
<1> DEFINE Free(step) == step \notin Answering \cup {"password", "forgot", "verify"}
<1>a. ASSUME Done(r), UNCHANGED tries PROVE GuessInv'
  BY <1>0, <1>a, EndIsFree
<1>b. ASSUME NEW step, Go(r, step), Free(step), UNCHANGED tries PROVE GuessInv'
  BY <1>0, <1>b, GoingIsFree
<1>c. ASSUME NEW step, Go(r, step) \/ Done(r), Free(step),
             NEW key \in Keys, add(key), Owes(req[r], key)
      PROVE  GuessInv'
  <2>1. CASE Go(r, step)
    BY <1>0, <1>c, <2>1, StepsOn, DebtPaid
  <2>2. CASE Done(r)
    <3>1. Free("idle")
      BY DEF Answering, AfterChoice
    <3> QED
      BY <1>0, <1>c, <2>2, <3>1, Ends, DebtPaid
  <2> QED
    BY <1>c, <2>1, <2>2
<1>s. Shaped(req[r]) /\ Sound(req[r], Issued)
  BY DEF GuessInv, AllShaped, RequestsSound
<1>f. \A step \in {"startTOTPLogin", "startLogin2FA", "issueSession", "createDevice",
                   "dropSession", "createChallenge", "deleteSessions", "revokeDevices",
                   "setEmail2FA", "readEnabled", "enable", "disable", "refused",
                   "storeSecret"} : Free(step)
  BY DEF Answering, AfterChoice
<1> HIDE DEF Free
<1>1. CASE authenticatePassword(r)
  <2>1. req[r].at = "password"
    BY <1>1 DEF authenticatePassword
  <2>2. CASE Refused(r)
    <3>1. req[r].op # "qrRedeem"
      BY <1>s, <2>1 DEF Shaped
    <3> QED
      BY <1>0, <2>1, <2>2, <3>1, RefusalPays
  <2>3. CASE Go(r, AfterPassword(r)) /\ UNCHANGED tries
    <3>1. AfterPassword(r) \in {"startTOTPLogin", "startLogin2FA", "issueSession", "createDevice"}
      BY DEF AfterPassword
    <3> QED
      BY <1>b, <1>f, <2>3, <3>1
  <2> QED
    BY <1>1, <2>2, <2>3 DEF authenticatePassword
<1>2. CASE issueSession(r)
  <2>1. ASSUME NEW t \in Tokens, req' = [req EXCEPT ![r].at = "dropSession", ![r].t = t],
               UNCHANGED tries
        PROVE  GuessInv'
    <3>1. req'[r] = [req[r] EXCEPT !.at = "dropSession", !.t = t] /\ Others(r)
      BY <2>1 DEF RequestsSound, Others
    <3>2. MovesTo(r, "dropSession", req[r].op, req[r].c, req[r].s, req[r].k)
      BY <1>s, <3>1 DEF MovesTo, Sound
    <3>3. "dropSession" \notin Answering \cup {"password", "forgot", "verify"}
      BY DEF Answering, AfterChoice
    <3> QED
      BY <1>0, <2>1, <3>2, <3>3, FreeOfDebt
  <2> QED
    BY <1>2, <1>a, <2>1 DEF issueSession
<1>3. CASE DropSession(r)
  BY <1>3, <1>b, <1>f DEF DropSession
<1>4. CASE CreateDevice(r)
  BY <1>4, <1>a DEF CreateDevice
<1>5. CASE ForgotPassword(r)
  <2>1. Owes(req[r], "reset") /\ "reset" \in Keys
    BY <1>5 DEF ForgotPassword, Owes, Keys
  <2> QED
    BY <1>5, <1>c, <1>f, <2>1 DEF ForgotPassword
<1>6. CASE ResetPassword(r)
  BY <1>6, <1>a, <1>b, <1>f DEF ResetPassword
<1>7. CASE Verify(r)
  <2>1. /\ req[r].at = "verify" /\ add(req[r].op) /\ (Go(r, Verified(r)) \/ Done(r))
        /\ req[r].op \in SecurityOps
    BY <1>7, <1>s DEF Verify, Sound, SecurityOps
  <2>2. Verified(r) \in {"setEmail2FA", "readEnabled", "enable", "refused", "disable"}
    BY <2>1 DEF SecurityOps, Verified
  <2>3. Owes(req[r], req[r].op) /\ req[r].op \in Keys
    BY <2>1 DEF Owes, SecurityOps, Keys
  <2> QED
    BY <1>c, <1>f, <2>1, <2>2, <2>3
<1>8. CASE SetEmail2FA(r) \/ StoreSecret(r) \/ EnableTOTP(r) \/ DisableTOTP(r)
  BY <1>8, <1>a DEF SetEmail2FA, StoreSecret, EnableTOTP, DisableTOTP
<1>9. CASE ReadEnabled(r)
  BY <1>9, <1>a, <1>b, <1>f DEF ReadEnabled
<1>10. CASE StatementFails(r)
  <2>1. CASE Refused(r) /\ req[r].at \in {"password", "select", "match", "advance", "consume"}
             /\ req[r].op # "qrRedeem"
    BY <1>0, <2>1, RefusalPays DEF Answering, AfterChoice
  <2>2. CASE Done(r) /\ UNCHANGED tries
    BY <1>a, <2>2
  <2> QED
    BY <1>10, <2>1, <2>2 DEF StatementFails
<1> QED
  BY <1>1, <1>2, <1>3, <1>4, <1>5, <1>6, <1>7, <1>8, <1>9, <1>10

\* The older challenges are closed, or a new one inserted, which has no attempts.
LEMMA GuessesChallenge ==
    ASSUME GuessInv, ApprovalInv, NEW r \in Requests, NEW purpose,
           ConsumeOlder(r, purpose) \/ InsertChallenge(r, purpose),
           req[r].at \notin Answering \cup {"password", "forgot", "verify"}
    PROVE  GuessInv'
<1>0. /\ RequestsSound /\ Sound(req[r], Issued) /\ UNCHANGED tries
      /\ \A c \in Challenges : Row(challenge[c])
      /\ challenge = [c \in Challenges |-> challenge[c]]
  BY DEF ApprovalInv, RequestsSound, RowsKept, ConsumeOlder, InsertChallenge
<1>1. CASE ConsumeOlder(r, purpose)
  <2>1. req'[r] = [req[r] EXCEPT !.older = TRUE] /\ Others(r)
    BY <1>0, <1>1 DEF ConsumeOlder, RequestsSound, Others
  <2>2. MovesTo(r, req[r].at, req[r].op, req[r].c, req[r].s, req[r].k)
    BY <1>0, <2>1 DEF MovesTo, Sound
  <2>3. SameAttempts
    BY <1>0, <1>1 DEF ConsumeOlder, SameAttempts, Row
  <2> QED
    BY <1>0, <2>2, <2>3, FreeOfDebt
<1>2. CASE InsertChallenge(r, purpose)
  <2>1. PICK c : /\ challenge[c] = NoChallenge
                 /\ challenge' = [challenge EXCEPT ![c] = NewChallenge(r, purpose)]
    BY <1>2 DEF InsertChallenge
  <2>2. NewChallenge(r, purpose).attempts = NoChallenge.attempts
    BY DEF NewChallenge, NoChallenge
  <2>3. \A d \in Challenges :
          challenge'[d] = IF d = c THEN NewChallenge(r, purpose) ELSE challenge[d]
    BY <1>0, <2>1
  <2>4. SameAttempts
    BY <2>1, <2>2, <2>3 DEF SameAttempts
  <2> QED
    BY <1>0, <1>2, <2>4, EndIsFree DEF InsertChallenge
<1> QED
  BY <1>1, <1>2

\* No request moves.
LEMMA GuessesRest ==
    ASSUME GuessInv, UNCHANGED req, SameAttempts,
           UNCHANGED tries \/ \E key \in Keys : WindowPasses(key)
    PROVE  GuessInv'
<1>1. AllShaped'
  BY DEF GuessInv, AllShaped
<1>2. AttemptsKept'
  BY DEF GuessInv, AttemptsKept, Counting, SameAttempts
<1>3. \A key \in Keys : /\ Failing(key)' = Failing(key)
                        /\ Cardinality(Failing(key)) \in Nat
  BY SomeRequests DEF Failing
<1>4. TriesKept'
  <2>1. CASE UNCHANGED tries
    BY <1>3, <2>1 DEF GuessInv, TriesKept
  <2>2. ASSUME NEW key \in Keys, WindowPasses(key) PROVE TriesKept'
    <3>1. /\ Limit \in Nat /\ Cardinality(Requests) \in Nat
          /\ tries[key] \in Nat /\ DOMAIN tries = Keys
      BY AccountConstants, SomeRequests DEF GuessInv, TriesKept
    <3>2. /\ tries'[key] = tries[key] - 1 /\ tries'[key] \in Nat /\ DOMAIN tries' = Keys
          /\ \A other \in Keys \ {key} : tries'[other] = tries[other]
      BY <2>2, <3>1 DEF WindowPasses
    <3>3. ASSUME NEW other \in Keys
          PROVE  /\ tries'[other] \in Nat
                 /\ tries'[other] + Cardinality(Failing(other)')
                        < Limit + Cardinality(Requests)
      <4>1. /\ tries[other] \in Nat
            /\ tries[other] + Cardinality(Failing(other)) < Limit + Cardinality(Requests)
        BY DEF GuessInv, TriesKept
      <4>2. CASE other = key
        BY <1>3, <3>1, <3>2, <4>1, <4>2
      <4>3. CASE other # key
        BY <1>3, <3>1, <3>2, <4>1, <4>3
      <4> QED
        BY <4>2, <4>3
    <3> QED
      BY <3>2, <3>3 DEF TriesKept
  <2> QED
    BY <2>1, <2>2
<1> QED
  BY <1>1, <1>2, <1>4 DEF GuessInv

LEMMA GuessesStep ==
    ASSUME GuessInv, ApprovalInv, AccountsNext
    PROVE  GuessInv'
<1>0. RequestsSound
  BY DEF ApprovalInv
<1>1. ASSUME NEW r \in Requests,
             startLogin2FA(r) \/ startTOTPLogin(r) \/ createChallenge(r) \/ createQR(r)
      PROVE  GuessInv'
  <2>1. /\ req[r].at \in {"startLogin2FA", "startTOTPLogin", "createChallenge", "createQR"}
        /\ \E purpose : ConsumeOlder(r, purpose) \/ InsertChallenge(r, purpose)
    BY <1>1 DEF startLogin2FA, startTOTPLogin, createChallenge, createQR, Challenge
  <2>2. req[r].at \notin Answering \cup {"password", "forgot", "verify"}
    BY <2>1 DEF Answering, AfterChoice
  <2> QED
    BY <2>1, <2>2, GuessesChallenge
<1>2. ASSUME NEW t \in Tokens, Logout(t) \/ RevokeDevice(t) PROVE GuessInv'
  BY <1>2, GuessesRest DEF Logout, RevokeDevice, SameAttempts
<1>3. ASSUME NEW c \in Challenges, Expire(c) PROVE GuessInv'
  <2>1. SameAttempts
    BY <1>3 DEF Expire, SameAttempts, ApprovalInv, RowsKept, Row
  <2> QED
    BY <1>3, <2>1, GuessesRest DEF Expire
<1>4. ASSUME NEW key \in Keys, WindowPasses(key) PROVE GuessInv'
  BY <1>4, GuessesRest DEF WindowPasses, SameAttempts
<1>5. ASSUME Tick PROVE GuessInv'
  BY <1>5, GuessesRest DEF Tick, SameAttempts
<1> QED
  BY <1>0, <1>1, <1>2, <1>3, <1>4, <1>5, GuessesBegin, GuessesSelect, GuessesCompare,
     GuessesAnswer, GuessesContinue DEF AccountsNext

LEMMA GuessesInit == AccountsInit => GuessInv
<1> SUFFICES ASSUME AccountsInit PROVE GuessInv
  OBVIOUS
<1>1. \A r \in Requests : req[r] = Idle
  BY DEF AccountsInit
<1>2. AllShaped
  BY <1>1 DEF AllShaped, Shaped, Idle, Answering, AfterChoice
<1>3. \A key \in Keys : Failing(key) = {}
  BY <1>1 DEF Failing, Owes, Idle, Answering, AfterChoice, Keys
<1>4. \A c \in Challenges : Counting(c) = {}
  BY <1>1 DEF Counting, StillCounts, Idle
<1>5. /\ Limit \in Nat \ {0} /\ MaxAttempts \in Nat \ {0} /\ Cardinality(Requests) \in Nat
      /\ Cardinality({}) = 0
  BY AccountConstants, SomeRequests, FS_EmptySet
<1>6. AttemptsKept
  <2>1. \A c \in Challenges : challenge[c].attempts = 0
    BY DEF AccountsInit, NoChallenge
  <2>2. \A c \in Challenges : Cardinality(Counting(c)) = 0
    BY <1>4, <1>5
  <2> QED
    BY <1>5, <2>1, <2>2 DEF AttemptsKept
<1>7. TriesKept
  <2>1. DOMAIN tries = Keys /\ \A key \in Keys : tries[key] = 0
    BY DEF AccountsInit
  <2>2. \A key \in Keys : Cardinality(Failing(key)) = 0
    BY <1>3, <1>5
  <2> QED
    BY <1>5, <2>1, <2>2 DEF TriesKept
<1> QED
  BY <1>2, <1>6, <1>7 DEF GuessInv

LEMMA GuessesSteps == GuessInv /\ ApprovalInv /\ [AccountsNext]_accountVars => GuessInv'
<1> SUFFICES ASSUME GuessInv, ApprovalInv, UNCHANGED accountVars PROVE GuessInv'
  BY GuessesStep
<1> QED
  BY GuessesRest DEF accountVars, SameAttempts

\* Wrong codes pass the limit of a challenge and of an address by fewer than the
\* requests that overlap (consumeChallenge, loginLimiter).
THEOREM GuessesStayBounded == AccountsSpec => []GuessesBounded
<1>1. GuessInv /\ ApprovalInv /\ [AccountsNext]_accountVars => GuessInv'
  BY GuessesSteps
<1>2. GuessInv => GuessesBounded
  <2> SUFFICES ASSUME GuessInv PROVE GuessesBounded
    OBVIOUS
  <2>0. Limit \in Nat /\ MaxAttempts \in Nat /\ Cardinality(Requests) \in Nat
    BY AccountConstants, SomeRequests
  <2>1. ASSUME NEW c \in Challenges
        PROVE  challenge[c].attempts <= MaxAttempts + Cardinality(Requests) - 1
    <3>1. Cardinality(Counting(c)) \in Nat
      BY SomeRequests DEF Counting
    <3> QED
      BY <2>0, <3>1 DEF GuessInv, AttemptsKept
  <2>2. ASSUME NEW key \in Keys
        PROVE  tries[key] <= Limit + Cardinality(Requests) - 1
    <3>1. Cardinality(Failing(key)) \in Nat
      BY SomeRequests DEF Failing
    <3> QED
      BY <2>0, <3>1 DEF GuessInv, TriesKept
  <2> QED
    BY <2>1, <2>2 DEF GuessesBounded
<1> QED
  BY <1>1, <1>2, GuessesInit, ApprovalInvariant, PTL DEF AccountsSpec

-----------------------------------------------------------------------------
(***************************************************************************)
(* Codes of the authenticator.  A code is a secret and a period; it is     *)
(* taken when a login has moved the counter up to it and is on its way to  *)
(* consume the challenge, and used when it has.  The counter is never      *)
(* behind a taken or used code of the secret of now, and moves up only, so *)
(* the code it moves to is a new one.  When the secret changes the counter *)
(* starts again, and no code of the new secret is taken or used yet: that  *)
(* is where the overlaps come in, which write with a secret that is not    *)
(* the enabled one.                                                        *)
(***************************************************************************)
Taken(r) == req[r].at = "consume" /\ challenge[req[r].c].purpose = "login_totp"

IsCode(s, k) ==
    \/ <<s, k>> \in marks.used
    \/ \E r \in Requests : Taken(r) /\ req[r].s = s /\ req[r].k = k

\* The row has its columns, its secrets were generated in turn, and the codes of
\* the requests and of the past were made from one of them.
SecretsNumbered ==
    /\ DOMAIN account = {"pw", "email2FA", "totp", "secret", "last", "secrets"}
    /\ DOMAIN marks = {"proved", "used", "again", "overlap"}
    /\ marks.overlap \in BOOLEAN
    /\ account.secrets \in Nat /\ account.secret \in 0 .. account.secrets
    /\ account.last \in Int
    /\ \A r \in Requests : req[r].s \in 0 .. account.secrets /\ req[r].k \in Int
    /\ \A s, k : IsCode(s, k) => s \in 1 .. account.secrets /\ k \in Int

\* Only the pending login of an authenticator is compared with its codes.
Compared ==
    \A r \in Requests :
        /\ req[r].at \in {"match", "advance"} => challenge[req[r].c].purpose = "login_totp"
        /\ req[r].at = "advance" => req[r].s # 0

CodesOnce ==
    /\ account.totp => account.secret = marks.proved
    /\ ~marks.again
    /\ \A s, k : IsCode(s, k) /\ s = account.secret => account.totp /\ k <= account.last
    /\ \A r \in Requests : Taken(r) => <<req[r].s, req[r].k>> \notin marks.used
    /\ \A r, q \in Requests :
          Taken(r) /\ Taken(q) /\ r # q => <<req[r].s, req[r].k>> # <<req[q].s, req[q].k>>

CodesInv ==
    /\ SecretsNumbered
    /\ Compared
    /\ ~marks.overlap => CodesOnce

-----------------------------------------------------------------------------
\* The purpose of a row that has been inserted stays.
SamePurposes == \A c \in Issued : challenge'[c].purpose = challenge[c].purpose

LEMMA PurposesStay ==
    ASSUME ApprovalInv, AccountsNext
    PROVE  SamePurposes
<1>0. /\ \A c \in Challenges : Row(challenge[c])
      /\ challenge = [c \in Challenges |-> challenge[c]]
  BY DEF ApprovalInv, RowsKept
<1>a. ASSUME UNCHANGED challenge PROVE SamePurposes
  BY <1>a DEF SamePurposes
<1>b. ASSUME NEW d \in Challenges, NEW row, challenge' = [challenge EXCEPT ![d] = row],
             row.purpose = challenge[d].purpose
      PROVE  SamePurposes
  BY <1>0, <1>b DEF SamePurposes, Issued
<1>c. ASSUME NEW d \in Challenges,
             challenge' = [challenge EXCEPT ![d] = [challenge[d] EXCEPT !.open = FALSE]]
      PROVE  SamePurposes
  BY <1>0, <1>b, <1>c DEF Row
<1>1. ASSUME NEW r \in Requests,
             startLogin2FA(r) \/ startTOTPLogin(r) \/ createChallenge(r) \/ createQR(r)
      PROVE  SamePurposes
  <2>1. PICK purpose : ConsumeOlder(r, purpose) \/ InsertChallenge(r, purpose)
    BY <1>1 DEF startLogin2FA, startTOTPLogin, createChallenge, createQR, Challenge
  <2>2. CASE ConsumeOlder(r, purpose)
    BY <1>0, <2>2 DEF ConsumeOlder, Row, SamePurposes, Issued
  <2>3. CASE InsertChallenge(r, purpose)
    <3>1. PICK d : /\ challenge[d] = NoChallenge
                   /\ challenge' = [challenge EXCEPT ![d] = NewChallenge(r, purpose)]
      BY <2>3 DEF InsertChallenge
    <3> QED
      BY <1>0, <3>1 DEF SamePurposes, Issued
  <2> QED
    BY <2>1, <2>2, <2>3
<1>2. ASSUME NEW r \in Requests, CountAttempt(r) \/ CloseChallenge(r) \/ Consume(r)
      PROVE  SamePurposes
  <2>0. PICK c : c = req[r].c
    OBVIOUS
  <2>1. c \in Challenges
    BY <1>2, <2>0 DEF CountAttempt, CloseChallenge, Consume, ApprovalInv, RequestsSound,
       Sound, AfterChoice, Issued
  <2>2. \/ UNCHANGED challenge
        \/ challenge' = [challenge EXCEPT ![c] =
               [challenge[c] EXCEPT !.attempts = challenge[c].attempts + 1]]
        \/ challenge' = [challenge EXCEPT ![c] = [challenge[c] EXCEPT !.open = FALSE]]
    BY <1>2, <2>0 DEF CountAttempt, CloseChallenge, Consume
  <2>3. \A x : [challenge[c] EXCEPT !.attempts = x].purpose = challenge[c].purpose
    BY <1>0, <2>1 DEF Row
  <2> QED
    BY <1>a, <1>b, <1>c, <2>1, <2>2, <2>3
<1>3. ASSUME NEW c \in Challenges, Expire(c) PROVE SamePurposes
  BY <1>0, <1>b, <1>3 DEF Expire, Row
<1>4. ASSUME NEW r \in Requests,
             \/ Login(r) \/ DeviceLogin(r) \/ Login2FA(r) \/ DeviceLogin2FA(r)
             \/ Devices(r) \/ CreateQRLogin(r) \/ RedeemQRLogin(r)
             \/ ForgotRequest(r) \/ ResetRequest(r)
             \/ Security(r) \/ TOTPSetup(r) \/ TOTPEnable(r) \/ TOTPDisable(r)
      PROVE  SamePurposes
  BY <1>4, <1>a, Begins DEF ApprovalInv
<1>5. ASSUME NEW r \in Requests,
             \/ authenticatePassword(r) \/ SelectChallenge(r) \/ MatchTOTP(r)
             \/ AdvanceCounter(r) \/ issueSession(r) \/ DropSession(r) \/ CreateDevice(r)
             \/ ForgotPassword(r) \/ ResetPassword(r) \/ Verify(r) \/ SetEmail2FA(r)
             \/ ReadEnabled(r) \/ StoreSecret(r) \/ EnableTOTP(r) \/ DisableTOTP(r)
             \/ StatementFails(r)
      PROVE  SamePurposes
  BY <1>5, <1>a DEF authenticatePassword, SelectChallenge, MatchTOTP, AdvanceCounter,
     issueSession, DropSession, CreateDevice, ForgotPassword, ResetPassword, Verify,
     SetEmail2FA, ReadEnabled, StoreSecret, EnableTOTP, DisableTOTP, StatementFails
<1>6. ASSUME (\E t \in Tokens : Logout(t) \/ RevokeDevice(t))
             \/ (\E key \in Keys : WindowPasses(key)) \/ Tick
      PROVE  SamePurposes
  BY <1>6, <1>a DEF Logout, RevokeDevice, WindowPasses, Tick
<1> QED
  BY <1>1, <1>2, <1>3, <1>4, <1>5, <1>6 DEF AccountsNext

-----------------------------------------------------------------------------
(* Steps that take no code. *)

\* After the step this request has taken no code.
TakesNone(r) == req'[r].at = "consume" => challenge'[req'[r].c].purpose # "login_totp"

\* What the requests have taken only gets less.
LEMMA TakenLess ==
    ASSUME RequestsSound, SamePurposes, NEW r \in Requests, Others(r), TakesNone(r),
           NEW q \in Requests, Taken(q)'
    PROVE  q # r /\ req'[q] = req[q] /\ Taken(q)
<1>1. q # r
  BY DEF Taken, TakesNone
<1>2. req'[q] = req[q]
  BY <1>1 DEF Others
<1>3. req[q].c \in Issued
  BY <1>2 DEF Taken, RequestsSound, Sound, AfterChoice
<1> QED
  BY <1>1, <1>2, <1>3 DEF Taken, SamePurposes

LEMMA CodesLess ==
    ASSUME RequestsSound, SamePurposes, NEW r \in Requests, Others(r), TakesNone(r),
           marks'.used = marks.used, NEW s, NEW k, IsCode(s, k)'
    PROVE  IsCode(s, k)
<1>1. CASE <<s, k>> \in marks'.used
  BY <1>1 DEF IsCode
<1>2. ASSUME NEW q \in Requests, Taken(q)', req'[q].s = s, req'[q].k = k
      PROVE  IsCode(s, k)
  BY <1>2, TakenLess DEF IsCode
<1> QED
  BY <1>1, <1>2 DEF IsCode

\* The account and the past stay as far as codes are concerned.
SameAuthenticator ==
    /\ DOMAIN account' = DOMAIN account
    /\ account'.totp = account.totp /\ account'.secret = account.secret
    /\ account'.last = account.last /\ account'.secrets = account.secrets
    /\ UNCHANGED marks

\* The rest of the invariant for one request.
HoldsCode(work, secrets) == work.s \in 0 .. secrets /\ work.k \in Int

ComparesNow(r) ==
    /\ req'[r].at \in {"match", "advance"} =>
           challenge'[req'[r].c].purpose = "login_totp"
    /\ req'[r].at = "advance" => req'[r].s # 0

LEMMA ComparedFrame ==
    ASSUME Compared, RequestsSound, SamePurposes, NEW r \in Requests, Others(r),
           ComparesNow(r)
    PROVE  Compared'
<1>1. ASSUME NEW q \in Requests PROVE ComparesNow(q)
  <2>1. CASE q = r
    BY <2>1
  <2>2. CASE q # r
    <3>1. req'[q] = req[q]
      BY <2>2 DEF Others
    <3>2. req[q].at \in {"match", "advance"} => req[q].c \in Issued
      BY DEF RequestsSound, Sound, AfterChoice
    <3> QED
      BY <3>1, <3>2 DEF Compared, SamePurposes, ComparesNow
  <2> QED
    BY <2>1, <2>2
<1> QED
  BY <1>1 DEF Compared, ComparesNow

LEMMA CodesFrame ==
    ASSUME CodesInv, RequestsSound, SamePurposes, SameAuthenticator,
           NEW r \in Requests, Others(r), TakesNone(r), ComparesNow(r),
           HoldsCode(req'[r], account.secrets)
    PROVE  CodesInv'
<1>1. Compared'
  BY ComparedFrame DEF CodesInv
<1>2. \A s, k : IsCode(s, k)' => IsCode(s, k)
  BY CodesLess DEF SameAuthenticator
<1>3. SecretsNumbered'
  <2>1. \A q \in Requests : HoldsCode(req'[q], account.secrets)
    BY DEF CodesInv, SecretsNumbered, HoldsCode, Others
  <2>2. \A s, k : IsCode(s, k)' => s \in 1 .. account.secrets /\ k \in Int
    BY <1>2 DEF CodesInv, SecretsNumbered
  <2> QED
    BY <2>1, <2>2 DEF CodesInv, SecretsNumbered, HoldsCode, SameAuthenticator
<1>4. ASSUME ~marks'.overlap PROVE CodesOnce'
  <2>0. CodesOnce
    BY <1>4 DEF CodesInv, SameAuthenticator
  <2>1. \A q \in Requests : Taken(q)' => Taken(q) /\ req'[q] = req[q]
    BY TakenLess
  <2>2. \A s, k : IsCode(s, k)' /\ s = account.secret => account.totp /\ k <= account.last
    BY <1>2, <2>0 DEF CodesOnce
  <2>3. \A q \in Requests : Taken(q)' => <<req'[q].s, req'[q].k>> \notin marks.used
    BY <2>0, <2>1 DEF CodesOnce
  <2>4. \A q, p \in Requests : Taken(q)' /\ Taken(p)' /\ q # p =>
            <<req'[q].s, req'[q].k>> # <<req'[p].s, req'[p].k>>
    BY <2>0, <2>1 DEF CodesOnce
  <2> QED
    BY <2>0, <2>2, <2>3, <2>4 DEF CodesOnce, SameAuthenticator
<1> QED
  BY <1>1, <1>3, <1>4 DEF CodesInv

\* No request moves.
LEMMA CodesRest ==
    ASSUME CodesInv, RequestsSound, SamePurposes, UNCHANGED <<req, account, marks>>
    PROVE  CodesInv'
<1>1. ASSUME NEW q \in Requests, req[q].at \in AfterChoice
      PROVE  challenge'[req[q].c].purpose = challenge[req[q].c].purpose
  BY <1>1 DEF RequestsSound, Sound, SamePurposes
<1>2. \A q \in Requests : Taken(q)' <=> Taken(q)
  BY <1>1 DEF Taken, AfterChoice
<1>3. \A s, k : IsCode(s, k)' <=> IsCode(s, k)
  BY <1>2 DEF IsCode
<1>4. Compared'
  BY <1>1 DEF CodesInv, Compared, AfterChoice
<1>5. SecretsNumbered'
  BY <1>3 DEF CodesInv, SecretsNumbered
<1>6. CodesOnce => CodesOnce'
  BY <1>2, <1>3 DEF CodesOnce
<1> QED
  BY <1>4, <1>5, <1>6 DEF CodesInv

\* A request ends, or goes on to a step that compares and consumes nothing.
LEMMA CodesLeave ==
    ASSUME CodesInv, RequestsSound, SamePurposes, SameAuthenticator,
           NEW r \in Requests, NEW step,
           step \notin {"match", "advance", "consume"}, Go(r, step) \/ Done(r)
    PROVE  CodesInv'
<1>1. /\ Others(r) /\ req'[r].at \notin {"match", "advance", "consume"}
      /\ HoldsCode(req'[r], account.secrets)
  <2>0. HoldsCode(req[r], account.secrets) /\ account.secrets \in Nat
    BY DEF CodesInv, SecretsNumbered, HoldsCode
  <2>1. CASE Go(r, step)
    <3>1. MovesTo(r, step, req[r].op, req[r].c, req[r].s, req[r].k)
      BY <2>1, StepsOn
    <3> QED
      BY <2>0, <3>1 DEF MovesTo, HoldsCode
  <2>2. CASE Done(r)
    <3>1. MovesTo(r, "idle", "none", 0, 0, 0)
      BY <2>2, Ends
    <3> QED
      BY <2>0, <3>1 DEF MovesTo, HoldsCode
  <2> QED
    BY <2>1, <2>2
<1>2. TakesNone(r) /\ ComparesNow(r)
  BY <1>1 DEF TakesNone, ComparesNow
<1> QED
  BY <1>1, <1>2, CodesFrame

LEMMA CodesBegin ==
    ASSUME CodesInv, RequestsSound, NEW r \in Requests,
           \/ Login(r) \/ DeviceLogin(r) \/ Login2FA(r) \/ DeviceLogin2FA(r)
           \/ Devices(r) \/ CreateQRLogin(r) \/ RedeemQRLogin(r)
           \/ ForgotRequest(r) \/ ResetRequest(r)
           \/ Security(r) \/ TOTPSetup(r) \/ TOTPEnable(r) \/ TOTPDisable(r)
    PROVE  CodesInv'
<1>1. PICK at, op, c, s, k : Started(r, at, op, c, s, k)
  BY Begins
<1>2. UNCHANGED <<account, challenge, marks>>
  BY Begins
<1>3. SameAuthenticator /\ SamePurposes
  BY <1>2 DEF SameAuthenticator, SamePurposes
<1>4. Others(r) /\ TakesNone(r) /\ ComparesNow(r)
  BY <1>1, <1>2 DEF Started, MovesTo, TakesNone, ComparesNow
<1>5. HoldsCode(req'[r], account.secrets)
  BY <1>1 DEF Started, MovesTo, HoldsCode, CodesInv, SecretsNumbered
<1> QED
  BY <1>3, <1>4, <1>5, CodesFrame

LEMMA CodesSelect ==
    ASSUME CodesInv, RequestsSound, NEW r \in Requests, SelectChallenge(r)
    PROVE  CodesInv'
<1>0. SameAuthenticator /\ SamePurposes /\ UNCHANGED challenge
  BY DEF SelectChallenge, SameAuthenticator, SamePurposes
<1>1. CASE Done(r)
  <2>1. "none" \notin {"match", "advance", "consume"}
    OBVIOUS
  <2> QED
    BY <1>0, <1>1, <2>1, CodesLeave
<1>2. ASSUME NEW c \in Challenges, NEW step,
             req' = [req EXCEPT ![r].c = c, ![r].at = step],
             step = "match" => challenge[c].purpose = "login_totp",
             step = "consume" => challenge[c].purpose # "login_totp",
             step # "advance"
      PROVE  CodesInv'
  <2>1. Sound(req[r], Issued)
    BY DEF RequestsSound
  <2>2. req'[r] = [req[r] EXCEPT !.c = c, !.at = step] /\ Others(r)
    BY <1>2 DEF RequestsSound, Others
  <2>3. /\ req'[r].at = step /\ req'[r].c = c
        /\ req'[r].s = req[r].s /\ req'[r].k = req[r].k
    BY <2>1, <2>2 DEF Sound
  <2>4. TakesNone(r) /\ ComparesNow(r)
    BY <1>0, <1>2, <2>3 DEF TakesNone, ComparesNow
  <2>5. HoldsCode(req'[r], account.secrets)
    BY <2>3 DEF HoldsCode, CodesInv, SecretsNumbered
  <2> QED
    BY <1>0, <2>2, <2>4, <2>5, CodesFrame
<1>3. ASSUME NEW c \in Challenges,
             req' = [req EXCEPT ![r].c = c,
                 ![r].at = IF Exhausted(c) THEN "close"
                           ELSE IF challenge[c].purpose = "login_totp" THEN "match"
                           ELSE IF req[r].right THEN "consume" ELSE "count"]
      PROVE  CodesInv'
  <2> DEFINE step == IF Exhausted(c) THEN "close"
                     ELSE IF challenge[c].purpose = "login_totp" THEN "match"
                     ELSE IF req[r].right THEN "consume" ELSE "count"
  <2>1. req' = [req EXCEPT ![r].c = c, ![r].at = step]
    BY <1>3
  <2>2. /\ step = "match" => challenge[c].purpose = "login_totp"
        /\ step = "consume" => challenge[c].purpose # "login_totp"
        /\ step # "advance"
    OBVIOUS
  <2> HIDE DEF step
  <2> QED
    BY <1>2, <2>1, <2>2
<1> QED
  BY <1>1, <1>3 DEF SelectChallenge, Refused

LEMMA CodesMatch ==
    ASSUME CodesInv, RequestsSound, NEW r \in Requests, MatchTOTP(r)
    PROVE  CodesInv'
<1>0. /\ SameAuthenticator /\ SamePurposes /\ UNCHANGED challenge
      /\ challenge[req[r].c].purpose = "login_totp"
  BY DEF MatchTOTP, SameAuthenticator, SamePurposes, CodesInv, Compared
<1>1. CASE Go(r, "count")
  BY <1>0, <1>1, CodesLeave
<1>2. CASE Go(r, "advance") /\ Match(req[r].s, req[r].k, account.last)
  <2>1. MovesTo(r, "advance", req[r].op, req[r].c, req[r].s, req[r].k)
    BY <1>2, StepsOn
  <2>2. Others(r) /\ TakesNone(r) /\ ComparesNow(r)
    BY <1>0, <1>2, <2>1 DEF MovesTo, TakesNone, ComparesNow, Match
  <2>3. HoldsCode(req'[r], account.secrets)
    BY <2>1 DEF MovesTo, HoldsCode, CodesInv, SecretsNumbered
  <2> QED
    BY <1>0, <2>2, <2>3, CodesFrame
<1> QED
  BY <1>1, <1>2 DEF MatchTOTP

\* The counter moves to a code that is new.
LEMMA CodesAdvance ==
    ASSUME CodesInv, RequestsSound, NEW r \in Requests, AdvanceCounter(r)
    PROVE  CodesInv'
<1>0. SamePurposes /\ UNCHANGED challenge
  BY DEF AdvanceCounter, SamePurposes
<1>1. CASE Done(r) /\ UNCHANGED <<account, marks>>
  <2>1. "none" \notin {"match", "advance", "consume"} /\ SameAuthenticator
    BY <1>1 DEF SameAuthenticator
  <2> QED
    BY <1>0, <1>1, <2>1, CodesLeave
<1>2. CASE /\ account.last < req[r].k
           /\ account' = [account EXCEPT !.last = req[r].k]
           /\ marks' = [marks EXCEPT !.overlap =
                            marks.overlap \/ account.secret # req[r].s \/ ~account.totp]
           /\ Go(r, "consume")
  <2>s. PICK s, k : s = req[r].s /\ k = req[r].k
    OBVIOUS
  <2>1. SecretsNumbered /\ Compared
    BY DEF CodesInv
  <2>2. MovesTo(r, "consume", req[r].op, req[r].c, s, k)
    BY <1>2, <2>s, StepsOn
  <2>3. /\ DOMAIN account' = DOMAIN account /\ account'.totp = account.totp
        /\ account'.secret = account.secret /\ account'.last = k
        /\ account'.secrets = account.secrets
    BY <1>2, <2>1, <2>s DEF SecretsNumbered
  <2>4. /\ DOMAIN marks' = DOMAIN marks /\ marks'.used = marks.used
        /\ marks'.proved = marks.proved /\ marks'.again = marks.again
        /\ marks'.overlap = (marks.overlap \/ account.secret # s \/ ~account.totp)
    BY <1>2, <2>1, <2>s DEF SecretsNumbered
  <2>5. /\ s \in 1 .. account.secrets /\ k \in Int /\ account.last < k
        /\ account.last \in Int
    <3>1. req[r].at = "advance"
      BY DEF AdvanceCounter
    <3>2. s # 0 /\ s \in 0 .. account.secrets /\ k \in Int
      BY <2>1, <2>s, <3>1 DEF Compared, SecretsNumbered
    <3> QED
      BY <1>2, <2>1, <2>s, <3>2 DEF SecretsNumbered
  <2>6. \A q \in Requests : Taken(q)' /\ q # r => Taken(q) /\ req'[q] = req[q]
    BY <1>0, <2>2 DEF Taken, MovesTo, Others
  <2>7. \A x, y : IsCode(x, y)' => IsCode(x, y) \/ (x = s /\ y = k)
    <3> SUFFICES ASSUME NEW x, NEW y, IsCode(x, y)' PROVE IsCode(x, y) \/ (x = s /\ y = k)
      OBVIOUS
    <3>1. ASSUME NEW q \in Requests, Taken(q)', req'[q].s = x, req'[q].k = y
          PROVE  IsCode(x, y) \/ (x = s /\ y = k)
      <4>1. CASE q = r
        BY <2>2, <3>1, <4>1 DEF MovesTo
      <4>2. CASE q # r
        BY <2>6, <3>1, <4>2 DEF IsCode
      <4> QED
        BY <4>1, <4>2
    <3>2. CASE <<x, y>> \in marks'.used
      BY <2>4, <3>2 DEF IsCode
    <3> QED
      BY <3>1, <3>2 DEF IsCode
  <2>8. Compared'
    <3>1. ComparesNow(r) /\ Others(r)
      BY <2>2 DEF ComparesNow, MovesTo
    <3> QED
      BY <1>0, <2>1, <3>1, ComparedFrame
  <2>9. SecretsNumbered'
    <3>1. \A q \in Requests : req'[q].s \in 0 .. account.secrets /\ req'[q].k \in Int
      <4>1. s \in 0 .. account.secrets
        BY <2>1, <2>5 DEF SecretsNumbered
      <4>2. ASSUME NEW q \in Requests PROVE req'[q].s \in 0 .. account.secrets /\ req'[q].k \in Int
        <5>1. CASE q = r
          BY <2>2, <2>5, <4>1, <5>1 DEF MovesTo
        <5>2. CASE q # r
          BY <2>1, <2>2, <5>2 DEF MovesTo, Others, SecretsNumbered
        <5> QED
          BY <5>1, <5>2
      <4> QED
        BY <4>2
    <3>2. \A x, y : IsCode(x, y)' => x \in 1 .. account.secrets /\ y \in Int
      BY <2>1, <2>5, <2>7 DEF SecretsNumbered
    <3>3. marks'.overlap \in BOOLEAN
      BY <2>1, <2>4 DEF SecretsNumbered
    <3> QED
      BY <2>1, <2>3, <2>4, <2>5, <3>1, <3>2, <3>3 DEF SecretsNumbered
  <2>10. ASSUME ~marks'.overlap PROVE CodesOnce'
    <3>1. CodesOnce /\ account.secret = s /\ account.totp
      BY <2>4, <2>10 DEF CodesInv
    <3>2. ~IsCode(s, k)
      BY <2>5, <3>1 DEF CodesOnce
    <3>3. \A x, y : IsCode(x, y)' /\ x = account.secret => account.totp /\ y <= k
      <4> SUFFICES ASSUME NEW x, NEW y, IsCode(x, y)', x = account.secret
                   PROVE  account.totp /\ y <= k
        OBVIOUS
      <4>1. CASE IsCode(x, y)
        <5>1. y <= account.last
          BY <3>1, <4>1 DEF CodesOnce
        <5>2. y \in Int
          BY <2>1, <4>1 DEF SecretsNumbered
        <5> QED
          BY <2>5, <3>1, <5>1, <5>2
      <4>2. CASE y = k
        BY <2>5, <3>1, <4>2
      <4> QED
        BY <2>7, <4>1, <4>2
    <3>4. \A q \in Requests : Taken(q)' => <<req'[q].s, req'[q].k>> \notin marks.used
      <4>1. <<s, k>> \notin marks.used
        BY <3>2 DEF IsCode
      <4>2. ASSUME NEW q \in Requests, Taken(q)' PROVE <<req'[q].s, req'[q].k>> \notin marks.used
        <5>1. CASE q = r
          BY <2>2, <4>1, <5>1 DEF MovesTo
        <5>2. CASE q # r
          BY <2>6, <3>1, <4>2, <5>2 DEF CodesOnce
        <5> QED
          BY <5>1, <5>2
      <4> QED
        BY <4>2
    <3>5. ASSUME NEW q \in Requests, NEW p \in Requests, Taken(q)', Taken(p)', q # p
          PROVE  <<req'[q].s, req'[q].k>> # <<req'[p].s, req'[p].k>>
      <4>1. \A o \in Requests : Taken(o)' /\ o # r => <<req'[o].s, req'[o].k>> # <<s, k>>
        BY <2>6, <3>2 DEF IsCode
      <4>2. req'[r].s = s /\ req'[r].k = k
        BY <2>2 DEF MovesTo
      <4>3. CASE q = r
        BY <3>5, <4>1, <4>2, <4>3
      <4>4. CASE p = r
        BY <3>5, <4>1, <4>2, <4>4
      <4>5. CASE q # r /\ p # r
        BY <2>6, <3>1, <3>5, <4>5 DEF CodesOnce
      <4> QED
        BY <4>3, <4>4, <4>5
    <3> QED
      BY <2>3, <2>4, <3>1, <3>3, <3>4, <3>5 DEF CodesOnce
  <2> QED
    BY <2>8, <2>9, <2>10 DEF CodesInv
<1> QED
  BY <1>1, <1>2 DEF AdvanceCounter, Refused, NotYetUsed

\* A taken code is used, for the first time.
LEMMA CodesConsume ==
    ASSUME CodesInv, ApprovalInv, SamePurposes, NEW r \in Requests, Consume(r)
    PROVE  CodesInv'
<1>0. RequestsSound /\ UNCHANGED account
  BY DEF ApprovalInv, Consume
<1>n. "none" \notin {"match", "advance", "consume"}
  OBVIOUS
<1>1. CASE UNCHANGED marks
  <2>1. /\ SameAuthenticator
        /\ Done(r) \/ \E step \in {"setPassword", "createDevice", "issueSession"} : Go(r, step)
    BY <1>0, <1>1 DEF SameAuthenticator, Consume
  <2> QED
    BY <1>0, <1>n, <2>1, CodesLeave
<1>2. CASE ~UNCHANGED marks
  <2>s. PICK s, k : s = req[r].s /\ k = req[r].k
    OBVIOUS
  <2>1. /\ Taken(r) /\ \E step \in {"setPassword", "createDevice", "issueSession"} : Go(r, step)
        /\ marks' = [marks EXCEPT !.used = marks.used \cup {<<s, k>>},
                                  !.again = marks.again \/ <<s, k>> \in marks.used]
    BY <1>2, <2>s DEF Consume, CodeUsed, Taken
  <2>2. SecretsNumbered /\ Compared
    BY DEF CodesInv
  <2>3. /\ DOMAIN marks' = DOMAIN marks /\ marks'.used = marks.used \cup {<<s, k>>}
        /\ marks'.proved = marks.proved /\ marks'.overlap = marks.overlap
        /\ marks'.again = (marks.again \/ <<s, k>> \in marks.used)
    BY <2>1, <2>2 DEF SecretsNumbered
  <2>4. PICK step \in {"setPassword", "createDevice", "issueSession"} :
          MovesTo(r, step, req[r].op, req[r].c, s, k)
    BY <1>0, <2>1, <2>s, StepsOn
  <2>5. Others(r) /\ TakesNone(r) /\ ComparesNow(r)
    BY <2>4 DEF MovesTo, TakesNone, ComparesNow
  <2>6. \A q \in Requests : Taken(q)' => q # r /\ Taken(q) /\ req'[q] = req[q]
    BY <1>0, <2>5, TakenLess
  <2>7. \A x, y : IsCode(x, y)' => IsCode(x, y)
    <3>1. IsCode(s, k)
      BY <2>1, <2>s DEF IsCode
    <3> SUFFICES ASSUME NEW x, NEW y, IsCode(x, y)' PROVE IsCode(x, y)
      OBVIOUS
    <3>2. CASE <<x, y>> \in marks'.used
      <4>1. <<x, y>> \in marks.used \/ <<x, y>> = <<s, k>>
        BY <2>3, <3>2
      <4>2. CASE <<x, y>> \in marks.used
        BY <4>2 DEF IsCode
      <4>3. CASE <<x, y>> = <<s, k>>
        BY <3>1, <4>3
      <4> QED
        BY <4>1, <4>2, <4>3
    <3>3. ASSUME NEW q \in Requests, Taken(q)', req'[q].s = x, req'[q].k = y
          PROVE  IsCode(x, y)
      BY <2>6, <3>3 DEF IsCode
    <3> QED
      BY <3>2, <3>3 DEF IsCode
  <2>8. Compared'
    BY <1>0, <2>2, <2>5, ComparedFrame
  <2>9. SecretsNumbered'
    <3>1. \A q \in Requests : req'[q].s \in 0 .. account.secrets /\ req'[q].k \in Int
      BY <2>2, <2>4, <2>s DEF SecretsNumbered, MovesTo, Others
    <3> QED
      BY <1>0, <2>2, <2>3, <2>7, <3>1 DEF SecretsNumbered
  <2>10. ASSUME ~marks'.overlap PROVE CodesOnce'
    <3>1. CodesOnce
      BY <2>3, <2>10 DEF CodesInv
    <3>2. ~marks'.again
      BY <2>1, <2>3, <2>s, <3>1 DEF CodesOnce
    <3>3. \A q \in Requests : Taken(q)' => <<req'[q].s, req'[q].k>> \notin marks'.used
      BY <2>1, <2>3, <2>6, <2>s, <3>1 DEF CodesOnce
    <3>4. \A q, p \in Requests : Taken(q)' /\ Taken(p)' /\ q # p =>
              <<req'[q].s, req'[q].k>> # <<req'[p].s, req'[p].k>>
      BY <2>6, <3>1 DEF CodesOnce
    <3>5. \A x, y : IsCode(x, y)' /\ x = account.secret => account.totp /\ y <= account.last
      BY <2>7, <3>1 DEF CodesOnce
    <3> QED
      BY <1>0, <2>3, <3>1, <3>2, <3>3, <3>4, <3>5 DEF CodesOnce
  <2> QED
    BY <2>8, <2>9, <2>10 DEF CodesInv
<1> QED
  BY <1>1, <1>2

\* The secret is stored, enabled or removed: the codes of the new one are new.
LEMMA CodesSecret ==
    ASSUME CodesInv, RequestsSound, NEW r \in Requests,
           StoreSecret(r) \/ EnableTOTP(r) \/ DisableTOTP(r)
    PROVE  CodesInv'
<1>0. /\ SamePurposes /\ Done(r) /\ SecretsNumbered /\ Compared /\ marks'.used = marks.used
      /\ marks'.again = marks.again
  BY DEF StoreSecret, EnableTOTP, DisableTOTP, SamePurposes, CodesInv, SecretsNumbered
<1>1. MovesTo(r, "idle", "none", 0, 0, 0)
  BY <1>0, Ends
<1>2. Others(r) /\ TakesNone(r) /\ ComparesNow(r)
  BY <1>1 DEF MovesTo, TakesNone, ComparesNow
<1>3. Compared'
  BY <1>0, <1>2, ComparedFrame
<1>4. \A q \in Requests : Taken(q)' => Taken(q) /\ req'[q] = req[q]
  BY <1>0, <1>2, TakenLess
<1>5. \A s, k : IsCode(s, k)' => IsCode(s, k)
  BY <1>0, <1>2, CodesLess
<1>6. \A s, k : IsCode(s, k)' => s \in 1 .. account.secrets /\ k \in Int
  BY <1>0, <1>5 DEF SecretsNumbered
<1>7. \A q \in Requests : req'[q].s \in 0 .. account.secrets /\ req'[q].k \in Int
  BY <1>0, <1>1 DEF SecretsNumbered, MovesTo, Others
<1>8. ASSUME CodesOnce,
             account'.totp => account'.secret = marks'.proved,
             \A s, k : IsCode(s, k)' => s # account'.secret
      PROVE  CodesOnce'
  <2>1. \A q \in Requests : Taken(q)' => <<req'[q].s, req'[q].k>> \notin marks'.used
    BY <1>0, <1>4, <1>8 DEF CodesOnce
  <2>2. \A q, p \in Requests : Taken(q)' /\ Taken(p)' /\ q # p =>
            <<req'[q].s, req'[q].k>> # <<req'[p].s, req'[p].k>>
    BY <1>4, <1>8 DEF CodesOnce
  <2>3. ~marks'.again
    BY <1>0, <1>8 DEF CodesOnce
  <2> QED
    BY <1>8, <2>1, <2>2, <2>3 DEF CodesOnce
<1>9. CASE StoreSecret(r)
  <2>1. /\ DOMAIN account' = DOMAIN account /\ account'.totp = FALSE
        /\ account'.secret = account.secrets + 1 /\ account'.last = -1
        /\ account'.secrets = account.secrets + 1 /\ UNCHANGED marks
    BY <1>0, <1>9 DEF StoreSecret, Pending, SecretsNumbered
  <2>2. account.secrets \in Nat
    BY <1>0 DEF SecretsNumbered
  <2>3. \A s, k : IsCode(s, k)' =>
          s \in 1 .. account.secrets + 1 /\ s # account.secrets + 1 /\ k \in Int
    BY <1>6, <2>2
  <2>4. \A q \in Requests : req'[q].s \in 0 .. account.secrets + 1
    BY <1>7, <2>2
  <2>5. SecretsNumbered'
    BY <1>0, <1>7, <2>1, <2>2, <2>3, <2>4 DEF SecretsNumbered
  <2> QED
    BY <1>3, <1>8, <2>1, <2>3, <2>5 DEF CodesInv
<1>10. CASE DisableTOTP(r)
  <2>1. /\ DOMAIN account' = DOMAIN account /\ account'.totp = FALSE
        /\ account'.secret = 0 /\ account'.last = -1
        /\ account'.secrets = account.secrets /\ UNCHANGED marks
    BY <1>0, <1>10 DEF DisableTOTP, SecretsNumbered
  <2>2. account.secrets \in Nat
    BY <1>0 DEF SecretsNumbered
  <2>3. \A s, k : IsCode(s, k)' => s # 0
    BY <1>6, <2>2
  <2>5. SecretsNumbered'
    BY <1>0, <1>6, <1>7, <2>1, <2>2 DEF SecretsNumbered
  <2> QED
    BY <1>3, <1>8, <2>1, <2>3, <2>5 DEF CodesInv
<1>11. CASE EnableTOTP(r)
  <2>1. /\ DOMAIN account' = DOMAIN account /\ account'.totp = TRUE
        /\ account'.secret = account.secret /\ account'.last = req[r].k
        /\ account'.secrets = account.secrets
    BY <1>0, <1>11 DEF EnableTOTP, SecretsNumbered
  <2>2. /\ DOMAIN marks' = DOMAIN marks /\ marks'.proved = req[r].s
        /\ marks'.overlap = (marks.overlap \/ account.totp \/ account.secret # req[r].s)
    BY <1>0, <1>11 DEF EnableTOTP, SecretsNumbered
  <2>3. marks'.overlap \in BOOLEAN
    BY <1>0, <2>2 DEF SecretsNumbered
  <2>4. SecretsNumbered'
    BY <1>0, <1>6, <1>7, <2>1, <2>2, <2>3 DEF SecretsNumbered
  <2>5. ASSUME ~marks'.overlap PROVE CodesOnce'
    <3>1. CodesOnce /\ ~account.totp /\ account.secret = req[r].s
      BY <2>2, <2>5 DEF CodesInv
    <3>2. \A s, k : IsCode(s, k)' => s # account'.secret
      BY <1>5, <2>1, <3>1 DEF CodesOnce
    <3> QED
      BY <1>8, <2>1, <2>2, <3>1, <3>2
  <2> QED
    BY <1>3, <2>4, <2>5 DEF CodesInv
<1> QED
  BY <1>9, <1>10, <1>11

\* Every other request that goes on or ends.
LEMMA CodesContinue ==
    ASSUME CodesInv, RequestsSound, SamePurposes, NEW r \in Requests,
           \/ authenticatePassword(r) \/ CountAttempt(r) \/ CloseChallenge(r)
           \/ issueSession(r) \/ DropSession(r) \/ CreateDevice(r)
           \/ ForgotPassword(r) \/ ResetPassword(r) \/ Verify(r) \/ SetEmail2FA(r)
           \/ ReadEnabled(r) \/ StatementFails(r)
    PROVE  CodesInv'
<1> DEFINE Leaves(step) == step \notin {"match", "advance", "consume"}
<1>0. SameAuthenticator
  <2>1. CASE UNCHANGED account
    <3>1. UNCHANGED marks
      BY DEF authenticatePassword, CountAttempt, CloseChallenge, issueSession, DropSession,
         CreateDevice, ForgotPassword, ResetPassword, Verify, SetEmail2FA, ReadEnabled,
         StatementFails
    <3> QED
      BY <2>1, <3>1 DEF SameAuthenticator
  <2>2. CASE SetEmail2FA(r)
    BY <2>2 DEF SetEmail2FA, SameAuthenticator, CodesInv, SecretsNumbered
  <2>3. CASE ResetPassword(r)
    BY <2>3 DEF ResetPassword, SameAuthenticator, CodesInv, SecretsNumbered
  <2>4. CASE ~(SetEmail2FA(r) \/ ResetPassword(r))
    <3>1. UNCHANGED account
      BY <2>4 DEF authenticatePassword, CountAttempt, CloseChallenge, issueSession,
         DropSession, CreateDevice, ForgotPassword, Verify, ReadEnabled, StatementFails
    <3> QED
      BY <2>1, <3>1
  <2> QED
    BY <2>2, <2>3, <2>4
<1>a. ASSUME Done(r) PROVE CodesInv'
  <2>1. "none" \notin {"match", "advance", "consume"}
    OBVIOUS
  <2> QED
    BY <1>0, <1>a, <2>1, CodesLeave
<1>b. ASSUME NEW step, Go(r, step), Leaves(step) PROVE CodesInv'
  BY <1>0, <1>b, CodesLeave
<1>s. Sound(req[r], Issued)
  BY DEF RequestsSound
<1>1. CASE authenticatePassword(r)
  <2>1. Leaves(AfterPassword(r))
    BY DEF AfterPassword
  <2> QED
    BY <1>1, <1>a, <1>b, <2>1 DEF authenticatePassword, Refused
<1>2. CASE issueSession(r)
  <2>1. ASSUME NEW t \in Tokens, req' = [req EXCEPT ![r].at = "dropSession", ![r].t = t]
        PROVE  CodesInv'
    <3>1. req'[r] = [req[r] EXCEPT !.at = "dropSession", !.t = t] /\ Others(r)
      BY <2>1 DEF RequestsSound, Others
    <3>2. req'[r].at = "dropSession" /\ req'[r].s = req[r].s /\ req'[r].k = req[r].k
      BY <1>s, <3>1 DEF Sound
    <3>3. TakesNone(r) /\ ComparesNow(r) /\ HoldsCode(req'[r], account.secrets)
      BY <3>2 DEF TakesNone, ComparesNow, HoldsCode, CodesInv, SecretsNumbered
    <3> QED
      BY <1>0, <3>1, <3>3, CodesFrame
  <2> QED
    BY <1>2, <1>a, <2>1 DEF issueSession
<1>3. CASE CountAttempt(r) \/ CloseChallenge(r) \/ CreateDevice(r) \/ SetEmail2FA(r)
           \/ StatementFails(r)
  BY <1>3, <1>a DEF CountAttempt, CloseChallenge, CreateDevice, SetEmail2FA, StatementFails,
     Refused
<1>4. CASE DropSession(r) \/ ForgotPassword(r) \/ ResetPassword(r) \/ ReadEnabled(r)
  BY <1>4, <1>a, <1>b DEF DropSession, ForgotPassword, ResetPassword, ReadEnabled
<1>5. CASE Verify(r)
  <2>1. Go(r, Verified(r)) \/ Done(r)
    BY <1>5 DEF Verify
  <2>2. Leaves(Verified(r))
    BY <1>5, <1>s DEF Verify, Sound, Verified
  <2> QED
    BY <1>a, <1>b, <2>1, <2>2
<1> QED
  BY <1>1, <1>2, <1>3, <1>4, <1>5

\* The older challenges are closed, or a new one inserted.
LEMMA CodesChallenge ==
    ASSUME CodesInv, RequestsSound, SamePurposes, NEW r \in Requests, NEW purpose,
           ConsumeOlder(r, purpose) \/ InsertChallenge(r, purpose),
           req[r].at \notin {"match", "advance", "consume"}
    PROVE  CodesInv'
<1>0. SameAuthenticator /\ Sound(req[r], Issued)
  BY DEF ConsumeOlder, InsertChallenge, SameAuthenticator, RequestsSound
<1>1. CASE ConsumeOlder(r, purpose)
  <2>1. req'[r] = [req[r] EXCEPT !.older = TRUE] /\ Others(r)
    BY <1>1 DEF ConsumeOlder, RequestsSound, Others
  <2>2. req'[r].at = req[r].at /\ req'[r].s = req[r].s /\ req'[r].k = req[r].k
    BY <1>0, <2>1 DEF Sound
  <2>3. TakesNone(r) /\ ComparesNow(r) /\ HoldsCode(req'[r], account.secrets)
    BY <2>2 DEF TakesNone, ComparesNow, HoldsCode, CodesInv, SecretsNumbered
  <2> QED
    BY <1>0, <2>1, <2>3, CodesFrame
<1>2. CASE InsertChallenge(r, purpose)
  <2>1. "none" \notin {"match", "advance", "consume"} /\ Done(r)
    BY <1>2 DEF InsertChallenge
  <2> QED
    BY <1>0, <2>1, CodesLeave
<1> QED
  BY <1>1, <1>2

LEMMA CodesStep ==
    ASSUME CodesInv, ApprovalInv, AccountsNext
    PROVE  CodesInv'
<1>0. RequestsSound /\ SamePurposes
  BY PurposesStay DEF ApprovalInv
<1>1. ASSUME NEW r \in Requests,
             startLogin2FA(r) \/ startTOTPLogin(r) \/ createChallenge(r) \/ createQR(r)
      PROVE  CodesInv'
  <2>1. /\ req[r].at \in {"startLogin2FA", "startTOTPLogin", "createChallenge", "createQR"}
        /\ \E purpose : ConsumeOlder(r, purpose) \/ InsertChallenge(r, purpose)
    BY <1>1 DEF startLogin2FA, startTOTPLogin, createChallenge, createQR, Challenge
  <2> QED
    BY <1>0, <2>1, CodesChallenge
<1>2. ASSUME \/ \E t \in Tokens : Logout(t) \/ RevokeDevice(t)
             \/ \E c \in Challenges : Expire(c)
             \/ \E key \in Keys : WindowPasses(key)
             \/ Tick
      PROVE  CodesInv'
  <2>1. UNCHANGED <<req, account, marks>>
    BY <1>2 DEF Logout, RevokeDevice, Expire, WindowPasses, Tick
  <2> QED
    BY <1>0, <2>1, CodesRest
<1> QED
  BY <1>0, <1>1, <1>2, CodesBegin, CodesSelect, CodesMatch, CodesAdvance, CodesConsume,
     CodesSecret, CodesContinue DEF AccountsNext

LEMMA CodesInit == AccountsInit => CodesInv
<1> SUFFICES ASSUME AccountsInit PROVE CodesInv
  OBVIOUS
<1>1. \A r \in Requests : req[r].at = "idle" /\ req[r].s = 0 /\ req[r].k = 0
  BY DEF AccountsInit, Idle
<1>2. /\ DOMAIN marks = {"proved", "used", "again", "overlap"} /\ marks.used = {}
      /\ marks.overlap = FALSE /\ marks.again = FALSE /\ marks.proved = account.secret
  BY DEF AccountsInit
<1>3. /\ DOMAIN account = {"pw", "email2FA", "totp", "secret", "last", "secrets"}
      /\ account.secrets \in Nat /\ account.secret \in 0 .. account.secrets
      /\ account.last \in Int
  BY DEF AccountsInit
<1>4. \A r \in Requests : ~Taken(r)
  BY <1>1 DEF Taken
<1>5. \A s, k : ~IsCode(s, k)
  BY <1>2, <1>4 DEF IsCode
<1>6. SecretsNumbered
  <2>1. \A r \in Requests : req[r].s \in 0 .. account.secrets /\ req[r].k \in Int
    BY <1>1, <1>3
  <2>2. marks.overlap \in BOOLEAN
    BY <1>2
  <2> QED
    BY <1>2, <1>3, <1>5, <2>1, <2>2 DEF SecretsNumbered
<1>7. Compared
  BY <1>1 DEF Compared
<1>8. CodesOnce
  BY <1>2, <1>4, <1>5 DEF CodesOnce
<1> QED
  BY <1>6, <1>7, <1>8 DEF CodesInv

\* An authenticator that is asked for is the one whose code was checked, and a
\* code of it admits once, unless requests overlap in the ways that marks records
\* (EnableTOTP, consumeTOTPChallenge).
THEOREM AuthenticatorHolds == AccountsSpec => []AuthenticatorTruthful
<1>1. CodesInv /\ ApprovalInv /\ [AccountsNext]_accountVars => CodesInv'
  <2> SUFFICES ASSUME CodesInv, ApprovalInv, UNCHANGED accountVars PROVE CodesInv'
    BY CodesStep
  <2>1. SamePurposes /\ RequestsSound /\ UNCHANGED <<req, account, marks>>
    BY DEF accountVars, SamePurposes, ApprovalInv
  <2> QED
    BY <2>1, CodesRest
<1>2. CodesInv => AuthenticatorTruthful
  BY DEF CodesInv, CodesOnce, AuthenticatorTruthful
<1> QED
  BY <1>1, <1>2, CodesInit, ApprovalInvariant, PTL DEF AccountsSpec

-----------------------------------------------------------------------------
(***************************************************************************)
(* Types.  What a request holds is a password, a challenge, a token, a     *)
(* secret and a period of the account, so what it writes is well formed;   *)
(* attempts and sweeps have their bounds from the invariants above, and    *)
(* every sign-in granted has closed a challenge of its own.                *)
(***************************************************************************)
AccountRow ==
    [pw : 1 .. MaxPassword, email2FA : BOOLEAN, totp : BOOLEAN,
     secret : 0 .. MaxSecret, last : {-1} \cup Periods, secrets : 0 .. MaxSecret]

ChallengeRow ==
    [purpose : Purposes, open : BOOLEAN, live : BOOLEAN, attempts : Nat,
     pw : 0 .. MaxPassword, since : 0 .. MaxPassword]

TokenRow ==
    [kind : Kinds, alive : BOOLEAN, pw : 0 .. MaxPassword,
     since : 0 .. MaxPassword, minted : 0 .. MaxPassword]

Steps ==
    {"idle", "password", "startLogin2FA", "startTOTPLogin", "createChallenge", "createQR",
     "select", "match", "advance", "count", "close", "consume", "issueSession",
     "dropSession", "createDevice", "forgot", "setPassword", "deleteSessions",
     "revokeDevices", "verify", "setEmail2FA", "readEnabled", "storeSecret", "enable",
     "disable"}

Work ==
    [op : {"none"} \cup Endpoints, at : Steps, pw : 0 .. MaxPassword, since : 0 .. MaxPassword,
     c : 0 .. MaxChallenges, t : 0 .. MaxTokens, older : BOOLEAN, right : BOOLEAN,
     s : 0 .. MaxSecret, k : Periods]

TypedInv ==
    /\ load \in Workloads
    /\ account \in AccountRow
    /\ challenge \in [Challenges -> {NoChallenge} \cup ChallengeRow]
    /\ token \in [Tokens -> {NoToken, Gone} \cup TokenRow]
    /\ tries \in [Keys -> Nat]
    /\ clock \in 0 .. MaxClock
    /\ req \in [Requests -> Work]
    /\ admitted \in Nat /\ admitted <= Cardinality(Closed)
    /\ marks \in Marks

-----------------------------------------------------------------------------
LEMMA TypedInit == AccountsInit => TypedInv
<1> SUFFICES ASSUME AccountsInit PROVE TypedInv
  OBVIOUS
<1> USE AccountConstants
<1>1. load \in Workloads /\ load \in Workload
  BY DEF AccountsInit
<1>2. account \in AccountRow
  BY <1>1 DEF AccountsInit, AccountRow, Workload, Periods
<1>3. challenge \in [Challenges -> {NoChallenge} \cup ChallengeRow]
  BY DEF AccountsInit
<1>4. token \in [Tokens -> {NoToken, Gone} \cup TokenRow]
  <2> DEFINE any == [kind : Kinds \cup {"none"}, alive : BOOLEAN, pw : 0 .. MaxPassword,
                     since : 0 .. MaxPassword, minted : 0 .. MaxPassword]
             first == [NoToken EXCEPT !.kind = "session", !.alive = TRUE, !.pw = 1]
  <2>1. NoToken \in any
    BY DEF NoToken
  <2>2. \A yes \in BOOLEAN :
          [NoToken EXCEPT !.kind = "session", !.alive = yes, !.pw = 1] \in any
    <3>1. 1 \in 0 .. MaxPassword
      OBVIOUS
    <3> HIDE AccountConstants
    <3> QED
      BY <2>1, <3>1 DEF Kinds
  <2>3. first.kind = "session"
    BY DEF NoToken
  <2>4. first \in TokenRow
    <3>1. first \in any
      BY <2>2, Zenon
    <3> QED
      BY <2>3, <3>1 DEF TokenRow, Kinds
  <2> QED
    BY <2>4 DEF AccountsInit
<1>5. req \in [Requests -> Work]
  <2>1. Idle \in Work
    BY DEF Idle, Work, Steps, Endpoints, Periods
  <2> QED
    BY <2>1 DEF AccountsInit
<1>6. Closed = {}
  BY DEF AccountsInit, Closed
<1>7. admitted \in Nat /\ admitted <= Cardinality(Closed)
  BY <1>6, FS_EmptySet DEF AccountsInit
<1>8. marks \in Marks
  <2>1. account.secret \in 0 .. MaxSecret /\ marks = [proved |-> account.secret,
          used |-> {}, again |-> FALSE, overlap |-> FALSE]
    BY <1>2 DEF AccountsInit, AccountRow
  <2> QED
    BY <2>1 DEF Marks
<1> QED
  BY <1>1, <1>2, <1>3, <1>4, <1>5, <1>7, <1>8 DEF AccountsInit, TypedInv

\* A request keeps its type when it ends, goes on or begins.
LEMMA WorkEnds ==
    ASSUME req \in [Requests -> Work], NEW r \in Requests, Done(r)
    PROVE  req' \in [Requests -> Work]
<1>1. Idle \in Work
  BY AccountConstants DEF Idle, Work, Steps, Endpoints, Periods
<1> QED
  BY <1>1 DEF Done

LEMMA WorkGoes ==
    ASSUME req \in [Requests -> Work], NEW r \in Requests, NEW step \in Steps, Go(r, step)
    PROVE  req' \in [Requests -> Work]
<1>1. [req[r] EXCEPT !.at = step] \in Work
  BY DEF Work
<1>2. req' = [req EXCEPT ![r] = [req[r] EXCEPT !.at = step]]
  BY DEF Go
<1> QED
  BY <1>1, <1>2

LEMMA WorkBegins ==
    ASSUME req \in [Requests -> Work], NEW r \in Requests, NEW work \in Work, Begin(r, work)
    PROVE  req' \in [Requests -> Work]
BY DEF Begin

\* A failure that is reported is counted under a key, or not at all.
LEMMA AddTyped ==
    ASSUME tries \in [Keys -> Nat], NEW key, add(key)
    PROVE  tries' \in [Keys -> Nat]
<1>1. CASE key \in Keys
  <2>1. tries[key] + 1 \in Nat
    BY <1>1
  <2> QED
    BY <2>1 DEF add
<1>2. CASE key \notin Keys
  BY <1>2 DEF add
<1> QED
  BY <1>1, <1>2

LEMMA RefusedTyped ==
    ASSUME TypedInv, NEW r \in Requests, Refused(r)
    PROVE  tries' \in [Keys -> Nat] /\ req' \in [Requests -> Work]
BY AddTyped, WorkEnds DEF Refused, TypedInv

\* A step that leaves the rows alone.
LEMMA RowsAlone ==
    ASSUME TypedInv, UNCHANGED <<load, account, challenge, token, clock, admitted, marks>>,
           tries' \in [Keys -> Nat], req' \in [Requests -> Work]
    PROVE  TypedInv'
<1>1. Closed' = Closed
  BY DEF Closed
<1> QED
  BY <1>1 DEF TypedInv

-----------------------------------------------------------------------------
\* A request that begins holds what there is.
LEMMA TypedBegins ==
    ASSUME TypedInv, SweepsFollow, NEW r \in Requests,
           \/ Login(r) \/ DeviceLogin(r) \/ Login2FA(r) \/ DeviceLogin2FA(r)
           \/ Devices(r) \/ CreateQRLogin(r) \/ RedeemQRLogin(r)
           \/ ForgotRequest(r) \/ ResetRequest(r)
           \/ Security(r) \/ TOTPSetup(r) \/ TOTPEnable(r) \/ TOTPDisable(r)
    PROVE  TypedInv'
<1> USE AccountConstants
<1>0. /\ account \in AccountRow /\ req \in [Requests -> Work]
      /\ clock \in 0 .. MaxClock
      /\ \A c \in Challenges : challenge[c].pw \in 0 .. MaxPassword
                               /\ challenge[c].since \in 0 .. MaxPassword
      /\ \A t \in Tokens : token[t].pw \in 0 .. MaxPassword
                           /\ token[t].since \in 0 .. MaxPassword
  <2>1. \A row \in {NoChallenge} \cup ChallengeRow :
          row.pw \in 0 .. MaxPassword /\ row.since \in 0 .. MaxPassword
    BY DEF NoChallenge, ChallengeRow
  <2>2. \A row \in {NoToken, Gone} \cup TokenRow :
          row.pw \in 0 .. MaxPassword /\ row.since \in 0 .. MaxPassword
    BY DEF NoToken, Gone, TokenRow
  <2> QED
    BY <2>1, <2>2 DEF TypedInv
<1>1. /\ 0 .. account.pw \subseteq 0 .. MaxPassword
      /\ 0 .. account.secrets \subseteq 0 .. MaxSecret
      /\ 0 .. clock + 1 \subseteq Periods
  BY <1>0 DEF AccountRow, Periods
<1>2. swept["session"] \in 0 .. MaxPassword
  <2>1. swept["session"] \in Nat /\ Cardinality(Deleting) \in Nat
    BY ResetsFinite, FS_CardinalityType DEF SweepsFollow, Kinds
  <2> QED
    BY <1>0, <2>1 DEF SweepsFollow, AccountRow
<1>a. ASSUME NEW work \in Work, Begin(r, work),
             UNCHANGED <<load, account, challenge, token, tries, clock, admitted, marks>>
      PROVE  TypedInv'
  BY <1>a, WorkBegins, RowsAlone DEF TypedInv
<1>b. Idle \in Work
  BY DEF Idle, Work, Steps, Endpoints, Periods
<1>3. CASE Login(r) \/ DeviceLogin(r)
  <2>1. PICK op \in {"login", "deviceLogin"}, p \in 0 .. account.pw :
          Begin(r, [Idle EXCEPT !.op = op, !.at = "password", !.pw = p,
                                !.since = swept["session"]])
    BY <1>3 DEF Login, DeviceLogin, WithPassword
  <2>2. [Idle EXCEPT !.op = op, !.at = "password", !.pw = p,
                     !.since = swept["session"]] \in Work
    BY <1>b, <1>1, <1>2 DEF Work, Steps, Endpoints, Periods
  <2> QED
    BY <1>3, <1>a, <2>1, <2>2 DEF Login, DeviceLogin, WithPassword
<1>4. CASE Login2FA(r) \/ DeviceLogin2FA(r)
  <2>1. PICK op \in {"login2FA", "device2FA"} : CompleteLogin2FA(r, op)
    BY <1>4 DEF Login2FA, DeviceLogin2FA
  <2>2. PICK c \in Challenges, s \in 0 .. account.secrets, k \in 0 .. clock + 1,
             right \in BOOLEAN :
          Begin(r, [Idle EXCEPT !.op = op, !.at = "select", !.c = c, !.right = right,
                                !.s = s, !.k = k, !.pw = challenge[c].pw,
                                !.since = challenge[c].since])
    BY <2>1 DEF CompleteLogin2FA
  <2>3. /\ c \in 0 .. MaxChallenges
        /\ challenge[c].pw \in 0 .. MaxPassword /\ challenge[c].since \in 0 .. MaxPassword
    BY <1>0 DEF Challenges
  <2>4. [Idle EXCEPT !.op = op, !.at = "select", !.c = c, !.right = right,
                     !.s = s, !.k = k, !.pw = challenge[c].pw,
                     !.since = challenge[c].since] \in Work
    BY <1>b, <1>1, <2>3 DEF Work, Steps, Endpoints
  <2> QED
    BY <1>a, <2>1, <2>2, <2>4 DEF CompleteLogin2FA
<1>5. CASE Devices(r) \/ CreateQRLogin(r)
  <2>1. PICK op \in {"devices", "qrCreate"}, step \in {"createDevice", "createQR"}, t \in Tokens :
          Begin(r, [Idle EXCEPT !.op = op, !.at = step,
                                !.pw = token[t].pw, !.since = token[t].since])
    BY <1>5 DEF Devices, CreateQRLogin
  <2>2. [Idle EXCEPT !.op = op, !.at = step,
                     !.pw = token[t].pw, !.since = token[t].since] \in Work
    BY <1>b, <1>0 DEF Work, Steps, Endpoints, Periods
  <2> QED
    BY <1>5, <1>a, <2>1, <2>2 DEF Devices, CreateQRLogin
<1>6. CASE RedeemQRLogin(r)
  <2>1. PICK c \in Challenges :
          Begin(r, [Idle EXCEPT !.op = "qrRedeem", !.at = "consume", !.c = c,
                                !.pw = challenge[c].pw, !.since = challenge[c].since])
    BY <1>6 DEF RedeemQRLogin
  <2>a. /\ c \in 0 .. MaxChallenges
        /\ challenge[c].pw \in 0 .. MaxPassword /\ challenge[c].since \in 0 .. MaxPassword
    BY <1>0 DEF Challenges
  <2>2. [Idle EXCEPT !.op = "qrRedeem", !.at = "consume", !.c = c,
                     !.pw = challenge[c].pw, !.since = challenge[c].since] \in Work
    BY <1>b, <2>a DEF Work, Steps, Endpoints
  <2> QED
    BY <1>6, <1>a, <2>1, <2>2 DEF RedeemQRLogin
<1>7. CASE ForgotRequest(r)
  <2>1. [Idle EXCEPT !.op = "forgot", !.at = "forgot"] \in Work
    BY <1>b DEF Work, Steps, Endpoints, Periods
  <2> QED
    BY <1>7, <1>a, <2>1 DEF ForgotRequest
<1>8. CASE ResetRequest(r)
  <2>1. PICK right \in BOOLEAN :
          Begin(r, [Idle EXCEPT !.op = "reset", !.at = "select", !.right = right])
    BY <1>8 DEF ResetRequest
  <2>2. [Idle EXCEPT !.op = "reset", !.at = "select", !.right = right] \in Work
    BY <1>b DEF Work, Steps, Endpoints, Periods
  <2> QED
    BY <1>8, <1>a, <2>1, <2>2 DEF ResetRequest
<1>9. CASE Security(r) \/ TOTPSetup(r) \/ TOTPEnable(r) \/ TOTPDisable(r)
  <2>0. PICK op \in SecurityOps, secrets \in {{0}, 0 .. account.secrets},
             rights \in {BOOLEAN, {FALSE}} : SecurityRequest(r, op, secrets, rights)
    BY <1>9 DEF SecurityOps, Security, TOTPSetup, TOTPEnable, TOTPDisable
  <2>1. PICK p \in 0 .. account.pw, s \in secrets, k \in 0 .. clock + 1, right \in rights :
          Begin(r, [Idle EXCEPT !.op = op, !.at = "verify", !.pw = p, !.s = s, !.k = k,
                                !.right = right])
    BY <2>0 DEF SecurityRequest
  <2>2. s \in 0 .. MaxSecret /\ right \in BOOLEAN
    <3>1. secrets \subseteq 0 .. MaxSecret
      BY <1>0, <1>1 DEF AccountRow
    <3>2. rights \subseteq BOOLEAN
      OBVIOUS
    <3> QED
      BY <2>1, <3>1, <3>2
  <2>3. [Idle EXCEPT !.op = op, !.at = "verify", !.pw = p, !.s = s, !.k = k,
                     !.right = right] \in Work
    BY <1>b, <1>1, <2>0, <2>1, <2>2 DEF Work, Steps, Endpoints, SecurityOps
  <2> QED
    BY <2>0, <1>a, <2>1, <2>3 DEF SecurityRequest
<1> QED
  BY <1>3, <1>4, <1>5, <1>6, <1>7, <1>8, <1>9

\* Steps that read, or write to one of the other rows.
LEMMA TypedReads ==
    ASSUME TypedInv, ApprovalInv, NEW r \in Requests,
           \/ authenticatePassword(r) \/ SelectChallenge(r) \/ MatchTOTP(r)
           \/ ForgotPassword(r) \/ Verify(r) \/ ReadEnabled(r) \/ StatementFails(r)
    PROVE  TypedInv'
<1>0. Sound(req[r], Issued) /\ req \in [Requests -> Work]
  BY DEF ApprovalInv, RequestsSound, TypedInv
<1>a. UNCHANGED <<load, account, challenge, token, clock, admitted, marks>>
  BY DEF authenticatePassword, SelectChallenge, MatchTOTP, ForgotPassword, Verify,
     ReadEnabled, StatementFails
<1>b. ASSUME UNCHANGED tries, Done(r) \/ \E step \in Steps : Go(r, step) PROVE TypedInv'
  BY <1>0, <1>a, <1>b, WorkEnds, WorkGoes, RowsAlone DEF TypedInv
<1>c. CASE Refused(r)
  BY <1>a, <1>c, RefusedTyped, RowsAlone
<1>d. ASSUME NEW key, add(key), Done(r) \/ \E step \in Steps : Go(r, step) PROVE TypedInv'
  <2>1. tries' \in [Keys -> Nat]
    BY <1>d, AddTyped DEF TypedInv
  <2> QED
    BY <1>0, <1>a, <1>d, <2>1, WorkEnds, WorkGoes, RowsAlone
<1> USE DEF Steps
<1>1. CASE authenticatePassword(r)
  BY <1>1, <1>b, <1>c DEF authenticatePassword, AfterPassword
<1>2. CASE SelectChallenge(r)
  <2>1. ASSUME NEW c \in Challenges, NEW step \in {"close", "match", "consume", "count"},
               UNCHANGED tries, req' = [req EXCEPT ![r].c = c, ![r].at = step]
        PROVE  TypedInv'
    <3>1. c \in 0 .. MaxChallenges
      BY AccountConstants DEF Challenges
    <3>2. [req[r] EXCEPT !.c = c, !.at = step] \in Work
      <4>1. req[r] \in Work /\ step \in Steps
        BY <1>0
      <4> QED
        BY <3>1, <4>1 DEF Work
    <3>3. req' = [req EXCEPT ![r] = [req[r] EXCEPT !.c = c, !.at = step]]
      BY <1>0, <2>1
    <3>4. req' \in [Requests -> Work]
      BY <1>0, <3>2, <3>3
    <3> QED
      BY <1>a, <2>1, <3>4, RowsAlone DEF TypedInv
  <2> QED
    BY <1>2, <1>c, <2>1 DEF SelectChallenge
<1>3. CASE MatchTOTP(r)
  BY <1>3, <1>b DEF MatchTOTP
<1>4. CASE ForgotPassword(r)
  BY <1>4, <1>d DEF ForgotPassword
<1>5. CASE Verify(r)
  <2>1. /\ req[r].at = "verify" /\ add(req[r].op)
        /\ \/ Verified(r) # "refused" /\ Go(r, Verified(r))
           \/ Done(r)
    BY <1>5 DEF Verify
  <2>2. Verified(r) \in {"setEmail2FA", "readEnabled", "enable", "refused", "disable"}
    BY <1>0, <2>1 DEF Sound, Verified
  <2> QED
    BY <1>d, <2>1, <2>2
<1>6. CASE ReadEnabled(r)
  BY <1>6, <1>b DEF ReadEnabled
<1>7. CASE StatementFails(r)
  BY <1>7, <1>b, <1>c DEF StatementFails
<1> QED
  BY <1>1, <1>2, <1>3, <1>4, <1>5, <1>6, <1>7

\* Steps that write to users.
LEMMA TypedAccount ==
    ASSUME TypedInv, NEW r \in Requests,
           \/ AdvanceCounter(r) \/ SetEmail2FA(r) \/ StoreSecret(r) \/ EnableTOTP(r)
           \/ DisableTOTP(r) \/ (req[r].at = "setPassword" /\ ResetPassword(r))
    PROVE  TypedInv'
<1>0. /\ account \in AccountRow /\ req \in [Requests -> Work] /\ marks \in Marks
      /\ tries \in [Keys -> Nat]
  BY DEF TypedInv
<1>1. /\ req[r].s \in 0 .. MaxSecret /\ req[r].k \in Periods /\ req[r].right \in BOOLEAN
      /\ account.totp \in BOOLEAN
  BY <1>0 DEF Work, AccountRow
<1>2. UNCHANGED <<load, challenge, token, clock, admitted>>
  BY DEF AdvanceCounter, SetEmail2FA, StoreSecret, EnableTOTP, DisableTOTP, ResetPassword
<1>3. req' \in [Requests -> Work] /\ tries' \in [Keys -> Nat]
  <2>1. Done(r) \/ Go(r, "consume") \/ Go(r, "deleteSessions")
    BY DEF AdvanceCounter, SetEmail2FA, StoreSecret, EnableTOTP, DisableTOTP, ResetPassword,
       Refused
  <2>2. Refused(r) \/ UNCHANGED tries
    BY DEF AdvanceCounter, SetEmail2FA, StoreSecret, EnableTOTP, DisableTOTP, ResetPassword
  <2> QED
    BY <1>0, <2>1, <2>2, WorkEnds, WorkGoes, RefusedTyped DEF Steps
<1>4. account' \in AccountRow
  <2>1. CASE AdvanceCounter(r) \/ EnableTOTP(r)
    <3>1. \A yes \in BOOLEAN : /\ [account EXCEPT !.last = req[r].k] \in AccountRow
                               /\ [account EXCEPT !.totp = yes, !.last = req[r].k] \in AccountRow
      BY <1>0, <1>1 DEF AccountRow
    <3> QED
      BY <1>0, <2>1, <3>1 DEF AdvanceCounter, EnableTOTP
  <2>2. CASE SetEmail2FA(r)
    BY <1>0, <1>1, <2>2 DEF SetEmail2FA, AccountRow
  <2>3. CASE StoreSecret(r)
    <3>1. account.secrets + 1 \in 0 .. MaxSecret
      BY <1>0, <2>3, AccountConstants DEF StoreSecret, AccountRow
    <3>2. \A yes \in BOOLEAN, n \in 0 .. MaxSecret :
            [account EXCEPT !.secret = n, !.totp = yes, !.last = -1, !.secrets = n] \in AccountRow
      BY <1>0 DEF AccountRow
    <3> QED
      BY <2>3, <3>1, <3>2 DEF StoreSecret, Pending
  <2>4. CASE DisableTOTP(r)
    <3>1. \A yes \in BOOLEAN, n \in 0 .. MaxSecret :
            [account EXCEPT !.totp = yes, !.secret = n, !.last = -1] \in AccountRow
      BY <1>0 DEF AccountRow
    <3>2. 0 \in 0 .. MaxSecret
      BY AccountConstants
    <3> QED
      BY <2>4, <3>1, <3>2 DEF DisableTOTP
  <2>5. CASE req[r].at = "setPassword" /\ ResetPassword(r)
    <3>1. account.pw < MaxPassword /\ account' = [account EXCEPT !.pw = @ + 1]
      BY <2>5 DEF ResetPassword
    <3>2. account.pw + 1 \in 1 .. MaxPassword
      BY <1>0, <3>1, AccountConstants DEF AccountRow
    <3> QED
      BY <1>0, <3>1, <3>2 DEF AccountRow
  <2> QED
    BY <2>1, <2>2, <2>3, <2>4, <2>5
<1>5. marks' \in Marks
  <2>1. ASSUME NEW s \in 0 .. MaxSecret, NEW p \in BOOLEAN, NEW q \in BOOLEAN
        PROVE  /\ [marks EXCEPT !.overlap = @ \/ p \/ q] \in Marks
               /\ [marks EXCEPT !.proved = s, !.overlap = @ \/ p \/ q] \in Marks
    <3> DEFINE mixed == marks.overlap \/ p \/ q
    <3>1. mixed \in BOOLEAN
      OBVIOUS
    <3>2. \A yes \in BOOLEAN : /\ [marks EXCEPT !.overlap = yes] \in Marks
                               /\ [marks EXCEPT !.proved = s, !.overlap = yes] \in Marks
      BY <1>0 DEF Marks
    <3> QED
      BY <3>1, <3>2, Zenon
  <2>2. CASE AdvanceCounter(r)
    <3> DEFINE p == account.secret # req[r].s
               q == ~account.totp
    <3>1. p \in BOOLEAN /\ q \in BOOLEAN
      OBVIOUS
    <3>2. [marks EXCEPT !.overlap = @ \/ p \/ q] \in Marks
      BY <1>1, <2>1, <3>1
    <3> QED
      BY <1>0, <2>2, <3>2 DEF AdvanceCounter
  <2>3. CASE EnableTOTP(r)
    <3> DEFINE p == account.totp
               q == account.secret # req[r].s
    <3>1. p \in BOOLEAN /\ q \in BOOLEAN
      BY <1>1
    <3>2. [marks EXCEPT !.proved = req[r].s, !.overlap = @ \/ p \/ q] \in Marks
      BY <1>1, <2>1, <3>1
    <3> QED
      BY <2>3, <3>2 DEF EnableTOTP
  <2>4. CASE SetEmail2FA(r) \/ StoreSecret(r) \/ DisableTOTP(r) \/ ResetPassword(r)
    BY <1>0, <2>4 DEF SetEmail2FA, StoreSecret, DisableTOTP, ResetPassword
  <2> QED
    BY <2>2, <2>3, <2>4
<1>6. Closed' = Closed
  BY <1>2 DEF Closed
<1> QED
  BY <1>2, <1>3, <1>4, <1>5, <1>6 DEF TypedInv

\* Steps that write to sessions and devices.
LEMMA TypedTokens ==
    ASSUME TypedInv, SweepsFollow, NEW r \in Requests,
           \/ issueSession(r) \/ DropSession(r) \/ CreateDevice(r)
           \/ (req[r].at # "setPassword" /\ ResetPassword(r))
    PROVE  TypedInv'
<1>0. /\ account \in AccountRow /\ req \in [Requests -> Work]
      /\ token \in [Tokens -> {NoToken, Gone} \cup TokenRow]
  BY DEF TypedInv
<1>1. UNCHANGED <<load, account, challenge, tries, clock, admitted, marks>>
  BY DEF issueSession, DropSession, CreateDevice, ResetPassword
<1>2. req' \in [Requests -> Work]
  <2>1. ASSUME NEW t \in Tokens, req' = [req EXCEPT ![r].at = "dropSession", ![r].t = t]
        PROVE  req' \in [Requests -> Work]
    <3>1. t \in 0 .. MaxTokens
      BY AccountConstants DEF Tokens
    <3>2. [req[r] EXCEPT !.at = "dropSession", !.t = t] \in Work
      <4>1. req[r] \in Work
        BY <1>0
      <4> QED
        BY <3>1, <4>1 DEF Work, Steps
    <3>3. req' = [req EXCEPT ![r] = [req[r] EXCEPT !.at = "dropSession", !.t = t]]
      BY <1>0, <2>1
    <3> QED
      BY <1>0, <3>2, <3>3
  <2>2. \/ Done(r) \/ \E step \in Steps : Go(r, step)
        \/ \E t \in Tokens : req' = [req EXCEPT ![r].at = "dropSession", ![r].t = t]
    <3>1. CASE issueSession(r)
      BY <3>1 DEF issueSession
    <3>2. CASE DropSession(r) \/ CreateDevice(r) \/ (req[r].at # "setPassword" /\ ResetPassword(r))
      BY <3>2 DEF DropSession, CreateDevice, ResetPassword, Steps
    <3> QED
      BY <3>1, <3>2
  <2> QED
    BY <1>0, <2>1, <2>2, WorkEnds, WorkGoes
<1>3. token' \in [Tokens -> {NoToken, Gone} \cup TokenRow]
  <2>1. ASSUME NEW kind \in Kinds, NEW t \in Tokens, Mint(t, r, kind)
        PROVE  token' \in [Tokens -> {NoToken, Gone} \cup TokenRow]
    <3>1. swept[kind] \in 0 .. MaxPassword
      <4>1. /\ swept[kind] \in Nat /\ swept["session"] \in Nat
            /\ Cardinality(Deleting) \in Nat /\ Cardinality(Revoking) \in Nat
        BY ResetsFinite DEF SweepsFollow, Kinds
      <4>2. swept["session"] < account.pw /\ swept["device"] <= swept["session"]
        BY <1>0, <4>1 DEF SweepsFollow, Kinds, AccountRow
      <4>3. account.pw \in 0 .. MaxPassword
        BY <1>0 DEF AccountRow
      <4>4. kind = "session" \/ kind = "device"
        BY DEF Kinds
      <4> QED
        BY <4>1, <4>2, <4>3, <4>4, AccountConstants
    <3>2. req[r].pw \in 0 .. MaxPassword /\ req[r].since \in 0 .. MaxPassword
      BY <1>0 DEF Work
    <3>3. NewToken(r, kind) \in TokenRow
      BY <3>1, <3>2 DEF NewToken, TokenRow
    <3> QED
      BY <1>0, <2>1, <3>3 DEF Mint
  <2>2. CASE issueSession(r)
    BY <2>1, <2>2 DEF issueSession, Kinds
  <2>3. CASE CreateDevice(r)
    BY <1>0, <2>1, <2>3 DEF CreateDevice, Kinds
  <2>4. CASE DropSession(r)
    BY <1>0, <2>4 DEF DropSession
  <2>5. CASE req[r].at # "setPassword" /\ ResetPassword(r)
    <3>1. token' = Without("session") \/ token' = Without("device")
      BY <2>5 DEF ResetPassword
    <3> QED
      BY <1>0, <3>1 DEF Without
  <2> QED
    BY <2>2, <2>3, <2>4, <2>5
<1>4. Closed' = Closed
  BY <1>1 DEF Closed
<1> QED
  BY <1>1, <1>2, <1>3, <1>4 DEF TypedInv

\* The closed rows are counted.
LEMMA ClosedCounted ==
    /\ IsFiniteSet(Closed) /\ IsFiniteSet(Closed')
    /\ Cardinality(Closed) \in Nat /\ Cardinality(Closed') \in Nat
<1>1. IsFiniteSet(Challenges)
  BY AccountConstants, FS_Interval DEF Challenges
<1>2. Closed \subseteq Challenges /\ Closed' \subseteq Challenges
  BY DEF Closed
<1> QED
  BY <1>1, <1>2, FS_Subset, FS_CardinalityType

\* A step that writes one row, and closes it if it grants something for it.
LEMMA RowTyped ==
    ASSUME TypedInv, NEW c \in Challenges, NEW row \in ChallengeRow,
           challenge' = [challenge EXCEPT ![c] = row],
           c \in Closed => ~row.open,
           \/ UNCHANGED admitted
           \/ admitted' = admitted + 1 /\ c \notin Closed /\ ~row.open,
           UNCHANGED <<load, account, token, clock>>,
           tries' \in [Keys -> Nat], req' \in [Requests -> Work], marks' \in Marks
    PROVE  TypedInv'
<1>1. challenge \in [Challenges -> {NoChallenge} \cup ChallengeRow]
  BY DEF TypedInv
<1>2. challenge' \in [Challenges -> {NoChallenge} \cup ChallengeRow]
  BY <1>1
<1>3. challenge'[c] = row /\ \A d \in Challenges \ {c} : challenge'[d] = challenge[d]
  BY <1>1
<1>4. row # NoChallenge
  BY DEF ChallengeRow, NoChallenge, Purposes
<1>5. Closed \subseteq Closed'
  BY <1>3, <1>4 DEF Closed
<1>6. admitted' \in Nat /\ admitted' <= Cardinality(Closed')
  <2>1. admitted \in Nat /\ admitted <= Cardinality(Closed)
    BY DEF TypedInv
  <2>2. CASE UNCHANGED admitted
    BY <1>5, <2>1, <2>2, ClosedCounted, FS_Subset
  <2>3. CASE admitted' = admitted + 1 /\ c \notin Closed /\ ~row.open
    <3>1. Closed' = Closed \cup {c}
      BY <1>3, <1>4, <1>5, <2>3 DEF Closed
    <3>2. Cardinality(Closed') = Cardinality(Closed) + 1
      BY <2>3, <3>1, ClosedCounted, FS_AddElement
    <3> QED
      BY <2>1, <2>3, <3>2, ClosedCounted
  <2> QED
    BY <2>2, <2>3
<1> QED
  BY <1>2, <1>6 DEF TypedInv

\* A login, a reset or a pairing asks for a new challenge.
LEMMA TypedChallenge ==
    ASSUME TypedInv, NEW r \in Requests, NEW purpose \in Purposes,
           ConsumeOlder(r, purpose) \/ InsertChallenge(r, purpose)
    PROVE  TypedInv'
<1>0. /\ req \in [Requests -> Work]
      /\ challenge \in [Challenges -> {NoChallenge} \cup ChallengeRow]
      /\ UNCHANGED <<load, account, token, tries, clock, admitted, marks>>
  BY DEF TypedInv, ConsumeOlder, InsertChallenge
<1>1. CASE ConsumeOlder(r, purpose)
  <2>1. req' \in [Requests -> Work]
    <3>1. req[r] \in Work
      BY <1>0
    <3>2. \A yes \in BOOLEAN : [req[r] EXCEPT !.older = yes] \in Work
      BY <3>1 DEF Work
    <3>3. req' = [req EXCEPT ![r] = [req[r] EXCEPT !.older = TRUE]]
      BY <1>0, <1>1 DEF ConsumeOlder
    <3>4. TRUE \in BOOLEAN
      OBVIOUS
    <3> QED
      BY <1>0, <3>2, <3>3, <3>4
  <2>2. CASE UNCHANGED challenge
    BY <1>0, <2>1, <2>2, RowsAlone DEF TypedInv
  <2>3. CASE challenge' = [c \in Challenges |->
               IF challenge[c].purpose = purpose THEN [challenge[c] EXCEPT !.open = FALSE]
               ELSE challenge[c]]
    <3>1. ASSUME NEW c \in Challenges, challenge[c].purpose = purpose
          PROVE  /\ challenge[c] \in ChallengeRow
                 /\ [challenge[c] EXCEPT !.open = FALSE] \in ChallengeRow
      <4>1. challenge[c] # NoChallenge
        BY <3>1 DEF NoChallenge, Purposes
      <4>2. challenge[c] \in ChallengeRow
        BY <1>0, <4>1
      <4>3. \A no \in BOOLEAN : [challenge[c] EXCEPT !.open = no] \in ChallengeRow
        BY <4>2 DEF ChallengeRow
      <4>4. FALSE \in BOOLEAN
        OBVIOUS
      <4> QED
        BY <4>2, <4>3, <4>4
    <3>2. challenge' \in [Challenges -> {NoChallenge} \cup ChallengeRow]
      BY <1>0, <2>3, <3>1
    <3>3. \A c \in Challenges : \/ challenge'[c] = challenge[c]
                                \/ challenge'[c] \in ChallengeRow /\ ~challenge'[c].open
      BY <2>3, <3>1 DEF ChallengeRow
    <3>4. \A row \in ChallengeRow : row # NoChallenge
      BY DEF ChallengeRow, NoChallenge, Purposes
    <3>5. Closed \subseteq Closed'
      BY <3>3, <3>4 DEF Closed
    <3>6. Cardinality(Closed) <= Cardinality(Closed')
      BY <3>5, ClosedCounted, FS_Subset
    <3>7. admitted' \in Nat /\ admitted' <= Cardinality(Closed')
      BY <1>0, <3>6, ClosedCounted DEF TypedInv
    <3> QED
      BY <1>0, <2>1, <3>2, <3>7 DEF TypedInv
  <2> QED
    BY <1>1, <2>2, <2>3 DEF ConsumeOlder
<1>2. CASE InsertChallenge(r, purpose)
  <2>1. PICK c \in 1 .. load.challenges :
          /\ challenge[c] = NoChallenge
          /\ challenge' = [challenge EXCEPT ![c] = NewChallenge(r, purpose)]
    BY <1>2 DEF InsertChallenge
  <2>2. c \in Challenges /\ c \notin Closed
    <3>1. load.challenges \in 0 .. MaxChallenges
      BY AccountConstants DEF TypedInv, Workload
    <3> QED
      BY <2>1, <3>1, AccountConstants DEF Challenges, Closed
  <2>3. NewChallenge(r, purpose) \in ChallengeRow
    <3>1. req[r].pw \in 0 .. MaxPassword /\ req[r].since \in 0 .. MaxPassword
      BY <1>0 DEF Work
    <3>2. TRUE \in BOOLEAN
      OBVIOUS
    <3> QED
      BY <3>1, <3>2 DEF NewChallenge, ChallengeRow
  <2>4. req' \in [Requests -> Work]
    BY <1>0, <1>2, WorkEnds DEF InsertChallenge
  <2> QED
    BY <1>0, <2>1, <2>2, <2>3, <2>4, RowTyped DEF TypedInv
<1> QED
  BY <1>1, <1>2

\* An attempt is counted, or a challenge closed, for nothing or for what it grants.
LEMMA TypedAnswer ==
    ASSUME TypedInv, ApprovalInv, NEW r \in Requests,
           CountAttempt(r) \/ CloseChallenge(r) \/ Consume(r)
    PROVE  TypedInv'
<1> DEFINE c == req[r].c
<1>0. /\ req \in [Requests -> Work] /\ marks \in Marks /\ tries \in [Keys -> Nat]
      /\ challenge \in [Challenges -> {NoChallenge} \cup ChallengeRow]
      /\ UNCHANGED <<load, account, token, clock>>
  BY DEF TypedInv, CountAttempt, CloseChallenge, Consume
<1>1. c \in Issued
  BY DEF ApprovalInv, RequestsSound, Sound, AfterChoice, CountAttempt, CloseChallenge, Consume
<1>2. c \in Challenges /\ challenge[c] \in ChallengeRow
  BY <1>0, <1>1 DEF Issued
<1>3. /\ \A no \in BOOLEAN : [challenge[c] EXCEPT !.open = no] \in ChallengeRow
      /\ [challenge[c] EXCEPT !.attempts = @ + 1] \in ChallengeRow
  <2> HIDE DEF c
  <2>1. challenge[c].attempts + 1 \in Nat
    BY <1>2 DEF ChallengeRow
  <2> QED
    BY <1>2, <2>1 DEF ChallengeRow
<1>4. [challenge[c] EXCEPT !.open = FALSE] \in ChallengeRow
      /\ ~[challenge[c] EXCEPT !.open = FALSE].open
  <2> HIDE DEF c
  <2>1. FALSE \in BOOLEAN
    OBVIOUS
  <2> QED
    BY <1>2, <1>3, <2>1 DEF ChallengeRow
<1>5. CASE CountAttempt(r)
  <2>1. challenge' = [challenge EXCEPT ![c] = [challenge[c] EXCEPT !.attempts = @ + 1]]
    BY <1>0, <1>2, <1>5 DEF CountAttempt
  <2>2. [challenge[c] EXCEPT !.attempts = @ + 1].open = challenge[c].open
    BY <1>2 DEF ChallengeRow
  <2>3. c \in Closed => ~challenge[c].open
    BY DEF Closed
  <2>4. UNCHANGED <<admitted, marks>> /\ Refused(r)
    BY <1>5 DEF CountAttempt
  <2> QED
    BY <1>0, <1>2, <1>3, <2>1, <2>2, <2>3, <2>4, RefusedTyped, RowTyped
<1>6. CASE CloseChallenge(r)
  <2>1. challenge' = [challenge EXCEPT ![c] = [challenge[c] EXCEPT !.open = FALSE]]
    BY <1>0, <1>2, <1>6 DEF CloseChallenge
  <2>2. UNCHANGED <<admitted, marks>> /\ Refused(r)
    BY <1>6 DEF CloseChallenge
  <2> QED
    BY <1>0, <1>2, <1>4, <2>1, <2>2, RefusedTyped, RowTyped
<1>7. CASE Consume(r)
  <2>1. CASE ~StillOpen(c)
    <3>1. /\ UNCHANGED <<challenge, admitted, marks>> /\ Done(r)
          /\ UNCHANGED tries \/ add(KeyOf(req[r].op))
      BY <1>7, <2>1 DEF Consume
    <3>2. tries' \in [Keys -> Nat] /\ req' \in [Requests -> Work]
      BY <1>0, <3>1, AddTyped, WorkEnds
    <3> QED
      BY <1>0, <3>1, <3>2, RowsAlone
  <2>2. CASE StillOpen(c)
    <3>1. /\ challenge' = [challenge EXCEPT ![c].open = FALSE]
          /\ admitted' = admitted + 1 /\ CodeUsed(r) /\ UNCHANGED tries
          /\ \E step \in Steps : Go(r, step)
      BY <1>7, <2>2 DEF Consume, Steps
    <3>2. challenge' = [challenge EXCEPT ![c] = [challenge[c] EXCEPT !.open = FALSE]]
      BY <1>0, <1>2, <3>1
    <3>3. c \notin Closed
      BY <2>2 DEF Closed, StillOpen
    <3>4. req' \in [Requests -> Work]
      BY <1>0, <3>1, WorkGoes
    <3>5. marks' \in Marks
      <4> DEFINE code == <<req[r].s, req[r].k>>
                 twice == marks.again \/ code \in marks.used
                 known == marks.used \cup {code}
      <4>1. code \in (0 .. MaxSecret) \X Periods
        BY <1>0 DEF Work
      <4>2. known \in SUBSET ((0 .. MaxSecret) \X Periods)
        BY <1>0, <4>1 DEF Marks
      <4>3. twice \in BOOLEAN
        OBVIOUS
      <4>4. \A codes \in SUBSET ((0 .. MaxSecret) \X Periods), yes \in BOOLEAN :
              [marks EXCEPT !.used = codes, !.again = yes] \in Marks
        BY <1>0 DEF Marks
      <4>5. \/ UNCHANGED marks
            \/ marks' = [marks EXCEPT !.used = known, !.again = twice]
        BY <1>0, <3>1 DEF CodeUsed, Marks
      <4> QED
        BY <1>0, <4>2, <4>3, <4>4, <4>5, Zenon
    <3> QED
      BY <1>0, <1>2, <1>4, <3>1, <3>2, <3>3, <3>4, <3>5, RowTyped
  <2> QED
    BY <2>1, <2>2
<1> QED
  BY <1>5, <1>6, <1>7

\* The types hold after every step: one case for each group of steps.
LEMMA TypedStep ==
    ASSUME TypedInv, SignOutInv, AccountsNext
    PROVE  TypedInv'
<1>0. ApprovalInv /\ SweepsFollow
  BY DEF SignOutInv
<1>1. ASSUME NEW r \in Requests,
             \/ Login(r) \/ DeviceLogin(r) \/ Login2FA(r) \/ DeviceLogin2FA(r)
             \/ Devices(r) \/ CreateQRLogin(r) \/ RedeemQRLogin(r)
             \/ ForgotRequest(r) \/ ResetRequest(r)
             \/ Security(r) \/ TOTPSetup(r) \/ TOTPEnable(r) \/ TOTPDisable(r)
      PROVE  TypedInv'
  BY <1>0, <1>1, TypedBegins
<1>2. ASSUME NEW r \in Requests,
             startLogin2FA(r) \/ startTOTPLogin(r) \/ createChallenge(r) \/ createQR(r)
      PROVE  TypedInv'
  <2>1. PICK purpose \in Purposes : ConsumeOlder(r, purpose) \/ InsertChallenge(r, purpose)
    BY <1>2 DEF startLogin2FA, startTOTPLogin, createChallenge, createQR, Challenge, Purposes
  <2> QED
    BY <2>1, TypedChallenge
<1>3. ASSUME NEW r \in Requests,
             \/ authenticatePassword(r) \/ SelectChallenge(r) \/ MatchTOTP(r)
             \/ ForgotPassword(r) \/ Verify(r) \/ ReadEnabled(r) \/ StatementFails(r)
      PROVE  TypedInv'
  BY <1>0, <1>3, TypedReads
<1>4. ASSUME NEW r \in Requests, CountAttempt(r) \/ CloseChallenge(r) \/ Consume(r)
      PROVE  TypedInv'
  BY <1>0, <1>4, TypedAnswer
<1>5. ASSUME NEW r \in Requests,
             \/ AdvanceCounter(r) \/ SetEmail2FA(r) \/ StoreSecret(r) \/ EnableTOTP(r)
             \/ DisableTOTP(r)
      PROVE  TypedInv'
  BY <1>5, TypedAccount
<1>6. ASSUME NEW r \in Requests, issueSession(r) \/ DropSession(r) \/ CreateDevice(r)
      PROVE  TypedInv'
  BY <1>0, <1>6, TypedTokens
<1>7. ASSUME NEW r \in Requests, ResetPassword(r) PROVE TypedInv'
  BY <1>0, <1>7, TypedAccount, TypedTokens
<1>8. ASSUME NEW t \in Tokens, Logout(t) \/ RevokeDevice(t) PROVE TypedInv'
  <2>1. /\ token' = [token EXCEPT ![t] = Gone]
        /\ UNCHANGED <<load, account, challenge, tries, clock, req, admitted, marks>>
    BY <1>8 DEF Logout, RevokeDevice
  <2>2. Closed' = Closed
    BY <2>1 DEF Closed
  <2> QED
    BY <2>1, <2>2 DEF TypedInv
<1>9. ASSUME NEW c \in Challenges, Expire(c) PROVE TypedInv'
  <2>1. challenge[c] \in ChallengeRow
    BY <1>9 DEF Expire, TypedInv, NoChallenge
  <2>2. \A no \in BOOLEAN : /\ [challenge[c] EXCEPT !.live = no] \in ChallengeRow
                            /\ [challenge[c] EXCEPT !.live = no].open = challenge[c].open
    BY <2>1 DEF ChallengeRow
  <2>3. /\ [challenge[c] EXCEPT !.live = FALSE] \in ChallengeRow
        /\ [challenge[c] EXCEPT !.live = FALSE].open = challenge[c].open
    <3>1. FALSE \in BOOLEAN
      OBVIOUS
    <3> QED
      BY <2>2, <3>1
  <2>4. challenge' = [challenge EXCEPT ![c] = [challenge[c] EXCEPT !.live = FALSE]]
    BY <1>9 DEF Expire, TypedInv
  <2>5. UNCHANGED <<load, account, token, tries, clock, req, admitted, marks>>
    BY <1>9 DEF Expire
  <2>6. c \in Closed => ~challenge[c].open
    BY DEF Closed
  <2> QED
    BY <2>3, <2>4, <2>5, <2>6, RowTyped DEF TypedInv
<1>10. ASSUME NEW key \in Keys, WindowPasses(key) PROVE TypedInv'
  <2>1. tries[key] - 1 \in Nat
    BY <1>10 DEF WindowPasses, TypedInv
  <2>2. tries' \in [Keys -> Nat]
    BY <1>10, <2>1 DEF WindowPasses, TypedInv
  <2> QED
    BY <1>10, <2>2, RowsAlone DEF WindowPasses, TypedInv
<1>11. CASE Tick
  <2>1. clock' \in 0 .. MaxClock
    <3>1. load.periods \in 0 .. MaxClock
      BY AccountConstants DEF TypedInv, Workload
    <3> QED
      BY <1>11, <3>1, AccountConstants DEF Tick, TypedInv
  <2>2. UNCHANGED <<load, account, challenge, token, tries, req, admitted, marks>>
    BY <1>11 DEF Tick
  <2>3. Closed' = Closed
    BY <2>2 DEF Closed
  <2> QED
    BY <2>1, <2>2, <2>3 DEF TypedInv
<1> QED
  BY <1>1, <1>2, <1>3, <1>4, <1>5, <1>6, <1>7, <1>8, <1>9, <1>10, <1>11 DEF AccountsNext

\* The bounds that the invariants of guesses and of resets give.
LEMMA TypesFollow ==
    ASSUME TypedInv, SignOutInv, GuessInv
    PROVE  AccountsTypeOK
<1>0. /\ account \in AccountRow /\ req \in [Requests -> Work]
      /\ challenge \in [Challenges -> {NoChallenge} \cup ChallengeRow]
  BY DEF TypedInv
<1>1. ASSUME NEW c \in Challenges, challenge[c] # NoChallenge
      PROVE  challenge[c] \in [purpose : Purposes, open : BOOLEAN, live : BOOLEAN,
               attempts : 0 .. MaxAttempts + Cardinality(Requests),
               pw : 0 .. MaxPassword, since : 0 .. MaxPassword]
  <2>1. challenge[c] \in ChallengeRow
    BY <1>0, <1>1
  <2>2. /\ challenge[c].attempts \in Nat
        /\ challenge[c].attempts + Cardinality(Counting(c)) < MaxAttempts + Cardinality(Requests)
    BY DEF GuessInv, AttemptsKept
  <2>3. Cardinality(Counting(c)) \in Nat /\ Cardinality(Requests) \in Nat
    <3>1. Counting(c) \subseteq Requests
      BY DEF Counting
    <3> QED
      BY <3>1, AccountConstants, FS_Subset, FS_CardinalityType
  <2>4. challenge[c].attempts \in 0 .. MaxAttempts + Cardinality(Requests)
    BY <2>2, <2>3, AccountConstants
  <2> QED
    BY <2>1, <2>4 DEF ChallengeRow
<1>2. swept \in [Kinds -> 0 .. MaxPassword]
  <2>1. /\ swept \in [Kinds -> Nat] /\ swept["session"] \in Nat /\ swept["device"] \in Nat
        /\ Cardinality(Deleting) \in Nat /\ Cardinality(Revoking) \in Nat
    BY ResetsFinite DEF SignOutInv, SweepsFollow, Kinds
  <2>2. swept["session"] < account.pw /\ swept["device"] <= swept["session"]
    BY <1>0, <2>1 DEF SignOutInv, SweepsFollow, AccountRow
  <2>3. account.pw \in 0 .. MaxPassword
    BY <1>0 DEF AccountRow
  <2>4. swept["session"] \in 0 .. MaxPassword /\ swept["device"] \in 0 .. MaxPassword
    BY <2>1, <2>2, <2>3, AccountConstants
  <2> QED
    BY <2>1, <2>4 DEF Kinds
<1>3. admitted \in 0 .. MaxChallenges
  <2>1. Closed \subseteq 1 .. MaxChallenges
    BY DEF Closed, Challenges
  <2>2. /\ IsFiniteSet(1 .. MaxChallenges) /\ Cardinality(1 .. MaxChallenges) = MaxChallenges
    BY AccountConstants, FS_Interval
  <2>3. Cardinality(Closed) <= MaxChallenges
    BY <2>1, <2>2, FS_Subset
  <2> QED
    BY <2>3, ClosedCounted, AccountConstants DEF TypedInv
<1>4. challenge \in [Challenges -> {NoChallenge} \cup
               [purpose : Purposes, open : BOOLEAN, live : BOOLEAN,
                attempts : 0 .. MaxAttempts + Cardinality(Requests),
                pw : 0 .. MaxPassword, since : 0 .. MaxPassword]]
  BY <1>0, <1>1
<1>5. /\ load \in Workloads /\ tries \in [Keys -> Nat] /\ clock \in 0 .. MaxClock
      /\ marks \in Marks /\ DOMAIN req = Requests
      /\ account \in [pw : 1 .. MaxPassword, email2FA : BOOLEAN, totp : BOOLEAN,
                      secret : 0 .. MaxSecret, last : {-1} \cup Periods,
                      secrets : 0 .. MaxSecret]
      /\ token \in [Tokens -> {NoToken, Gone} \cup
             [kind : Kinds, alive : BOOLEAN, pw : 0 .. MaxPassword,
              since : 0 .. MaxPassword, minted : 0 .. MaxPassword]]
  BY <1>0 DEF TypedInv, AccountRow, TokenRow
<1> QED
  BY <1>2, <1>3, <1>4, <1>5 DEF AccountsTypeOK

\* The three invariants that the types rest on, together.
AccountsInv == TypedInv /\ SignOutInv /\ GuessInv

LEMMA AccountsInvInit == AccountsInit => AccountsInv
BY TypedInit, SignOutInit, GuessesInit DEF AccountsInv

LEMMA AccountsInvStep == AccountsInv /\ [AccountsNext]_accountVars => AccountsInv'
<1> SUFFICES ASSUME AccountsInv, [AccountsNext]_accountVars PROVE AccountsInv'
  OBVIOUS
<1>1. TypedInv /\ SignOutInv /\ GuessInv /\ ApprovalInv
  BY DEF AccountsInv, SignOutInv
<1>2. CASE AccountsNext
  BY <1>1, <1>2, TypedStep, SignOutSteps, GuessesSteps DEF AccountsInv
<1>3. CASE UNCHANGED accountVars
  <2>1. TypedInv'
    BY <1>1, <1>3, RowsAlone DEF TypedInv, accountVars
  <2> QED
    BY <1>1, <1>3, <2>1, SignOutSteps, GuessesSteps DEF AccountsInv
<1> QED
  BY <1>2, <1>3

\* Every state of Accounts is well formed: what is counted, stored and issued
\* stays within its bounds, whatever requests overlap.
THEOREM AccountsTypesHold == AccountsSpec => []AccountsTypeOK
<1>1. AccountsInv => AccountsTypeOK
  BY TypesFollow DEF AccountsInv
<1> QED
  BY <1>1, AccountsInvInit, AccountsInvStep, PTL DEF AccountsSpec

=============================================================================
