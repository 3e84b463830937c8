------------------------------ MODULE Accounts ------------------------------
(***************************************************************************)
(* Signing in to TR Driver: internal/auth and internal/totp.               *)
(*                                                                         *)
(* One account, seen by several requests at once.  Every statement of a    *)
(* handler is a step of its own, for no handler of this package but        *)
(* Register runs in a transaction: what a request has read is kept in its  *)
(* record and may be stale when it is used.                                *)
(*                                                                         *)
(* An approval is a row of auth_challenges: the code of a login by e-mail, *)
(* the pending login with an authenticator, the code of a password reset,  *)
(* the QR code that pairs a device.  A token is a row of sessions or of    *)
(* devices.                                                                *)
(***************************************************************************)
EXTENDS Integers, FiniteSets

CONSTANTS
    Requests,       \* handlers that may run at the same time
    Workloads,      \* what clients ask of the account: see Workload
    MaxAttempts,    \* maxOTPAttempts: 5 in otp.go
    Limit,          \* failures that block an address: 10 in service.go
    MaxChallenges,  \* bound on the approvals issued
    MaxTokens,      \* bound on the sessions and devices issued
    MaxPassword,    \* bound on the passwords the account has had
    MaxSecret,      \* bound on the authenticator secrets generated
    MaxClock        \* bound on the periods of the authenticator's clock

VARIABLES
    load,       \* the workload of this behaviour
    account,    \* the row of users
    challenge,  \* auth_challenges
    token,      \* sessions and devices
    tries,      \* loginLimiter: recent failures of the address, by purpose
    clock,      \* the authenticator's period, now.Unix() / Period
    req,        \* what each handler is doing and what it has read
    admitted,   \* history: sign-ins and resets granted by a challenge
    swept,      \* history: how often a reset has removed each kind of token
    marks       \* history of the authenticator: see Marks

accountVars == <<load, account, challenge, token, tries, clock, req,
                 admitted, swept, marks>>

-----------------------------------------------------------------------------
Challenges == 1 .. MaxChallenges
Tokens     == 1 .. MaxTokens
Periods    == 0 .. MaxClock + 1
Kinds      == {"session", "device"}
Purposes   == {"login_2fa", "login_totp", "password_reset", "qr_login"}
Keys       == {"login", "2fa", "reset", "reset-complete",
               "email2FA", "totpSetup", "totpEnable", "totpDisable"}

Endpoints ==
    {"login", "deviceLogin", "login2FA", "device2FA", "forgot", "reset", "email2FA",
     "totpSetup", "totpEnable", "totpDisable", "logout", "devices", "qrCreate", "qrRedeem"}

\* The endpoints that clients use together, the limiter keys whose failures are
\* counted, the account at the beginning, and bounds on what is issued.
Workload ==
    [uses : SUBSET Endpoints, limited : SUBSET Keys,
     signedIn : BOOLEAN, email2FA : BOOLEAN, totp : BOOLEAN,
     challenges : 0 .. MaxChallenges, tokens : 0 .. MaxTokens, periods : 0 .. MaxClock]

ASSUME AccountConstants ==
    /\ MaxAttempts \in Nat \ {0} /\ Limit \in Nat \ {0}
    /\ MaxChallenges \in Nat /\ MaxTokens \in Nat /\ MaxPassword \in Nat \ {0}
    /\ MaxSecret \in Nat \ {0} /\ MaxClock \in Nat
    /\ IsFiniteSet(Requests) /\ Workloads \subseteq Workload

NoChallenge == [purpose |-> "none", open |-> FALSE, live |-> FALSE, attempts |-> 0,
                pw |-> 0, since |-> 0]
NoToken     == [kind |-> "none", alive |-> FALSE, pw |-> 0, since |-> 0, minted |-> 0]
Gone        == [NoToken EXCEPT !.kind = "gone"]
Idle        == [op |-> "none", at |-> "idle", pw |-> 0, since |-> 0, c |-> 0, t |-> 0,
                older |-> FALSE, right |-> FALSE, s |-> 0, k |-> 0]

\* proved:  the secret whose code an EnableTOTP has checked
\* used:    the codes <<secret, period>> that have let somebody in
\* again:   a code has let somebody in twice
\* overlap: a request wrote after another had changed the secret it had read,
\*          enabled what another had enabled meanwhile, or answered a login
\*          begun before with a secret that is stored and not enabled
Marks == [proved : 0 .. MaxSecret, used : SUBSET ((0 .. MaxSecret) \X Periods),
          again : BOOLEAN, overlap : BOOLEAN]

AccountsTypeOK ==
    /\ load \in Workloads
    /\ account \in [pw : 1 .. MaxPassword, email2FA : BOOLEAN, totp : BOOLEAN,
                    secret : 0 .. MaxSecret, last : {-1} \cup Periods,
                    secrets : 0 .. MaxSecret]
    /\ challenge \in [Challenges ->
           {NoChallenge} \cup
           [purpose : Purposes, open : BOOLEAN, live : BOOLEAN,
            attempts : 0 .. MaxAttempts + Cardinality(Requests),
            pw : 0 .. MaxPassword, since : 0 .. MaxPassword]]
    /\ token \in [Tokens ->
           {NoToken, Gone} \cup [kind : Kinds, alive : BOOLEAN, pw : 0 .. MaxPassword,
                           since : 0 .. MaxPassword, minted : 0 .. MaxPassword]]
    /\ tries \in [Keys -> Nat]
    /\ clock \in 0 .. MaxClock
    /\ DOMAIN req = Requests
    /\ admitted \in 0 .. MaxChallenges
    /\ swept \in [Kinds -> 0 .. MaxPassword]
    /\ marks \in Marks

AccountsInit ==
    /\ load \in Workloads
    /\ account = [pw |-> 1, email2FA |-> load.email2FA, totp |-> load.totp,
                  secret  |-> IF load.totp THEN 1 ELSE 0,
                  last    |-> IF load.totp THEN 0 ELSE -1,
                  secrets |-> IF load.totp THEN 1 ELSE 0]
    /\ challenge = [c \in Challenges |-> NoChallenge]
    /\ token = [t \in Tokens |->
           IF t = 1 /\ load.signedIn
           THEN [NoToken EXCEPT !.kind = "session", !.alive = TRUE, !.pw = 1]
           ELSE NoToken]
    /\ tries = [key \in Keys |-> 0]
    /\ clock = 0
    /\ req = [r \in Requests |-> Idle]
    /\ admitted = 0
    /\ swept = [kind \in Kinds |-> 0]
    /\ marks = [proved |-> account.secret, used |-> {}, again |-> FALSE, overlap |-> FALSE]

-----------------------------------------------------------------------------
(* Requests *)

Ready(r, ops) == req[r] = Idle /\ ops \cap load.uses # {}

Begin(r, work) == req' = [req EXCEPT ![r] = work]

Go(r, step) == req' = [req EXCEPT ![r].at = step]
Done(r)     == req' = [req EXCEPT ![r] = Idle]

\* loginLimiter
blocked(key) == tries[key] >= Limit
add(key)     == tries' = IF key \in load.limited THEN [tries EXCEPT ![key] = @ + 1] ELSE tries

\* pruneAfter: the oldest failure leaves the window
WindowPasses(key) ==
    /\ tries[key] > 0
    /\ tries' = [tries EXCEPT ![key] = @ - 1]
    /\ UNCHANGED <<load, account, challenge, token, clock, req, admitted, swept, marks>>

\* The limiter that a failing request reports to.
KeyOf(op) ==
    CASE op \in {"login", "deviceLogin"}   -> "login"
      [] op \in {"login2FA", "device2FA"} -> "2fa"
      [] op = "reset"                      -> "reset-complete"

Refused(r) == add(KeyOf(req[r].op)) /\ Done(r)

UserBySession(t)     == token[t].kind = "session" /\ token[t].alive
RequireSession(t)    == UserBySession(t)
UserByDeviceToken(t) == token[t].kind = "device" /\ token[t].alive

\* securityAttempt refuses before it counts; the two calls lock separately.
securityAttempt(t, op) == RequireSession(t) /\ ~blocked(op)

-----------------------------------------------------------------------------
(* Password and second factor *)

\* A request with a password, of now, of before or of never
WithPassword(r, op) ==
    /\ Ready(r, {op})
    /\ ~blocked("login")
    /\ \E p \in 0 .. account.pw :
         Begin(r, [Idle EXCEPT !.op = op, !.at = "password", !.pw = p,
                               !.since = swept["session"]])
    /\ UNCHANGED <<load, account, challenge, token, tries, clock, admitted, swept, marks>>

Login(r)       == WithPassword(r, "login")
DeviceLogin(r) == WithPassword(r, "deviceLogin")      \* without a code

\* Service.Login; BeginDeviceLogin differs only in what it ends with.
AfterPassword(r) ==
    IF account.totp THEN "startTOTPLogin"
    ELSE IF account.email2FA THEN "startLogin2FA"
    ELSE IF req[r].op = "login" THEN "issueSession" ELSE "createDevice"

\* One read of the row gives the hash and which second factor is asked for.
authenticatePassword(r) ==
    /\ req[r].at = "password"
    /\ \/ /\ req[r].pw # account.pw
          /\ Refused(r)
       \/ /\ req[r].pw = account.pw
          /\ Go(r, AfterPassword(r))
          /\ UNCHANGED tries
    /\ UNCHANGED <<load, account, challenge, token, clock, admitted, swept, marks>>

\* The older open challenges are consumed first; an error of this statement
\* is ignored.
ConsumeOlder(r, purpose) ==
    /\ ~req[r].older
    /\ \/ challenge' = [c \in Challenges |->
               IF challenge[c].purpose = purpose THEN [challenge[c] EXCEPT !.open = FALSE]
               ELSE challenge[c]]
       \/ UNCHANGED challenge
    /\ req' = [req EXCEPT ![r].older = TRUE]
    /\ UNCHANGED <<load, account, token, tries, clock, admitted, swept, marks>>

NewChallenge(r, purpose) ==
    [purpose |-> purpose, open |-> TRUE, live |-> TRUE, attempts |-> 0,
     pw |-> req[r].pw, since |-> req[r].since]

InsertChallenge(r, purpose) ==
    /\ req[r].older
    /\ \E c \in 1 .. load.challenges :
         /\ challenge[c] = NoChallenge
         /\ \A d \in 1 .. c - 1 : challenge[d] # NoChallenge
         /\ challenge' = [challenge EXCEPT ![c] = NewChallenge(r, purpose)]
    /\ Done(r)
    /\ UNCHANGED <<load, account, token, tries, clock, admitted, swept, marks>>

Challenge(r, step, purpose) ==
    req[r].at = step /\ (ConsumeOlder(r, purpose) \/ InsertChallenge(r, purpose))

startLogin2FA(r)   == Challenge(r, "startLogin2FA", "login_2fa")
startTOTPLogin(r)  == Challenge(r, "startTOTPLogin", "login_totp")
createChallenge(r) == Challenge(r, "createChallenge", "password_reset")
createQR(r)        == Challenge(r, "createQR", "qr_login")

\* expires_at passes
Expire(c) ==
    /\ challenge[c].live
    /\ challenge' = [challenge EXCEPT ![c].live = FALSE]
    /\ UNCHANGED <<load, account, token, tries, clock, req, admitted, swept, marks>>

-----------------------------------------------------------------------------
(* Completing a login *)

\* For a code by e-mail, right says whether it is the one that was sent; for an
\* authenticator, s and k are the secret and the period it was made from.
CompleteLogin2FA(r, op) ==
    /\ Ready(r, {op})
    /\ ~blocked("2fa")
    /\ \E c \in Challenges, s \in 0 .. account.secrets, k \in 0 .. clock + 1,
          right \in BOOLEAN :
         /\ challenge[c].purpose \in {"login_2fa", "login_totp"}
         /\ (challenge[c].purpose = "login_2fa") => s = 0
         /\ s = 0 => k = 0
         /\ (challenge[c].purpose = "login_totp") => ~right
         /\ Begin(r, [Idle EXCEPT !.op = op, !.at = "select", !.c = c, !.right = right,
                                  !.s = s, !.k = k, !.pw = challenge[c].pw,
                                  !.since = challenge[c].since])
    /\ UNCHANGED <<load, account, challenge, token, tries, clock, admitted, swept, marks>>

Login2FA(r)       == CompleteLogin2FA(r, "login2FA")
DeviceLogin2FA(r) == CompleteLogin2FA(r, "device2FA")   \* Handler.DeviceLogin with a code

Open(c) == challenge[c].open /\ challenge[c].live

\* A reset has no challenge token: it means the latest open challenge.
Latest(c) ==
    /\ challenge[c].purpose = "password_reset" /\ Open(c)
    /\ \A d \in Challenges : challenge[d].purpose = "password_reset" /\ Open(d) => d <= c

\* attempts >= maxOTPAttempts
ExhaustedLate(c) == challenge[c].attempts > MaxAttempts      \* mutant
Exhausted(c) == challenge[c].attempts >= MaxAttempts

\* consumeChallenge and consumeTOTPChallenge up to the comparison
SelectChallenge(r) ==
    /\ req[r].at = "select"
    /\ \/ \E c \in Challenges :
            /\ IF req[r].op = "reset" THEN Latest(c) ELSE c = req[r].c /\ Open(c)
            /\ req' = [req EXCEPT ![r].c = c,
                   ![r].at = IF Exhausted(c) THEN "close"
                             ELSE IF challenge[c].purpose = "login_totp" THEN "match"
                             ELSE IF req[r].right THEN "consume" ELSE "count"]
            /\ UNCHANGED tries
       \/ /\ \A c \in Challenges :
               ~(IF req[r].op = "reset" THEN Latest(c) ELSE c = req[r].c /\ Open(c))
          /\ Refused(r)
    /\ UNCHANGED <<load, account, challenge, token, clock, admitted, swept, marks>>

\* totp.Match: the periods around now that have not been used
Match(s, k, last) == s = account.secret /\ s # 0 /\ k \in clock - 1 .. clock + 1 /\ k > last

MatchTOTP(r) ==
    /\ req[r].at = "match"
    /\ Go(r, IF Match(req[r].s, req[r].k, account.last) THEN "advance" ELSE "count")
    /\ UNCHANGED <<load, account, challenge, token, tries, clock, admitted, swept, marks>>

\* update users set totp_last_counter = $1 where totp_last_counter < $1
NotOlder(k) == account.last <= k                             \* mutant
NotYetUsed(k) == account.last < k

AdvanceCounter(r) ==
    /\ req[r].at = "advance"
    /\ \/ /\ NotYetUsed(req[r].k)
          /\ account' = [account EXCEPT !.last = req[r].k]
          /\ marks' = [marks EXCEPT !.overlap =
                           @ \/ account.secret # req[r].s \/ ~account.totp]
          /\ Go(r, "consume")
          /\ UNCHANGED tries
       \/ /\ ~NotYetUsed(req[r].k)
          /\ Refused(r)
          /\ UNCHANGED <<account, marks>>
    /\ UNCHANGED <<load, challenge, token, clock, admitted, swept>>

CountAttempt(r) ==
    /\ req[r].at = "count"
    /\ challenge' = [challenge EXCEPT ![req[r].c].attempts = @ + 1]
    /\ Refused(r)
    /\ UNCHANGED <<load, account, token, clock, admitted, swept, marks>>

CloseChallenge(r) ==
    /\ req[r].at = "close"
    /\ challenge' = [challenge EXCEPT ![req[r].c].open = FALSE]
    /\ Refused(r)
    /\ UNCHANGED <<load, account, token, clock, admitted, swept, marks>>

\* A code that lets somebody in is remembered, so that a second time shows.
CodeUsed(r) ==
    marks' = IF challenge[req[r].c].purpose # "login_totp" THEN marks
             ELSE [marks EXCEPT !.used = @ \cup {<<req[r].s, req[r].k>>},
                                !.again = @ \/ <<req[r].s, req[r].k>> \in marks.used]

\* update auth_challenges set consumed_at = now() where consumed_at is null
Known(c) == challenge[c] # NoChallenge                       \* mutant
StillOpen(c) == challenge[c].open

Consume(r) ==
    /\ req[r].at = "consume"
    /\ \/ /\ StillOpen(req[r].c)
          /\ challenge' = [challenge EXCEPT ![req[r].c].open = FALSE]
          /\ admitted' = admitted + 1
          /\ CodeUsed(r)
          /\ Go(r, CASE req[r].op = "reset"   -> "setPassword"
                     [] req[r].op = "qrRedeem" -> "createDevice"
                     [] OTHER                  -> "issueSession")
          /\ UNCHANGED tries
       \/ /\ ~StillOpen(req[r].c)
          /\ Done(r)
          /\ IF req[r].op = "qrRedeem" THEN UNCHANGED tries ELSE add(KeyOf(req[r].op))
          /\ UNCHANGED <<challenge, admitted, marks>>
    /\ UNCHANGED <<load, account, token, clock, swept>>

-----------------------------------------------------------------------------
(* Tokens *)

NewToken(r, kind) ==
    [kind |-> kind, alive |-> TRUE, pw |-> req[r].pw, since |-> req[r].since,
     minted |-> swept[kind]]

Mint(t, r, kind) ==
    /\ t <= load.tokens /\ token[t] = NoToken
    /\ \A u \in 1 .. t - 1 : token[u] # NoToken
    /\ token' = [token EXCEPT ![t] = NewToken(r, kind)]

\* A device that completes a login gets a session first, which is removed.
issueSession(r) ==
    /\ req[r].at = "issueSession"
    /\ \E t \in Tokens :
         /\ Mint(t, r, "session")
         /\ IF req[r].op = "device2FA"
            THEN req' = [req EXCEPT ![r].at = "dropSession", ![r].t = t]
            ELSE Done(r)
    /\ UNCHANGED <<load, account, challenge, tries, clock, admitted, swept, marks>>

\* The error of this Logout is ignored.
DropSession(r) ==
    /\ req[r].at = "dropSession"
    /\ \/ token' = [token EXCEPT ![req[r].t] = Gone]
       \/ UNCHANGED token
    /\ Go(r, "createDevice")
    /\ UNCHANGED <<load, account, challenge, tries, clock, admitted, swept, marks>>

\* A device name that is empty or too long is refused only now.
CreateDevice(r) ==
    /\ req[r].at = "createDevice"
    /\ \/ \E t \in Tokens : Mint(t, r, "device")
       \/ UNCHANGED token
    /\ Done(r)
    /\ UNCHANGED <<load, account, challenge, tries, clock, admitted, swept, marks>>

\* Handler.Devices, POST
Devices(r) ==
    /\ Ready(r, {"devices"})
    /\ \E t \in Tokens :
         /\ RequireSession(t)
         /\ Begin(r, [Idle EXCEPT !.op = "devices", !.at = "createDevice",
                                  !.pw = token[t].pw, !.since = token[t].since])
    /\ UNCHANGED <<load, account, challenge, token, tries, clock, admitted, swept, marks>>

\* Handler.Logout; a session past its SessionTTL is as good as deleted.
Logout(t) ==
    /\ UserBySession(t) /\ "logout" \in load.uses
    /\ token' = [token EXCEPT ![t] = Gone]
    /\ UNCHANGED <<load, account, challenge, tries, clock, req, admitted, swept, marks>>

\* Handler.Device by a session, Handler.DeviceLogout by the device itself
RevokeDevice(t) ==
    /\ UserByDeviceToken(t) /\ "devices" \in load.uses
    /\ token' = [token EXCEPT ![t] = Gone]
    /\ UNCHANGED <<load, account, challenge, tries, clock, req, admitted, swept, marks>>

\* Handler.CreateQRLogin
CreateQRLogin(r) ==
    /\ Ready(r, {"qrCreate"})
    /\ \E t \in Tokens :
         /\ RequireSession(t)
         /\ Begin(r, [Idle EXCEPT !.op = "qrCreate", !.at = "createQR",
                                  !.pw = token[t].pw, !.since = token[t].since])
    /\ UNCHANGED <<load, account, challenge, token, tries, clock, admitted, swept, marks>>

\* Handler.RedeemQRLogin and the read of RedeemQRLogin
RedeemQRLogin(r) ==
    /\ Ready(r, {"qrRedeem"})
    /\ \E c \in Challenges :
         /\ challenge[c].purpose = "qr_login" /\ Open(c)
         /\ Begin(r, [Idle EXCEPT !.op = "qrRedeem", !.at = "consume", !.c = c,
                                  !.pw = challenge[c].pw, !.since = challenge[c].since])
    /\ UNCHANGED <<load, account, challenge, token, tries, clock, admitted, swept, marks>>

-----------------------------------------------------------------------------
(* Password reset *)

\* Handler.ForgotPassword
ForgotRequest(r) ==
    /\ Ready(r, {"forgot"})
    /\ ~blocked("reset")
    /\ Begin(r, [Idle EXCEPT !.op = "forgot", !.at = "forgot"])
    /\ UNCHANGED <<load, account, challenge, token, tries, clock, admitted, swept, marks>>

\* Without a configured mail server nothing is sent.
ForgotPassword(r) ==
    /\ req[r].at = "forgot"
    /\ add("reset")
    /\ Go(r, "createChallenge") \/ Done(r)
    /\ UNCHANGED <<load, account, challenge, token, clock, admitted, swept, marks>>

\* Handler.ResetPassword
ResetRequest(r) ==
    /\ Ready(r, {"reset"})
    /\ ~blocked("reset-complete")
    /\ \E right \in BOOLEAN :
         Begin(r, [Idle EXCEPT !.op = "reset", !.at = "select", !.right = right])
    /\ UNCHANGED <<load, account, challenge, token, tries, clock, admitted, swept, marks>>

WithoutSessions(kind) ==                                     \* mutant
    [t \in Tokens |-> IF token[t].kind = "session" THEN Gone ELSE token[t]]

Without(kind) ==
    [t \in Tokens |-> IF token[t].kind = kind THEN Gone ELSE token[t]]

\* ResetPassword after the code: three statements, the password first
ResetPassword(r) ==
    \/ /\ req[r].at = "setPassword" /\ account.pw < MaxPassword
       /\ account' = [account EXCEPT !.pw = @ + 1]
       /\ Go(r, "deleteSessions")
       /\ UNCHANGED <<load, challenge, token, tries, clock, admitted, swept, marks>>
    \/ /\ req[r].at = "deleteSessions"
       /\ token' = Without("session")
       /\ swept' = [swept EXCEPT !["session"] = @ + 1]
       /\ Go(r, "revokeDevices")
       /\ UNCHANGED <<load, account, challenge, tries, clock, admitted, marks>>
    \/ /\ req[r].at = "revokeDevices"
       /\ token' = Without("device")
       /\ swept' = [swept EXCEPT !["device"] = @ + 1]
       /\ Done(r)
       /\ UNCHANGED <<load, account, challenge, tries, clock, admitted, marks>>

-----------------------------------------------------------------------------
(* Second factors *)

\* The handlers up to the service; securityAttempt counts every request, in the
\* next step.
SecurityRequest(r, op, secrets, rights) ==
    /\ Ready(r, {op})
    /\ \E t \in Tokens, p \in 0 .. account.pw, s \in secrets, k \in 0 .. clock + 1,
          right \in rights :
         /\ securityAttempt(t, op)
         /\ s = 0 => k = 0
         /\ Begin(r, [Idle EXCEPT !.op = op, !.at = "verify", !.pw = p, !.s = s, !.k = k,
                                  !.right = right])
    /\ UNCHANGED <<load, account, challenge, token, tries, clock, admitted, swept, marks>>

Security(r)    == SecurityRequest(r, "email2FA", {0}, BOOLEAN)
TOTPSetup(r)   == SecurityRequest(r, "totpSetup", {0}, {FALSE})
TOTPEnable(r)  == SecurityRequest(r, "totpEnable", 0 .. account.secrets, {FALSE})
TOTPDisable(r) == SecurityRequest(r, "totpDisable", 0 .. account.secrets, {FALSE})

\* What a request does next whose password is right.
Verified(r) ==
    CASE req[r].op = "email2FA"  -> "setEmail2FA"
      [] req[r].op = "totpSetup" -> "readEnabled"
      [] req[r].op = "totpEnable" ->
           IF ~account.totp /\ Match(req[r].s, req[r].k, -1) THEN "enable" ELSE "refused"
      [] req[r].op = "totpDisable" ->
           IF account.totp => Match(req[r].s, req[r].k, account.last) THEN "disable"
           ELSE "refused"

Verify(r) ==
    /\ req[r].at = "verify"
    /\ add(req[r].op)
    /\ IF req[r].pw = account.pw /\ Verified(r) # "refused" THEN Go(r, Verified(r)) ELSE Done(r)
    /\ UNCHANGED <<load, account, challenge, token, clock, admitted, swept, marks>>

\* Switching the e-mail code on needs a configured mail server.
SetEmail2FA(r) ==
    /\ req[r].at = "setEmail2FA"
    /\ \/ account' = [account EXCEPT !.email2FA = req[r].right]
       \/ req[r].right /\ UNCHANGED account
    /\ Done(r)
    /\ UNCHANGED <<load, challenge, token, tries, clock, admitted, swept, marks>>

\* BeginTOTPSetup reads totp_enabled in a statement of its own, ...
ReadEnabled(r) ==
    /\ req[r].at = "readEnabled"
    /\ IF account.totp THEN Done(r) ELSE Go(r, "storeSecret")
    /\ UNCHANGED <<load, account, challenge, token, tries, clock, admitted, swept, marks>>

\* ... and stores a pending secret.
Pending(secret) ==
    [account EXCEPT !.secret = secret, !.totp = FALSE, !.last = -1, !.secrets = secret]

StoreSecret(r) ==
    /\ req[r].at = "storeSecret" /\ account.secrets < MaxSecret
    /\ account' = Pending(account.secrets + 1)
    /\ Done(r)
    /\ UNCHANGED <<load, challenge, token, tries, clock, admitted, swept, marks>>

EnableTOTP(r) ==
    /\ req[r].at = "enable"
    /\ account' = [account EXCEPT !.totp = TRUE, !.last = req[r].k]
    /\ marks' = [marks EXCEPT !.proved = req[r].s,
                     !.overlap = @ \/ account.totp \/ account.secret # req[r].s]
    /\ Done(r)
    /\ UNCHANGED <<load, challenge, token, tries, clock, admitted, swept>>

DisableTOTP(r) ==
    /\ req[r].at = "disable"
    /\ account' = [account EXCEPT !.totp = FALSE, !.secret = 0, !.last = -1]
    /\ Done(r)
    /\ UNCHANGED <<load, challenge, token, tries, clock, admitted, swept, marks>>

Tick ==
    /\ clock < load.periods
    /\ clock' = clock + 1
    /\ UNCHANGED <<load, account, challenge, token, tries, req, admitted, swept, marks>>

\* A statement fails, or the client goes away: the handler returns, and what
\* it has already written stays.
StatementFails(r) ==
    /\ req[r] # Idle
    /\ IF req[r].at \in {"password", "select", "match", "advance", "consume"}
          /\ req[r].op # "qrRedeem"
       THEN Refused(r)
       ELSE Done(r) /\ UNCHANGED tries
    /\ UNCHANGED <<load, account, challenge, token, clock, admitted, swept, marks>>

-----------------------------------------------------------------------------
AccountsNext ==
    \/ \E r \in Requests :
         \/ Login(r) \/ DeviceLogin(r) \/ authenticatePassword(r)
         \/ startLogin2FA(r) \/ startTOTPLogin(r) \/ createChallenge(r) \/ createQR(r)
         \/ Login2FA(r) \/ DeviceLogin2FA(r) \/ SelectChallenge(r)
         \/ MatchTOTP(r) \/ AdvanceCounter(r)
         \/ CountAttempt(r) \/ CloseChallenge(r) \/ Consume(r)
         \/ issueSession(r) \/ DropSession(r) \/ CreateDevice(r) \/ Devices(r)
         \/ CreateQRLogin(r) \/ RedeemQRLogin(r)
         \/ ForgotRequest(r) \/ ForgotPassword(r) \/ ResetRequest(r) \/ ResetPassword(r)
         \/ Security(r) \/ TOTPSetup(r) \/ TOTPEnable(r) \/ TOTPDisable(r)
         \/ Verify(r) \/ SetEmail2FA(r)
         \/ ReadEnabled(r) \/ StoreSecret(r) \/ EnableTOTP(r) \/ DisableTOTP(r)
         \/ StatementFails(r)
    \/ \E t \in Tokens : Logout(t) \/ RevokeDevice(t)
    \/ \E c \in Challenges : Expire(c)
    \/ \E key \in Keys : WindowPasses(key)
    \/ Tick

AccountsSpec == AccountsInit /\ [][AccountsNext]_accountVars

-----------------------------------------------------------------------------
(* Properties *)

\* Every row of auth_challenges lets its holder in at most once, whatever
\* requests overlap: the approval of SingleUse.
Approval == INSTANCE SingleUse WITH
    Approvals <- Challenges,
    offered   <- {c \in Challenges : challenge[c] # NoChallenge},
    spent     <- {c \in Challenges : challenge[c] # NoChallenge /\ ~challenge[c].open}

ApprovalsAdmitOnce == Approval!ApprovalSpec

\* Wrong codes: attempts are read, compared and incremented by different
\* statements, so that requests which overlap may pass maxOTPAttempts and the
\* limit of the address, but by no more than their number.
GuessesBounded ==
    /\ \A c \in Challenges :
         challenge[c].attempts <= MaxAttempts + Cardinality(Requests) - 1
    /\ \A key \in Keys : tries[key] <= Limit + Cardinality(Requests) - 1

\* Once the resets have done all their statements, a token obtained with an
\* older password is one that a login or an approval begun before the reset
\* has brought afterwards: no session or device older than the reset is left.
ResetSignsOut ==
    account.pw = 1 + swept["device"] =>
        \A t \in Tokens :
            token[t].alive /\ token[t].pw < account.pw =>
                /\ token[t].since < swept["session"]
                /\ token[t].minted = swept[token[t].kind]

\* An authenticator that is asked for is one whose code has been checked, and
\* a code of it admits once, unless requests overlap that change its secret, or
\* a login still open from before is answered with a secret not enabled yet.
AuthenticatorTruthful ==
    ~marks.overlap =>
        /\ account.totp => account.secret = marks.proved
        /\ ~marks.again

=============================================================================
