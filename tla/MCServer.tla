------------------------------- MODULE MCServer -------------------------------
(* The modules of the server that share nothing but the process they run in: *)
(* each behaviour is one of them, the others rest.                            *)
EXTENDS Accounts, Administration, Quota, Drives, Links, WebDAV, TLC

CONSTANTS r1, r2

VARIABLE part

serverVars == <<part, accountVars, administrationVars, quotaVars, drivesVars, linksVars,
                davVars>>

-----------------------------------------------------------------------------
NoWork == [uses |-> {}, limited |-> {}, signedIn |-> FALSE, email2FA |-> FALSE,
           totp |-> FALSE, challenges |-> 1, tokens |-> 1, periods |-> 0]

MCWorkloads == {
    NoWork,
    [NoWork EXCEPT !.uses = {"login", "login2FA", "device2FA"}, !.limited = {"2fa"},
                   !.email2FA = TRUE],
    [NoWork EXCEPT !.uses = {"login", "forgot", "reset", "devices", "logout"}, !.tokens = 2],
    [NoWork EXCEPT !.uses = {"login", "login2FA"}, !.totp = TRUE,
                   !.challenges = 2],
    [NoWork EXCEPT !.uses = {"totpSetup", "totpEnable", "totpDisable", "email2FA"},
                   !.signedIn = TRUE],
    [NoWork EXCEPT !.uses = {"qrCreate", "qrRedeem", "forgot", "reset"},
                   !.signedIn = TRUE, !.challenges = 2, !.tokens = 2],
    [NoWork EXCEPT !.uses = {"login", "deviceLogin", "totpSetup"},
                   !.limited = {"login", "totpSetup"}, !.signedIn = TRUE],
    [NoWork EXCEPT !.uses = {"login", "login2FA"}, !.totp = TRUE, !.periods = 1]}

Together(ops, members, grants) ==
    [ops |-> ops, members |-> members, grants |-> grants, admins |-> {}]

MCTasks ==
    {Together({}, {}, {}),
     Together({"createShared", "addMember", "removeMember", "grant", "batch"},
              {"viewer", "manager"}, {"viewer"}),
     Together({"createFolder", "upload", "grant", "revoke"}, {}, {"viewer", "editor"}),
     Together({"createFolder", "upload", "trash", "restore"}, {}, {}),
     Together({"createFolder", "move"}, {}, {}),
     Together({"upload", "move", "trash", "purge"}, {}, {}),
     Together({"createShared", "addMember", "upload", "move", "deleteDrive"},
              {"contributor"}, {}),
     Together({"createShared", "addMember", "batch", "trash", "purge", "deleteDrive"},
              {"manager"}, {})}
    \cup {[Together({"createFolder", "grant"}, {}, {"viewer"})
             EXCEPT !.admins = {p}] : p \in People}

OneFile == [there |-> TRUE, permission |-> "download", hash |-> 0,
            legacy |-> FALSE, expired |-> FALSE, count |-> 0, max |-> 1]

MCOffers == {OneFile,
             [OneFile EXCEPT !.hash = 1, !.legacy = TRUE],
             [OneFile EXCEPT !.hash = 1, !.max = Unlimited, !.permission = "view"]}

\* Two spellings of one file, and a file elsewhere.
xLower == [dir |-> "d", name |-> "x", spelled |-> "x"]
xUpper == [dir |-> "d", name |-> "x", spelled |-> "X"]
yThere == [dir |-> "e", name |-> "y", spelled |-> "y"]

MCPaths == {xLower, xUpper, yThere}

Mounted(ops, paths) == [ops |-> ops, paths |-> paths, revocable |-> FALSE, browser |-> FALSE]

MCMounts == {Mounted({}, {}),
             [Mounted({"PUT"}, {xLower}) EXCEPT !.revocable = TRUE],
             [Mounted({"PUT", "LOCK"}, {xLower}) EXCEPT !.browser = TRUE],
             Mounted({"MOVE", "LOCK"}, {xLower, yThere}),
             Mounted({"COPY", "DELETE", "LOCK"}, {xLower, xUpper})}

\* Files = Items, and Requests, Callers, Writers, Clerks, Visitors and Mounters
\* are one set.
Symmetry == Permutations(Requests) \cup Permutations(People) \cup Permutations(Items)

-----------------------------------------------------------------------------
\* The modules that rest keep one fixed initial state.
ServerInit ==
    /\ part \in {"accounts", "administration", "quota", "drives", "links", "webdav"}
    /\ AccountsInit /\ AdministrationInit /\ QuotaInit /\ DrivesInit /\ LinksInit
    /\ DavInit
    /\ part = "accounts" \/ load = NoWork
    /\ part = "administration" \/ (Registered = {} /\ openToAll)
    /\ part = "drives" \/ task = Together({}, {}, {})
    /\ part = "webdav" \/ mount = Mounted({}, {})

ServerNext ==
    \/ /\ part = "accounts" /\ AccountsNext
       /\ UNCHANGED <<part, administrationVars, quotaVars, drivesVars, linksVars, davVars>>
    \/ /\ part = "administration" /\ AdministrationNext
       /\ UNCHANGED <<part, accountVars, quotaVars, drivesVars, linksVars, davVars>>
    \/ /\ part = "quota" /\ QuotaNext
       /\ UNCHANGED <<part, accountVars, administrationVars, drivesVars, linksVars, davVars>>
    \/ /\ part = "drives" /\ DrivesNext
       /\ UNCHANGED <<part, accountVars, administrationVars, quotaVars, linksVars, davVars>>
    \/ /\ part = "links" /\ LinksNext
       /\ UNCHANGED <<part, accountVars, administrationVars, quotaVars, drivesVars, davVars>>
    \/ /\ part = "webdav" /\ DavNext
       /\ UNCHANGED <<part, accountVars, administrationVars, quotaVars, drivesVars, linksVars>>

ServerSpec == ServerInit /\ [][ServerNext]_serverVars

\* The types of the state of the module that runs.
ServerTypeOK ==
    /\ part = "accounts"       => AccountsTypeOK
    /\ part = "administration" => AdministrationTypeOK
    /\ part = "quota"          => QuotaTypeOK
    /\ part = "drives"         => DrivesTypeOK
    /\ part = "links"          => LinksTypeOK
    /\ part = "webdav"         => DavTypeOK

=============================================================================
