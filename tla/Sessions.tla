------------------------------- MODULE Sessions -------------------------------
(***************************************************************************)
(* Accounts and sessions: src/src/services/auth.service.js and             *)
(* token.service.js with token.repository.js and user.repository.js, the   *)
(* authenticate middleware, changePassword (user.service.js),              *)
(* setUserActiveStatus (admin.service.js), the token cleanup job, and what *)
(* reviewDriver (verification.service.js) does to the sessions of a driver *)
(* it suspends or rejects; the status itself belongs to Vetting.           *)
(*                                                                         *)
(* A session is a pair of an access token, a signed value nobody stores,   *)
(* and a refresh token, a row of refresh_tokens.  Each awaited query is    *)
(* one step; what a handler holds between two of them is its record in     *)
(* "req", and it may die before any of them.  Time is counted in ticks:    *)
(* an access token has an age, the revocation marker a time to live.       *)
(* Left out: the emails (EmailDelivery) and lastLoginAt.                   *)
(***************************************************************************)
EXTENDS Naturals, FiniteSets

CONSTANTS
    Users,        \* email addresses, one account each
    Passwords,
    Tokens,       \* sessions: the n-th refresh token and its access token
    Links,        \* rows of verification_tokens
    Reqs,         \* HTTP requests that may be in flight at one time
    Life,         \* JWT_ACCESS_EXPIRES_IN, in ticks
    Skew,         \* clockTolerance of verifyAccessToken, in ticks
    MaxFailures,  \* MAX_FAILED_LOGIN_ATTEMPTS
    Ops,          \* the operations requests are made of
    None          \* null

Operations == {"register", "login", "googleAuth", "refresh", "logout", "logoutAll",
               "changePassword", "forgotPassword", "resetPassword", "verifyEmail",
               "resendVerification", "deactivate", "reactivate", "reviewDriver"}

ASSUME TimesAssumption == Life \in Nat \ {0} /\ Skew \in Nat /\ MaxFailures \in Nat \ {0}
ASSUME OpsAssumption == Ops \subseteq Operations
ASSUME NoneAssumption == None \notin Users \cup Passwords \cup Tokens \cup Links \cup Nat
ASSUME KindsAssumption == Tokens \cap Links = {}

VARIABLES
    account,   \* the User table
    row,       \* refresh_tokens: what became of each row
    owner,     \* ... and its userId
    age,       \* ticks since an access token was signed, up to DeadAge
    marker,    \* Redis auth:accessRevoked:<user>: ticks left, 0 when gone
    failures,  \* Redis auth:failedLogin:<email>, a counter and whether it expires
    link,      \* verification_tokens
    audit,     \* audit_log entries about accounts
    req,       \* the handlers in flight
    ended,     \* sessions that a finished request has promised to be over
    cut        \* ... their access tokens included

vars == <<account, row, owner, age, marker, failures, link, audit, req, ended, cut>>

DeadAge == Life + Skew
RowState == {"none", "live", "expired", "revoked", "deleted"}
LinkState == {"none", "unused", "expired", "used", "deleted"}
LinkType == {"EMAIL_VERIFICATION", "PASSWORD_RESET"}

Idle == [op |-> "idle", pc |-> "done", user |-> None, password |-> None, old |-> None,
         new |-> None, link |-> None, links |-> {}, seen |-> {}, wasActive |-> FALSE,
         late |-> FALSE]

Init ==
    /\ account = [u \in Users |-> [exists |-> FALSE, isActive |-> TRUE, hash |-> None,
                                   googleId |-> FALSE, isEmailVerified |-> FALSE]]
    /\ row = [t \in Tokens |-> "none"]
    /\ owner = [t \in Tokens |-> None]
    /\ age = [t \in Tokens |-> None]
    /\ marker = [u \in Users |-> 0]
    /\ failures = [u \in Users |-> [count |-> 0, expires |-> FALSE]]
    /\ link = [l \in Links |-> [state |-> "none", user |-> None, type |-> "PASSWORD_RESET"]]
    /\ audit = {}
    /\ req = [r \in Reqs |-> Idle]
    /\ ended = {}
    /\ cut = {}

-----------------------------------------------------------------------------
(* Requests.                                                               *)

At(r, pc) == req[r].pc = pc
Go(r, pc) == req' = [req EXCEPT ![r].pc = pc]
End(r) == req' = [req EXCEPT ![r] = Idle]

Issued == {t \in Tokens : row[t] # "none"}
SessionsOf(u) == {t \in Issued : owner[t] = u}

\* verifyAccessToken: the signature, and the expiry with its tolerance.
verifyAccessToken(t) == age[t] # None /\ age[t] < DeadAge

\* The operations that may end every session of the user.
Enders == {"refresh", "logoutAll", "changePassword", "resetPassword", "deactivate", "reviewDriver"}

\* The operations that trade what they present, a refresh token or a link, for
\* a session, a password or a verified address.
Redeemers == {"refresh", "resetPassword", "verifyEmail"}

\* The first await of each handler.
FirstStep(op) ==
    CASE op = "login" -> "readLock"
      [] op = "googleAuth" -> "findGoogle"
      [] op \in {"refresh", "logout"} -> "findToken"
      [] op \in {"logoutAll", "changePassword"} -> "authenticate"
      [] op \in {"resetPassword", "verifyEmail"} -> "findLink"
      [] OTHER -> "findUser"

\* A history note is kept of each request for the properties: the sessions there
\* when it began, whether the account was active, and whether what it presents
\* was over by then.
Start(r, op, u, w, t, l) ==
    /\ req[r] = Idle
    /\ req' = [req EXCEPT ![r] =
         [op |-> op, pc |-> FirstStep(op), user |-> u, password |-> w, old |-> t,
          new |-> None, link |-> l, links |-> {},
          seen |-> IF op \in Enders THEN SessionsOf(u) ELSE {},
          wasActive |-> account[u].isActive,
          late |-> op \in Redeemers /\ {t, l} \cap ended # {}]]
    /\ UNCHANGED <<account, row, owner, age, marker, failures, link, audit, ended, cut>>

\* A caller knows an email address, a password, a session's tokens or a link.
Request(r) ==
    \E op \in Ops, u \in Users :
        \/ /\ op \in {"register", "login"}
           /\ \E w \in Passwords : Start(r, op, u, w, None, None)
        \/ /\ op \in {"googleAuth", "forgotPassword", "resendVerification",
                     "deactivate", "reactivate", "reviewDriver"}
           /\ Start(r, op, u, None, None, None)
        \/ /\ op \in {"refresh", "logout"}
           /\ \E t \in SessionsOf(u) : age[t] # None /\ Start(r, op, u, None, t, None)
        \/ /\ op = "logoutAll"
           /\ \E t \in SessionsOf(u) : verifyAccessToken(t) /\ Start(r, op, u, None, t, None)
        \/ /\ op = "changePassword"
           /\ \E t \in SessionsOf(u), w \in Passwords :
                 verifyAccessToken(t) /\ Start(r, op, u, w, t, None)
        \/ /\ op \in {"resetPassword", "verifyEmail"}
           /\ \E l \in Links, w \in Passwords :
                 link[l].user = u /\ Start(r, op, u, w, None, l)

\* The instance dies, the database does not answer, or the request is over.
Abandon(r) ==
    /\ req[r] # Idle
    /\ End(r)
    /\ UNCHANGED <<account, row, owner, age, marker, failures, link, audit, ended, cut>>

isUserAccessRevoked(u) == marker[u] > 0

\* authenticate: the marker is looked up after the signature was checked.
\* When Redis does not answer, nobody counts as revoked.
authenticate(r) ==
    /\ At(r, "authenticate")
    /\ \/ isUserAccessRevoked(req[r].user) /\ End(r)
       \/ Go(r, IF req[r].op = "logoutAll" THEN "revokeRows" ELSE "findUser")
    /\ UNCHANGED <<account, row, owner, age, marker, failures, link, audit, ended, cut>>

-----------------------------------------------------------------------------
(* login and its lock.                                                     *)

\* The count is read first; an error of Redis lets the login go on.
readLock(r) ==
    /\ At(r, "readLock")
    /\ IF failures[req[r].user].count >= MaxFailures
       THEN End(r) \/ Go(r, "findUser")
       ELSE Go(r, "findUser")
    /\ UNCHANGED <<account, row, owner, age, marker, failures, link, audit, ended, cut>>

\* redis.incr; the expiry is a second command, sent for the first failure only.
countFailure(r) ==
    LET f == req[r].user IN
    /\ At(r, "countFailure")
    /\ failures' = [failures EXCEPT ![f].count = IF @ < MaxFailures THEN @ + 1 ELSE @]
    /\ IF failures[f].count = 0 THEN Go(r, "expireFailures") ELSE End(r)
    /\ UNCHANGED <<account, row, owner, age, marker, link, audit, ended, cut>>

expireFailures(r) ==
    /\ At(r, "expireFailures")
    /\ failures' = [failures EXCEPT ![req[r].user].expires = (@ \/ failures[req[r].user].count > 0)]
    /\ End(r)
    /\ UNCHANGED <<account, row, owner, age, marker, link, audit, ended, cut>>

clearFailures(r) ==
    /\ At(r, "clearFailures")
    /\ \/ failures' = [failures EXCEPT ![req[r].user] = [count |-> 0, expires |-> FALSE]]
       \/ UNCHANGED failures
    /\ Go(r, "sign")
    /\ UNCHANGED <<account, row, owner, age, marker, link, audit, ended, cut>>

-----------------------------------------------------------------------------
(* What each handler does with the User row it has read.                   *)

register(a) == IF a.exists THEN "done" ELSE "createUser"

\* One answer for no account, no password and a wrong password.
login(r, a) ==
    IF a.exists /\ a.hash = req[r].password
    THEN IF a.isActive THEN "clearFailures" ELSE "done"
    ELSE "countFailure"

\* After the rotation, and the last check of the account before the signature.
refreshByRow(a) == IF a.exists THEN "signAnswer" ELSE "done"
refresh(a) == IF a.exists /\ a.isActive THEN "signAnswer" ELSE "done"

googleAuth(a) == IF a.exists THEN "linkGoogle" ELSE "createUser"
changePassword(r, a) == IF a.hash = req[r].password THEN "updateHash" ELSE "done"
forgotPassword(a) == IF a.exists THEN "openLinks" ELSE "done"
resendVerificationEmail(a) == IF a.exists /\ ~a.isEmailVerified THEN "openLinks" ELSE "done"
setUserActiveStatus(a) == IF a.exists THEN "setActive" ELSE "done"

\* Of a driver who is suspended or rejected.
reviewDriver(a) == IF a.exists THEN "revokeRows" ELSE "done"

userStep(r, a) ==
    CASE req[r].op = "register" -> register(a)
      [] req[r].op = "login" -> login(r, a)
      [] req[r].op = "refresh" -> refresh(a)
      [] req[r].op = "googleAuth" -> googleAuth(a)
      [] req[r].op = "changePassword" -> changePassword(r, a)
      [] req[r].op = "forgotPassword" -> forgotPassword(a)
      [] req[r].op = "resendVerification" -> resendVerificationEmail(a)
      [] req[r].op = "reviewDriver" -> reviewDriver(a)
      [] OTHER -> setUserActiveStatus(a)

findUser(r) ==
    LET next == userStep(r, account[req[r].user]) IN
    /\ At(r, "findUser")
    /\ IF next = "done" THEN End(r) ELSE Go(r, next)
    /\ UNCHANGED <<account, row, owner, age, marker, failures, link, audit, ended, cut>>

findByGoogleId(r) ==
    LET a == account[req[r].user] IN
    /\ At(r, "findGoogle")
    /\ IF ~a.googleId THEN Go(r, "findUser")
       ELSE IF a.isActive THEN Go(r, "sign") ELSE End(r)
    /\ UNCHANGED <<account, row, owner, age, marker, failures, link, audit, ended, cut>>

\* The update returns the row, isActive as it is by then.
linkGoogleId(r) ==
    LET u == req[r].user IN
    /\ At(r, "linkGoogle")
    /\ account' = [account EXCEPT ![u].googleId = TRUE]
    /\ IF account[u].isActive THEN Go(r, "sign") ELSE End(r)
    /\ UNCHANGED <<row, owner, age, marker, failures, link, audit, ended, cut>>

\* email is unique: of two accounts created at once, one insert fails.
createPassengerAccount(r) ==
    LET u == req[r].user  google == req[r].op = "googleAuth" IN
    /\ At(r, "createUser")
    /\ IF account[u].exists
       THEN End(r) /\ UNCHANGED account
       ELSE /\ account' = [account EXCEPT ![u] =
                  [exists |-> TRUE, isActive |-> TRUE, hash |-> req[r].password,
                   googleId |-> google, isEmailVerified |-> google]]
            /\ Go(r, IF google THEN "sign" ELSE "openLinks")
    /\ UNCHANGED <<row, owner, age, marker, failures, link, audit, ended, cut>>

-----------------------------------------------------------------------------
(* Sessions: issueSession and rotateRefreshToken.                          *)

Fresh(t) == row[t] = "none" /\ age[t] = None /\ \A r \in Reqs : req[r].new # t

\* signAccessToken, after the last check of login, register and googleAuth.
signFirst(r) ==
    /\ At(r, "sign")
    /\ \E t \in Tokens :
          /\ Fresh(t)
          /\ age' = [age EXCEPT ![t] = 0]
          /\ owner' = [owner EXCEPT ![t] = req[r].user]
          /\ req' = [req EXCEPT ![r].pc = "createRow", ![r].new = t]
    /\ UNCHANGED <<account, row, marker, failures, link, audit, ended, cut>>

\* refresh signs last, for the user it has just read, and answers.
signAnswer(r) ==
    /\ At(r, "signAnswer")
    /\ age' = [age EXCEPT ![req[r].new] = 0]
    /\ End(r)
    /\ UNCHANGED <<account, row, owner, marker, failures, link, audit, ended, cut>>

\* A row that is revoked or out of date counts as a replay.
rotateUnlessExpired(state) ==
    CASE state = "deleted" -> "done"
      [] state = "expired" -> "revokeRows"
      [] OTHER -> "revokeRow"

rotateRefreshToken(state) ==
    CASE state = "deleted" -> "done"
      [] state \in {"revoked", "expired"} -> "revokeRows"
      [] OTHER -> "revokeRow"

revokeRefreshTokenByRaw(state) ==
    IF state \in {"deleted", "revoked"} THEN "done" ELSE "revokeRow"

findRefreshTokenByHash(r) ==
    LET state == row[req[r].old]
        next == IF req[r].op = "logout" THEN revokeRefreshTokenByRaw(state)
                ELSE rotateRefreshToken(state)
    IN
    /\ At(r, "findToken")
    /\ IF next = "done" THEN End(r) ELSE Go(r, next)
    /\ UNCHANGED <<account, row, owner, age, marker, failures, link, audit, ended, cut>>

\* An update by id: it sets revokedAt again, and fails on a deleted row.
revokeRefreshToken(r) ==
    LET t == req[r].old IN
    /\ At(r, "revokeRow")
    /\ IF row[t] = "deleted"
       THEN End(r) /\ UNCHANGED <<row, ended>>
       ELSE /\ row' = [row EXCEPT ![t] = "revoked"]
            /\ ended' = ended \cup {t}
            /\ IF req[r].op = "refresh" THEN Go(r, "createRow") ELSE End(r)
    /\ UNCHANGED <<account, owner, age, marker, failures, link, audit, cut>>

createRefreshToken(r) ==
    /\ At(r, "createRow")
    /\ \E t \in Tokens :
          /\ IF req[r].op = "refresh" THEN Fresh(t) ELSE t = req[r].new
          /\ row' = [row EXCEPT ![t] = "live"]
          /\ owner' = [owner EXCEPT ![t] = req[r].user]
          /\ IF req[r].op = "refresh"
             THEN req' = [req EXCEPT ![r].pc = "findUser", ![r].new = t]
             ELSE End(r)
    /\ UNCHANGED <<account, age, marker, failures, link, audit, ended, cut>>

-----------------------------------------------------------------------------
(* Ending every session of a user.                                         *)

\* revokeAllUserRefreshTokens: one updateMany.  The replay of a rotated token
\* ends here, with a 401.
revokeAllUserRefreshTokens(r) ==
    /\ At(r, "revokeRows")
    /\ row' = [t \in Tokens |->
                 IF owner[t] = req[r].user /\ row[t] \in {"live", "expired"}
                 THEN "revoked" ELSE row[t]]
    /\ IF req[r].op = "refresh"
       THEN ended' = ended \cup req[r].seen /\ End(r)
       ELSE UNCHANGED ended /\ Go(r, "setMarker")
    /\ UNCHANGED <<account, owner, age, marker, failures, link, audit, cut>>

\* The marker lives as long as any access token signed so far: the lifetime
\* in seconds, rounded up.
markerTtlMillis == 1000 * Life
markerTtl == Life

revokeAllUserAccessTokens(r) ==
    /\ At(r, "setMarker")
    /\ marker' = [marker EXCEPT ![req[r].user] = markerTtl]
    /\ ended' = ended \cup req[r].seen
    /\ cut' = cut \cup {t \in req[r].seen : age[t] # None}
    /\ IF req[r].op \in {"deactivate", "reviewDriver"} THEN Go(r, "record") ELSE End(r)
    /\ UNCHANGED <<account, row, owner, age, failures, link, audit>>

-----------------------------------------------------------------------------
(* setUserActiveStatus, changePassword, resetPassword.                     *)

\* Whoever is waiting when an account is made active may count as active.
setActiveStatus(r) ==
    LET u == req[r].user  active == req[r].op = "reactivate" IN
    /\ At(r, "setActive")
    /\ account' = [account EXCEPT ![u].isActive = active]
    /\ req' = [s \in Reqs |->
                 [req[s] EXCEPT !.pc = IF s # r THEN @
                                       ELSE IF active THEN "record" ELSE "revokeRows",
                                !.wasActive = (@ \/ (active /\ req[s].user = u))]]
    /\ UNCHANGED <<row, owner, age, marker, failures, link, audit, ended, cut>>

recordAudit(r) ==
    /\ At(r, "record")
    /\ audit' = audit \cup {<<req[r].user, req[r].op>>}
    /\ End(r)
    /\ UNCHANGED <<account, row, owner, age, marker, failures, link, ended, cut>>

updatePasswordHash(r) ==
    /\ At(r, "updateHash")
    /\ \E w \in Passwords : account' = [account EXCEPT ![req[r].user].hash = w]
    /\ Go(r, IF req[r].op = "resetPassword" THEN "useLink" ELSE "revokeRows")
    /\ UNCHANGED <<row, owner, age, marker, failures, link, audit, ended, cut>>

-----------------------------------------------------------------------------
(* Links: createVerificationToken, verifyEmail and resetPassword.          *)

typeOf(op) == IF op \in {"forgotPassword", "resetPassword"} THEN "PASSWORD_RESET"
              ELSE "EMAIL_VERIFICATION"

\* A transaction of two statements: it deletes the unused links it sees, not
\* those of transactions still open, and then adds its own.
deleteUnusedLinks(r) ==
    LET type == typeOf(req[r].op)  u == req[r].user IN
    /\ At(r, "openLinks")
    /\ req' = [req EXCEPT ![r].pc = "createLink",
                          ![r].links = {l \in Links : link[l].user = u /\ link[l].type = type
                                                        /\ link[l].state \in {"unused", "expired"}}]
    /\ UNCHANGED <<account, row, owner, age, marker, failures, link, audit, ended, cut>>

createVerificationToken(r) ==
    /\ At(r, "createLink")
    /\ \E l \in Links :
          /\ link[l].state = "none"
          /\ link' = [k \in Links |->
                CASE k = l -> [state |-> "unused", user |-> req[r].user, type |-> typeOf(req[r].op)]
                  [] k \in req[r].links -> [link[k] EXCEPT !.state = "deleted"]
                  [] OTHER -> link[k]]
    /\ ended' = ended \cup req[r].links
    /\ IF req[r].op = "register" THEN Go(r, "sign") ELSE End(r)
    /\ UNCHANGED <<account, row, owner, age, marker, failures, audit, cut>>

resetPassword(valid) == IF valid THEN "updateHash" ELSE "done"
verifyEmail(valid) == IF valid THEN "markVerified" ELSE "done"

findValidVerificationToken(r) ==
    LET l == link[req[r].link]
        valid == l.state = "unused" /\ l.type = typeOf(req[r].op)
        next == IF req[r].op = "resetPassword" THEN resetPassword(valid) ELSE verifyEmail(valid)
    IN
    /\ At(r, "findLink")
    /\ IF next = "done" THEN End(r) ELSE Go(r, next)
    /\ UNCHANGED <<account, row, owner, age, marker, failures, link, audit, ended, cut>>

markEmailVerified(r) ==
    /\ At(r, "markVerified")
    /\ account' = [account EXCEPT ![req[r].user].isEmailVerified = TRUE]
    /\ Go(r, "useLink")
    /\ UNCHANGED <<row, owner, age, marker, failures, link, audit, ended, cut>>

\* An update by id, which fails when a newer link has deleted the row: then a
\* reset ends here, its password set and no session revoked.
markVerificationTokenUsed(r) ==
    LET l == req[r].link IN
    /\ At(r, "useLink")
    /\ IF link[l].state = "deleted"
       THEN End(r) /\ UNCHANGED <<link, ended>>
       ELSE /\ link' = [link EXCEPT ![l].state = "used"]
            /\ ended' = ended \cup {l}
            /\ IF req[r].op = "resetPassword" THEN Go(r, "revokeRows") ELSE End(r)
    /\ UNCHANGED <<account, row, owner, age, marker, failures, audit, cut>>

-----------------------------------------------------------------------------
(* Time, and the expired-tokens job.                                       *)

Tick ==
    /\ age' = [t \in Tokens |-> IF age[t] \in 0 .. DeadAge - 1 THEN age[t] + 1 ELSE age[t]]
    /\ marker' = [u \in Users |-> IF marker[u] > 0 THEN marker[u] - 1 ELSE 0]
    /\ UNCHANGED <<account, row, owner, failures, link, audit, req, ended, cut>>

\* Days against minutes: a refresh token or a link is out of date.
Expire ==
    /\ \/ /\ \E t \in Tokens : row[t] = "live" /\ row' = [row EXCEPT ![t] = "expired"]
          /\ UNCHANGED <<link, failures>>
       \/ /\ \E l \in Links :
                link[l].state = "unused" /\ link' = [link EXCEPT ![l].state = "expired"]
          /\ UNCHANGED <<row, failures>>
       \/ /\ \E u \in Users :
                /\ failures[u].expires
                /\ failures' = [failures EXCEPT ![u] = [count |-> 0, expires |-> FALSE]]
          /\ UNCHANGED <<row, link>>
    /\ UNCHANGED <<account, owner, age, marker, audit, req, ended, cut>>

deleteExpiredRefreshTokens ==
    /\ row' = [t \in Tokens |-> IF row[t] \in {"expired", "revoked"} THEN "deleted" ELSE row[t]]
    /\ UNCHANGED link

deleteExpiredVerificationTokens ==
    /\ link' = [l \in Links |-> IF link[l].state \in {"expired", "used"}
                                THEN [link[l] EXCEPT !.state = "deleted"] ELSE link[l]]
    /\ UNCHANGED row

\* The expired-tokens job sends both at once.
expiredTokens ==
    /\ deleteExpiredRefreshTokens \/ deleteExpiredVerificationTokens
    /\ UNCHANGED <<account, owner, age, marker, failures, audit, req, ended, cut>>

Step(r) ==
    \/ authenticate(r) \/ readLock(r) \/ countFailure(r) \/ expireFailures(r) \/ clearFailures(r)
    \/ findUser(r) \/ findByGoogleId(r) \/ linkGoogleId(r) \/ createPassengerAccount(r)
    \/ signFirst(r) \/ signAnswer(r) \/ findRefreshTokenByHash(r) \/ revokeRefreshToken(r)
    \/ createRefreshToken(r) \/ revokeAllUserRefreshTokens(r) \/ revokeAllUserAccessTokens(r)
    \/ setActiveStatus(r) \/ recordAudit(r) \/ updatePasswordHash(r) \/ deleteUnusedLinks(r)
    \/ createVerificationToken(r) \/ findValidVerificationToken(r) \/ markEmailVerified(r)
    \/ markVerificationTokenUsed(r)

Next ==
    \/ \E r \in Reqs : Request(r) \/ Step(r) \/ Abandon(r)
    \/ Tick \/ Expire \/ expiredTokens

Spec == Init /\ [][Next]_vars

-----------------------------------------------------------------------------
(* Properties.                                                             *)

Account == [exists : BOOLEAN, isActive : BOOLEAN, hash : Passwords \cup {None},
            googleId : BOOLEAN, isEmailVerified : BOOLEAN]
Steps == {"done", "authenticate", "readLock", "countFailure", "expireFailures", "clearFailures",
          "findUser", "findGoogle", "linkGoogle", "createUser", "sign", "signAnswer", "findToken",
          "revokeRow", "createRow", "revokeRows", "setMarker", "setActive", "record", "updateHash",
          "openLinks", "createLink", "findLink", "markVerified", "useLink"}
RequestRecord ==
    [op : Operations \cup {"idle"}, pc : Steps, user : Users \cup {None},
     password : Passwords \cup {None}, old : Tokens \cup {None}, new : Tokens \cup {None},
     link : Links \cup {None}, links : SUBSET Links, seen : SUBSET Tokens,
     wasActive : BOOLEAN, late : BOOLEAN]

\* The types, and what belongs together: a request holds the user of the token
\* or link it was given, and a session has an owner from its signature on.
TypeOK ==
    /\ account \in [Users -> Account]
    /\ row \in [Tokens -> RowState]
    /\ owner \in [Tokens -> Users \cup {None}]
    /\ age \in [Tokens -> (0 .. DeadAge) \cup {None}]
    /\ marker \in [Users -> 0 .. Life]
    /\ failures \in [Users -> [count : 0 .. MaxFailures, expires : BOOLEAN]]
    /\ link \in [Links -> [state : LinkState, user : Users \cup {None}, type : LinkType]]
    /\ audit \subseteq Users \X {"deactivate", "reactivate", "reviewDriver"}
    /\ req \in [Reqs -> RequestRecord]
    /\ ended \subseteq Tokens \cup Links
    /\ cut \subseteq Tokens

\* What a finished request has ended buys nothing any more.  A refresh that begins
\* after its session was logged out or rotated, or after the end of a logoutAll, a
\* new password, a ban, the suspension of a driver or a replay that found it, goes
\* no further than revoking more; a reset or a verification that begins after its
\* link was used, or replaced by a newer one, no further than reading the link.  And,
\* but for logout and the replay, an access token of such a session signed by then
\* is refused for the rest of its life (token.service.js:35), while Redis answers.
\* A redeemer that has read its row or link before the end is not covered: it goes
\* on, and a refresh then leaves a live session behind that nobody has ended.
EndedIsRefused ==
    /\ \A r \in Reqs : req[r].late =>
          \/ req[r].pc \in {"findToken", "findLink"}
          \/ req[r].pc = "revokeRows" /\ req[r].op = "refresh"
    /\ \A t \in cut : age[t] + marker[owner[t]] >= Life

\* No account gets an access token by a request that began when the account was
\* deactivated already, and was not reactivated since.
OnlyActiveAreServed ==
    [][\A t \in Tokens : age[t] = None /\ age'[t] = 0 =>
          \E r \in Reqs : req[r].pc \in {"sign", "signAnswer"} /\ req'[r].pc # req[r].pc
                             /\ req[r].wasActive]_vars
===============================================================================
