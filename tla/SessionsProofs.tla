---------------------------- MODULE SessionsProofs ----------------------------
(***************************************************************************)
(* Theorems about Sessions, for any users, sessions, links and requests,   *)
(* any token lifetime and any choice of operations.                        *)
(***************************************************************************)
EXTENDS Sessions, TLAPS

-----------------------------------------------------------------------------
(* The inductive invariant.  Between two queries anything may happen to    *)
(* the rows; a request is right to go on because of what it has seen and   *)
(* nobody can undo: a row that exists stays with its owner, one that is    *)
(* over stays over, and a token it has chosen is known to no other.        *)

\* What the caller gave it.
Given(q) ==
    /\ q.user \in Users
    /\ q.op \in {"refresh", "logout"} => q.old \in Tokens
    /\ q.op \in {"resetPassword", "verifyEmail"} => q.link \in Links

\* The steps a request takes are those of its handler.
OnPath(op, pc) ==
    /\ pc = "authenticate" => op \in {"logoutAll", "changePassword"}
    /\ pc \in {"readLock", "countFailure", "expireFailures", "clearFailures"} => op = "login"
    /\ pc \in {"findGoogle", "linkGoogle"} => op = "googleAuth"
    /\ pc = "createUser" => op \in {"register", "googleAuth"}
    /\ pc = "sign" => op \in {"register", "login", "googleAuth"}
    /\ pc = "signAnswer" => op = "refresh"
    /\ pc \in {"findToken", "revokeRow"} => op \in {"refresh", "logout"}
    /\ pc \in {"findLink", "markVerified", "useLink"} => op \in {"resetPassword", "verifyEmail"}
    /\ pc = "updateHash" => op \in {"changePassword", "resetPassword"}
    /\ pc = "record" => op \in {"deactivate", "reactivate", "reviewDriver"}

Shaped(q) ==
    /\ Given(q) /\ OnPath(q.op, q.pc)
    /\ q.pc = "createRow" /\ q.op # "refresh" => q.new \in Tokens
    /\ q.pc \in {"findUser", "signAnswer"} /\ q.op = "refresh" => q.new \in Tokens

\* What the request has read, and the token it has chosen.
Remembers(q) ==
    /\ \A t \in q.seen : row[t] # "none" /\ owner[t] = q.user
    /\ q.pc = "setMarker" => \A t \in q.seen : row[t] \in {"revoked", "expired", "deleted"}
    /\ q.op \in {"refresh", "logout"} => row[q.old] # "none"
    /\ \A l \in q.links : link[l].state # "none"
    /\ q.pc = "createRow" /\ q.op # "refresh" => row[q.new] = "none" /\ owner[q.new] = q.user
    /\ q.pc \in {"findUser", "signAnswer"} /\ q.op = "refresh" => age[q.new] = None

\* Whoever is past the check of its account began when that was active, or has
\* seen it made active.
Admitted(q) ==
    /\ account[q.user].isActive => q.wasActive
    /\ q.pc \in {"clearFailures", "sign", "signAnswer"} => q.wasActive
    /\ q.pc \in {"openLinks", "createLink"} /\ q.op = "register" => q.wasActive
    /\ q.pc = "setActive" => account[q.user].exists

Sound(r) ==
    req[r] # Idle =>
        req[r].pc # "done" /\ Shaped(req[r]) /\ Remembers(req[r]) /\ Admitted(req[r])

RequestsSound == \A r \in Reqs : Sound(r)

\* No two requests have chosen the same token.
NewDiffer == \A r, s \in Reqs : r # s /\ req[r].new # None => req[r].new # req[s].new

NewAccountsActive == \A u \in Users : ~account[u].exists => account[u].isActive

CutSigned == \A t \in cut : age[t] # None /\ row[t] # "none" /\ owner[t] \in Users

\* What has been ended is over in the tables, and the marker covers what is cut.
RowsOver == \A t \in ended \cap Tokens : row[t] \in {"revoked", "expired", "deleted"}
LinksOver == \A l \in ended \cap Links : link[l].state \in {"used", "deleted"}
CutOver == \A t \in cut : age[t] + marker[owner[t]] >= Life

\* A redeemer that came too late presents what is over, and gets no further than
\* the refusal.
Refused(q) ==
    q.late =>
        /\ q.op \in Redeemers
        /\ IF q.op = "refresh" THEN row[q.old] \in {"revoked", "expired", "deleted"}
           ELSE link[q.link].state \in {"used", "deleted"}
        /\ q.pc \in {"findToken", "findLink"} \/ (q.pc = "revokeRows" /\ q.op = "refresh")

LateRefused == \A r \in Reqs : Refused(req[r])

SInv ==
    /\ TypeOK /\ RequestsSound /\ NewDiffer /\ NewAccountsActive /\ CutSigned
    /\ RowsOver /\ LinksOver /\ CutOver /\ LateRefused

LEMMA InitSInv == Init => SInv
<1> SUFFICES ASSUME Init PROVE SInv
  OBVIOUS
<1>1. Idle \in RequestRecord
  BY DEF Idle, RequestRecord, Steps
<1>2. TypeOK
  BY <1>1, TimesAssumption DEF Init, TypeOK, Account, RowState, LinkState, LinkType
<1>3. QED
  BY <1>2, NoneAssumption DEF Init, SInv, RequestsSound, Sound, NewDiffer, NewAccountsActive,
     CutSigned, RowsOver, LinksOver, CutOver, LateRefused, Refused, Idle

-----------------------------------------------------------------------------
(* Types.                                                                  *)

LEMMA RequestFields ==
    ASSUME NEW q \in RequestRecord, NEW pc \in Steps
    PROVE  /\ [q EXCEPT !.pc = pc] \in RequestRecord
           /\ \A t \in Tokens : [q EXCEPT !.pc = pc, !.new = t] \in RequestRecord
           /\ \A ls \in SUBSET Links : [q EXCEPT !.pc = pc, !.links = ls] \in RequestRecord
           /\ \A b \in BOOLEAN : [q EXCEPT !.pc = pc, !.wasActive = b] \in RequestRecord
<1>1. \A t \in Tokens : [q EXCEPT !.pc = pc, !.new = t] \in RequestRecord
  BY DEF RequestRecord
<1>2. \A ls \in SUBSET Links : [q EXCEPT !.pc = pc, !.links = ls] \in RequestRecord
  BY DEF RequestRecord
<1>3. \A b \in BOOLEAN : [q EXCEPT !.pc = pc, !.wasActive = b] \in RequestRecord
  BY DEF RequestRecord
<1>4. [q EXCEPT !.pc = pc] \in RequestRecord
  BY DEF RequestRecord
<1>5. QED
  BY <1>1, <1>2, <1>3, <1>4

LEMMA AccountFields ==
    ASSUME NEW a \in Account
    PROVE  /\ \A b \in BOOLEAN : [a EXCEPT !.isActive = b] \in Account
           /\ \A w \in Passwords : [a EXCEPT !.hash = w] \in Account
           /\ \A w \in Passwords \cup {None}, b \in BOOLEAN :
                 [exists |-> TRUE, isActive |-> TRUE, hash |-> w,
                  googleId |-> b, isEmailVerified |-> b] \in Account
<1>1. \A b \in BOOLEAN : [a EXCEPT !.isActive = b] \in Account
  BY DEF Account
<1>2. \A w \in Passwords : [a EXCEPT !.hash = w] \in Account
  BY DEF Account
<1>3. \A w \in Passwords \cup {None}, b \in BOOLEAN :
         [exists |-> TRUE, isActive |-> TRUE, hash |-> w,
          googleId |-> b, isEmailVerified |-> b] \in Account
  BY DEF Account
<1>4. QED
  BY <1>1, <1>2, <1>3

\* A request goes on, or is over; the rest of its record stays.
LEMMA GoTyped ==
    ASSUME TypeOK, NEW r \in Reqs
    PROVE  /\ \A pc \in Steps : Go(r, pc) => req' \in [Reqs -> RequestRecord]
           /\ End(r) => req' \in [Reqs -> RequestRecord]
<1>1. Idle \in RequestRecord
  BY DEF Idle, RequestRecord, Steps
<1>2. \A pc \in Steps : [req[r] EXCEPT !.pc = pc] \in RequestRecord
  BY RequestFields DEF TypeOK
<1>3. QED
  BY <1>1, <1>2 DEF TypeOK, Go, End

\* So do the requests that also note a token, links or an activation.
LEMMA NotingTyped ==
    ASSUME TypeOK, NEW r \in Reqs, NEW pc \in Steps
    PROVE  /\ \A t \in Tokens : req' = [req EXCEPT ![r].pc = pc, ![r].new = t]
                => req' \in [Reqs -> RequestRecord]
           /\ \A ls \in SUBSET Links : req' = [req EXCEPT ![r].pc = pc, ![r].links = ls]
                => req' \in [Reqs -> RequestRecord]
<1>1. req[r] \in RequestRecord /\ req \in [Reqs -> RequestRecord]
  BY DEF TypeOK
<1>2. ASSUME NEW t \in Tokens, req' = [req EXCEPT ![r].pc = pc, ![r].new = t]
      PROVE  req' \in [Reqs -> RequestRecord]
  <2>1. req' = [req EXCEPT ![r] = [req[r] EXCEPT !.pc = pc, !.new = t]]
    BY <1>1, <1>2
  <2>2. QED
    BY <1>1, <2>1, RequestFields
<1>3. ASSUME NEW ls \in SUBSET Links, req' = [req EXCEPT ![r].pc = pc, ![r].links = ls]
      PROVE  req' \in [Reqs -> RequestRecord]
  <2>1. req' = [req EXCEPT ![r] = [req[r] EXCEPT !.pc = pc, !.links = ls]]
    BY <1>1, <1>3
  <2>2. QED
    BY <1>1, <2>1, RequestFields
<1>4. QED
  BY <1>2, <1>3

LEMMA ActivationTyped ==
    ASSUME TypeOK, NEW r \in Reqs, setActiveStatus(r)
    PROVE  req' \in [Reqs -> RequestRecord]
<1> DEFINE active == req[r].op = "reactivate"
           step(s) == IF s # r THEN req[s].pc ELSE IF active THEN "record" ELSE "revokeRows"
           may(s) == req[s].wasActive \/ (active /\ req[s].user = req[r].user)
<1>1. \A s \in Reqs : step(s) \in Steps
  BY DEF TypeOK, RequestRecord, Steps
<1>2. \A s \in Reqs : may(s) \in BOOLEAN
  BY DEF TypeOK, RequestRecord
<1>3. req' = [s \in Reqs |-> [req[s] EXCEPT !.pc = step(s), !.wasActive = may(s)]]
  BY DEF setActiveStatus
<1> HIDE DEF step, may
<1>4. \A s \in Reqs : [req[s] EXCEPT !.pc = step(s), !.wasActive = may(s)] \in RequestRecord
  BY <1>1, <1>2, RequestFields DEF TypeOK
<1>5. QED
  BY <1>3, <1>4

LEMMA FailuresTyped ==
    ASSUME TypeOK, NEW u \in Users
    PROVE  [failures EXCEPT ![u] = [count |-> 0, expires |-> FALSE]]
             \in [Users -> [count : 0 .. MaxFailures, expires : BOOLEAN]]
<1>1. [count |-> 0, expires |-> FALSE] \in [count : 0 .. MaxFailures, expires : BOOLEAN]
  BY TimesAssumption
<1>2. QED
  BY <1>1 DEF TypeOK

LEMMA StepTypes ==
    ASSUME TypeOK, RequestsSound, NEW r \in Reqs, Step(r)
    PROVE  TypeOK'
<1>0. /\ req[r] \in RequestRecord /\ req[r].pc # "done" => Sound(r) /\ req[r] # Idle
      /\ req[r].pc # "done" => Shaped(req[r])
  BY DEF TypeOK, RequestsSound, Sound, Idle
<1>1. CASE authenticate(r)
  BY <1>1, GoTyped DEF authenticate, TypeOK, Steps
<1>2. CASE readLock(r)
  BY <1>2, GoTyped DEF readLock, TypeOK, Steps
<1>3. CASE countFailure(r)
  BY <1>0, <1>3, GoTyped, TimesAssumption DEF countFailure, TypeOK, Steps, At, Shaped, Given, OnPath
<1>4. CASE expireFailures(r)
  BY <1>0, <1>4, GoTyped DEF expireFailures, TypeOK, At, Shaped, Given, OnPath
<1>5. CASE clearFailures(r)
  <2>1. req[r].user \in Users
    BY <1>0, <1>5 DEF clearFailures, At, Shaped, Given, OnPath
  <2>2. req' \in [Reqs -> RequestRecord]
    BY <1>5, GoTyped DEF clearFailures, Steps
  <2>3. failures' \in [Users -> [count : 0 .. MaxFailures, expires : BOOLEAN]]
    BY <1>5, <2>1, FailuresTyped DEF clearFailures, TypeOK
  <2>4. QED
    BY <1>5, <2>2, <2>3 DEF clearFailures, TypeOK
<1>6. CASE findUser(r)
  BY <1>6, GoTyped DEF findUser, TypeOK, Steps, userStep, register, login, refresh, googleAuth,
     changePassword, forgotPassword, resendVerificationEmail, reviewDriver, setUserActiveStatus
<1>7. CASE findByGoogleId(r)
  BY <1>7, GoTyped DEF findByGoogleId, TypeOK, Steps
<1>8. CASE linkGoogleId(r)
  BY <1>0, <1>8, GoTyped DEF linkGoogleId, TypeOK, Steps, At, Shaped, Given, OnPath, Account
<1>9. CASE createPassengerAccount(r)
  <2> DEFINE google == req[r].op = "googleAuth"
             a == [exists |-> TRUE, isActive |-> TRUE, hash |-> req[r].password,
                   googleId |-> google, isEmailVerified |-> google]
  <2>0. req[r].user \in Users /\ google \in BOOLEAN
    BY <1>0, <1>9 DEF createPassengerAccount, At, Shaped, Given, OnPath
  <2>1. a \in Account
    <3>1. req[r].password \in Passwords \cup {None} /\ account[req[r].user] \in Account
      BY <1>0, <2>0 DEF RequestRecord, TypeOK
    <3> HIDE DEF google
    <3>2. QED
      BY <2>0, <3>1, AccountFields
  <2>2. req' \in [Reqs -> RequestRecord]
    BY <1>9, GoTyped DEF createPassengerAccount, Steps
  <2>3. account' \in {account, [account EXCEPT ![req[r].user] = a]}
    BY <1>9 DEF createPassengerAccount
  <2> HIDE DEF a
  <2>4. account' \in [Users -> Account]
    BY <2>0, <2>1, <2>3 DEF TypeOK
  <2>5. QED
    BY <1>9, <2>2, <2>4 DEF createPassengerAccount, TypeOK
<1>10. CASE signFirst(r)
  <2>1. req' \in [Reqs -> RequestRecord]
    BY <1>10, NotingTyped DEF signFirst, Steps
  <2>2. 0 \in 0 .. DeadAge /\ req[r].user \in Users
    BY <1>0, <1>10, TimesAssumption DEF signFirst, At, Shaped, Given, OnPath, DeadAge
  <2>3. QED
    BY <1>10, <2>1, <2>2 DEF signFirst, TypeOK
<1>11. CASE signAnswer(r)
  <2>1. req' \in [Reqs -> RequestRecord] /\ 0 \in 0 .. DeadAge
    BY <1>11, GoTyped, TimesAssumption DEF signAnswer, DeadAge
  <2>2. QED
    BY <1>11, <2>1 DEF signAnswer, TypeOK
<1>12. CASE findRefreshTokenByHash(r)
  BY <1>12, GoTyped DEF findRefreshTokenByHash, TypeOK, Steps, rotateRefreshToken,
     revokeRefreshTokenByRaw
<1>13. CASE revokeRefreshToken(r)
  BY <1>0, <1>13, GoTyped DEF revokeRefreshToken, TypeOK, Steps, At, Shaped, Given, OnPath, RowState
<1>14. CASE createRefreshToken(r)
  <2>1. PICK t \in Tokens :
          /\ row' = [row EXCEPT ![t] = "live"]
          /\ owner' = [owner EXCEPT ![t] = req[r].user]
          /\ End(r) \/ req' = [req EXCEPT ![r].pc = "findUser", ![r].new = t]
    BY <1>14 DEF createRefreshToken
  <2>2. req' \in [Reqs -> RequestRecord]
    BY <2>1, GoTyped, NotingTyped DEF Steps
  <2>3. QED
    BY <1>0, <1>14, <2>1, <2>2 DEF createRefreshToken, TypeOK, RowState, At, Shaped, Given, OnPath
<1>15. CASE revokeAllUserRefreshTokens(r)
  BY <1>0, <1>15, GoTyped DEF revokeAllUserRefreshTokens, TypeOK, Steps, RequestRecord, RowState
<1>16. CASE revokeAllUserAccessTokens(r)
  BY <1>0, <1>16, GoTyped, TimesAssumption DEF revokeAllUserAccessTokens, TypeOK, Steps,
     RequestRecord, markerTtl, At, Shaped, Given, OnPath
<1>17. CASE setActiveStatus(r)
  <2>1. account' \in [Users -> Account]
    <3>1. req[r].user \in Users /\ (req[r].op = "reactivate") \in BOOLEAN
      BY <1>0, <1>17 DEF setActiveStatus, At, Shaped, Given, OnPath
    <3>2. \A b \in BOOLEAN : [account[req[r].user] EXCEPT !.isActive = b] \in Account
      BY <3>1, AccountFields DEF TypeOK
    <3>3. QED
      BY <1>17, <3>1, <3>2 DEF setActiveStatus, TypeOK
  <2>2. req' \in [Reqs -> RequestRecord]
    BY <1>17, ActivationTyped
  <2>3. QED
    BY <1>17, <2>1, <2>2 DEF setActiveStatus, TypeOK
<1>18. CASE recordAudit(r)
  BY <1>0, <1>18, GoTyped DEF recordAudit, TypeOK, At, Shaped, Given, OnPath
<1>19. CASE updatePasswordHash(r)
  <2>1. PICK w \in Passwords : account' = [account EXCEPT ![req[r].user].hash = w]
    BY <1>19 DEF updatePasswordHash
  <2>2. req[r].user \in Users
    BY <1>0, <1>19 DEF updatePasswordHash, At, Shaped, Given, OnPath
  <2>3. [account[req[r].user] EXCEPT !.hash = w] \in Account
    BY <2>2, AccountFields DEF TypeOK
  <2>4. account' \in [Users -> Account]
    BY <2>1, <2>2, <2>3 DEF TypeOK
  <2>5. req' \in [Reqs -> RequestRecord]
    BY <1>19, GoTyped DEF updatePasswordHash, Steps
  <2>6. QED
    BY <1>19, <2>4, <2>5 DEF updatePasswordHash, TypeOK
<1>20. CASE deleteUnusedLinks(r)
  <2>1. req' \in [Reqs -> RequestRecord]
    <3>1. {l \in Links : link[l].user = req[r].user /\ link[l].type = typeOf(req[r].op)
                          /\ link[l].state \in {"unused", "expired"}} \in SUBSET Links
      OBVIOUS
    <3>2. "createLink" \in Steps
      BY DEF Steps
    <3>3. QED
      BY <1>20, <3>1, <3>2, NotingTyped DEF deleteUnusedLinks
  <2>2. QED
    BY <1>20, <2>1 DEF deleteUnusedLinks, TypeOK
<1>21. CASE createVerificationToken(r)
  <2>1. link' \in [Links -> [state : LinkState, user : Users \cup {None}, type : LinkType]]
    BY <1>0, <1>21 DEF createVerificationToken, TypeOK, At, Shaped, Given, OnPath, LinkState, LinkType, typeOf
  <2>2. req' \in [Reqs -> RequestRecord]
    BY <1>21, GoTyped DEF createVerificationToken, Steps
  <2>3. ended' \subseteq Tokens \cup Links
    BY <1>0, <1>21 DEF createVerificationToken, TypeOK, RequestRecord
  <2>4. QED
    BY <1>21, <2>1, <2>2, <2>3 DEF createVerificationToken, TypeOK
<1>22. CASE findValidVerificationToken(r)
  BY <1>22, GoTyped DEF findValidVerificationToken, TypeOK, Steps, resetPassword, verifyEmail
<1>23. CASE markEmailVerified(r)
  BY <1>0, <1>23, GoTyped DEF markEmailVerified, TypeOK, Steps, At, Shaped, Given, OnPath, Account
<1>24. CASE markVerificationTokenUsed(r)
  <2>1. req[r].link \in Links
    BY <1>0, <1>24 DEF markVerificationTokenUsed, At, Shaped, Given, OnPath
  <2>2. req' \in [Reqs -> RequestRecord]
    BY <1>24, GoTyped DEF markVerificationTokenUsed, Steps
  <2>3. [link[req[r].link] EXCEPT !.state = "used"]
          \in [state : LinkState, user : Users \cup {None}, type : LinkType]
    BY <2>1 DEF TypeOK, LinkState
  <2>4. link' \in [Links -> [state : LinkState, user : Users \cup {None}, type : LinkType]]
    BY <1>24, <2>1, <2>3 DEF markVerificationTokenUsed, TypeOK
  <2>5. QED
    BY <1>24, <2>1, <2>2, <2>4 DEF markVerificationTokenUsed, TypeOK
<1>25. QED
  BY <1>1, <1>2, <1>3, <1>4, <1>5, <1>6, <1>7, <1>8, <1>9, <1>10, <1>11, <1>12, <1>13, <1>14,
     <1>15, <1>16, <1>17, <1>18, <1>19, <1>20, <1>21, <1>22, <1>23, <1>24 DEF Step

LEMMA StartTyped ==
    ASSUME TypeOK, NEW r \in Reqs, NEW op \in Ops, NEW u \in Users,
           NEW w \in Passwords \cup {None}, NEW t \in Tokens \cup {None},
           NEW l \in Links \cup {None}, Start(r, op, u, w, t, l)
    PROVE  TypeOK'
<1>1. FirstStep(op) \in Steps
  BY DEF FirstStep, Steps
<1>2. SessionsOf(u) \subseteq Tokens /\ account[u].isActive \in BOOLEAN /\ op \in Operations
  BY OpsAssumption DEF SessionsOf, Issued, TypeOK, Account
<1> DEFINE late == op \in Redeemers /\ {t, l} \cap ended # {}
<1>3. req' \in [Reqs -> RequestRecord]
  <2>1. late \in BOOLEAN
    OBVIOUS
  <2>2. req' = [req EXCEPT ![r] =
          [op |-> op, pc |-> FirstStep(op), user |-> u, password |-> w, old |-> t,
           new |-> None, link |-> l, links |-> {},
           seen |-> IF op \in Enders THEN SessionsOf(u) ELSE {},
           wasActive |-> account[u].isActive, late |-> late]]
    BY DEF Start
  <2> HIDE DEF late
  <2>3. QED
    BY <1>1, <1>2, <2>1, <2>2 DEF TypeOK, RequestRecord
<1>4. QED
  BY <1>3 DEF Start, TypeOK

LEMMA RequestTypes == ASSUME TypeOK, NEW r \in Reqs, Request(r) PROVE TypeOK'
<1>1. \A u \in Users : SessionsOf(u) \subseteq Tokens
  BY DEF SessionsOf, Issued
<1>2. QED
  BY <1>1, StartTyped DEF Request

LEMMA TypesStep == ASSUME TypeOK, RequestsSound, [Next]_vars PROVE TypeOK'
<1>1. CASE UNCHANGED vars
  BY <1>1 DEF vars, TypeOK
<1>2. ASSUME NEW r \in Reqs, Abandon(r) PROVE TypeOK'
  BY <1>2, GoTyped DEF Abandon, TypeOK
<1>3. CASE Tick
  <2>1. age' \in [Tokens -> (0 .. DeadAge) \cup {None}]
    BY <1>3, TimesAssumption DEF Tick, TypeOK, DeadAge
  <2>2. marker' \in [Users -> 0 .. Life]
    BY <1>3, TimesAssumption DEF Tick, TypeOK
  <2>3. QED
    BY <1>3, <2>1, <2>2 DEF Tick, TypeOK
<1>4. CASE Expire
  <2>1. row' \in [Tokens -> RowState]
    BY <1>4 DEF Expire, TypeOK, RowState
  <2>2. \A l \in Links : [link[l] EXCEPT !.state = "expired"]
          \in [state : LinkState, user : Users \cup {None}, type : LinkType]
    BY DEF TypeOK, LinkState
  <2>3. link' \in [Links -> [state : LinkState, user : Users \cup {None}, type : LinkType]]
    BY <1>4, <2>2 DEF Expire, TypeOK
  <2>4. failures' \in [Users -> [count : 0 .. MaxFailures, expires : BOOLEAN]]
    BY <1>4, FailuresTyped DEF Expire, TypeOK
  <2>5. QED
    BY <1>4, <2>1, <2>3, <2>4 DEF Expire, TypeOK
<1>5. CASE expiredTokens
  BY <1>5 DEF expiredTokens, deleteExpiredRefreshTokens, deleteExpiredVerificationTokens, TypeOK,
     RowState, LinkState
<1>6. QED
  BY <1>1, <1>2, <1>3, <1>4, <1>5, StepTypes, RequestTypes DEF Next

-----------------------------------------------------------------------------
(* What a step leaves alone.                                               *)

RowsKept ==
    /\ \A t \in Tokens : row[t] # "none" => row'[t] # "none" /\ owner'[t] = owner[t]
    /\ \A t \in Tokens : row[t] \in {"revoked", "expired", "deleted"} => row'[t] \in {"revoked", "expired", "deleted"}
    /\ \A l \in Links : link[l].state # "none" => link'[l].state # "none"
    /\ \A u \in Users : account[u].exists => account'[u].exists
    /\ \A t \in Tokens : age[t] # None => age'[t] # None

\* The record of a request, but for wasActive.
SameRecord(q, k) ==
    /\ k.op = q.op /\ k.pc = q.pc /\ k.user = q.user /\ k.old = q.old /\ k.new = q.new
    /\ k.link = q.link /\ k.links = q.links /\ k.seen = q.seen /\ k.late = q.late
    /\ q.wasActive => k.wasActive

\* The request s does not take the step: its record stays, the token it has
\* chosen is left to it, and an account made active meanwhile counts for it.
Untouched(s) ==
    /\ req[s] = Idle => req'[s] = Idle
    /\ SameRecord(req[s], req'[s])
    /\ \A t \in Tokens : req[s].new = t =>
          /\ row[t] = "none" => row'[t] = "none" /\ owner'[t] = owner[t]
          /\ age[t] = None => age'[t] = None
    /\ \A u \in Users : req[s] # Idle /\ req[s].user = u /\ account'[u].isActive =>
          account[u].isActive \/ req'[s].wasActive

LEMMA UntouchedSound ==
    ASSUME SInv, RowsKept, NEW s \in Reqs, Untouched(s)
    PROVE  Sound(s)'
<1> SUFFICES ASSUME req'[s] # Idle
             PROVE  /\ req'[s].pc # "done" /\ Shaped(req'[s])
                    /\ Remembers(req[s])' /\ Admitted(req[s])'
  BY DEF Sound
<1>1. /\ req[s] # Idle /\ req[s].pc # "done" /\ Shaped(req[s]) /\ Remembers(req[s])
      /\ Admitted(req[s]) /\ SameRecord(req[s], req'[s])
  BY DEF Untouched, SInv, RequestsSound, Sound
<1>2. req[s].user \in Users /\ req[s].seen \subseteq Tokens /\ req[s].links \subseteq Links
  BY <1>1 DEF Shaped, Given, OnPath, SInv, TypeOK, RequestRecord
<1>3. req'[s].pc # "done" /\ Shaped(req'[s])
  BY <1>1 DEF SameRecord, Shaped, Given, OnPath
<1>4. Remembers(req[s])'
  <2>1. \A t \in req'[s].seen : row'[t] # "none" /\ owner'[t] = req'[s].user
    BY <1>1, <1>2 DEF SameRecord, Remembers, RowsKept
  <2>2. req'[s].pc = "setMarker" => \A t \in req'[s].seen : row'[t] \in {"revoked", "expired", "deleted"}
    BY <1>1, <1>2 DEF SameRecord, Remembers, RowsKept
  <2>3. req'[s].op \in {"refresh", "logout"} => row'[req'[s].old] # "none"
    BY <1>1 DEF SameRecord, Remembers, RowsKept, Shaped, Given, OnPath
  <2>4. \A l \in req'[s].links : link'[l].state # "none"
    BY <1>1, <1>2 DEF SameRecord, Remembers, RowsKept
  <2>5. req'[s].pc = "createRow" /\ req'[s].op # "refresh" =>
          row'[req'[s].new] = "none" /\ owner'[req'[s].new] = req'[s].user
    BY <1>1 DEF SameRecord, Remembers, Untouched, Shaped, Given, OnPath
  <2>6. req'[s].pc \in {"findUser", "signAnswer"} /\ req'[s].op = "refresh" =>
          age'[req'[s].new] = None
    BY <1>1 DEF SameRecord, Remembers, Untouched, Shaped, Given, OnPath
  <2>7. QED
    BY <2>1, <2>2, <2>3, <2>4, <2>5, <2>6 DEF Remembers
<1>5. Admitted(req[s])'
  BY <1>1, <1>2 DEF SameRecord, Admitted, RowsKept, Untouched
<1>6. QED
  BY <1>3, <1>4, <1>5

LEMMA OneWrites ==
    ASSUME SInv, NEW r \in Reqs, Step(r), ~setActiveStatus(r)
    PROVE  \A s \in Reqs \ {r} : req'[s] = req[s]
  BY DEF Step, Go, End, authenticate, readLock, countFailure, expireFailures, clearFailures,
     findUser, findByGoogleId, linkGoogleId, createPassengerAccount, signFirst, signAnswer,
     findRefreshTokenByHash, revokeRefreshToken, createRefreshToken, revokeAllUserRefreshTokens,
     revokeAllUserAccessTokens, recordAudit, updatePasswordHash, deleteUnusedLinks,
     createVerificationToken, findValidVerificationToken, markEmailVerified,
     markVerificationTokenUsed, SInv, TypeOK

\* The rest of what the request s asks of a step.
Left(s) ==
    /\ \A t \in Tokens : req[s].new = t =>
          /\ row[t] = "none" => row'[t] = "none" /\ owner'[t] = owner[t]
          /\ age[t] = None => age'[t] = None
    /\ \A u \in Users : account'[u].isActive => account[u].isActive

LEMMA LeftUntouched ==
    ASSUME SInv, NEW s \in Reqs, req'[s] = req[s], Left(s)
    PROVE  Untouched(s)
  BY DEF Left, Untouched, SameRecord

\* What a request knows of itself when it takes a step.
LEMMA Own ==
    ASSUME SInv, NEW r \in Reqs, req[r].pc # "done"
    PROVE  /\ req[r] # Idle /\ req[r] \in RequestRecord
           /\ Shaped(req[r]) /\ Remembers(req[r]) /\ Admitted(req[r])
           /\ req[r].user \in Users
  BY DEF SInv, RequestsSound, Sound, TypeOK, Idle, Shaped, Given, OnPath

LEMMA StepKeeps ==
    ASSUME SInv, NEW r \in Reqs, Step(r), ~setActiveStatus(r)
    PROVE  RowsKept /\ \A s \in Reqs \ {r} : Left(s)
<1> USE DEF SInv
<1>1. CASE UNCHANGED <<account, row, owner, age, link>>
  BY <1>1 DEF RowsKept, Left
<1>2. CASE linkGoogleId(r)
  BY <1>2, Own DEF linkGoogleId, At, RowsKept, Left, TypeOK, Account
<1>3. CASE createPassengerAccount(r)
  BY <1>3, Own DEF createPassengerAccount, At, RowsKept, Left, TypeOK, NewAccountsActive
<1>4. CASE signFirst(r)
  BY <1>4, Own, NoneAssumption DEF signFirst, At, RowsKept, Left, TypeOK, Fresh
<1>5. CASE signAnswer(r)
  BY <1>5, Own, NoneAssumption DEF signAnswer, At, RowsKept, Left, TypeOK, Shaped, Given, OnPath, NewDiffer
<1>6. CASE revokeRefreshToken(r)
  <2>1. req[r].old \in Tokens
    BY <1>6, Own DEF revokeRefreshToken, At, Shaped, Given, OnPath
  <2>2. row[req[r].old] # "none"
    BY <1>6, Own DEF revokeRefreshToken, At, Shaped, Given, OnPath, Remembers
  <2>3. QED
    BY <1>6, <2>1, <2>2 DEF revokeRefreshToken, RowsKept, Left, TypeOK
<1>7. CASE createRefreshToken(r)
  BY <1>7, Own, NoneAssumption DEF createRefreshToken, At, RowsKept, Left, TypeOK, Shaped, Given, OnPath,
     Remembers, NewDiffer, Fresh
<1>8. CASE revokeAllUserRefreshTokens(r)
  BY <1>8 DEF revokeAllUserRefreshTokens, RowsKept, Left, TypeOK
<1>9. CASE updatePasswordHash(r)
  BY <1>9, Own DEF updatePasswordHash, At, RowsKept, Left, TypeOK, Account
<1>10. CASE createVerificationToken(r)
  BY <1>10, Own DEF createVerificationToken, At, RowsKept, Left, TypeOK
<1>11. CASE markEmailVerified(r)
  BY <1>11, Own DEF markEmailVerified, At, RowsKept, Left, TypeOK, Account
<1>12. CASE markVerificationTokenUsed(r)
  <2>1. req[r].link \in Links
    BY <1>12, Own DEF markVerificationTokenUsed, At, Shaped, Given, OnPath
  <2>2. QED
    BY <1>12, <2>1 DEF markVerificationTokenUsed, RowsKept, Left, TypeOK
<1>13. QED
  BY <1>1, <1>2, <1>3, <1>4, <1>5, <1>6, <1>7, <1>8, <1>9, <1>10, <1>11, <1>12
     DEF Step, authenticate, readLock, countFailure, expireFailures, clearFailures,
     findUser, findByGoogleId, findRefreshTokenByHash, revokeAllUserAccessTokens, recordAudit,
     deleteUnusedLinks, findValidVerificationToken

\* Activation notes itself in every request of the user.
LEMMA ActivationKeeps ==
    ASSUME SInv, NEW r \in Reqs, setActiveStatus(r)
    PROVE  RowsKept /\ \A s \in Reqs \ {r} : Untouched(s)
<1>1. req[r].user \in Users /\ req[r].pc = "setActive"
  BY Own DEF setActiveStatus, At
<1>2. RowsKept
  <2>1. ASSUME NEW u \in Users PROVE account'[u].exists = account[u].exists
    BY <1>1 DEF setActiveStatus, SInv, TypeOK, Account
  <2>2. QED
    BY <2>1 DEF setActiveStatus, RowsKept
<1>3. ASSUME NEW s \in Reqs \ {r}
      PROVE  Untouched(s)
  <2> DEFINE active == req[r].op = "reactivate"
  <2>1. req'[s] = [req[s] EXCEPT !.pc = req[s].pc,
                                 !.wasActive = (@ \/ (active /\ req[s].user = req[r].user))]
    BY <1>3 DEF setActiveStatus
  <2>2. req[s] \in RequestRecord
    BY DEF SInv, TypeOK
  <2>3. SameRecord(req[s], req'[s])
    BY <2>1, <2>2 DEF RequestRecord, SameRecord
  <2>4. req[s] = Idle => req'[s] = Idle
    <3> SUFFICES ASSUME req[s] = Idle PROVE req'[s] = Idle
      OBVIOUS
    <3>1. req[s].pc = "done" /\ ~req[s].wasActive /\ req[s].user # req[r].user
      BY <1>1, NoneAssumption DEF Idle
    <3>2. (req[s].wasActive \/ (active /\ req[s].user = req[r].user)) = FALSE
      BY <3>1
    <3>3. req'[s] = [Idle EXCEPT !.pc = "done", !.wasActive = FALSE]
      BY <2>1, <3>1, <3>2
    <3>4. QED
      BY <3>3 DEF Idle
  <2>5. /\ \A u \in Users \ {req[r].user} : account'[u] = account[u]
        /\ account'[req[r].user].isActive = active
    BY <1>1 DEF setActiveStatus, SInv, TypeOK, Account
  <2>6. req'[s].wasActive = (req[s].wasActive \/ (active /\ req[s].user = req[r].user))
    BY <2>1, <2>2 DEF RequestRecord
  <2>7. \A u \in Users : req[s] # Idle /\ req[s].user = u /\ account'[u].isActive =>
          account[u].isActive \/ req'[s].wasActive
    BY <1>1, <2>5, <2>6
  <2>8. QED
    BY <2>3, <2>4, <2>7 DEF Untouched, setActiveStatus
<1>4. QED
  BY <1>2, <1>3

\* Time and the cleanup job are no request's.
LEMMA TimeKeeps ==
    ASSUME SInv, Tick \/ Expire \/ expiredTokens
    PROVE  RowsKept /\ \A s \in Reqs : req'[s] = req[s] /\ Left(s)
<1>1. CASE Tick
  BY <1>1, NoneAssumption DEF Tick, RowsKept, Left, SInv, TypeOK
<1>2. CASE Expire
  BY <1>2 DEF Expire, RowsKept, Left, SInv, TypeOK
<1>3. CASE expiredTokens
  BY <1>3 DEF expiredTokens, deleteExpiredRefreshTokens, deleteExpiredVerificationTokens,
     RowsKept, Left, SInv, TypeOK
<1>4. QED
  BY <1>1, <1>2, <1>3

-----------------------------------------------------------------------------
(* What a request knows after a step of its own.                           *)

\* A request that takes a step keeps what it was given and what it has read.
Moved(q, k) ==
    /\ k.op = q.op /\ k.user = q.user /\ k.old = q.old /\ k.link = q.link /\ k.seen = q.seen
    /\ q.wasActive => k.wasActive

LEMMA MovedSound ==
    ASSUME SInv, RowsKept, NEW r \in Reqs, req[r].pc # "done",
           NEW pc \in Steps \ {"done"}, req'[r].pc = pc,
           Moved(req[r], req'[r]), OnPath(req[r].op, pc),
           \A l \in req'[r].links : link'[l].state # "none",
           pc = "setMarker" => \A t \in req[r].seen : row'[t] \in {"revoked", "expired", "deleted"},
           pc = "createRow" /\ req[r].op # "refresh" =>
             /\ req'[r].new \in Tokens
             /\ row'[req'[r].new] = "none" /\ owner'[req'[r].new] = req[r].user,
           pc \in {"findUser", "signAnswer"} /\ req[r].op = "refresh" =>
             req'[r].new \in Tokens /\ age'[req'[r].new] = None,
           account'[req[r].user].isActive => req'[r].wasActive,
           pc \in {"clearFailures", "sign", "signAnswer"} => req[r].wasActive,
           pc \in {"openLinks", "createLink"} /\ req[r].op = "register" => req[r].wasActive,
           pc = "setActive" => account[req[r].user].exists
    PROVE  Sound(r)'
<1>1. /\ req[r] \in RequestRecord /\ Shaped(req[r]) /\ Remembers(req[r])
      /\ req[r].user \in Users
  BY Own
<1>2. req[r].seen \subseteq Tokens
  BY <1>1 DEF RequestRecord
<1>3. Shaped(req'[r])
  BY <1>1 DEF Moved, Shaped, Given, OnPath
<1>4. Remembers(req[r])'
  <2>1. \A t \in req'[r].seen : row'[t] # "none" /\ owner'[t] = req'[r].user
    BY <1>1, <1>2 DEF Moved, Remembers, RowsKept
  <2>2. req'[r].op \in {"refresh", "logout"} => row'[req'[r].old] # "none"
    BY <1>1 DEF Moved, Remembers, RowsKept, Shaped, Given
  <2>3. req'[r].op = req[r].op /\ req'[r].seen = req[r].seen /\ req'[r].user = req[r].user
    BY DEF Moved
  <2>4. QED
    BY <2>1, <2>2, <2>3 DEF Remembers
<1>5. Admitted(req[r])'
  BY <1>1 DEF Moved, Admitted, RowsKept
<1>6. QED
  BY <1>3, <1>4, <1>5 DEF Sound

LEMMA GoSound ==
    ASSUME SInv, RowsKept, NEW r \in Reqs, req[r].pc # "done",
           NEW pc \in Steps \ {"done"}, Go(r, pc), OnPath(req[r].op, pc),
           pc = "setMarker" => \A t \in req[r].seen : row'[t] \in {"revoked", "expired", "deleted"},
           pc = "createRow" => req[r].op = "refresh",
           pc = "findUser" => req[r].op # "refresh",
           pc = "signAnswer" => req[r].new \in Tokens /\ age'[req[r].new] = None,
           account'[req[r].user].isActive => req[r].wasActive,
           pc \in {"clearFailures", "sign", "signAnswer"} => req[r].wasActive,
           pc \in {"openLinks", "createLink"} /\ req[r].op = "register" => req[r].wasActive,
           pc = "setActive" => account[req[r].user].exists
    PROVE  Sound(r)'
<1>1. req[r] \in RequestRecord /\ Remembers(req[r])
  BY Own
<1>2. /\ req'[r].pc = pc /\ req'[r].op = req[r].op /\ req'[r].user = req[r].user
      /\ req'[r].old = req[r].old /\ req'[r].new = req[r].new /\ req'[r].link = req[r].link
      /\ req'[r].links = req[r].links /\ req'[r].seen = req[r].seen
      /\ req'[r].wasActive = req[r].wasActive
  BY <1>1 DEF Go, SInv, TypeOK, RequestRecord
<1>3. \A l \in req'[r].links : link'[l].state # "none"
  BY <1>1, <1>2 DEF Remembers, RowsKept, RequestRecord
<1>4. Moved(req[r], req'[r])
  BY <1>2 DEF Moved
<1>5. QED
  BY <1>2, <1>3, <1>4, MovedSound DEF OnPath

LEMMA EndSound == ASSUME SInv, NEW r \in Reqs, End(r) PROVE Sound(r)'
  BY DEF SInv, TypeOK, End, Sound

LEMMA StepSound ==
    ASSUME SInv, RowsKept, NEW r \in Reqs, Step(r)
    PROVE  Sound(r)'
<1>0. /\ req[r].pc # "done" => /\ req[r] \in RequestRecord /\ Shaped(req[r])
                                /\ Remembers(req[r]) /\ Admitted(req[r])
                                /\ req[r].user \in Users
      /\ req[r].pc # "done" => OnPath(req[r].op, req[r].pc)
  BY Own DEF Shaped
<1> USE EndSound, GoSound
<1>1. CASE authenticate(r)
  BY <1>0, <1>1 DEF authenticate, At, Steps, OnPath, Admitted
<1>2. CASE readLock(r)
  BY <1>0, <1>2 DEF readLock, At, Steps, OnPath, Admitted
<1>3. CASE countFailure(r)
  BY <1>0, <1>3 DEF countFailure, At, Steps, OnPath, Admitted
<1>4. CASE expireFailures(r)
  BY <1>4 DEF expireFailures
<1>5. CASE clearFailures(r)
  BY <1>0, <1>5 DEF clearFailures, At, Steps, OnPath, Admitted
<1>6. CASE findUser(r)
  BY <1>0, <1>6 DEF findUser, At, Steps, OnPath, Admitted, Shaped, Remembers, userStep,
     register, login, refresh, googleAuth, changePassword, forgotPassword,
     resendVerificationEmail, reviewDriver, setUserActiveStatus
<1>7. CASE findByGoogleId(r)
  BY <1>0, <1>7 DEF findByGoogleId, At, Steps, OnPath, Admitted
<1>8. CASE linkGoogleId(r)
  BY <1>0, <1>8 DEF linkGoogleId, At, Steps, OnPath, Admitted, SInv, TypeOK, Account
<1>9. CASE createPassengerAccount(r)
  BY <1>0, <1>9 DEF createPassengerAccount, At, Steps, OnPath, Admitted, SInv, TypeOK,
     NewAccountsActive
<1>10. CASE signFirst(r)
  <2>1. PICK t \in Tokens :
          /\ Fresh(t)
          /\ owner' = [owner EXCEPT ![t] = req[r].user]
          /\ req' = [req EXCEPT ![r].pc = "createRow", ![r].new = t]
    BY <1>10 DEF signFirst
  <2>2. req'[r] = [req[r] EXCEPT !.pc = "createRow", !.new = t] /\ req[r] \in RequestRecord
    BY <1>0, <1>10, <2>1 DEF signFirst, At, SInv, TypeOK
  <2>3. /\ req'[r].pc = "createRow" /\ req'[r].new = t /\ req'[r].links = req[r].links
        /\ req'[r].wasActive = req[r].wasActive /\ Moved(req[r], req'[r])
    BY <2>2 DEF RequestRecord, Moved
  <2>4. row'[t] = "none" /\ owner'[t] = req[r].user
    BY <1>10, <2>1 DEF signFirst, SInv, TypeOK, Fresh
  <2>5. \A l \in req'[r].links : link'[l].state # "none"
    BY <1>0, <1>10, <2>3 DEF signFirst, At, Remembers
  <2>6. "createRow" \in Steps \ {"done"} /\ OnPath(req[r].op, "createRow")
    BY DEF Steps, OnPath
  <2>7. account'[req[r].user].isActive => req'[r].wasActive
    BY <1>0, <1>10, <2>3 DEF signFirst, At, Admitted
  <2>8. QED
    BY <1>10, <2>3, <2>4, <2>5, <2>6, <2>7, MovedSound DEF signFirst, At
<1>11. CASE signAnswer(r)
  BY <1>11 DEF signAnswer
<1>12. CASE findRefreshTokenByHash(r)
  BY <1>0, <1>12 DEF findRefreshTokenByHash, At, Steps, OnPath, Admitted, rotateRefreshToken,
     revokeRefreshTokenByRaw
<1>13. CASE revokeRefreshToken(r)
  BY <1>0, <1>13 DEF revokeRefreshToken, At, Steps, OnPath, Admitted
<1>14. CASE createRefreshToken(r)
  <2>1. CASE req[r].op # "refresh"
    BY <1>14, <2>1 DEF createRefreshToken
  <2>2. CASE req[r].op = "refresh"
    <3>1. PICK t \in Tokens :
            Fresh(t) /\ req' = [req EXCEPT ![r].pc = "findUser", ![r].new = t]
      BY <1>14, <2>2 DEF createRefreshToken
    <3>2. req'[r] = [req[r] EXCEPT !.pc = "findUser", !.new = t] /\ req[r] \in RequestRecord
      BY <1>0, <1>14, <3>1 DEF createRefreshToken, At, SInv, TypeOK
    <3>3. /\ req'[r].pc = "findUser" /\ req'[r].new = t /\ req'[r].links = req[r].links
          /\ req'[r].wasActive = req[r].wasActive /\ Moved(req[r], req'[r])
      BY <3>2 DEF RequestRecord, Moved
    <3>4. age'[t] = None
      BY <1>14, <3>1 DEF createRefreshToken, Fresh
    <3>5. \A l \in req'[r].links : link'[l].state # "none"
      BY <1>0, <1>14, <3>3 DEF createRefreshToken, At, Remembers
    <3>6. "findUser" \in Steps \ {"done"} /\ OnPath(req[r].op, "findUser")
      BY DEF Steps, OnPath
    <3>7. account'[req[r].user].isActive => req'[r].wasActive
      BY <1>0, <1>14, <3>3 DEF createRefreshToken, At, Admitted
    <3>8. QED
      BY <1>14, <3>3, <3>4, <3>5, <3>6, <3>7, MovedSound DEF createRefreshToken, At
  <2>3. QED
    BY <2>1, <2>2
<1>15. CASE revokeAllUserRefreshTokens(r)
  BY <1>0, <1>15 DEF revokeAllUserRefreshTokens, At, Steps, OnPath, Admitted, Remembers,
     SInv, TypeOK, RowState, RequestRecord
<1>16. CASE revokeAllUserAccessTokens(r)
  BY <1>0, <1>16 DEF revokeAllUserAccessTokens, At, Steps, OnPath, Admitted
<1>17. CASE setActiveStatus(r)
  <2> DEFINE active == req[r].op = "reactivate"
             pc == IF active THEN "record" ELSE "revokeRows"
             may == req[r].wasActive \/ active
  <2>1. req'[r] = [req[r] EXCEPT !.pc = pc,
                                 !.wasActive = (@ \/ (active /\ req[r].user = req[r].user))]
    BY <1>17 DEF setActiveStatus
  <2>2. /\ req'[r].pc = pc /\ req'[r].links = req[r].links
        /\ req'[r].wasActive = may /\ Moved(req[r], req'[r])
    BY <1>0, <1>17, <2>1 DEF setActiveStatus, At, RequestRecord, Moved
  <2>3. \A l \in req'[r].links : link'[l].state # "none"
    BY <1>0, <1>17, <2>2 DEF setActiveStatus, At, Remembers
  <2>4. pc \in Steps \ {"done"} /\ OnPath(req[r].op, pc)
    BY DEF Steps, OnPath
  <2>5. account'[req[r].user].isActive => req'[r].wasActive
    BY <1>0, <1>17, <2>2 DEF setActiveStatus, At, SInv, TypeOK, Account
  <2>6. QED
    BY <1>17, <2>2, <2>3, <2>4, <2>5, MovedSound DEF setActiveStatus, At
<1>18. CASE recordAudit(r)
  BY <1>18 DEF recordAudit
<1>19. CASE updatePasswordHash(r)
  <2>1. account'[req[r].user].isActive = account[req[r].user].isActive
    BY <1>0, <1>19 DEF updatePasswordHash, At, SInv, TypeOK, Account
  <2>2. QED
    BY <1>0, <1>19, <2>1 DEF updatePasswordHash, At, Steps, OnPath, Admitted
<1>20. CASE deleteUnusedLinks(r)
  <2> DEFINE ls == {l \in Links : /\ link[l].user = req[r].user
                                  /\ link[l].type = typeOf(req[r].op)
                                  /\ link[l].state \in {"unused", "expired"}}
  <2>1. req'[r] = [req[r] EXCEPT !.pc = "createLink", !.links = ls]
    BY <1>0, <1>20 DEF deleteUnusedLinks, At, SInv, TypeOK
  <2> HIDE DEF ls
  <2>2. /\ req'[r].pc = "createLink" /\ req'[r].links = ls
        /\ req'[r].wasActive = req[r].wasActive /\ Moved(req[r], req'[r])
    <3>1. req[r] \in RequestRecord
      BY <1>0, <1>20 DEF deleteUnusedLinks, At
    <3>2. QED
      BY <2>1, <3>1 DEF RequestRecord, Moved
  <2>3. \A l \in req'[r].links : link'[l].state # "none"
    BY <1>20, <2>2 DEF deleteUnusedLinks, ls
  <2>4. "createLink" \in Steps \ {"done"} /\ OnPath(req[r].op, "createLink")
    BY DEF Steps, OnPath
  <2>5. account'[req[r].user].isActive => req'[r].wasActive
    BY <1>0, <1>20, <2>2 DEF deleteUnusedLinks, At, Admitted
  <2>6. req[r].op = "register" => req[r].wasActive
    BY <1>0, <1>20 DEF deleteUnusedLinks, At, Admitted
  <2>7. QED
    BY <1>20, <2>2, <2>3, <2>4, <2>5, <2>6, MovedSound DEF deleteUnusedLinks, At
<1>21. CASE createVerificationToken(r)
  BY <1>0, <1>21 DEF createVerificationToken, At, Steps, OnPath, Admitted
<1>22. CASE findValidVerificationToken(r)
  BY <1>0, <1>22 DEF findValidVerificationToken, At, Steps, OnPath, Admitted, resetPassword,
     verifyEmail
<1>23. CASE markEmailVerified(r)
  <2>1. account'[req[r].user].isActive = account[req[r].user].isActive
    BY <1>0, <1>23 DEF markEmailVerified, At, SInv, TypeOK, Account
  <2>2. QED
    BY <1>0, <1>23, <2>1 DEF markEmailVerified, At, Steps, OnPath, Admitted
<1>24. CASE markVerificationTokenUsed(r)
  BY <1>0, <1>24 DEF markVerificationTokenUsed, At, Steps, OnPath, Admitted
<1>25. QED
  BY <1>1, <1>2, <1>3, <1>4, <1>5, <1>6, <1>7, <1>8, <1>9, <1>10, <1>11, <1>12, <1>13, <1>14,
     <1>15, <1>16, <1>17, <1>18, <1>19, <1>20, <1>21, <1>22, <1>23, <1>24 DEF Step

\* A new request has read the sessions that are there.
LEMMA StartSound ==
    ASSUME SInv, NEW r \in Reqs, NEW op \in Ops, NEW u \in Users,
           NEW w, NEW t \in Tokens \cup {None}, NEW l \in Links \cup {None},
           op \in {"refresh", "logout"} => t \in SessionsOf(u),
           op \in {"resetPassword", "verifyEmail"} => l \in Links,
           Start(r, op, u, w, t, l)
    PROVE  /\ Sound(r)' /\ req'[r].new = None
           /\ \A s \in Reqs \ {r} : req'[s] = req[s]
           /\ UNCHANGED <<account, row, owner, age, marker, link, ended, cut>>
<1> DEFINE seen == IF op \in Enders THEN SessionsOf(u) ELSE {}
           k == [op |-> op, pc |-> FirstStep(op), user |-> u, password |-> w, old |-> t,
                 new |-> None, link |-> l, links |-> {}, seen |-> seen,
                 wasActive |-> account[u].isActive,
                 late |-> op \in Redeemers /\ {t, l} \cap ended # {}]
<1>1. /\ req'[r] = k /\ \A s \in Reqs \ {r} : req'[s] = req[s]
      /\ UNCHANGED <<account, row, owner, age, marker, link, ended, cut>>
  BY DEF Start, SInv, TypeOK
<1>2. \A i \in SessionsOf(u) : row[i] # "none" /\ owner[i] = u
  BY DEF SessionsOf, Issued
<1>3. op \in Operations
  BY OpsAssumption
<1>4. /\ FirstStep(op) \in {"readLock", "findGoogle", "findToken", "authenticate",
                             "findLink", "findUser"}
      /\ OnPath(op, FirstStep(op)) /\ (FirstStep(op) = "findUser" => op # "refresh")
  BY <1>3 DEF FirstStep, OnPath, Operations
<1> HIDE DEF seen
<1>5. \A i \in seen : row[i] # "none" /\ owner[i] = u
  BY <1>2 DEF seen
<1>6. /\ req'[r].op = op /\ req'[r].pc = FirstStep(op) /\ req'[r].user = u
      /\ req'[r].old = t /\ req'[r].new = None /\ req'[r].link = l /\ req'[r].links = {}
      /\ req'[r].seen = seen /\ req'[r].wasActive = account[u].isActive
  BY <1>1
<1>7. Shaped(req'[r])
  BY <1>4, <1>6 DEF Shaped, Given, SessionsOf, Issued
<1>8. Remembers(req[r])'
  BY <1>1, <1>2, <1>4, <1>5, <1>6 DEF Remembers
<1>9. Admitted(req[r])'
  BY <1>1, <1>4, <1>6 DEF Admitted
<1>10. QED
  BY <1>1, <1>4, <1>6, <1>7, <1>8, <1>9 DEF Sound

LEMMA RequestSound ==
    ASSUME SInv, NEW r \in Reqs, Request(r)
    PROVE  /\ Sound(r)' /\ req'[r].new = None
           /\ \A s \in Reqs \ {r} : req'[s] = req[s]
           /\ UNCHANGED <<account, row, owner, age, marker, link, ended, cut>>
<1>1. \A u \in Users : SessionsOf(u) \subseteq Tokens
  BY DEF SessionsOf, Issued
<1>2. QED
  BY <1>1, StartSound DEF Request

\* A step keeps every row another request relies on, and leaves every request
\* sound.
LEMMA KeptStep ==
    ASSUME SInv, [Next]_vars
    PROVE  RowsKept /\ RequestsSound'
<1>1. CASE UNCHANGED vars
  <2>1. RowsKept /\ \A s \in Reqs : Untouched(s)
    BY <1>1 DEF vars, RowsKept, Untouched, SameRecord
  <2>2. QED
    BY <2>1, UntouchedSound DEF RequestsSound
<1>2. CASE Tick \/ Expire \/ expiredTokens
  BY <1>2, TimeKeeps, LeftUntouched, UntouchedSound DEF RequestsSound
<1>3. ASSUME NEW r \in Reqs, Abandon(r) PROVE RowsKept /\ RequestsSound'
  <2>1. RowsKept /\ \A s \in Reqs \ {r} : Untouched(s)
    BY <1>3 DEF Abandon, End, RowsKept, Untouched, SameRecord, SInv, TypeOK
  <2>2. Sound(r)'
    BY <1>3, EndSound DEF Abandon
  <2>3. QED
    BY <2>1, <2>2, UntouchedSound DEF RequestsSound
<1>4. ASSUME NEW r \in Reqs, Request(r) PROVE RowsKept /\ RequestsSound'
  <2>1. RowsKept /\ \A s \in Reqs \ {r} : Untouched(s)
    BY <1>4, RequestSound DEF RowsKept, Untouched, SameRecord
  <2>2. QED
    BY <1>4, <2>1, RequestSound, UntouchedSound DEF RequestsSound
<1>5. ASSUME NEW r \in Reqs, Step(r) PROVE RowsKept /\ RequestsSound'
  <2>1. RowsKept /\ \A s \in Reqs \ {r} : Untouched(s)
    BY <1>5, ActivationKeeps, StepKeeps, OneWrites, LeftUntouched
  <2>2. QED
    BY <1>5, <2>1, StepSound, UntouchedSound DEF RequestsSound
<1>6. QED
  BY <1>1, <1>2, <1>3, <1>4, <1>5 DEF Next

\* At most one request chooses or drops a token, and it chooses a fresh one.
NewSame(q) == req'[q].new = req[q].new
NewFresh(q) == req'[q].new = None \/ (req'[q].new \in Tokens /\ Fresh(req'[q].new))

LEMMA OwnNew ==
    ASSUME SInv, NEW r \in Reqs, Step(r)
    PROVE  NewSame(r) \/ NewFresh(r)
<1>0. req[r] \in RequestRecord /\ req \in [Reqs -> RequestRecord]
  BY DEF SInv, TypeOK
<1>1. ASSUME End(r) PROVE NewFresh(r)
  BY <1>0, <1>1 DEF End, Idle, NewFresh
<1>2. ASSUME NEW pc, Go(r, pc) PROVE NewSame(r)
  BY <1>0, <1>2 DEF Go, NewSame, RequestRecord
<1>3. CASE signFirst(r)
  BY <1>0, <1>3 DEF signFirst, NewFresh, RequestRecord
<1>4. CASE createRefreshToken(r)
  BY <1>0, <1>1, <1>4 DEF createRefreshToken, NewFresh, RequestRecord
<1>5. CASE setActiveStatus(r)
  BY <1>0, <1>5 DEF setActiveStatus, NewSame, RequestRecord
<1>6. CASE deleteUnusedLinks(r)
  BY <1>0, <1>6 DEF deleteUnusedLinks, NewSame, RequestRecord
<1>7. QED
  BY <1>1, <1>2, <1>3, <1>4, <1>5, <1>6
     DEF Step, authenticate, readLock, countFailure, expireFailures, clearFailures,
     findUser, findByGoogleId, linkGoogleId, createPassengerAccount, signAnswer,
     findRefreshTokenByHash, revokeRefreshToken, revokeAllUserRefreshTokens,
     revokeAllUserAccessTokens, recordAudit, updatePasswordHash,
     createVerificationToken, findValidVerificationToken, markEmailVerified,
     markVerificationTokenUsed

LEMMA NewChanges ==
    ASSUME SInv, [Next]_vars
    PROVE  \/ \A q \in Reqs : NewSame(q)
           \/ \E r \in Reqs : /\ NewSame(r) \/ NewFresh(r)
                              /\ \A q \in Reqs \ {r} : NewSame(q)
<1>1. CASE UNCHANGED vars \/ Tick \/ Expire \/ expiredTokens
  BY <1>1, TimeKeeps DEF vars, NewSame
<1>2. ASSUME NEW r \in Reqs, Abandon(r)
      PROVE  NewFresh(r) /\ \A q \in Reqs \ {r} : NewSame(q)
  BY <1>2 DEF Abandon, End, Idle, NewSame, NewFresh, SInv, TypeOK
<1>3. ASSUME NEW r \in Reqs, Request(r)
      PROVE  NewFresh(r) /\ \A q \in Reqs \ {r} : NewSame(q)
  BY <1>3, RequestSound DEF NewSame, NewFresh
<1>4. ASSUME NEW r \in Reqs, Step(r)
      PROVE  (NewSame(r) \/ NewFresh(r)) /\ \A q \in Reqs \ {r} : NewSame(q)
  BY <1>4, OwnNew, OneWrites, ActivationKeeps DEF NewSame, Untouched, SameRecord
<1>5. QED
  BY <1>1, <1>2, <1>3, <1>4 DEF Next

LEMMA NewStep == ASSUME SInv, [Next]_vars PROVE NewDiffer'
<1> SUFFICES ASSUME NEW r \in Reqs, NEW s \in Reqs, r # s, req'[r].new # None
             PROVE  req'[r].new # req'[s].new
  BY DEF NewDiffer
<1>1. req[r].new # None => req[r].new # req[s].new
  BY DEF SInv, NewDiffer
<1>2. \A t \in Tokens, q \in Reqs : Fresh(t) => req[q].new # t
  BY DEF Fresh
<1>3. QED
  BY <1>1, <1>2, NewChanges, NoneAssumption DEF NewSame, NewFresh

-----------------------------------------------------------------------------
(* What has been ended.                                                    *)

LEMMA ActiveStep == ASSUME SInv, [Next]_vars PROVE NewAccountsActive'
<1> SUFFICES ASSUME NEW u \in Users, ~account'[u].exists
             PROVE  account'[u].isActive
  BY DEF NewAccountsActive
<1>1. ~account[u].exists /\ account[u].isActive /\ account[u] \in Account
  BY KeptStep DEF SInv, NewAccountsActive, RowsKept, TypeOK
<1>2. ASSUME NEW r \in Reqs, Step(r) PROVE account'[u].isActive
  <2>1. CASE setActiveStatus(r)
    <3>1. account[req[r].user].exists
      BY <2>1, Own DEF setActiveStatus, At, Admitted
    <3>2. QED
      BY <1>1, <2>1, <3>1 DEF setActiveStatus, SInv, TypeOK
  <2>2. CASE linkGoogleId(r)
    BY <1>1, <2>2 DEF linkGoogleId, SInv, TypeOK, Account
  <2>3. CASE createPassengerAccount(r)
    BY <1>1, <2>3 DEF createPassengerAccount, SInv, TypeOK
  <2>4. CASE updatePasswordHash(r)
    BY <1>1, <2>4 DEF updatePasswordHash, SInv, TypeOK, Account
  <2>5. CASE markEmailVerified(r)
    BY <1>1, <2>5 DEF markEmailVerified, SInv, TypeOK, Account
  <2>6. QED
    BY <1>1, <1>2, <2>1, <2>2, <2>3, <2>4, <2>5
       DEF Step, authenticate, readLock, countFailure, expireFailures, clearFailures,
       findUser, findByGoogleId, signFirst, signAnswer,
       findRefreshTokenByHash, revokeRefreshToken, createRefreshToken,
       revokeAllUserRefreshTokens, revokeAllUserAccessTokens, recordAudit, deleteUnusedLinks,
       createVerificationToken, findValidVerificationToken, markVerificationTokenUsed
<1>3. ASSUME NEW r \in Reqs, Request(r) PROVE account'[u].isActive
  BY <1>1, <1>3, RequestSound
<1>4. QED
  BY <1>1, <1>2, <1>3 DEF Next, vars, Abandon, Tick, Expire, expiredTokens

\* Who adds to what is over.
LEMMA EndedSame ==
    ASSUME [Next]_vars
    PROVE  \/ UNCHANGED ended
           \/ \E r \in Reqs : \/ revokeRefreshToken(r) \/ revokeAllUserRefreshTokens(r)
                              \/ revokeAllUserAccessTokens(r) \/ createVerificationToken(r)
                              \/ markVerificationTokenUsed(r)
<1>1. ASSUME NEW r \in Reqs, Request(r) PROVE UNCHANGED ended
  BY <1>1 DEF Request, Start
<1>2. ASSUME NEW r \in Reqs, Step(r)
      PROVE  \/ UNCHANGED ended
             \/ revokeRefreshToken(r) \/ revokeAllUserRefreshTokens(r)
             \/ revokeAllUserAccessTokens(r) \/ createVerificationToken(r)
             \/ markVerificationTokenUsed(r)
  BY <1>2 DEF Step, authenticate, readLock, countFailure, expireFailures, clearFailures,
     findUser, findByGoogleId, linkGoogleId, createPassengerAccount, signFirst, signAnswer,
     findRefreshTokenByHash, createRefreshToken, setActiveStatus, recordAudit,
     updatePasswordHash, deleteUnusedLinks, findValidVerificationToken, markEmailVerified
<1>3. QED
  BY <1>1, <1>2 DEF Next, vars, Abandon, Tick, Expire, expiredTokens

LEMMA RowsOverStep == ASSUME SInv, [Next]_vars PROVE RowsOver'
<1> DEFINE Over(t) == row'[t] \in {"revoked", "expired", "deleted"}
<1>1. RowsKept /\ \A t \in ended \cap Tokens : Over(t)
  BY KeptStep DEF RowsKept, SInv, RowsOver
<1>2. CASE UNCHANGED ended
  BY <1>1, <1>2 DEF RowsOver
<1>3. ASSUME NEW r \in Reqs, revokeRefreshToken(r) PROVE RowsOver'
  BY <1>1, <1>3 DEF revokeRefreshToken, RowsOver, SInv, TypeOK
<1>4. ASSUME NEW r \in Reqs, revokeAllUserRefreshTokens(r) PROVE RowsOver'
  <2>1. Remembers(req[r]) /\ req[r].seen \subseteq Tokens
    BY <1>4, Own DEF revokeAllUserRefreshTokens, At, RequestRecord
  <2>2. \A t \in req[r].seen : Over(t)
    BY <1>4, <2>1 DEF revokeAllUserRefreshTokens, Remembers, SInv, TypeOK, RowState
  <2>3. ended' \subseteq ended \cup req[r].seen
    BY <1>4 DEF revokeAllUserRefreshTokens
  <2>4. QED
    BY <1>1, <2>2, <2>3 DEF RowsOver
<1>5. ASSUME NEW r \in Reqs, revokeAllUserAccessTokens(r) PROVE RowsOver'
  <2>1. \A t \in req[r].seen : row[t] \in {"revoked", "expired", "deleted"}
    BY <1>5, Own DEF revokeAllUserAccessTokens, At, Remembers
  <2>2. ended' = ended \cup req[r].seen /\ row' = row
    BY <1>5 DEF revokeAllUserAccessTokens
  <2>3. QED
    BY <1>1, <2>1, <2>2 DEF RowsOver
<1>6. ASSUME NEW r \in Reqs, createVerificationToken(r) PROVE RowsOver'
  <2>1. req[r].links \subseteq Links
    BY <1>6, Own DEF createVerificationToken, At, RequestRecord
  <2>2. ended' = ended \cup req[r].links
    BY <1>6 DEF createVerificationToken
  <2>3. QED
    BY <1>1, <2>1, <2>2, KindsAssumption DEF RowsOver
<1>7. ASSUME NEW r \in Reqs, markVerificationTokenUsed(r) PROVE RowsOver'
  <2>1. req[r].link \in Links
    BY <1>7, Own DEF markVerificationTokenUsed, At, Shaped, Given, OnPath
  <2>2. ended' \subseteq ended \cup {req[r].link}
    BY <1>7 DEF markVerificationTokenUsed
  <2>3. QED
    BY <1>1, <2>1, <2>2, KindsAssumption DEF RowsOver
<1>8. QED
  BY <1>2, <1>3, <1>4, <1>5, <1>6, <1>7, EndedSame

\* A link that is over stays over: only a link that has not been made is made.
LEMMA LinksStayOver ==
    ASSUME SInv, [Next]_vars, NEW l \in Links, link[l].state \in {"used", "deleted"}
    PROVE  link'[l].state \in {"used", "deleted"}
<1>0. link \in [Links -> [state : LinkState, user : Users \cup {None}, type : LinkType]]
  BY DEF SInv, TypeOK
<1>1. ASSUME NEW r \in Reqs, Request(r) PROVE link' = link
  BY <1>1, RequestSound
<1>2. ASSUME NEW r \in Reqs, createVerificationToken(r)
      PROVE  link'[l].state \in {"used", "deleted"}
  <2>1. PICK n \in Links :
          /\ link[n].state = "none"
          /\ link' = [k \in Links |->
                CASE k = n -> [state |-> "unused", user |-> req[r].user, type |-> typeOf(req[r].op)]
                  [] k \in req[r].links -> [link[k] EXCEPT !.state = "deleted"]
                  [] OTHER -> link[k]]
    BY <1>2 DEF createVerificationToken
  <2>2. l # n
    BY <2>1
  <2>3. CASE l \in req[r].links
    BY <1>0, <2>1, <2>2, <2>3
  <2>4. CASE l \notin req[r].links
    BY <1>0, <2>1, <2>2, <2>4
  <2>5. QED
    BY <2>3, <2>4
<1>3. ASSUME NEW r \in Reqs, markVerificationTokenUsed(r)
      PROVE  link'[l].state \in {"used", "deleted"}
  BY <1>0, <1>3 DEF markVerificationTokenUsed
<1>4. ASSUME NEW r \in Reqs, Step(r)
      PROVE  link'[l].state \in {"used", "deleted"}
  BY <1>2, <1>3, <1>4 DEF Step, authenticate, readLock, countFailure, expireFailures,
     clearFailures, findUser, findByGoogleId, linkGoogleId, createPassengerAccount, signFirst,
     signAnswer, findRefreshTokenByHash, revokeRefreshToken, createRefreshToken,
     revokeAllUserRefreshTokens, revokeAllUserAccessTokens, setActiveStatus, recordAudit,
     updatePasswordHash, deleteUnusedLinks, findValidVerificationToken, markEmailVerified
<1>5. CASE Expire
  BY <1>0, <1>5 DEF Expire
<1>6. CASE expiredTokens
  BY <1>0, <1>6 DEF expiredTokens, deleteExpiredRefreshTokens, deleteExpiredVerificationTokens
<1>7. QED
  BY <1>1, <1>4, <1>5, <1>6 DEF Next, vars, Abandon, Tick

LEMMA LinksOverStep == ASSUME SInv, [Next]_vars PROVE LinksOver'
<1> DEFINE Over(l) == link'[l].state \in {"used", "deleted"}
<1>1. \A l \in ended \cap Links : Over(l)
  BY LinksStayOver DEF SInv, LinksOver
<1>2. CASE UNCHANGED ended
  BY <1>1, <1>2 DEF LinksOver
<1>3. ASSUME NEW r \in Reqs, revokeRefreshToken(r) PROVE LinksOver'
  <2>1. req[r].old \in Tokens /\ ended' \subseteq ended \cup {req[r].old}
    BY <1>3, Own DEF revokeRefreshToken, At, Shaped, Given, OnPath
  <2>2. QED
    BY <1>1, <2>1, KindsAssumption DEF LinksOver
<1>4. ASSUME NEW r \in Reqs, revokeAllUserRefreshTokens(r) \/ revokeAllUserAccessTokens(r)
      PROVE  LinksOver'
  <2>1. req[r].seen \subseteq Tokens /\ ended' \subseteq ended \cup req[r].seen
    BY <1>4, Own DEF revokeAllUserRefreshTokens, revokeAllUserAccessTokens, At, RequestRecord
  <2>2. QED
    BY <1>1, <2>1, KindsAssumption DEF LinksOver
<1>5. ASSUME NEW r \in Reqs, createVerificationToken(r) PROVE LinksOver'
  <2>1. PICK n \in Links :
          /\ link[n].state = "none"
          /\ link' = [k \in Links |->
                CASE k = n -> [state |-> "unused", user |-> req[r].user, type |-> typeOf(req[r].op)]
                  [] k \in req[r].links -> [link[k] EXCEPT !.state = "deleted"]
                  [] OTHER -> link[k]]
    BY <1>5 DEF createVerificationToken
  <2>2. req[r].links \subseteq Links /\ n \notin req[r].links
    BY <1>5, <2>1, Own DEF createVerificationToken, At, RequestRecord, Remembers
  <2>3. \A l \in req[r].links : Over(l)
    BY <2>1, <2>2 DEF SInv, TypeOK
  <2>4. ended' = ended \cup req[r].links
    BY <1>5 DEF createVerificationToken
  <2>5. QED
    BY <1>1, <2>3, <2>4 DEF LinksOver
<1>6. ASSUME NEW r \in Reqs, markVerificationTokenUsed(r) PROVE LinksOver'
  <2>1. req[r].link \in Links
    BY <1>6, Own DEF markVerificationTokenUsed, At, Shaped, Given, OnPath
  <2>2. QED
    BY <1>1, <1>6, <2>1 DEF markVerificationTokenUsed, LinksOver, SInv, TypeOK
<1>7. QED
  BY <1>2, <1>3, <1>4, <1>5, <1>6, EndedSame

-----------------------------------------------------------------------------
(* Access tokens: the marker outlives the ones it is there for.            *)

\* An access token that is cut off and the marker of its user age together.
LEMMA CutAges ==
    ASSUME SInv, Tick, NEW t \in cut
    PROVE  age'[t] # None /\ age'[t] + marker'[owner[t]] >= Life
<1>1. /\ t \in Tokens /\ age[t] \in 0 .. DeadAge /\ owner[t] \in Users
      /\ marker[owner[t]] \in 0 .. Life /\ age[t] + marker[owner[t]] >= Life
  BY DEF SInv, TypeOK, CutSigned, CutOver
<1>2. Life \in Nat /\ Skew \in Nat /\ DeadAge \in Nat /\ DeadAge >= Life
  BY TimesAssumption DEF DeadAge
<1>3. /\ age'[t] = IF age[t] \in 0 .. DeadAge - 1 THEN age[t] + 1 ELSE age[t]
      /\ marker'[owner[t]] = IF marker[owner[t]] > 0 THEN marker[owner[t]] - 1 ELSE 0
  BY <1>1 DEF Tick
<1>4. age'[t] \in Nat
  BY <1>1, <1>2, <1>3
<1>5. QED
  BY <1>1, <1>2, <1>3, <1>4, NoneAssumption

\* Nobody else shortens a marker, or changes the age or owner of a signed token.
LEMMA CutKept ==
    ASSUME SInv, [Next]_vars, ~Tick, NEW t \in Tokens, age[t] # None
    PROVE  /\ age'[t] = age[t]
           /\ \A u \in Users : marker'[u] = marker[u] \/ marker'[u] = Life
<1>1. ASSUME NEW r \in Reqs, signFirst(r) PROVE age'[t] = age[t]
  BY <1>1 DEF signFirst, Fresh, SInv, TypeOK
<1>2. ASSUME NEW r \in Reqs, signAnswer(r) PROVE age'[t] = age[t]
  BY <1>2, Own DEF signAnswer, At, Shaped, Remembers, OnPath, SInv, TypeOK
<1>3. ASSUME NEW r \in Reqs, revokeAllUserAccessTokens(r)
      PROVE  \A u \in Users : marker'[u] = marker[u] \/ marker'[u] = Life
  BY <1>3 DEF revokeAllUserAccessTokens, markerTtl, SInv, TypeOK
<1>4. ASSUME NEW r \in Reqs, Step(r)
      PROVE  /\ age'[t] = age[t]
             /\ \A u \in Users : marker'[u] = marker[u] \/ marker'[u] = Life
  BY <1>1, <1>2, <1>3, <1>4 DEF Step, authenticate, readLock, countFailure, expireFailures,
     clearFailures, findUser, findByGoogleId, linkGoogleId, createPassengerAccount, signFirst,
     signAnswer, findRefreshTokenByHash, revokeRefreshToken, createRefreshToken,
     revokeAllUserRefreshTokens, revokeAllUserAccessTokens, setActiveStatus, recordAudit,
     updatePasswordHash, deleteUnusedLinks, createVerificationToken, findValidVerificationToken,
     markEmailVerified, markVerificationTokenUsed
<1>5. ASSUME NEW r \in Reqs, Request(r) PROVE UNCHANGED <<age, marker>>
  BY <1>5, RequestSound
<1>6. QED
  BY <1>4, <1>5 DEF Next, vars, Abandon, Expire, expiredTokens

\* Tokens are cut off when their user's marker is set.
LEMMA CutGrows ==
    ASSUME SInv, [Next]_vars, NEW t \in cut' \ cut
    PROVE  /\ ~Tick /\ t \in Tokens /\ age[t] # None /\ row[t] # "none" /\ owner[t] \in Users
           /\ marker'[owner[t]] = Life
<1>1. PICK r \in Reqs : revokeAllUserAccessTokens(r)
  <2>1. ASSUME NEW r \in Reqs, Request(r) PROVE cut' = cut
    BY <2>1, RequestSound
  <2>2. ASSUME NEW r \in Reqs, Step(r)
        PROVE  cut' = cut \/ revokeAllUserAccessTokens(r)
    BY <2>2 DEF Step, authenticate, readLock, countFailure, expireFailures,
       clearFailures, findUser, findByGoogleId, linkGoogleId, createPassengerAccount, signFirst,
       signAnswer, findRefreshTokenByHash, revokeRefreshToken, createRefreshToken,
       revokeAllUserRefreshTokens, setActiveStatus, recordAudit,
       updatePasswordHash, deleteUnusedLinks, createVerificationToken,
       findValidVerificationToken, markEmailVerified, markVerificationTokenUsed
  <2>3. QED
    BY <2>1, <2>2 DEF Next, vars, Abandon, Tick, Expire, expiredTokens
<1>2. /\ req[r].user \in Users /\ Remembers(req[r]) /\ req[r].seen \subseteq Tokens
      /\ req[r].pc = "setMarker"
  BY <1>1, Own DEF revokeAllUserAccessTokens, At, RequestRecord
<1>3. t \in req[r].seen /\ age[t] # None
  BY <1>1 DEF revokeAllUserAccessTokens
<1>4. row[t] # "none" /\ owner[t] = req[r].user
  BY <1>2, <1>3 DEF Remembers
<1>5. marker'[req[r].user] = Life
  BY <1>1, <1>2 DEF revokeAllUserAccessTokens, markerTtl, SInv, TypeOK
<1>6. ~Tick
  BY <1>1, <1>3 DEF revokeAllUserAccessTokens, Tick
<1>7. QED
  BY <1>2, <1>3, <1>4, <1>5, <1>6

LEMMA CutStep == ASSUME SInv, [Next]_vars PROVE CutSigned' /\ CutOver'
<1> SUFFICES ASSUME NEW t \in cut'
             PROVE  /\ age'[t] # None /\ row'[t] # "none" /\ owner'[t] \in Users
                    /\ age'[t] + marker'[owner'[t]] >= Life
  BY DEF CutSigned, CutOver
<1>1. /\ t \in Tokens /\ age[t] # None /\ row[t] # "none" /\ owner[t] \in Users
      /\ age[t] \in Nat /\ Life \in Nat
  BY CutGrows, TimesAssumption DEF SInv, CutSigned, TypeOK
<1>2. row'[t] # "none" /\ owner'[t] = owner[t]
  BY <1>1, KeptStep DEF RowsKept
<1>3. CASE Tick
  BY <1>1, <1>2, <1>3, CutAges, CutGrows
<1>4. CASE ~Tick /\ t \in cut
  <2>1. age[t] + marker[owner[t]] >= Life /\ marker[owner[t]] \in 0 .. Life
    BY <1>1, <1>4 DEF SInv, CutOver, TypeOK
  <2>2. age'[t] = age[t] /\ (marker'[owner[t]] = marker[owner[t]] \/ marker'[owner[t]] = Life)
    BY <1>1, <1>4, CutKept
  <2>3. QED
    BY <1>1, <1>2, <2>1, <2>2
<1>5. CASE ~Tick /\ t \notin cut
  BY <1>1, <1>2, <1>5, CutGrows, CutKept
<1>6. QED
  BY <1>3, <1>4, <1>5

-----------------------------------------------------------------------------
(* Redeemers that came too late.                                           *)

\* A request knows from its start whether it is late.
LEMMA LateKept ==
    ASSUME SInv, NEW r \in Reqs, Step(r), req'[r].late
    PROVE  /\ req[r].late /\ req'[r].op = req[r].op
           /\ req'[r].old = req[r].old /\ req'[r].link = req[r].link
<1> DEFINE Kept == /\ req[r].late /\ req'[r].op = req[r].op
                   /\ req'[r].old = req[r].old /\ req'[r].link = req[r].link
<1>0. req[r] \in RequestRecord /\ req \in [Reqs -> RequestRecord]
  BY DEF SInv, TypeOK
<1>1. ~End(r)
  BY <1>0 DEF End, Idle
<1>2. ASSUME NEW pc, Go(r, pc) PROVE Kept
  BY <1>0, <1>2 DEF Go, RequestRecord
<1>3. ASSUME signFirst(r) PROVE Kept
  BY <1>0, <1>3 DEF signFirst, RequestRecord
<1>4. ASSUME createRefreshToken(r) PROVE Kept
  BY <1>0, <1>1, <1>4 DEF createRefreshToken, RequestRecord
<1>5. ASSUME setActiveStatus(r) PROVE Kept
  BY <1>0, <1>5 DEF setActiveStatus, RequestRecord
<1>6. ASSUME deleteUnusedLinks(r) PROVE Kept
  BY <1>0, <1>6 DEF deleteUnusedLinks, RequestRecord
<1> HIDE DEF Kept
<1>7. Kept
  BY <1>1, <1>2, <1>3, <1>4, <1>5, <1>6
     DEF Step, authenticate, readLock, countFailure, expireFailures, clearFailures,
     findUser, findByGoogleId, linkGoogleId, createPassengerAccount, signAnswer,
     findRefreshTokenByHash, revokeRefreshToken, revokeAllUserRefreshTokens,
     revokeAllUserAccessTokens, recordAudit, updatePasswordHash,
     createVerificationToken, findValidVerificationToken, markEmailVerified,
     markVerificationTokenUsed
<1>8. QED
  BY <1>7 DEF Kept

\* The read of what is over refuses it, a refresh after revoking what is left.
LEMMA LateStep ==
    ASSUME SInv, NEW r \in Reqs, Step(r), req'[r].late
    PROVE  req'[r].pc = "revokeRows" /\ req'[r].op = "refresh"
<1>0. /\ req[r].late /\ req'[r].op = req[r].op /\ Refused(req[r])
      /\ req[r] \in RequestRecord /\ req \in [Reqs -> RequestRecord]
  BY LateKept DEF SInv, LateRefused, TypeOK
<1>1. ~End(r)
  BY <1>0 DEF End, Idle
<1>2. CASE req[r].pc = "findToken"
  <2>1. findRefreshTokenByHash(r)
    BY <1>2 DEF Step, At, authenticate, readLock, countFailure, expireFailures, clearFailures,
       findUser, findByGoogleId, linkGoogleId, createPassengerAccount, signFirst, signAnswer,
       revokeRefreshToken, createRefreshToken, revokeAllUserRefreshTokens,
       revokeAllUserAccessTokens, setActiveStatus, recordAudit, updatePasswordHash,
       deleteUnusedLinks, createVerificationToken, findValidVerificationToken,
       markEmailVerified, markVerificationTokenUsed
  <2>2. req[r].op = "refresh" /\ row[req[r].old] \in {"revoked", "expired", "deleted"}
    BY <1>0, <1>2, Own DEF Refused, Redeemers, Shaped, OnPath
  <2>3. Go(r, "revokeRows")
    BY <1>1, <2>1, <2>2 DEF findRefreshTokenByHash, rotateRefreshToken
  <2>4. QED
    BY <1>0, <2>2, <2>3 DEF Go, RequestRecord
<1>3. CASE req[r].pc = "findLink"
  <2>1. findValidVerificationToken(r)
    BY <1>3 DEF Step, At, authenticate, readLock, countFailure, expireFailures, clearFailures,
       findUser, findByGoogleId, linkGoogleId, createPassengerAccount, signFirst, signAnswer,
       findRefreshTokenByHash, revokeRefreshToken, createRefreshToken,
       revokeAllUserRefreshTokens, revokeAllUserAccessTokens, setActiveStatus, recordAudit,
       updatePasswordHash, deleteUnusedLinks, createVerificationToken,
       markEmailVerified, markVerificationTokenUsed
  <2>2. link[req[r].link].state \in {"used", "deleted"}
    BY <1>0, <1>3, Own DEF Refused, Shaped, OnPath
  <2>3. QED
    BY <1>1, <2>1, <2>2 DEF findValidVerificationToken, resetPassword, verifyEmail
<1>4. CASE req[r].pc = "revokeRows" /\ req[r].op = "refresh"
  <2>1. revokeAllUserRefreshTokens(r)
    BY <1>4 DEF Step, At, authenticate, readLock, countFailure, expireFailures, clearFailures,
       findUser, findByGoogleId, linkGoogleId, createPassengerAccount, signFirst, signAnswer,
       findRefreshTokenByHash, revokeRefreshToken, createRefreshToken,
       revokeAllUserAccessTokens, setActiveStatus, recordAudit, updatePasswordHash,
       deleteUnusedLinks, createVerificationToken, findValidVerificationToken,
       markEmailVerified, markVerificationTokenUsed
  <2>2. QED
    BY <1>1, <1>4, <2>1 DEF revokeAllUserRefreshTokens
<1>5. QED
  BY <1>0, <1>2, <1>3, <1>4 DEF Refused

\* A redeemer is late when what it presents was over, and so it stays.
LEMMA LateBegins ==
    ASSUME SInv, NEW r \in Reqs, Request(r)
    PROVE  Refused(req[r])'
<1>1. ASSUME NEW op \in Ops, NEW u \in Users, NEW w, NEW t \in Tokens \cup {None},
             NEW l \in Links \cup {None}, Start(r, op, u, w, t, l),
             op = "refresh" => t \in Tokens /\ l = None,
             op \in {"resetPassword", "verifyEmail"} => l \in Links /\ t = None
      PROVE  Refused(req[r])'
  <2> DEFINE late == op \in Redeemers /\ {t, l} \cap ended # {}
  <2>1. /\ req'[r].op = op /\ req'[r].pc = FirstStep(op) /\ req'[r].old = t
        /\ req'[r].link = l /\ req'[r].late = late /\ UNCHANGED <<row, link>>
    BY <1>1 DEF Start, SInv, TypeOK
  <2>2. None \notin ended
    BY NoneAssumption DEF SInv, TypeOK
  <2>3. ASSUME late, op = "refresh" PROVE row[t] \in {"revoked", "expired", "deleted"}
    BY <1>1, <2>2, <2>3 DEF SInv, RowsOver
  <2>4. ASSUME late, op \in {"resetPassword", "verifyEmail"}
        PROVE  link[l].state \in {"used", "deleted"}
    BY <1>1, <2>2, <2>4 DEF SInv, LinksOver
  <2>5. op \in Redeemers => FirstStep(op) \in {"findToken", "findLink"}
    BY DEF Redeemers, FirstStep
  <2>6. QED
    BY <2>1, <2>3, <2>4, <2>5 DEF Refused, Redeemers
<1>2. \A u \in Users : SessionsOf(u) \subseteq Tokens
  BY DEF SessionsOf, Issued
<1>3. QED
  BY <1>1, <1>2 DEF Request

LEMMA LateRefusedStep == ASSUME SInv, [Next]_vars PROVE LateRefused'
<1> SUFFICES ASSUME NEW s \in Reqs, req'[s].late
             PROVE  Refused(req[s])'
  BY DEF LateRefused, Refused
<1>1. RowsKept
  BY KeptStep
<1>2. ASSUME req[s].late, req'[s].op = req[s].op, req'[s].old = req[s].old,
             req'[s].link = req[s].link,
             \/ req'[s].pc = req[s].pc
             \/ req'[s].pc = "revokeRows" /\ req'[s].op = "refresh"
      PROVE  Refused(req[s])'
  <2>1. Refused(req[s]) /\ req[s].pc # "done"
    BY <1>2 DEF SInv, LateRefused, Refused
  <2>2. Shaped(req[s])
    BY <2>1, Own
  <2>3. req[s].op = "refresh" => row'[req[s].old] \in {"revoked", "expired", "deleted"}
    BY <1>1, <1>2, <2>1, <2>2 DEF Refused, RowsKept, Shaped, Given
  <2>4. req[s].op # "refresh" => link'[req[s].link].state \in {"used", "deleted"}
    BY <1>2, <2>1, <2>2, LinksStayOver DEF Refused, Redeemers, Shaped, Given
  <2>5. QED
    BY <1>2, <2>1, <2>3, <2>4 DEF Refused
<1>3. CASE req'[s] = req[s]
  BY <1>2, <1>3
<1>4. ASSUME NEW r \in Reqs, Request(r) PROVE Refused(req[s])'
  BY <1>3, <1>4, LateBegins, RequestSound
<1>5. ASSUME NEW r \in Reqs, Abandon(r) PROVE Refused(req[s])'
  BY <1>3, <1>5 DEF Abandon, End, Idle, SInv, TypeOK
<1>6. ASSUME NEW r \in Reqs, Step(r) PROVE Refused(req[s])'
  <2>1. CASE s = r
    BY <1>2, <1>6, <2>1, LateKept, LateStep
  <2>2. CASE s # r
    <3>1. setActiveStatus(r) => SameRecord(req[s], req'[s])
      BY <2>2, ActivationKeeps DEF Untouched
    <3>2. ~setActiveStatus(r) => req'[s] = req[s]
      BY <1>6, <2>2, OneWrites
    <3>3. QED
      BY <1>2, <1>3, <3>1, <3>2 DEF SameRecord
  <2>3. QED
    BY <2>1, <2>2
<1>7. QED
  BY <1>3, <1>4, <1>5, <1>6 DEF Next, vars, Tick, Expire, expiredTokens

LEMMA InvStep == ASSUME SInv, [Next]_vars PROVE SInv'
  BY TypesStep, KeptStep, NewStep, ActiveStep, RowsOverStep, LinksOverStep, CutStep,
     LateRefusedStep DEF SInv

\* The inductive invariant holds, whatever requests overlap, die or wait.
THEOREM Invariance == Spec => []SInv
  BY InitSInv, InvStep, PTL DEF Spec

\* Every table, marker, counter and request of Sessions keeps its type, for any
\* users, sessions, links and requests.
THEOREM TypeCorrectness == Spec => []TypeOK
<1>1. SInv => TypeOK
  BY DEF SInv
<1>2. QED
  BY <1>1, Invariance, PTL

\* Nobody redeems what a finished request has ended: whatever rotations, resets
\* and revocations overlap, a refresh or a link presented after the end is refused
\* by the read of its row (token.service.js rotateRefreshToken, findValidVerificationToken),
\* and the marker of token.service.js:35 covers a cut access token until it expires.
THEOREM EndedIsOver == Spec => []EndedIsRefused
<1>1. SInv => EndedIsRefused
  BY DEF SInv, LateRefused, Refused, CutOver, EndedIsRefused
<1>2. QED
  BY <1>1, Invariance, PTL

\* Who gets an access token is at the signature, and has been let in.
LEMMA SignerActive ==
    ASSUME SInv, [Next]_vars, NEW t \in Tokens, age[t] = None, age'[t] = 0
    PROVE  \E r \in Reqs : /\ req[r].pc \in {"sign", "signAnswer"} /\ req'[r].pc # req[r].pc
                           /\ req[r].wasActive
<1>1. None # 0
  BY NoneAssumption
<1>2. PICK r \in Reqs : signFirst(r) \/ signAnswer(r)
  <2>1. ASSUME NEW r \in Reqs, Request(r) PROVE UNCHANGED age
    BY <2>1, RequestSound
  <2>2. ASSUME NEW r \in Reqs, Step(r)
        PROVE  UNCHANGED age \/ signFirst(r) \/ signAnswer(r)
    BY <2>2 DEF Step, authenticate, readLock, countFailure, expireFailures,
       clearFailures, findUser, findByGoogleId, linkGoogleId, createPassengerAccount,
       findRefreshTokenByHash, revokeRefreshToken, createRefreshToken,
       revokeAllUserRefreshTokens, revokeAllUserAccessTokens, setActiveStatus, recordAudit,
       updatePasswordHash, deleteUnusedLinks, createVerificationToken,
       findValidVerificationToken, markEmailVerified, markVerificationTokenUsed
  <2>3. Tick => age'[t] = None
    BY NoneAssumption DEF Tick
  <2>4. QED
    BY <1>1, <2>1, <2>2, <2>3 DEF Next, vars, Abandon, Expire, expiredTokens
<1>3. req[r].pc \in {"sign", "signAnswer"} /\ req[r].wasActive /\ req[r] \in RequestRecord
  BY <1>2, Own DEF signFirst, signAnswer, At, Admitted
<1>4. req'[r].pc \in {"createRow", "done"}
  BY <1>2, <1>3 DEF signFirst, signAnswer, End, Idle, SInv, TypeOK, RequestRecord
<1>5. QED
  BY <1>3, <1>4

\* No request that began when an account was deactivated, and was not since made
\* active, is given an access token (auth.service.js login and googleAuth, and
\* the check of refresh after the rotation).
THEOREM ServedAreActive == Spec => OnlyActiveAreServed
<1>1. ASSUME SInv, [Next]_vars
      PROVE  [\A t \in Tokens : age[t] = None /\ age'[t] = 0 =>
                 \E r \in Reqs : req[r].pc \in {"sign", "signAnswer"} /\ req'[r].pc # req[r].pc
                                    /\ req[r].wasActive]_vars
  BY <1>1, SignerActive
<1>2. QED
  BY <1>1, Invariance, PTL DEF Spec, OnlyActiveAreServed
===============================================================================
