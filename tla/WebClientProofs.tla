---------------------------- MODULE WebClientProofs ----------------------------
(***************************************************************************)
(* Theorems about WebClient, for any users, calls and rotations: its types *)
(* and KeptSessionsWork.                                                   *)
(*                                                                         *)
(* Memory and storage never disagree about a session between two steps,    *)
(* and about the active user only when there is none: this is what a       *)
(* reload relies on.                                                       *)
(***************************************************************************)
EXTENDS WebClient, TLAPS

\* The row of one call.
FetchRow == [pc : {"done", "attempt", "refreshing", "retry"}, user : People \cup {NoOne},
             as : People \cup {NoOne}, serial : Serials \cup {0}]

Persisted == stored = sessions /\ (LoggedIn # {} => active = storedActive)

RefreshHasUser == refreshInFlight # NoRefresh => refreshInFlight.user \in People

WInv == TypeOK /\ Persisted /\ RefreshHasUser /\ KeptSessionsWork

LEMMA RetryRow ==
  ASSUME NEW x \in FetchRow, NEW u \in People, NEW s \in Serials
  PROVE  /\ [x EXCEPT !.pc = "retry", !.as = u, !.serial = s] \in FetchRow
         /\ [x EXCEPT !.pc = "retry", !.as = u, !.serial = s].pc = "retry"
  BY DEF FetchRow

LEMMA WebStarts == Init => WInv
<1> SUFFICES ASSUME Init PROVE WInv
  OBVIOUS
<1>1. LoggedIn = {} /\ stored = sessions
  BY DEF Init, LoggedIn
<1>2. Pending = {}
  BY DEF Init, Pending, NoFetch
<1>3. TypeOK
  BY <1>1, <1>2, MaxSerialAssumption DEF Init, TypeOK, Serials, NoFetch, NoRefresh
<1>4. QED
  BY <1>1, <1>3 DEF Init, WInv, Persisted, RefreshHasUser, KeptSessionsWork

-----------------------------------------------------------------------------
(* What the helpers of state.js do.                                        *)

\* Sessions kept as they are or changed for the better, with the active user.
LEMMA KeepClient ==
  ASSUME WInv, NEW map \in [People -> Serials \cup {0}], NEW user \in People \cup {NoOne},
         Keep(map, user), (\E u \in People : map[u] > 0) => user \in People /\ map[user] > 0
  PROVE  /\ sessions' \in [People -> Serials \cup {0}] /\ stored' = sessions'
         /\ active' \in People \cup {NoOne} /\ storedActive' \in People \cup {NoOne}
         /\ LoggedIn' # {} => active' \in LoggedIn' /\ active' = storedActive'
  BY NoOneAssumption DEF WInv, TypeOK, Keep, LoggedIn

LEMMA DropClient ==
  ASSUME WInv, NEW users, Drop(users)
  PROVE  /\ sessions' \in [People -> Serials \cup {0}] /\ stored' = sessions'
         /\ active' \in People \cup {NoOne} /\ storedActive' \in People \cup {NoOne}
         /\ LoggedIn' # {} => active' \in LoggedIn' /\ active' = storedActive'
         /\ \A u \in People : sessions'[u] = 0 \/ sessions'[u] = sessions[u]
<1> DEFINE map == [u \in People |-> IF u \in users THEN 0 ELSE sessions[u]]
<1>1. PICK user \in People \cup {NoOne} :
         /\ IF active \notin users THEN user = active
            ELSE IF LoggedIn \subseteq users THEN user = NoOne ELSE user \in LoggedIn \ users
         /\ Keep(map, user)
  BY DEF Drop
<1>2. sessions \in [People -> Serials \cup {0}] /\ (LoggedIn # {} => active \in LoggedIn)
  BY DEF WInv, TypeOK
<1>3. map \in [People -> Serials \cup {0}]
  BY <1>2
<1>4. (\E u \in People : map[u] > 0) => user \in People /\ map[user] > 0
  <2> SUFFICES ASSUME NEW u \in People, map[u] > 0 PROVE user \in People /\ map[user] > 0
    OBVIOUS
  <2>1. u \in LoggedIn \ users
    BY DEF LoggedIn
  <2>2. user \in LoggedIn \ users
    BY <1>1, <1>2, <2>1
  <2>3. QED
    BY <2>2 DEF LoggedIn
<1>5. sessions' = map
  BY <1>1 DEF Keep
<1>6. \A u \in People : sessions'[u] = 0 \/ sessions'[u] = sessions[u]
  BY <1>5
<1> HIDE DEF map
<1>7. QED
  BY <1>1, <1>3, <1>4, <1>6, KeepClient

LEMMA RotatedServer ==
  ASSUME WInv, refreshInFlight # NoRefresh, Rotated
  PROVE  LET u == refreshInFlight.user IN
         /\ u \in People /\ NextSerial(u) \in Serials
         /\ issued' \in [People -> Serials \cup {0}] /\ live' \in [People -> SUBSET Serials]
         /\ NextSerial(u) \in live'[u]
         /\ \A v \in People : v # u => live'[v] = live[v]
  BY DEF WInv, TypeOK, RefreshHasUser, Rotated

LEMMA LostServer ==
  ASSUME WInv, refreshInFlight # NoRefresh, AnswerLost
  PROVE  /\ issued' \in [People -> Serials \cup {0}] /\ live' \in [People -> SUBSET Serials]
         /\ outside' \subseteq People /\ outside \subseteq outside'
         /\ \A v \in People \ outside' : live'[v] = live[v]
<1>1. CASE UNCHANGED <<issued, live, outside>>
  BY <1>1 DEF WInv, TypeOK
<1>2. CASE Rotated /\ outside' = outside \cup {refreshInFlight.user}
  <2>1. outside \subseteq People
    BY DEF WInv, TypeOK
  <2>2. QED
    BY <1>2, <2>1, RotatedServer
<1>3. QED
  BY <1>1, <1>2 DEF AnswerLost

\* Sessions that were kept or dropped still work where nothing was revoked.
LEMMA KeptStillWork ==
  ASSUME WInv, outside \subseteq outside', stored' = sessions',
         \A u \in People : sessions'[u] = 0 \/ sessions'[u] = sessions[u],
         \A u \in People \ outside' : live[u] \subseteq live'[u]
  PROVE  KeptSessionsWork'
  BY DEF WInv, KeptSessionsWork, TypeOK, Serials

-----------------------------------------------------------------------------
(* The steps.                                                              *)

LEMMA WebStep == ASSUME WInv, [Next]_vars PROVE WInv'
<1>0. /\ live \in [People -> SUBSET Serials] /\ issued \in [People -> Serials \cup {0}]
      /\ oldest \in [People -> Nat \ {0}] /\ sessions \in [People -> Serials \cup {0}]
      /\ fetch \in [Fetches -> FetchRow] /\ outside \subseteq People /\ stored = sessions
      /\ active \in People \cup {NoOne} /\ storedActive \in People \cup {NoOne}
      /\ LoggedIn # {} => active \in LoggedIn /\ active = storedActive
      /\ refreshInFlight \in [user : People \cup {NoOne}, serial : Serials \cup {0}]
      /\ Pending # {} => refreshInFlight # NoRefresh
      /\ RefreshHasUser
  BY DEF WInv, TypeOK, FetchRow, Persisted
<1>a. NoFetch \in FetchRow /\ NoFetch.pc = "done"
      /\ NoRefresh \in [user : People \cup {NoOne}, serial : Serials \cup {0}]
  BY DEF NoFetch, FetchRow, NoRefresh
<1> DEFINE Server == /\ live' \in [People -> SUBSET Serials] /\ issued' \in [People -> Serials \cup {0}]
                     /\ oldest' \in [People -> Nat \ {0}] /\ outside' \subseteq People
           Client == /\ sessions' \in [People -> Serials \cup {0}] /\ stored' = sessions'
                     /\ active' \in People \cup {NoOne} /\ storedActive' \in People \cup {NoOne}
                     /\ LoggedIn' # {} => active' \in LoggedIn' /\ active' = storedActive'
           Calls == /\ refreshInFlight' \in [user : People \cup {NoOne}, serial : Serials \cup {0}]
                    /\ fetch' \in [Fetches -> FetchRow]
                    /\ Pending' # {} => refreshInFlight' # NoRefresh
                    /\ RefreshHasUser'
<1>b. ASSUME Server, Client, Calls, KeptSessionsWork' PROVE WInv'
  BY <1>b DEF WInv, TypeOK, FetchRow, Persisted
<1>c. ASSUME UNCHANGED server, UNCHANGED outside PROVE Server
  BY <1>0, <1>c DEF server
<1>d. ASSUME UNCHANGED client PROVE Client
  BY <1>0, <1>d DEF client, LoggedIn
<1>e. ASSUME UNCHANGED refreshInFlight, UNCHANGED fetch PROVE Calls
  BY <1>0, <1>e DEF Pending, RefreshHasUser
<1>f. ASSUME UNCHANGED refreshInFlight, NEW c \in Fetches, NEW x \in FetchRow,
             fetch' = [fetch EXCEPT ![c] = x], x.pc # "refreshing"
      PROVE  Calls
  BY <1>0, <1>f DEF Pending, RefreshHasUser
<1>g. ASSUME refreshInFlight' = NoRefresh, fetch' \in [Fetches -> FetchRow], Pending' = {} PROVE Calls
  BY <1>a, <1>g DEF RefreshHasUser
<1>h. ASSUME UNCHANGED live, UNCHANGED client, UNCHANGED outside PROVE KeptSessionsWork'
  BY <1>h DEF WInv, KeptSessionsWork, client
<1> HIDE DEF Server, Client, Calls
<1>1. ASSUME NEW u \in People, login(u) PROVE WInv'
  <2> DEFINE map == [sessions EXCEPT ![u] = NextSerial(u)]
  <2>0. NextSerial(u) \in Serials /\ NextSerial(u) > 0
    BY <1>1 DEF login, Serials
  <2>1. map \in [People -> Serials \cup {0}] /\ map[u] > 0
    BY <1>0, <2>0
  <2>2. Client
    BY <1>1, <2>1, KeepClient DEF login, Client
  <2>3. Server
    BY <1>0, <1>1, <2>0 DEF login, Server
  <2>4. /\ \A v \in People : v # u => sessions'[v] = sessions[v] /\ live'[v] = live[v]
        /\ sessions'[u] \in live'[u] /\ outside' = outside /\ stored' = sessions'
    BY <1>0, <1>1, <2>0 DEF login, Keep
  <2>5. KeptSessionsWork'
    BY <1>0, <2>4 DEF WInv, KeptSessionsWork
  <2>6. QED
    BY <1>1, <1>b, <1>e, <2>2, <2>3, <2>5 DEF login
<1>2. ASSUME logout PROVE WInv'
  <2>1. Client /\ \A u \in People : sessions'[u] = 0 \/ sessions'[u] = sessions[u]
    BY <1>2, DropClient DEF logout, Client
  <2>2. Server
    BY <1>2, <1>c DEF logout
  <2>3. KeptSessionsWork'
    BY <1>2, <2>1, KeptStillWork DEF logout, server, Client
  <2>4. QED
    BY <1>2, <1>b, <1>e, <2>1, <2>2, <2>3 DEF logout
<1>3. ASSUME NEW u \in People, switchSession(u) PROVE WInv'
  <2>1. Client
    BY <1>0, <1>3, KeepClient DEF switchSession, LoggedIn, Client
  <2>2. KeptSessionsWork'
    BY <1>0, <1>3 DEF switchSession, Keep, server, WInv, KeptSessionsWork
  <2>3. QED
    BY <1>3, <1>b, <1>c, <1>e, <2>1, <2>2 DEF switchSession
<1>4. ASSUME reload PROVE WInv'
  <2>1. Client
    BY <1>0, <1>4 DEF reload, LoggedIn, Client
  <2>2. Pending' = {}
    BY <1>4 DEF reload, Pending, NoFetch
  <2>3. Calls
    BY <1>4, <1>a, <1>g, <2>2 DEF reload
  <2>4. Server /\ outside \subseteq outside' /\ \A v \in People \ outside' : live'[v] = live[v]
    <3>1. CASE refreshInFlight = NoRefresh
      BY <1>0, <1>4, <3>1 DEF reload, Server
    <3>2. CASE refreshInFlight # NoRefresh
      BY <1>0, <1>4, <3>2, LostServer DEF reload, Server
    <3>3. QED
      BY <3>1, <3>2
  <2>5. KeptSessionsWork'
    BY <1>0, <1>4, <2>4, KeptStillWork DEF reload
  <2>6. QED
    BY <1>b, <2>1, <2>3, <2>4, <2>5
<1>5. ASSUME NEW c \in Fetches, api(c) PROVE WInv'
  <2> DEFINE x == [pc |-> "attempt", user |-> active, as |-> active, serial |-> sessions[active]]
  <2>1. x \in FetchRow /\ x.pc # "refreshing"
    BY <1>0, <1>5 DEF api, FetchRow, LoggedIn
  <2>2. Calls
    BY <1>5, <1>f, <2>1 DEF api
  <2>3. QED
    BY <1>5, <1>b, <1>c, <1>d, <1>h, <2>2 DEF api, server
<1>6. ASSUME NEW c \in Fetches, settle(c) PROVE WInv'
  BY <1>6, <1>a, <1>b, <1>c, <1>d, <1>f, <1>h DEF settle, server
<1>7. ASSUME NEW c \in Fetches, unauthorized(c) PROVE WInv'
  <2>1. CASE sharesRefresh(c) \/ fetch[c].user \in LoggedIn
    <3> DEFINE u == fetch[c].user
               new == IF sharesRefresh(c) THEN refreshInFlight ELSE [user |-> u, serial |-> sessions[u]]
    <3>1. fetch' = [fetch EXCEPT ![c].pc = "refreshing"] /\ refreshInFlight' = new
      BY <1>7, <2>1 DEF unauthorized
    <3>2. fetch' \in [Fetches -> FetchRow]
      BY <1>0, <3>1 DEF FetchRow
    <3>3. new # NoRefresh /\ new.user \in People
          /\ new \in [user : People \cup {NoOne}, serial : Serials \cup {0}]
      <4>1. CASE sharesRefresh(c)
        BY <1>0, <4>1 DEF sharesRefresh, RefreshHasUser
      <4>2. CASE ~sharesRefresh(c)
        <5>1. u \in People
          BY <2>1, <4>2 DEF LoggedIn
        <5>2. QED
          BY <1>0, <4>2, <5>1, NoOneAssumption DEF NoRefresh
      <4>3. QED
        BY <4>1, <4>2
    <3> HIDE DEF new
    <3>4. Calls
      BY <3>1, <3>2, <3>3 DEF Calls, RefreshHasUser
    <3>5. QED
      BY <1>7, <1>b, <1>c, <1>d, <1>h, <3>4 DEF unauthorized, server
  <2>2. CASE ~(sharesRefresh(c) \/ fetch[c].user \in LoggedIn)
    <3>1. fetch' = [fetch EXCEPT ![c] = NoFetch] /\ UNCHANGED refreshInFlight
      BY <1>7, <2>2 DEF unauthorized
    <3>2. QED
      BY <1>7, <1>a, <1>b, <1>c, <1>d, <1>f, <1>h, <3>1 DEF unauthorized, server
  <2>3. QED
    BY <2>1, <2>2
<1>8. ASSUME refreshed PROVE WInv'
  <2> DEFINE u == refreshInFlight.user
             map == IF u \in LoggedIn THEN [sessions EXCEPT ![u] = NextSerial(u)] ELSE sessions
  <2>1. /\ u \in People /\ NextSerial(u) \in Serials
        /\ issued' \in [People -> Serials \cup {0}] /\ live' \in [People -> SUBSET Serials]
        /\ NextSerial(u) \in live'[u]
        /\ \A v \in People : v # u => live'[v] = live[v]
    BY <1>8, RotatedServer DEF refreshed
  <2>2. map \in [People -> Serials \cup {0}] /\ \A v \in People : map[v] > 0 <=> sessions[v] > 0
    BY <1>0, <2>1 DEF LoggedIn, Serials
  <2>3. Keep(map, active)
    BY <1>8 DEF refreshed
  <2>4. (\E v \in People : map[v] > 0) => active \in People /\ map[active] > 0
    BY <1>0, <2>2 DEF LoggedIn
  <2>5. sessions' = map /\ outside' = outside /\ stored' = sessions'
        /\ \A v \in People : v # u => map[v] = sessions[v]
    BY <1>0, <1>8, <2>3 DEF refreshed, Keep
  <2>6. map[u] > 0 => map[u] = NextSerial(u)
    BY <1>0, <2>1 DEF LoggedIn
  <2> HIDE DEF map
  <2>7. Client
    BY <1>0, <2>2, <2>3, <2>4, KeepClient DEF Client
  <2>8. Server
    BY <1>0, <1>8, <2>1, <2>5 DEF refreshed, Server
  <2>9. fetch' \in [Fetches -> FetchRow] /\ Pending' = {}
    <3>1. fetch' = [c \in Fetches |-> IF c \in Waiting
                     THEN [fetch[c] EXCEPT !.pc = "retry", !.as = u, !.serial = NextSerial(u)]
                     ELSE fetch[c]]
      BY <1>8 DEF refreshed
    <3>2. ASSUME NEW c \in Fetches
          PROVE  /\ [fetch[c] EXCEPT !.pc = "retry", !.as = u, !.serial = NextSerial(u)] \in FetchRow
                 /\ [fetch[c] EXCEPT !.pc = "retry", !.as = u, !.serial = NextSerial(u)].pc = "retry"
      <4>1. fetch[c] \in FetchRow
        BY <1>0
      <4>2. QED
        BY <2>1, <4>1, RetryRow
    <3>3. QED
      BY <1>0, <3>1, <3>2 DEF Pending, Waiting
  <2>10. Calls
    BY <1>8, <1>g, <2>9 DEF refreshed
  <2>11. KeptSessionsWork'
    BY <2>1, <2>5, <2>6 DEF WInv, KeptSessionsWork
  <2>12. QED
    BY <1>b, <2>7, <2>8, <2>10, <2>11
<1>9. ASSUME Fail(WaitingUsers), outside \subseteq outside', Server,
             \A v \in People \ outside' : live'[v] = live[v]
      PROVE  WInv'
  <2>1. Client /\ \A v \in People : sessions'[v] = 0 \/ sessions'[v] = sessions[v]
    BY <1>9, DropClient DEF Fail, Client
  <2>2. fetch' \in [Fetches -> FetchRow] /\ Pending' = {}
    BY <1>0, <1>9, <1>a DEF Fail, Pending, Waiting
  <2>3. Calls
    BY <1>9, <1>g, <2>2 DEF Fail
  <2>4. KeptSessionsWork'
    BY <1>9, <2>1, KeptStillWork DEF Client
  <2>5. QED
    BY <1>9, <1>b, <2>1, <2>3, <2>4
<1>10. ASSUME refused PROVE WInv'
  <2>1. refreshInFlight.user \in People
    BY <1>0, <1>10 DEF refused, RefreshHasUser
  <2>2. Server /\ outside \subseteq outside' /\ \A v \in People \ outside' : live'[v] = live[v]
    BY <1>0, <1>10, <2>1 DEF refused, Server
  <2>3. QED
    BY <1>9, <1>10, <2>2 DEF refused
<1>11. ASSUME unanswered PROVE WInv'
  <2>1. Server /\ outside \subseteq outside' /\ \A v \in People \ outside' : live'[v] = live[v]
    BY <1>0, <1>11, LostServer DEF unanswered, Server
  <2>2. QED
    BY <1>9, <1>11, <2>1 DEF unanswered
<1>12. ASSUME NEW u \in People, expireAccess(u) PROVE WInv'
  <2>1. Server
    BY <1>0, <1>12 DEF expireAccess, Server, Serials
  <2>2. QED
    BY <1>12, <1>b, <1>d, <1>e, <1>h, <2>1 DEF expireAccess
<1>13. ASSUME NEW u \in People, revokeElsewhere(u) PROVE WInv'
  <2>1. Server
    BY <1>0, <1>13 DEF revokeElsewhere, Server
  <2>2. KeptSessionsWork'
    BY <1>0, <1>13, KeptStillWork DEF revokeElsewhere, client
  <2>3. QED
    BY <1>13, <1>b, <1>d, <1>e, <2>1, <2>2 DEF revokeElsewhere
<1>14. ASSUME NEW c \in Fetches, retryThrows(c) PROVE WInv'
  <2>1. Client /\ \A u \in People : sessions'[u] = 0 \/ sessions'[u] = sessions[u]
    BY <1>14, DropClient DEF retryThrows, Client
  <2>2. Server
    BY <1>14, <1>c DEF retryThrows
  <2>3. Calls
    BY <1>14, <1>a, <1>f DEF retryThrows
  <2>4. KeptSessionsWork'
    BY <1>14, <2>1, KeptStillWork DEF retryThrows, server, Client
  <2>5. QED
    BY <1>b, <2>1, <2>2, <2>3, <2>4
<1>15. CASE UNCHANGED vars
  <2>1. /\ UNCHANGED server /\ UNCHANGED client /\ UNCHANGED outside
        /\ UNCHANGED refreshInFlight /\ UNCHANGED fetch
    BY <1>15 DEF vars, server, client
  <2>2. QED
    BY <1>b, <1>c, <1>d, <1>e, <1>h, <2>1 DEF server
<1>16. ASSUME NEW c \in Fetches, openFile(c) PROVE WInv'
  BY <1>5, <1>16 DEF openFile
<1>17. QED
  BY <1>1, <1>2, <1>3, <1>4, <1>5, <1>6, <1>7, <1>8, <1>10, <1>11, <1>12, <1>13, <1>14,
     <1>15, <1>16 DEF Next

\* Memory and storage agree, and the sessions kept work.
THEOREM Invariance == Spec => []WInv
  BY WebStarts, WebStep, PTL DEF Spec

\* The types: as long as the tab has a session there is an active user who has
\* one, and no call waits for a refresh nobody makes.
THEOREM TypeCorrectness == Spec => []TypeOK
<1>1. WInv => TypeOK
  BY DEF WInv
<1>2. QED
  BY <1>1, Invariance, PTL

\* Whatever calls, reloads, logins and expiries overlap, a session the tab keeps
\* can be refreshed unless it was revoked or an answer was lost (api.js:38-60).
THEOREM KeptSessionsKeepWorking == Spec => []KeptSessionsWork
<1>1. WInv => KeptSessionsWork
  BY DEF WInv
<1>2. QED
  BY <1>1, Invariance, PTL
===============================================================================
