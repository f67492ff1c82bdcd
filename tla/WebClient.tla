------------------------------- MODULE WebClient -------------------------------
(***************************************************************************)
(* One tab of the web client: its sessions (src/frontend/js/state.js), the *)
(* api() and openFile() of src/frontend/js/api.js that refresh and retry,  *)
(* and the login, logout and switching of views/auth.js and app.js.        *)
(*                                                                         *)
(* JavaScript runs to the next await: each step is what happens between    *)
(* two of them.  A token is its user and a serial number.  The server's    *)
(* side is what Sessions says of refresh and authenticate, in one step:    *)
(* the requests of one tab for one user's refresh never overlap there.     *)
(***************************************************************************)
EXTENDS Naturals

CONSTANTS
    People,    \* users who log in on this tab
    Fetches,   \* calls of api() or openFile() that may be in flight at one time
    MaxSerial, \* bound: sessions and rotations per user
    NoOne      \* null

ASSUME MaxSerialAssumption == MaxSerial \in Nat
ASSUME NoOneAssumption == NoOne \notin People

VARIABLES
    live,      \* server: serials of refresh tokens not revoked, per user
    issued,    \* server: the last serial, 0 before the first login
    oldest,    \* server: the oldest serial whose access token has not expired
    sessions,  \* state.sessions: the serial kept per user, 0 for no session
    stored,    \* localStorage rsb_sessions
    active,    \* state.activeUserId
    storedActive,     \* localStorage rsb_active_user
    refreshInFlight,  \* the promise all refreshes share
    fetch,     \* the calls in flight
    outside    \* users whose tokens changed without this tab hearing of it

vars == <<live, issued, oldest, sessions, stored, active, storedActive, refreshInFlight, fetch,
          outside>>
client == <<sessions, stored, active, storedActive>>
Serials == 1 .. MaxSerial
server == <<live, issued, oldest>>

NoRefresh == [user |-> NoOne, serial |-> 0]
NoFetch == [pc |-> "done", user |-> NoOne, as |-> NoOne, serial |-> 0]

Init ==
    /\ live = [u \in People |-> {}]
    /\ issued = [u \in People |-> 0]
    /\ oldest = [u \in People |-> 1]
    /\ sessions = [u \in People |-> 0]
    /\ stored = sessions
    /\ active = NoOne
    /\ storedActive = NoOne
    /\ refreshInFlight = NoRefresh
    /\ fetch = [c \in Fetches |-> NoFetch]
    /\ outside = {}

-----------------------------------------------------------------------------
(* state.js.  Every change is persisted: the whole map is written, and the *)
(* active user unless there is none.                                       *)

LoggedIn == {u \in People : sessions[u] > 0}

KeepInMemory(map, user) ==
    /\ sessions' = map /\ active' = user
    /\ UNCHANGED <<stored, storedActive>>

Keep(map, user) ==
    /\ sessions' = map /\ active' = user
    /\ stored' = map /\ storedActive' = IF user = NoOne THEN storedActive ELSE user

\* removeSession: another session of the tab becomes the active one.
DropOnly(users) ==
    Keep([u \in People |-> IF u \in users THEN 0 ELSE sessions[u]], active)

Drop(users) ==
    \E user \in People \cup {NoOne} :
        /\ IF active \notin users THEN user = active
           ELSE IF LoggedIn \subseteq users THEN user = NoOne ELSE user \in LoggedIn \ users
        /\ Keep([u \in People |-> IF u \in users THEN 0 ELSE sessions[u]], user)

\* The server's next session or rotation for u.
NextSerial(u) == issued[u] + 1

\* doLogin and doRegister: saveSession with what the server answers.
login(u) ==
    /\ NextSerial(u) \in Serials
    /\ issued' = [issued EXCEPT ![u] = NextSerial(u)]
    /\ live' = [live EXCEPT ![u] = @ \cup {NextSerial(u)}]
    /\ Keep([sessions EXCEPT ![u] = NextSerial(u)], u)
    /\ UNCHANGED <<oldest, refreshInFlight, fetch, outside>>

\* The Log out button: the server is not told.
logout ==
    /\ active # NoOne
    /\ Drop({active})
    /\ UNCHANGED <<server, refreshInFlight, fetch, outside>>

switchSession(u) ==
    /\ u \in LoggedIn \ {active}
    /\ Keep(sessions, u)
    /\ UNCHANGED <<server, refreshInFlight, fetch, outside>>

\* rotateRefreshToken for the token presented.
Rotated ==
    LET u == refreshInFlight.user IN
    /\ refreshInFlight.serial \in live[u]
    /\ NextSerial(u) \in Serials
    /\ issued' = [issued EXCEPT ![u] = NextSerial(u)]
    /\ live' = [live EXCEPT ![u] = (@ \ {refreshInFlight.serial}) \cup {NextSerial(u)}]

\* Whoever answers does not reach the tab any more.
AnswerLost ==
    \/ UNCHANGED <<issued, live, outside>>
    \/ Rotated /\ outside' = outside \cup {refreshInFlight.user}

\* loadSessions after a reload: what was in flight is gone.
reload ==
    /\ sessions' = stored /\ active' = storedActive
    /\ refreshInFlight' = NoRefresh
    /\ fetch' = [c \in Fetches |-> NoFetch]
    /\ IF refreshInFlight = NoRefresh THEN UNCHANGED <<issued, live, outside>> ELSE AnswerLost
    /\ UNCHANGED <<oldest, stored, storedActive>>

-----------------------------------------------------------------------------
(* api().                                                                  *)

\* A call is made for the user active then, with the access token kept then.
api(c) ==
    /\ fetch[c] = NoFetch
    /\ active \in LoggedIn
    /\ fetch' = [fetch EXCEPT ![c] = [pc |-> "attempt", user |-> active, as |-> active,
                                      serial |-> sessions[active]]]
    /\ UNCHANGED <<server, client, refreshInFlight, outside>>

\* openFile has a copy of that code, which shares the refresh with it.
openFile(c) == api(c)

Accepted(c) == fetch[c].serial >= oldest[fetch[c].as]

\* The call returns its result or throws an error the view shows: any answer but
\* the 401 of a first attempt, and a first attempt the network fails.
settle(c) ==
    /\ fetch[c].pc \in {"attempt", "retry"}
    /\ fetch' = [fetch EXCEPT ![c] = NoFetch]
    /\ UNCHANGED <<server, client, refreshInFlight, outside>>

\* The second attempt is made inside the try: when the network fails it, the
\* session is given up as if the refresh had failed.
retryThrows(c) ==
    /\ fetch[c].pc = "retry"
    /\ Drop({fetch[c].user})
    /\ fetch' = [fetch EXCEPT ![c] = NoFetch]
    /\ UNCHANGED <<server, refreshInFlight, outside>>

\* refreshInFlight ??= doRefresh(userId): whoever is first starts it, whoever
\* comes later waits for it.
sharesRefresh(c) == refreshInFlight # NoRefresh

unauthorized(c) ==
    LET u == fetch[c].user IN
    /\ fetch[c].pc = "attempt"
    /\ ~Accepted(c)
    /\ IF sharesRefresh(c) \/ u \in LoggedIn
       THEN /\ fetch' = [fetch EXCEPT ![c].pc = "refreshing"]
            /\ refreshInFlight' =
                  IF sharesRefresh(c) THEN refreshInFlight ELSE [user |-> u, serial |-> sessions[u]]
       ELSE /\ fetch' = [fetch EXCEPT ![c] = NoFetch]
            /\ UNCHANGED refreshInFlight
    /\ UNCHANGED <<server, client, outside>>

Pending == {c \in Fetches : fetch[c].pc = "refreshing"}
WaitingForOwn == {c \in Pending : fetch[c].user = refreshInFlight.user}
Waiting == Pending

\* The refresh succeeds: the pair is kept if its user still has a session, and
\* everybody who waited tries again with the new token.
refreshed ==
    LET u == refreshInFlight.user IN
    /\ refreshInFlight # NoRefresh
    /\ Rotated
    /\ Keep(IF u \in LoggedIn THEN [sessions EXCEPT ![u] = NextSerial(u)] ELSE sessions, active)
    /\ fetch' = [c \in Fetches |-> IF c \in Waiting
                   THEN [fetch[c] EXCEPT !.pc = "retry", !.as = u, !.serial = NextSerial(u)]
                   ELSE fetch[c]]
    /\ refreshInFlight' = NoRefresh
    /\ UNCHANGED <<oldest, outside>>

\* Whoever waited gives up the session of the user it was made for.
Fail(users) ==
    /\ Drop(users)
    /\ fetch' = [c \in Fetches |-> IF c \in Waiting THEN NoFetch ELSE fetch[c]]
    /\ refreshInFlight' = NoRefresh

WaitingUsers == {fetch[c].user : c \in Waiting}

\* The server refuses the token: when it is one rotated before, every session
\* of the user ends with it.
refused ==
    LET u == refreshInFlight.user IN
    /\ refreshInFlight # NoRefresh
    /\ refreshInFlight.serial \notin live[u]
    /\ live' = [live EXCEPT ![u] = {}]
    /\ outside' = outside \cup {u}
    /\ Fail(WaitingUsers)
    /\ UNCHANGED <<issued, oldest>>

\* The network fails, before or after the server has rotated the token.
unanswered ==
    /\ refreshInFlight # NoRefresh
    /\ AnswerLost
    /\ Fail(WaitingUsers)
    /\ UNCHANGED oldest

-----------------------------------------------------------------------------
(* The server.                                                             *)

\* The access tokens of u signed so far expire.
expireAccess(u) ==
    /\ oldest' = [oldest EXCEPT ![u] = issued[u] + 1]
    /\ UNCHANGED <<live, issued, client, refreshInFlight, fetch, outside>>

\* logoutAll on another device, a ban, a new password, or seven days.
revokeElsewhere(u) ==
    /\ live' = [live EXCEPT ![u] = {}]
    /\ outside' = outside \cup {u}
    /\ UNCHANGED <<issued, oldest, client, refreshInFlight, fetch>>

Next ==
    \/ \E u \in People : login(u) \/ switchSession(u) \/ expireAccess(u) \/ revokeElsewhere(u)
    \/ logout \/ reload
    \/ \E c \in Fetches : api(c) \/ openFile(c) \/ settle(c) \/ retryThrows(c) \/ unauthorized(c)
    \/ refreshed \/ refused \/ unanswered

Spec == Init /\ [][Next]_vars

\* Every request is answered in the end, if by an error.
FairSpec ==
    /\ Spec
    /\ WF_vars(refreshed \/ refused \/ unanswered)
    /\ \A c \in Fetches : WF_vars(settle(c) \/ retryThrows(c) \/ unauthorized(c))

-----------------------------------------------------------------------------
(* Properties.                                                             *)

\* The types.  As long as the tab has a session, the active user has one, and
\* nobody waits for a refresh that is not under way.
TypeOK ==
    /\ live \in [People -> SUBSET Serials]
    /\ issued \in [People -> Serials \cup {0}]
    /\ oldest \in [People -> Nat \ {0}]
    /\ sessions \in [People -> Serials \cup {0}]
    /\ stored \in [People -> Serials \cup {0}]
    /\ active \in People \cup {NoOne} /\ storedActive \in People \cup {NoOne}
    /\ LoggedIn # {} => active \in LoggedIn
    /\ refreshInFlight \in [user : People \cup {NoOne}, serial : Serials \cup {0}]
    /\ fetch \in [Fetches -> [pc : {"done", "attempt", "refreshing", "retry"},
                              user : People \cup {NoOne}, as : People \cup {NoOne},
                              serial : Serials \cup {0}]]
    /\ Pending # {} => refreshInFlight # NoRefresh
    /\ outside \subseteq People

\* A session the tab keeps can be refreshed: unless its tokens were revoked or
\* an answer was lost, the token kept is one the server has not used up, however
\* many calls meet the expiry at once, across reloads, logins and switches.
KeptSessionsWork ==
    \A u \in People \ outside : sessions[u] > 0 => sessions[u] \in live[u] /\ stored[u] \in live[u]

\* Every call of api() returns or throws, though all of them wait for one promise.
CallsSettle == \A c \in Fetches : fetch[c] # NoFetch ~> fetch[c] = NoFetch

===============================================================================
