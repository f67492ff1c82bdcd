---------------------------- MODULE DriverPresence ----------------------------
(***************************************************************************)
(* Who is online and where: goOnline, goOffline, updateLocation and        *)
(* expireStaleHeartbeats of src/src/services/driver.service.js over        *)
(* driver.repository.js and geo.service.js, called from REST, from the     *)
(* socket event driver:location and from the maintenance worker.           *)
(*                                                                         *)
(* A driver's position is kept twice, in the Driver row and in the geoset  *)
(* that matching searches, and who is alive in a third place, a key with a *)
(* time to live.  Every awaited call is a step, every call of Redis may    *)
(* fail, which geo.service.js answers with a fallback, and every process   *)
(* may die between two steps.  isAvailable, written with isOnline, belongs *)
(* to RideLifecycle, and who may go online to Vetting.                     *)
(*                                                                         *)
(* A tick is the interval of the sweep's schedule, or of the time a driver *)
(* may need for a long way; a ping within three seconds has age 0.         *)
(***************************************************************************)
EXTENDS Naturals, FiniteSets

CONSTANTS
    Drivers,
    Places,      \* far enough apart for MAX_PLAUSIBLE_SPEED_KMH to matter
    Toggles,     \* requests in flight at one time that go online or offline
    Samples,     \* ... and that send a position, over REST or the socket
    Ttl,         \* HEARTBEAT_TTL_SECONDS, in ticks
    Journey,     \* ticks after which a way between two places is plausible
    Nowhere      \* null, or not a member of the geoset

ASSUME TicksAssumption == Ttl \in Nat \ {0} /\ Journey \in Nat \ {0}
ASSUME NowhereAssumption == Nowhere \notin Places \cup Drivers

VARIABLES
    at,          \* where a driver really is
    isOnline,    \* Driver.isOnline
    lastKnown,   \* Driver.lastKnownLat and lastKnownLng
    age,         \* ticks since Driver.lastLocationAt, up to Journey
    geo,         \* Redis geo:drivers:online
    heartbeat,   \* Redis driver:heartbeat:<id>: ticks left
    ping,        \* the requests in flight
    sweep        \* expireStaleHeartbeats

Pings == Toggles \cup Samples

row == <<isOnline, lastKnown, age>>
cache == <<geo, heartbeat>>
vars == <<at, row, cache, ping, sweep>>

NoPing == [driver |-> Nowhere, pc |-> "done", place |-> Nowhere]
NoSweep == [pc |-> "idle", driver |-> Nowhere, left |-> {}]

Init ==
    /\ at \in [Drivers -> Places]
    /\ isOnline = [d \in Drivers |-> FALSE]
    /\ lastKnown = [d \in Drivers |-> Nowhere]
    /\ age = [d \in Drivers |-> 0]
    /\ geo = [d \in Drivers |-> Nowhere]
    /\ heartbeat = [d \in Drivers |-> 0]
    /\ ping = [r \in Pings |-> NoPing]
    /\ sweep = NoSweep

-----------------------------------------------------------------------------
(* The driver's app.                                                       *)

Begin(r, d, pc) ==
    /\ ping[r] = NoPing
    /\ ping' = [ping EXCEPT ![r] = [driver |-> d, pc |-> pc, place |-> at[d]]]

Then(r, pc) == ping' = [ping EXCEPT ![r] = IF pc = "done" THEN NoPing ELSE [@ EXCEPT !.pc = pc]]

\* goOnline, by an approved driver with a verified vehicle.
goOnline(r, d) == Begin(r, d, "setOnline") /\ UNCHANGED <<at, row, cache, sweep>>

goOffline(r, d) == Begin(r, d, "setOffline") /\ UNCHANGED <<at, row, cache, sweep>>

\* A jump no car makes: a long way in a short time, but for pings so close to
\* each other that no speed is computed.
Implausible(d) ==
    /\ lastKnown[d] \notin {Nowhere, at[d]}
    /\ age[d] \in 1 .. Journey - 1

\* updateLocation works from the row it reads at its start.
updateLocation(r, d) ==
    /\ isOnline[d]
    /\ Begin(r, d, IF Implausible(d) THEN "heartbeatOnly" ELSE "heartbeat")
    /\ UNCHANGED <<at, row, cache, sweep>>

setOnlineStatus(r) ==
    LET p == ping[r] IN
    /\ p.pc \in {"setOnline", "setOffline"}
    /\ isOnline' = [isOnline EXCEPT ![p.driver] = (p.pc = "setOnline")]
    /\ Then(r, IF p.pc = "setOnline" THEN "firstLocation" ELSE "unlist")
    /\ UNCHANGED <<at, lastKnown, age, cache, sweep>>

updateLastKnownLocation(r) ==
    LET p == ping[r] IN
    /\ p.pc \in {"firstLocation", "location"}
    /\ lastKnown' = [lastKnown EXCEPT ![p.driver] = p.place]
    /\ age' = [age EXCEPT ![p.driver] = 0]
    /\ Then(r, IF p.pc = "location" THEN "geoadd" ELSE "firstGeoadd")
    /\ UNCHANGED <<at, isOnline, cache, sweep>>

\* A dropped sample ends here and leaves lastLocationAt as it was.
droppedTouchingRow(r) ==
    /\ age' = [age EXCEPT ![ping[r].driver] = IF ping[r].pc = "heartbeatOnly" THEN 1 ELSE @]
    /\ UNCHANGED <<isOnline, lastKnown>>
dropped(r) == UNCHANGED row

afterHeartbeat(pc) == IF pc = "heartbeat" THEN "location" ELSE "done"

\* The heartbeat's time to live: EX takes seconds.
heartbeatTtlMillis == 1000 * Ttl
heartbeatTtl == Ttl

refreshHeartbeat(r) ==
    LET p == ping[r] IN
    /\ p.pc \in {"heartbeat", "heartbeatOnly", "firstHeartbeat"}
    /\ heartbeat' = [heartbeat EXCEPT ![p.driver] = heartbeatTtl]
    /\ Then(r, afterHeartbeat(p.pc))
    /\ dropped(r)
    /\ UNCHANGED <<at, geo, sweep>>

afterGeoadd(pc) == IF pc = "geoadd" THEN "done" ELSE "firstHeartbeat"

setDriverLocation(r) ==
    LET p == ping[r] IN
    /\ p.pc \in {"geoadd", "firstGeoadd"}
    /\ geo' = [geo EXCEPT ![p.driver] = p.place]
    /\ Then(r, afterGeoadd(p.pc))
    /\ UNCHANGED <<at, row, heartbeat, sweep>>

removeDriverLocation(r) ==
    LET p == ping[r] IN
    /\ p.pc = "unlist"
    /\ geo' = [geo EXCEPT ![p.driver] = Nowhere]
    /\ Then(r, "clear")
    /\ UNCHANGED <<at, row, heartbeat, sweep>>

clearHeartbeat(r) ==
    LET p == ping[r] IN
    /\ p.pc = "clear"
    /\ heartbeat' = [heartbeat EXCEPT ![p.driver] = 0]
    /\ Then(r, "done")
    /\ UNCHANGED <<at, row, geo, sweep>>

\* Redis does not answer: the call is logged and passed over.
redisFails(r) ==
    LET pc == ping[r].pc IN
    /\ \/ pc \in {"heartbeat", "heartbeatOnly", "firstHeartbeat"} /\ Then(r, afterHeartbeat(pc))
       \/ pc \in {"geoadd", "firstGeoadd"} /\ Then(r, afterGeoadd(pc))
       \/ pc = "unlist" /\ Then(r, "clear")
       \/ pc = "clear" /\ Then(r, "done")
    /\ UNCHANGED <<at, row, cache, sweep>>

\* The instance dies, or the database refuses.
abandon(r) ==
    /\ ping[r] # NoPing
    /\ Then(r, "done")
    /\ UNCHANGED <<at, row, cache, sweep>>

-----------------------------------------------------------------------------
(* expireStaleHeartbeats.                                                  *)

\* One job at a time; a crashed one is not run again, the next one is.
listOnlineIds ==
    /\ sweep.pc = "idle"
    /\ sweep' = [pc |-> "check", driver |-> Nowhere, left |-> {d \in Drivers : isOnline[d]}]
    /\ UNCHANGED <<at, row, cache, ping>>

\* hasHeartbeat counts as true when Redis does not answer.
spare(d) ==
    /\ sweep.pc = "check" /\ d \in sweep.left
    /\ sweep' = [sweep EXCEPT !.left = @ \ {d}]
    /\ UNCHANGED <<at, row, cache, ping>>

missHeartbeat(d) ==
    /\ sweep.pc = "check" /\ d \in sweep.left
    /\ heartbeat[d] = 0
    /\ sweep' = [pc |-> "expire", driver |-> d, left |-> sweep.left \ {d}]
    /\ UNCHANGED <<at, row, cache, ping>>

forceOffline(d) ==
    /\ sweep.pc = "expire" /\ sweep.driver = d
    /\ isOnline' = [isOnline EXCEPT ![d] = FALSE]
    /\ sweep' = [sweep EXCEPT !.pc = "unlist"]
    /\ UNCHANGED <<at, lastKnown, age, cache, ping>>

\* zrem, unless Redis fails.
unlist(d) ==
    /\ sweep.pc = "unlist" /\ sweep.driver = d
    /\ geo' \in {geo, [geo EXCEPT ![d] = Nowhere]}
    /\ sweep' = [sweep EXCEPT !.pc = "check", !.driver = Nowhere]
    /\ UNCHANGED <<at, row, heartbeat, ping>>

sweepEnds ==
    /\ sweep.pc # "idle"
    /\ sweep' = NoSweep
    /\ UNCHANGED <<at, row, cache, ping>>

-----------------------------------------------------------------------------
(* The world.                                                              *)

\* SET ... EX: the key lapses by itself.
lapseWithoutExpiry(h) == h
lapse(h) == IF h > 0 THEN h - 1 ELSE 0

Tick ==
    /\ age' = [d \in Drivers |-> IF age[d] < Journey THEN age[d] + 1 ELSE Journey]
    /\ heartbeat' = [d \in Drivers |-> lapse(heartbeat[d])]
    /\ UNCHANGED <<at, isOnline, lastKnown, geo, ping, sweep>>

Move(d) ==
    /\ \E p \in Places \ {at[d]} : at' = [at EXCEPT ![d] = p]
    /\ UNCHANGED <<row, cache, ping, sweep>>

Step(r) ==
    \/ setOnlineStatus(r) \/ updateLastKnownLocation(r) \/ refreshHeartbeat(r)
    \/ setDriverLocation(r) \/ removeDriverLocation(r) \/ clearHeartbeat(r)

Sweep(d) == spare(d) \/ missHeartbeat(d) \/ forceOffline(d) \/ unlist(d)

Next ==
    \/ \E r \in Toggles, d \in Drivers : goOnline(r, d) \/ goOffline(r, d)
    \/ \E r \in Samples, d \in Drivers : updateLocation(r, d)
    \/ \E r \in Pings : Step(r) \/ redisFails(r) \/ abandon(r)
    \/ listOnlineIds \/ (\E d \in Drivers : Sweep(d)) \/ sweepEnds
    \/ Tick
    \/ \E d \in Drivers : Move(d)

Spec == Init /\ [][Next]_vars

\* Processes go on, now and then Redis answers and the sweep is not interrupted.
\* No app has to send anything.
FairSpec ==
    /\ Spec
    /\ WF_vars(Tick) /\ WF_vars(listOnlineIds) /\ WF_vars(sweepEnds)
    /\ \A d \in Drivers :
          SF_vars(missHeartbeat(d)) /\ SF_vars(forceOffline(d))
    /\ WF_vars(\E r \in Pings : Step(r))
    /\ SF_vars(\E r \in Pings : updateLastKnownLocation(r))
    /\ SF_vars(\E r \in Pings : setDriverLocation(r))

-----------------------------------------------------------------------------
(* Properties.                                                             *)

PingSteps == {"setOnline", "firstLocation", "firstGeoadd", "firstHeartbeat", "setOffline",
              "unlist", "clear", "heartbeat", "heartbeatOnly", "location", "geoadd"}

\* The types: a position is where some app has been, a heartbeat never outlives
\* its expiry, and a driver swept is one at a time.
TypeOK ==
    /\ at \in [Drivers -> Places]
    /\ isOnline \in [Drivers -> BOOLEAN]
    /\ lastKnown \in [Drivers -> Places \cup {Nowhere}]
    /\ age \in [Drivers -> 0 .. Journey]
    /\ geo \in [Drivers -> Places \cup {Nowhere}]
    /\ heartbeat \in [Drivers -> 0 .. Ttl]
    /\ ping \in [Pings -> [driver : Drivers, pc : PingSteps, place : Places] \cup {NoPing}]
    /\ sweep \in [pc : {"idle", "check", "expire", "unlist"}, driver : Drivers \cup {Nowhere},
                  left : SUBSET Drivers]

\* A driver who falls silent leaves the matching pool: whoever is online is
\* taken offline in the end, or has sent something meanwhile
\* (geo.service.js:126-141).
SilentDriversLeave ==
    \A d \in Drivers : isOnline[d] ~> (~isOnline[d] \/ \E r \in Pings : ping[r].driver = d)

\* "never blocks the driver going forward" (driver.service.js:119) and "it's
\* self-healing" (geo.service.js:49): a driver who stays online and in one place
\* and sends it again and again is known to be there in the end, in the row and
\* in the geoset, whatever was dropped, lost or overtaken before.
Sending(d) == \E r \in Samples : ping[r].driver = d /\ ping[r].pc \in {"heartbeat", "heartbeatOnly"}

PlaceIsLearned ==
    \A d \in Drivers, p \in Places :
        <>[](at[d] = p /\ isOnline[d]) /\ []<>Sending(d)
            => <>[](lastKnown[d] = p /\ geo[d] = p)
===============================================================================
