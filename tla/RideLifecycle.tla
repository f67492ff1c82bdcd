----------------------------- MODULE RideLifecycle -----------------------------
(***************************************************************************)
(* The life of a ride: src/src/services/ride.service.js with the queries   *)
(* of src/src/repositories/ride.repository.js and driver.repository.js.    *)
(*                                                                         *)
(* The service runs as several instances of an Express app and a worker,   *)
(* over one Postgres and one Redis.  A handler keeps nothing between two   *)
(* awaits but its local variables, and any other handler may run at every  *)
(* await.  So each awaited query is one atomic step here, a                *)
(* prisma.$transaction is one step, and what a handler read earlier is     *)
(* what its record in "call" still holds.  A handler whose check fails     *)
(* throws and changes nothing: such a call is simply not taken, or ends.   *)
(*                                                                         *)
(* Time is counted in units of five minutes: a ride of age n entered its   *)
(* present status more than 5 * n minutes ago.                             *)
(***************************************************************************)
EXTENDS Naturals, FiniteSets

CONSTANTS
    Rides,        \* ids of Ride rows, used or not
    Passengers,   \* Passenger rows, one active user each
    Drivers,      \* APPROVED drivers with a verified vehicle of every type
    Calls,        \* HTTP requests that may be in flight at one time
    Faults,       \* which processes may fail: "app", "worker", "redis"
    Null          \* null, in a column or a variable that refers to another row

ASSUME FaultsAssumption == Faults \subseteq {"app", "worker", "redis"}

\* null is no row, and the rows of the two tables are told apart.
ASSUME RowsAssumption ==
    /\ Null \notin Rides \cup Passengers \cup Drivers
    /\ Passengers \cap Drivers = {}

VARIABLES
    ride,            \* the Ride table
    isOnline,        \* Driver.isOnline
    isAvailable,     \* Driver.isAvailable
    driverRides,     \* Driver.totalRides
    passengerRides,  \* Passenger.totalRides
    logged,          \* the RideStatusLog table: statuses recorded per ride
    pending,         \* Redis geo:rides:pending
    call,            \* the handlers in flight
    sweep            \* expireStaleRides, run by the maintenance worker

dbVars == <<isOnline, isAvailable, driverRides, passengerRides>>
vars == <<ride, isOnline, isAvailable, driverRides, passengerRides, logged,
          pending, call, sweep>>

-----------------------------------------------------------------------------
(* Statuses and rows.                                                      *)

REQUESTED   == "REQUESTED"
ACCEPTED    == "ACCEPTED"
ARRIVED     == "ARRIVED"
IN_PROGRESS == "IN_PROGRESS"
COMPLETED   == "COMPLETED"
CANCELLED   == "CANCELLED"

RideStatus == {REQUESTED, ACCEPTED, ARRIVED, IN_PROGRESS, COMPLETED, CANCELLED}
ACTIVE_STATUSES == {REQUESTED, ACCEPTED, ARRIVED, IN_PROGRESS}
CANCELLABLE_STATUSES == {REQUESTED, ACCEPTED, ARRIVED}

\* In units of five minutes.  MaxAge bounds the clock: nothing in the code
\* tells two ages of 15 minutes and more apart.
REQUESTED_TIMEOUT == 1
OTP_VALIDITY      == 2
ACCEPTED_TIMEOUT  == 3
ARRIVED_TIMEOUT   == 3
MaxAge            == 3

\* "NONE" is the status of an id no row has yet.  "stamps" are the statuses
\* whose timestamp column (requestedAt, acceptedAt, ...) is set; "age" is
\* the age of the stamp of the present status.
Row == [status : RideStatus \cup {"NONE"}, passengerId : Passengers \cup {Null},
        driverId : Drivers \cup {Null}, stamps : SUBSET RideStatus, age : 0..MaxAge]

NoRow == [status |-> "NONE", passengerId |-> Null, driverId |-> Null,
          stamps |-> {}, age |-> 0]

\* Mutant: only a ride still waiting for a driver counts as active.
findRequestedByPassenger(p) ==
    {r \in Rides : ride[r].passengerId = p /\ ride[r].status = REQUESTED}

findActiveByPassenger(p) ==
    {r \in Rides : ride[r].passengerId = p /\ ride[r].status \in ACTIVE_STATUSES}

findActiveByDriver(d) ==
    {r \in Rides : ride[r].driverId = d /\ ride[r].status \in ACTIVE_STATUSES}

\* The row written by updateStatus: a status and its timestamp.
Stamped(row, s) ==
    [row EXCEPT !.status = s, !.stamps = @ \cup {s}, !.age = 0]

updateStatus(r, s) == ride' = [ride EXCEPT ![r] = Stamped(@, s)]

-----------------------------------------------------------------------------
(* Handlers in flight.  "pc" names the next awaited operation.             *)

Ops == {"requestRide", "acceptRide", "markArrived", "startRide",
        "completeRide", "cancelRide"}
Steps == {"create", "findActive", "findRide", "tryAssign", "setAvailable",
          "write", "removePending", "record", "addPending"}

\* requestRide has no "ride" before it has created one; "frees" is the driver
\* cancelRide read on the ride.
Call == [op : Ops, pc : Steps, ride : Rides \cup {Null},
         user : Passengers \cup Drivers, frees : Drivers \cup {Null}]
Idle == [op |-> "none"]

\* Mutant: a status the enum does not have.
TargetMisspelt == [requestRide |-> REQUESTED, acceptRide |-> ACCEPTED,
                   markArrived |-> "ARRIVING", startRide |-> IN_PROGRESS,
                   completeRide |-> COMPLETED, cancelRide |-> CANCELLED]

\* What the handler writes when its check has passed, and then records.
Target == [requestRide |-> REQUESTED, acceptRide |-> ACCEPTED,
           markArrived |-> ARRIVED, startRide |-> IN_PROGRESS,
           completeRide |-> COMPLETED, cancelRide |-> CANCELLED]

Begin(c, op, pc, r, u, d) ==
    /\ call[c] = Idle
    /\ call' = [call EXCEPT ![c] = [op |-> op, pc |-> pc, ride |-> r,
                                    user |-> u, frees |-> d]]
At(c, pc)   == call[c] # Idle /\ call[c].pc = pc
Goto(c, pc) == call' = [call EXCEPT ![c] = [@ EXCEPT !.pc = pc]]
Return(c)   == call' = [call EXCEPT ![c] = Idle]

\* geoService: withRedisFallback swallows an error, the set keeps its value.
SetPending(S) ==
    \/ pending' = S
    \/ "redis" \in Faults /\ UNCHANGED pending

-----------------------------------------------------------------------------
(* Passenger: requestRide.                                                 *)

\* findActiveByPassenger finds nothing.
requestRide(c, p) ==
    /\ findActiveByPassenger(p) = {}
    /\ Begin(c, "requestRide", "create", Null, p, Null)
    /\ UNCHANGED <<ride, dbVars, logged, pending, sweep>>

\* rideRepository.create, after the route and the fare were computed.
create(c) ==
    /\ At(c, "create")
    /\ \E r \in Rides :
         /\ ride[r].status = "NONE"
         /\ ride' = [ride EXCEPT ![r] =
                       Stamped([NoRow EXCEPT !.passengerId = call[c].user], REQUESTED)]
         /\ call' = [call EXCEPT ![c] = [@ EXCEPT !.ride = r, !.pc = "record"]]
    /\ UNCHANGED <<dbVars, logged, pending, sweep>>

\* geoService.addPendingRide; the dispatch of offers that follows changes
\* nothing.
addPendingRide(c) ==
    /\ At(c, "addPending")
    /\ SetPending(pending \cup {call[c].ride})
    /\ Return(c)
    /\ UNCHANGED <<ride, dbVars, logged, sweep>>

-----------------------------------------------------------------------------
(* Driver: acceptRide.                                                     *)

\* getOwnDriver: the driver row is read and its flags checked.
acceptRide(c, d, r) ==
    /\ isOnline[d] /\ isAvailable[d]
    /\ Begin(c, "acceptRide", "findActive", r, d, Null)
    /\ UNCHANGED <<ride, dbVars, logged, pending, sweep>>

\* Mutant: isAvailable is trusted alone.
skipActiveRideCheck(c) ==
    /\ At(c, "findActive")
    /\ Goto(c, "findRide")
    /\ UNCHANGED <<ride, dbVars, logged, pending, sweep>>

checkNoActiveRide(c) ==
    /\ At(c, "findActive")
    /\ findActiveByDriver(call[c].user) = {}
    /\ Goto(c, "findRide")
    /\ UNCHANGED <<ride, dbVars, logged, pending, sweep>>

\* Mutant: the ride leaves the pool before it is assigned.
checkAndDelist(c) ==
    /\ At(c, "findRide")
    /\ ride[call[c].ride].status = REQUESTED
    /\ pending' = pending \ {call[c].ride}
    /\ Goto(c, "tryAssign")
    /\ UNCHANGED <<ride, dbVars, logged, sweep>>

checkStillRequested(c) ==
    /\ At(c, "findRide")
    /\ ride[call[c].ride].status = REQUESTED
    /\ Goto(c, "tryAssign")
    /\ UNCHANGED <<ride, dbVars, logged, pending, sweep>>

\* Mutant: an UPDATE that looks at the driver column only.
AssignableByColumn(r) == ride[r].driverId = Null

\* The conditional UPDATE: its WHERE clause, and its effect.
Assignable(r) == ride[r].status = REQUESTED /\ ride[r].driverId = Null

tryAssignDriver(c) ==
    /\ At(c, "tryAssign")
    /\ LET r == call[c].ride IN
       /\ Assignable(r)
       /\ ride' = [ride EXCEPT ![r] =
                     [Stamped(@, ACCEPTED) EXCEPT !.driverId = call[c].user]]
    /\ Goto(c, "setAvailable")
    /\ UNCHANGED <<dbVars, logged, pending, sweep>>

\* The checks of acceptRide that end it with a conflict.
rejectAccept(c) ==
    /\ \/ At(c, "findActive") /\ findActiveByDriver(call[c].user) # {}
       \/ At(c, "findRide") /\ ride[call[c].ride].status # REQUESTED
       \/ At(c, "tryAssign") /\ ~Assignable(call[c].ride)
    /\ Return(c)
    /\ UNCHANGED <<ride, dbVars, logged, pending, sweep>>

setUnavailable(c) ==
    /\ At(c, "setAvailable")
    /\ isAvailable' = [isAvailable EXCEPT ![call[c].user] = FALSE]
    /\ Goto(c, "removePending")
    /\ UNCHANGED <<ride, isOnline, driverRides, passengerRides, logged, pending, sweep>>

-----------------------------------------------------------------------------
(* Driver: markArrived, startRide, completeRide.                           *)

\* Mutant: the status is not checked.
AssignedRide(d, r, s) == ride[r].driverId = d /\ ride[r].status \in RideStatus

\* getAssignedRideInStatus: the ride is the driver's own and in the status.
AssignedRideInStatus(d, r, s) == ride[r].driverId = d /\ ride[r].status = s

markArrived(c, d, r) ==
    /\ AssignedRideInStatus(d, r, ACCEPTED)
    /\ Begin(c, "markArrived", "write", r, d, Null)
    /\ UNCHANGED <<ride, dbVars, logged, pending, sweep>>

\* The OTP must be young enough on the row just read.  The attempts counter
\* in Redis and the comparison of the code decide whether the call goes on.
startRide(c, d, r) ==
    /\ AssignedRideInStatus(d, r, ARRIVED)
    /\ ride[r].age < OTP_VALIDITY
    /\ Begin(c, "startRide", "write", r, d, Null)
    /\ UNCHANGED <<ride, dbVars, logged, pending, sweep>>

completeRide(c, d, r) ==
    /\ AssignedRideInStatus(d, r, IN_PROGRESS)
    /\ Begin(c, "completeRide", "write", r, d, Null)
    /\ UNCHANGED <<ride, dbVars, logged, pending, sweep>>

\* updateStatus of markArrived and startRide: no condition on the row.
writeStatus(c) ==
    /\ At(c, "write")
    /\ call[c].op \in {"markArrived", "startRide"}
    /\ updateStatus(call[c].ride, Target[call[c].op])
    /\ Goto(c, "record")
    /\ UNCHANGED <<dbVars, logged, pending, sweep>>

\* incrementCompletedRideStats of both repositories.
countRide(d, p) ==
    /\ driverRides' = [driverRides EXCEPT ![d] = @ + 1]
    /\ passengerRides' = [passengerRides EXCEPT ![p] = @ + 1]

\* The transaction of completeRide.
commitCompletion(c) ==
    /\ At(c, "write")
    /\ call[c].op = "completeRide"
    /\ LET r == call[c].ride
           d == call[c].user
       IN /\ updateStatus(r, COMPLETED)
          /\ isAvailable' = [isAvailable EXCEPT ![d] = TRUE]
          /\ countRide(d, ride[r].passengerId)
    /\ Goto(c, "record")
    /\ UNCHANGED <<isOnline, logged, pending, sweep>>

-----------------------------------------------------------------------------
(* Either side: cancelRide.                                                *)

\* The driver to free is the one on the row read here.
cancelRide(c, u, r) ==
    /\ u \in {ride[r].passengerId, ride[r].driverId}
    /\ ride[r].status \in CANCELLABLE_STATUSES
    /\ Begin(c, "cancelRide", "write", r, u, ride[r].driverId)
    /\ UNCHANGED <<ride, dbVars, logged, pending, sweep>>

\* Mutant: the driver is not freed.
KeepBusy(d) == UNCHANGED isAvailable

\* setAvailable(d, true), for the driver on a ride, if there is one.
Free(d) == isAvailable' = IF d = Null THEN isAvailable
                                       ELSE [isAvailable EXCEPT ![d] = TRUE]

commitCancellation(c) ==
    /\ At(c, "write")
    /\ call[c].op = "cancelRide"
    /\ updateStatus(call[c].ride, CANCELLED)
    /\ Free(call[c].frees)
    /\ Goto(c, "removePending")
    /\ UNCHANGED <<isOnline, driverRides, passengerRides, logged, pending, sweep>>

-----------------------------------------------------------------------------
(* Steps several handlers share.                                           *)

\* geoService.removePendingRide
removePendingRide(c) ==
    /\ At(c, "removePending")
    /\ SetPending(pending \ {call[c].ride})
    /\ Goto(c, "record")
    /\ UNCHANGED <<ride, dbVars, logged, sweep>>

\* rideStatusLogRepository.record
record(c) ==
    /\ At(c, "record")
    /\ logged' = [logged EXCEPT ![call[c].ride] = @ \cup {Target[call[c].op]}]
    /\ IF call[c].op = "requestRide" THEN Goto(c, "addPending") ELSE Return(c)
    /\ UNCHANGED <<ride, dbVars, pending, sweep>>

\* The call ends where it stands: a query was rejected (a lost connection, a
\* timeout) or the instance that ran it died.
Abandon(c) ==
    /\ "app" \in Faults
    /\ call[c] # Idle
    /\ Return(c)
    /\ UNCHANGED <<ride, dbVars, logged, pending, sweep>>

-----------------------------------------------------------------------------
(* Drivers come and go: driver.service.js, seen from here.  A ride under   *)
(* way stops neither.  goOffline is also what the heartbeat sweep does.    *)

goOnline(d) ==
    /\ isOnline' = [isOnline EXCEPT ![d] = TRUE]
    /\ isAvailable' = [isAvailable EXCEPT ![d] = TRUE]
    /\ UNCHANGED <<ride, driverRides, passengerRides, logged, pending, call, sweep>>

goOffline(d) ==
    /\ isOnline' = [isOnline EXCEPT ![d] = FALSE]
    /\ isAvailable' = [isAvailable EXCEPT ![d] = FALSE]
    /\ UNCHANGED <<ride, driverRides, passengerRides, logged, pending, call, sweep>>

-----------------------------------------------------------------------------
(* expireStaleRides, every two minutes.  "seen" holds the status each      *)
(* stale ride was listed under ("NONE": not listed, or dealt with), "pc"   *)
(* the next operation and "ride" the rides it is for.                      *)

TimeoutOf == [REQUESTED |-> REQUESTED_TIMEOUT, ACCEPTED |-> ACCEPTED_TIMEOUT,
              ARRIVED |-> ARRIVED_TIMEOUT]
\* Mutant: an ARRIVED ride is never listed.
isStaleUnlessArrived(r) ==
    ride[r].status \in {REQUESTED, ACCEPTED} /\ ride[r].age >= TimeoutOf[ride[r].status]

isStale(r) ==
    ride[r].status \in CANCELLABLE_STATUSES /\ ride[r].age >= TimeoutOf[ride[r].status]

Sweep == [pc : {"idle", "next", "removePending", "record"},
          seen : [Rides -> CANCELLABLE_STATUSES \cup {"NONE"}],
          current : SUBSET Rides]
NoSweep == [pc |-> "idle", seen |-> [r \in Rides |-> "NONE"], current |-> {}]

\* findStaleRequested, findStaleAccepted and findStaleArrived, in parallel.
expireStaleRides ==
    /\ sweep.pc = "idle"
    /\ \E r \in Rides : isStale(r)
    /\ sweep' = [pc |-> "next", current |-> {},
                 seen |-> [r \in Rides |-> IF isStale(r) THEN ride[r].status ELSE "NONE"]]
    /\ UNCHANGED <<ride, dbVars, logged, pending, call>>

Dropped(r) == [sweep.seen EXCEPT ![r] = "NONE"]
Listed(s) == \E r \in Rides : sweep.seen[r] = s

\* Mutant: any active ride is cancelled.
StillActive(r) == ride[r].status \in ACTIVE_STATUSES

\* tryUpdateStatusIfCurrently: its WHERE clause, and the two outcomes.
StillAsSeen(r) == ride[r].status = sweep.seen[r]

expireRide(r, then) ==
    /\ StillAsSeen(r)
    /\ updateStatus(r, CANCELLED)
    /\ sweep' = [pc |-> then, seen |-> Dropped(r), current |-> {r}]
skipRide(r) ==
    /\ ~StillAsSeen(r)
    /\ sweep' = [pc |-> "next", seen |-> Dropped(r), current |-> {}]
    /\ UNCHANGED ride

expireRequested(r) ==
    /\ sweep.pc = "next"
    /\ sweep.seen[r] = REQUESTED
    /\ expireRide(r, "removePending") \/ skipRide(r)
    /\ UNCHANGED <<dbVars, logged, pending, call>>

\* The transaction frees the driver of the row it read, which never changes,
\* whether or not the conditional update matched.
expireAssigned(r, s) ==
    /\ sweep.pc = "next"
    /\ sweep.seen[r] = s
    /\ expireRide(r, "record") \/ skipRide(r)
    /\ Free(ride[r].driverId)
    /\ UNCHANGED <<isOnline, driverRides, passengerRides, logged, pending, call>>

\* The three lists are worked off in this order.
expireAccepted(r) == ~Listed(REQUESTED) /\ expireAssigned(r, ACCEPTED)
expireArrived(r) ==
    ~Listed(REQUESTED) /\ ~Listed(ACCEPTED) /\ expireAssigned(r, ARRIVED)

sweepRemovePending ==
    /\ sweep.pc = "removePending"
    /\ SetPending(pending \ sweep.current)
    /\ sweep' = [sweep EXCEPT !.pc = "record"]
    /\ UNCHANGED <<ride, dbVars, logged, call>>

sweepRecord ==
    /\ sweep.pc = "record"
    /\ logged' = [r \in Rides |-> IF r \in sweep.current THEN logged[r] \cup {CANCELLED}
                                                         ELSE logged[r]]
    /\ sweep' = [sweep EXCEPT !.pc = "next", !.current = {}]
    /\ UNCHANGED <<ride, dbVars, pending, call>>

sweepDone ==
    /\ sweep.pc = "next"
    /\ \A r \in Rides : sweep.seen[r] = "NONE"
    /\ sweep' = NoSweep
    /\ UNCHANGED <<ride, dbVars, logged, pending, call>>

\* A query failed or the worker died; the next scheduled run starts afresh.
sweepAbandon ==
    /\ "worker" \in Faults
    /\ sweep.pc # "idle"
    /\ sweep' = NoSweep
    /\ UNCHANGED <<ride, dbVars, logged, pending, call>>

-----------------------------------------------------------------------------
\* Five minutes pass.
Tick ==
    /\ \E r \in Rides : ride[r].status \in CANCELLABLE_STATUSES /\ ride[r].age < MaxAge
    /\ ride' = [r \in Rides |->
                  IF ride[r].status \in CANCELLABLE_STATUSES /\ ride[r].age < MaxAge
                  THEN [ride[r] EXCEPT !.age = @ + 1] ELSE ride[r]]
    /\ UNCHANGED <<dbVars, logged, pending, call, sweep>>

Init ==
    /\ ride = [r \in Rides |-> NoRow]
    /\ isOnline = [d \in Drivers |-> FALSE]
    /\ isAvailable = [d \in Drivers |-> FALSE]
    /\ driverRides = [d \in Drivers |-> 0]
    /\ passengerRides = [p \in Passengers |-> 0]
    /\ logged = [r \in Rides |-> {}]
    /\ pending = {}
    /\ call = [c \in Calls |-> Idle]
    /\ sweep = NoSweep

\* A request arrives and makes its first read.
NewCall(c) ==
    \/ \E p \in Passengers : requestRide(c, p)
    \/ \E d \in Drivers, r \in Rides : acceptRide(c, d, r)
    \/ \E d \in Drivers, r \in Rides : markArrived(c, d, r)
    \/ \E d \in Drivers, r \in Rides : startRide(c, d, r)
    \/ \E d \in Drivers, r \in Rides : completeRide(c, d, r)
    \/ \E u \in Passengers \cup Drivers, r \in Rides : cancelRide(c, u, r)

\* A request in flight takes its next step.
CallStep(c) ==
    \/ create(c)
    \/ addPendingRide(c)
    \/ checkNoActiveRide(c)
    \/ checkStillRequested(c)
    \/ tryAssignDriver(c)
    \/ rejectAccept(c)
    \/ setUnavailable(c)
    \/ writeStatus(c)
    \/ commitCompletion(c)
    \/ commitCancellation(c)
    \/ removePendingRide(c)
    \/ record(c)
    \/ Abandon(c)

SweepStep ==
    \/ \E r \in Rides : expireRequested(r)
    \/ \E r \in Rides : expireAccepted(r)
    \/ \E r \in Rides : expireArrived(r)
    \/ sweepRemovePending
    \/ sweepRecord
    \/ sweepDone
    \/ sweepAbandon

DriverStep == \E d \in Drivers : goOnline(d) \/ goOffline(d)

Next ==
    \/ \E c \in Calls : NewCall(c)
    \/ \E c \in Calls : CallStep(c)
    \/ expireStaleRides
    \/ SweepStep
    \/ DriverStep
    \/ Tick

Spec == Init /\ [][Next]_vars

(***************************************************************************)
(* The clock runs and the scheduler starts a sweep every two minutes; a    *)
(* sweep under way goes on unless it is abandoned.  Strong fairness says   *)
(* that not every run of the job dies before the same operation.  Nobody   *)
(* is obliged to send a request, and a request in flight may hang.         *)
(***************************************************************************)
Fairness ==
    /\ WF_vars(Tick)
    /\ SF_vars(expireStaleRides)
    /\ \A r \in Rides : /\ SF_vars(expireRequested(r))
                        /\ SF_vars(expireAccepted(r))
                        /\ SF_vars(expireArrived(r))
    /\ WF_vars(sweepRemovePending)
    /\ WF_vars(sweepRecord)
    /\ WF_vars(sweepDone)

FairSpec == Spec /\ Fairness

-----------------------------------------------------------------------------
(* Correctness under every interleaving and every abandoned call.          *)

TypeOK ==
    /\ ride \in [Rides -> Row]
    /\ isOnline \in [Drivers -> BOOLEAN]
    /\ isAvailable \in [Drivers -> BOOLEAN]
    /\ driverRides \in [Drivers -> Nat]
    /\ passengerRides \in [Passengers -> Nat]
    /\ logged \in [Rides -> SUBSET RideStatus]
    /\ pending \in SUBSET Rides
    /\ call \in [Calls -> Call \cup {Idle}]
    /\ sweep \in Sweep

\* A ride that is driven, was driven or is waited for by a driver has one,
\* and a ride in the pool has none: status and driver column never disagree,
\* although markArrived, startRide, completeRide and cancelRide overwrite the
\* status of whatever the row has become since they read it.
DriverOnRecord ==
    \A r \in Rides :
        /\ ride[r].status \in {ACCEPTED, ARRIVED, IN_PROGRESS, COMPLETED}
             => ride[r].driverId \in Drivers
        /\ ride[r].status \in {"NONE", REQUESTED} => ride[r].driverId = Null

\* The driver of a ride, once assigned, is never replaced or removed: two
\* acceptRide calls for one ride cannot both win.
DriverFixed ==
    [][\A r \in Rides : ride[r].driverId # Null => ride'[r].driverId = ride[r].driverId]_vars

\* A ride enters the pool once and is accepted at most once, from the pool.
\* A late write may bring back a cancelled ride, but never to the pool.
NeverReopened ==
    [][\A r \in Rides : ride'[r].status # ride[r].status =>
          /\ ride'[r].status = REQUESTED => ride[r].status = "NONE"
          /\ ride'[r].status = ACCEPTED  => ride[r].status = REQUESTED]_vars

\* No stage is skipped: a ride was started before it was completed, the
\* driver had arrived before it was started, had accepted it before that.
StagesInOrder ==
    \A r \in Rides : LET stamps == ride[r].stamps IN
        /\ COMPLETED   \in stamps => IN_PROGRESS \in stamps
        /\ IN_PROGRESS \in stamps => ARRIVED \in stamps
        /\ ARRIVED     \in stamps => ACCEPTED \in stamps
        /\ ACCEPTED    \in stamps => REQUESTED \in stamps

\* The audit trail names only statuses the ride has had: it may lag behind
\* the ride (a call abandoned before its record), never run ahead of it.
LogFollowsRide == \A r \in Rides : logged[r] \subseteq ride[r].stamps

\* What the sweep cancels had, at the moment of the write, the status it was
\* listed under and had been in it for longer than that status is allowed.
\* (An ARRIVED ride may have been given a new arrivedAt by a second
\* markArrived since it was listed, so the age is not asked of that one.)
SweepIsGuarded ==
    [][\A r \in Rides :
          sweep.seen[r] # sweep'.seen[r] /\ sweep.seen[r] # "NONE"
            /\ ride'[r].status # ride[r].status =>
          /\ ride[r].status = sweep.seen[r]
          /\ ride[r].status \in {REQUESTED, ACCEPTED} => isStale(r)]_vars

\* A ride leaves the set the matching searches only when it can no longer be
\* matched.
MatchableStaysListed ==
    [][\A r \in Rides : r \in pending /\ r \notin pending'
                          => ride[r].status \notin {"NONE", REQUESTED}]_vars

\* The abstract specifications this one is compared with.
Standing(row) == CASE row.status = "NONE" -> "unposted"
                   [] row.status = REQUESTED -> "open"
                   [] OTHER -> IF row.driverId = Null THEN "closed" ELSE "taken"

standing == [r \in Rides |-> Standing(ride[r])]
holder   == [r \in Rides |-> ride[r].driverId]

Assignment == INSTANCE RideAssignment WITH pool <- standing

Contract == INSTANCE RideContract WITH
    status <- [r \in Rides |-> ride[r].status],
    passengerOf <- [r \in Rides |-> ride[r].passengerId],
    driverOf <- holder

\* Every ride is posted, and taken or closed, exactly once.
ImplementsAssignment == Assignment!Spec

\* "Stranded indefinitely": no ride waits for a driver, or a driver for a
\* passenger, without end.  It is started, or else the sweep cancels it.
NoOneStranded ==
    \A r \in Rides : ride[r].status \in CANCELLABLE_STATUSES
                       ~> ride[r].status \in RideStatus \ CANCELLABLE_STATUSES
=============================================================================
