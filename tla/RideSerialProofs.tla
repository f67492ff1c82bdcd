--------------------------- MODULE RideSerialProofs ----------------------------
(***************************************************************************)
(* Theorems about the ride service with its handlers one at a time, for    *)
(* any number of rides and users, any of the handlers and sweeps abandoned *)
(* at any await: it implements RideContract, and what follows from that.   *)
(***************************************************************************)
EXTENDS RideLifecycleProofs, MCRideSerial, FiniteSetTheorems

USE DEF REQUESTED, ACCEPTED, ARRIVED, IN_PROGRESS, COMPLETED, CANCELLED

-----------------------------------------------------------------------------
(* The inductive invariant.  While a handler runs nobody else does, so     *)
(* that what it has checked still holds when it writes; and whatever stage *)
(* it is abandoned at, a driver it leaves unavailable has a ride.          *)

OneAtATime ==
    /\ \A c, e \in Calls : call[c] # Idle /\ call[e] # Idle => c = e
    /\ \A c \in Calls : call[c] # Idle => sweep.pc = "idle"

Knows(k) ==
    /\ k.pc = "create" => findActiveByPassenger(k.user) = {}
    /\ k.pc \in {"findRide", "tryAssign"} => findActiveByDriver(k.user) = {}
    /\ k.pc = "setAvailable" =>
          ride[k.ride].driverId = k.user /\ ride[k.ride].status = ACCEPTED
    /\ k.pc = "write" =>
          /\ k.op = "markArrived"  => ride[k.ride].status = ACCEPTED
          /\ k.op = "startRide"    => ride[k.ride].status = ARRIVED
          /\ k.op = "completeRide" => ride[k.ride].status = IN_PROGRESS
          /\ k.op = "cancelRide"   => /\ ride[k.ride].status \in CANCELLABLE_STATUSES
                                      /\ k.frees = ride[k.ride].driverId

CallsKnow == \A c \in Calls : call[c] # Idle => Knows(call[c])

SweepKnows ==
    /\ sweep.pc = "idle" => \A r \in Rides : sweep.seen[r] = "NONE"
    /\ \A r \in Rides : sweep.seen[r] # "NONE" => ride[r].status = sweep.seen[r]

\* Two active rides have different passengers and different drivers.
RidesApart ==
    \A r, s \in Rides :
        r # s /\ ride[r].status \in ACTIVE_STATUSES /\ ride[s].status \in ACTIVE_STATUSES =>
            /\ ride[r].passengerId \in Passengers => ride[r].passengerId # ride[s].passengerId
            /\ ride[r].driverId \in Drivers => ride[r].driverId # ride[s].driverId

DrivenBy(d) == {r \in Rides : ride[r].driverId = d /\ ride[r].status = COMPLETED}
RidesCounted == \A d \in Drivers : IsFiniteSet(DrivenBy(d)) /\ driverRides[d] = Cardinality(DrivenBy(d))

KInv ==
    /\ IInv /\ OneAtATime /\ CallsKnow /\ SweepKnows
    /\ RidesApart /\ UnavailableHasRide /\ RidesCounted

LEMMA SerialStarts == Init => KInv
<1> SUFFICES ASSUME Init PROVE KInv
  OBVIOUS
<1>1. IInv
  BY InitIInv
<1>2. \A r \in Rides : ride[r].status = "NONE"
  BY NoRowType DEF Init
<1>3. OneAtATime /\ CallsKnow /\ SweepKnows /\ RidesApart
  BY <1>2 DEF Init, OneAtATime, CallsKnow, SweepKnows, RidesApart, NoSweep, ACTIVE_STATUSES
<1>4. UnavailableHasRide
  BY DEF Init, UnavailableHasRide
<1>5. ASSUME NEW d \in Drivers
      PROVE  IsFiniteSet(DrivenBy(d)) /\ driverRides[d] = Cardinality(DrivenBy(d))
  <2>1. DrivenBy(d) = {} /\ driverRides[d] = 0
    BY <1>2 DEF Init, DrivenBy
  <2>2. QED
    BY <2>1, FS_EmptySet
<1>6. QED
  BY <1>1, <1>3, <1>4, <1>5 DEF KInv, RidesCounted

-----------------------------------------------------------------------------
(* What a step does.                                                       *)

SameFor(r) ==
    /\ ride'[r].status = ride[r].status
    /\ ride'[r].passengerId = ride[r].passengerId
    /\ ride'[r].driverId = ride[r].driverId
Unmoved == \A r \in Rides : SameFor(r)
OthersUnmoved(r) == \A q \in Rides \ {r} : SameFor(q)

Requests(r, p) ==
    /\ ride[r].status = "NONE" /\ ride'[r].status = REQUESTED
    /\ findActiveByPassenger(p) = {} /\ ride'[r].passengerId = p
    /\ ride'[r].driverId = ride[r].driverId /\ OthersUnmoved(r)

Accepts(r, d) ==
    /\ ride[r].status = REQUESTED /\ ride'[r].status = ACCEPTED
    /\ findActiveByDriver(d) = {} /\ ride'[r].driverId = d
    /\ ride'[r].passengerId = ride[r].passengerId /\ OthersUnmoved(r)

Advances(r, from, to) ==
    /\ ride[r].status \in from /\ ride'[r].status = to
    /\ ride'[r].passengerId = ride[r].passengerId /\ ride'[r].driverId = ride[r].driverId
    /\ OthersUnmoved(r)

TotalsKept == UNCHANGED <<driverRides, passengerRides>>

\* The steps of the contract, with what each does to the drivers.
Outcome ==
    \/ Unmoved /\ UNCHANGED dbVars
    \/ Unmoved /\ DriverStep
    \/ Unmoved /\ \E c \in Calls : setUnavailable(c)
    \/ \E r \in Rides, p \in Passengers : Requests(r, p) /\ UNCHANGED dbVars
    \/ \E r \in Rides, d \in Drivers : Accepts(r, d) /\ UNCHANGED dbVars
    \/ \E r \in Rides : Advances(r, {ACCEPTED}, ARRIVED) /\ UNCHANGED dbVars
    \/ \E r \in Rides : Advances(r, {ARRIVED}, IN_PROGRESS) /\ UNCHANGED dbVars
    \/ \E r \in Rides :
          /\ Advances(r, CANCELLABLE_STATUSES, CANCELLED)
          /\ Free(ride[r].driverId) /\ UNCHANGED isOnline /\ TotalsKept
    \/ \E r \in Rides :
          /\ Advances(r, {IN_PROGRESS}, COMPLETED) /\ UNCHANGED isOnline
          /\ isAvailable' = [isAvailable EXCEPT ![ride[r].driverId] = TRUE]
          /\ driverRides' = [driverRides EXCEPT ![ride[r].driverId] = @ + 1]

LEMMA UpdateAdvances ==
    ASSUME IInv, NEW r \in Rides, NEW to \in RideStatus, NEW from, ride[r].status \in from,
           updateStatus(r, to)
    PROVE  Advances(r, from, to)
<1>1. ride[r] \in Row /\ ride' = [ride EXCEPT ![r] = Stamped(ride[r], to)] /\ ride \in [Rides -> Row]
  BY DEF updateStatus, IInv, TypeOK
<1>2. /\ ride'[r].status = to /\ ride'[r].passengerId = ride[r].passengerId
      /\ ride'[r].driverId = ride[r].driverId
  BY <1>1, StampedRow
<1>3. OthersUnmoved(r)
  BY <1>1 DEF OthersUnmoved, SameFor
<1>4. QED
  BY <1>2, <1>3 DEF Advances

LEMMA CreateRequests ==
    ASSUME KInv, NEW c \in Calls, create(c)
    PROVE  \E r \in Rides, p \in Passengers : Requests(r, p)
<1> DEFINE row == [NoRow EXCEPT !.passengerId = call[c].user]
           x == Stamped(row, REQUESTED)
<1>1. PICK r \in Rides : ride[r].status = "NONE" /\ ride' = [ride EXCEPT ![r] = x]
  BY DEF create
<1>2. call[c].user \in Passengers /\ findActiveByPassenger(call[c].user) = {}
  BY DEF KInv, IInv, CallShape, Shaped, CallsKnow, Knows, create, At
<1>3. 0 \in 0 .. MaxAge
  BY DEF MaxAge
<1>4. row \in Row /\ row.passengerId = call[c].user /\ row.driverId = Null
  BY <1>2, <1>3 DEF NoRow, Row
<1>5. x.status = REQUESTED /\ x.passengerId = call[c].user /\ x.driverId = Null
  BY <1>4, StampedRow DEF RideStatus
<1>6. ride[r].driverId = Null /\ ride \in [Rides -> Row]
  BY <1>1 DEF KInv, IInv, DriverOnRecord, TypeOK
<1> HIDE DEF x, row
<1>7. Requests(r, call[c].user)
  BY <1>1, <1>2, <1>5, <1>6 DEF Requests, OthersUnmoved, SameFor
<1>8. QED
  BY <1>2, <1>7

LEMMA AssignAccepts ==
    ASSUME KInv, NEW c \in Calls, tryAssignDriver(c)
    PROVE  /\ \E r \in Rides, d \in Drivers : Accepts(r, d)
           /\ ride'[call[c].ride].driverId = call[c].user
           /\ ride'[call[c].ride].status = ACCEPTED
<1>1. PICK r \in Rides, d \in Drivers : r = call[c].ride /\ d = call[c].user
  BY CallFacts DEF tryAssignDriver, At, KInv
<1> DEFINE y == Stamped(ride[r], ACCEPTED)
           x == [y EXCEPT !.driverId = d]
<1>2. ride[r].status = REQUESTED /\ ride' = [ride EXCEPT ![r] = x]
  BY <1>1 DEF tryAssignDriver, Assignable
<1>3. ride \in [Rides -> Row]
  BY DEF KInv, IInv, TypeOK
<1>4. y \in Row /\ y.status = ACCEPTED /\ y.passengerId = ride[r].passengerId
  BY <1>3, StampedRow DEF RideStatus
<1> HIDE DEF y
<1>5. x.status = ACCEPTED /\ x.passengerId = ride[r].passengerId /\ x.driverId = d
  BY <1>1, <1>4 DEF Row
<1>6. findActiveByDriver(d) = {}
  BY <1>1 DEF KInv, CallsKnow, Knows, tryAssignDriver, At
<1> HIDE DEF x
<1>7. Accepts(r, d)
  BY <1>2, <1>3, <1>5, <1>6 DEF Accepts, OthersUnmoved, SameFor
<1>8. QED
  BY <1>1, <1>7 DEF Accepts

LEMMA TickUnmoved == ASSUME IInv, Tick PROVE Unmoved
<1> SUFFICES ASSUME NEW r \in Rides PROVE SameFor(r)
  BY DEF Unmoved
<1>1. ride[r] \in Row
  BY DEF IInv, TypeOK
<1>2. ride'[r] = ride[r] \/ ride'[r] = [ride[r] EXCEPT !.age = @ + 1]
  BY DEF Tick
<1>3. QED
  BY <1>1, <1>2 DEF SameFor, Row

\* The sweep finds every ride as it has listed it.
LEMMA ExpireAdvances ==
    ASSUME KInv, NEW r \in Rides, expireRequested(r) \/ expireAccepted(r) \/ expireArrived(r)
    PROVE  /\ Advances(r, CANCELLABLE_STATUSES, CANCELLED) /\ Free(ride[r].driverId)
           /\ UNCHANGED isOnline /\ TotalsKept
<1>1. sweep.seen[r] \in CANCELLABLE_STATUSES
  BY DEF expireRequested, expireAccepted, expireArrived, expireAssigned, CANCELLABLE_STATUSES
<1>2. ride[r].status = sweep.seen[r]
  BY <1>1 DEF KInv, SweepKnows, CANCELLABLE_STATUSES
<1>3. updateStatus(r, CANCELLED) /\ UNCHANGED isOnline /\ TotalsKept
  BY <1>2 DEF expireRequested, expireAccepted, expireArrived, expireAssigned, expireRide,
     skipRide, StillAsSeen, dbVars, TotalsKept
<1>4. Advances(r, CANCELLABLE_STATUSES, CANCELLED)
  BY <1>1, <1>2, <1>3, UpdateAdvances DEF KInv, RideStatus
<1>5. Free(ride[r].driverId)
  <2>1. CASE expireRequested(r)
    <3>1. ride[r].driverId = Null /\ UNCHANGED isAvailable
      BY <1>2, <2>1 DEF expireRequested, KInv, IInv, DriverOnRecord, dbVars
    <3>2. QED
      BY <3>1 DEF Free
  <2>2. QED
    BY <2>1 DEF expireAccepted, expireArrived, expireAssigned
<1>6. QED
  BY <1>3, <1>4, <1>5

LEMMA CallOutcome == ASSUME KInv, NEW c \in Calls, CallStep(c) PROVE Outcome
<1>0. IInv
  BY DEF KInv
<1>1. CASE create(c)
  BY <1>1, CreateRequests DEF Outcome, create
<1>2. CASE tryAssignDriver(c)
  BY <1>2, AssignAccepts DEF Outcome, tryAssignDriver
<1>3. ASSUME At(c, "write")
      PROVE  /\ call[c] # Idle /\ call[c].pc = "write" /\ call[c].ride \in Rides
             /\ call[c].op \in {"markArrived", "startRide", "completeRide"} =>
                   call[c].user = ride[call[c].ride].driverId
             /\ Knows(call[c])
  BY <1>0, <1>3, CallFacts DEF At, KInv, CallsKnow
<1>4. CASE writeStatus(c)
  <2>1. PICK r \in Rides : r = call[c].ride
    BY <1>3, <1>4 DEF writeStatus
  <2>2. CASE call[c].op = "markArrived"
    <3>1. Advances(r, {ACCEPTED}, ARRIVED)
      BY <1>0, <1>3, <1>4, <2>1, <2>2, UpdateAdvances DEF writeStatus, Target, Knows, RideStatus
    <3>2. QED
      BY <1>4, <3>1 DEF Outcome, writeStatus
  <2>3. CASE call[c].op = "startRide"
    <3>1. Advances(r, {ARRIVED}, IN_PROGRESS)
      BY <1>0, <1>3, <1>4, <2>1, <2>3, UpdateAdvances DEF writeStatus, Target, Knows, RideStatus
    <3>2. QED
      BY <1>4, <3>1 DEF Outcome, writeStatus
  <2>4. QED
    BY <1>4, <2>2, <2>3 DEF writeStatus
<1>5. CASE commitCompletion(c)
  <2>1. PICK r \in Rides : r = call[c].ride
    BY <1>3, <1>5 DEF commitCompletion
  <2>2. ride[r].driverId = call[c].user /\ ride[r].status = IN_PROGRESS
    BY <1>3, <1>5, <2>1 DEF commitCompletion, Knows
  <2>3. updateStatus(r, COMPLETED)
    BY <1>5, <2>1 DEF commitCompletion
  <2>4. Advances(r, {IN_PROGRESS}, COMPLETED)
    BY <1>0, <2>2, <2>3, UpdateAdvances DEF RideStatus
  <2>5. QED
    BY <1>5, <2>1, <2>2, <2>4 DEF Outcome, commitCompletion, countRide
<1>6. CASE commitCancellation(c)
  <2>1. PICK r \in Rides : r = call[c].ride
    BY <1>3, <1>6 DEF commitCancellation
  <2>2. call[c].frees = ride[r].driverId /\ ride[r].status \in CANCELLABLE_STATUSES
    BY <1>3, <1>6, <2>1 DEF commitCancellation, Knows
  <2>3. updateStatus(r, CANCELLED)
    BY <1>6, <2>1 DEF commitCancellation
  <2>4. Advances(r, CANCELLABLE_STATUSES, CANCELLED)
    BY <1>0, <2>2, <2>3, UpdateAdvances DEF RideStatus
  <2>5. QED
    BY <1>6, <2>2, <2>4 DEF Outcome, commitCancellation, TotalsKept
<1>7. CASE setUnavailable(c)
  BY <1>7 DEF Outcome, setUnavailable, Unmoved, SameFor
<1>8. CASE ride' = ride /\ UNCHANGED dbVars
  BY <1>8 DEF Outcome, Unmoved, SameFor
<1>9. QED
  BY <1>1, <1>2, <1>4, <1>5, <1>6, <1>7, <1>8
     DEF CallStep, addPendingRide, checkNoActiveRide, checkStillRequested, rejectAccept,
         removePendingRide, record, Abandon

LEMMA Outcomes == ASSUME KInv, [SerialNext]_vars PROVE Outcome
<1>1. CASE ride' = ride /\ UNCHANGED dbVars
  BY <1>1 DEF Outcome, Unmoved, SameFor
<1>2. ASSUME NEW c \in Calls, NewCall(c) PROVE ride' = ride /\ UNCHANGED dbVars
  BY <1>2 DEF NewCall, requestRide, acceptRide, markArrived, startRide, completeRide, cancelRide
<1>3. CASE DriverStep
  <2>1. Unmoved
    BY <1>3 DEF DriverStep, goOnline, goOffline, Unmoved, SameFor
  <2>2. QED
    BY <1>3, <2>1 DEF Outcome
<1>4. CASE Tick
  <2>1. Unmoved /\ UNCHANGED dbVars
    BY <1>4, TickUnmoved DEF KInv, Tick
  <2>2. QED
    BY <2>1 DEF Outcome
<1>5. ASSUME NEW r \in Rides, expireRequested(r) \/ expireAccepted(r) \/ expireArrived(r)
      PROVE  Outcome
  BY <1>5, ExpireAdvances DEF Outcome
<1>6. CASE SweepStep
  BY <1>1, <1>5, <1>6 DEF SweepStep, sweepRemovePending, sweepRecord, sweepDone, sweepAbandon
<1>7. CASE expireStaleRides \/ UNCHANGED vars
  BY <1>1, <1>7 DEF expireStaleRides, vars, dbVars
<1>8. QED
  BY <1>1, <1>2, <1>3, <1>4, <1>6, <1>7, CallOutcome DEF SerialNext

-----------------------------------------------------------------------------
(* One handler at a time, and what it knows.                               *)

LEMMA SerialIsNext == [SerialNext]_vars => [Next]_vars
  BY DEF SerialNext, Next

\* While a handler is in flight, only it and the drivers and the clock step.
LEMMA Alone ==
    ASSUME KInv, [SerialNext]_vars, NEW c \in Calls, call[c] # Idle
    PROVE  \/ CallStep(c)
           \/ Unmoved /\ UNCHANGED <<call, sweep>>
<1>1. sweep.pc = "idle" /\ \A e \in Calls : call[e] # Idle => e = c
  BY DEF KInv, OneAtATime
<1>2. ~Quiet
  BY DEF Quiet
<1>3. ~SweepStep
  BY <1>1 DEF SweepStep, expireRequested, expireAccepted, expireArrived, expireAssigned,
     sweepRemovePending, sweepRecord, sweepDone, sweepAbandon
<1>4. ASSUME NEW e \in Calls, CallStep(e) PROVE e = c
  <2>1. call[e] # Idle
    BY <1>4 DEF CallStep, create, addPendingRide, checkNoActiveRide, checkStillRequested,
       tryAssignDriver, rejectAccept, setUnavailable, writeStatus, commitCompletion,
       commitCancellation, removePendingRide, record, Abandon, At
  <2>2. QED
    BY <1>1, <2>1
<1>5. CASE DriverStep
  BY <1>5 DEF DriverStep, goOnline, goOffline, Unmoved, SameFor
<1>6. CASE Tick
  BY <1>6, TickUnmoved DEF Tick, KInv
<1>7. CASE UNCHANGED vars
  BY <1>7 DEF vars, Unmoved, SameFor
<1>8. QED
  BY <1>2, <1>3, <1>4, <1>5, <1>6, <1>7 DEF SerialNext

\* What a handler does, whatever it is, leaves the others and the sweep alone.
LEMMA StepIsOwn ==
    ASSUME KInv, NEW c \in Calls, NewCall(c) \/ CallStep(c)
    PROVE  UNCHANGED sweep /\ \A e \in Calls \ {c} : call'[e] = call[e]
<1>1. call \in [Calls -> Call \cup {Idle}]
  BY DEF KInv, IInv, TypeOK
<1>2. CASE NewCall(c)
  BY <1>1, <1>2 DEF NewCall, requestRide, acceptRide, markArrived, startRide, completeRide,
     cancelRide, Begin
<1>3. CASE CallStep(c)
  <2>1. CASE create(c)
    BY <1>1, <2>1 DEF create
  <2>2. QED
    BY <1>1, <1>3, <2>1 DEF CallStep, addPendingRide, checkNoActiveRide, checkStillRequested,
       tryAssignDriver, rejectAccept, setUnavailable, writeStatus, commitCompletion,
       commitCancellation, removePendingRide, record, Abandon, Goto, Return
<1>4. QED
  BY <1>2, <1>3

LEMMA OneAtATimeStep == ASSUME KInv, [SerialNext]_vars PROVE OneAtATime'
<1>1. CASE UNCHANGED <<call, sweep>>
  BY <1>1 DEF KInv, OneAtATime
<1>2. ASSUME NEW c \in Calls, Quiet, NewCall(c) PROVE OneAtATime'
  BY <1>2, StepIsOwn DEF OneAtATime, Quiet
<1>3. ASSUME NEW c \in Calls, CallStep(c) PROVE OneAtATime'
  <2>1. call[c] # Idle
    BY <1>3 DEF CallStep, create, addPendingRide, checkNoActiveRide, checkStillRequested,
       tryAssignDriver, rejectAccept, setUnavailable, writeStatus, commitCompletion,
       commitCancellation, removePendingRide, record, Abandon, At
  <2>2. QED
    BY <1>3, <2>1, StepIsOwn DEF KInv, OneAtATime
<1>4. CASE Quiet /\ expireStaleRides
  BY <1>4 DEF Quiet, expireStaleRides, OneAtATime
<1>5. CASE SweepStep
  <2>1. sweep.pc # "idle" /\ UNCHANGED call
    BY <1>5 DEF SweepStep, expireRequested, expireAccepted, expireArrived, expireAssigned,
       sweepRemovePending, sweepRecord, sweepDone, sweepAbandon
  <2>2. QED
    BY <2>1 DEF KInv, OneAtATime
<1>6. CASE DriverStep \/ Tick \/ UNCHANGED vars
  BY <1>1, <1>6 DEF DriverStep, goOnline, goOffline, Tick, vars
<1>7. QED
  BY <1>2, <1>3, <1>4, <1>5, <1>6 DEF SerialNext

\* A handler begins with what it has read.
LEMMA NewCallKnows ==
    ASSUME KInv, NEW c \in Calls, NewCall(c) PROVE Knows(call[c])'
<1>0. call \in [Calls -> Call \cup {Idle}]
  BY DEF KInv, IInv, TypeOK
<1>1. ASSUME NEW p \in Passengers, requestRide(c, p) PROVE Knows(call[c])'
  BY <1>0, <1>1 DEF requestRide, Begin, Knows, findActiveByPassenger
<1>2. ASSUME NEW d \in Drivers, NEW r \in Rides, acceptRide(c, d, r) PROVE Knows(call[c])'
  BY <1>0, <1>2 DEF acceptRide, Begin, Knows
<1>3. ASSUME NEW d \in Drivers, NEW r \in Rides,
             markArrived(c, d, r) \/ startRide(c, d, r) \/ completeRide(c, d, r)
      PROVE  Knows(call[c])'
  BY <1>0, <1>3 DEF markArrived, startRide, completeRide, AssignedRideInStatus, Begin, Knows
<1>4. ASSUME NEW u \in Passengers \cup Drivers, NEW r \in Rides, cancelRide(c, u, r)
      PROVE  Knows(call[c])'
  BY <1>0, <1>4 DEF cancelRide, Begin, Knows
<1>5. QED
  BY <1>1, <1>2, <1>3, <1>4 DEF NewCall

\* A handler keeps what it knows until its write.
LEMMA CallStepKnows ==
    ASSUME KInv, NEW c \in Calls, CallStep(c), call'[c] # Idle PROVE Knows(call[c])'
<1>0. /\ call \in [Calls -> Call \cup {Idle}]
      /\ call[c] # Idle => Knows(call[c])
  BY DEF KInv, IInv, TypeOK, CallsKnow
<1>1. ASSUME call'[c].pc \in {"record", "removePending", "addPending"} PROVE Knows(call[c])'
  BY <1>1 DEF Knows
<1>2. CASE checkNoActiveRide(c)
  <2>1. /\ call[c] \in Call /\ call'[c] = [call[c] EXCEPT !.pc = "findRide"]
        /\ findActiveByDriver(call[c].user) = {} /\ UNCHANGED ride
    BY <1>0, <1>2 DEF checkNoActiveRide, Goto, At
  <2>2. call'[c].user = call[c].user /\ call'[c].pc = "findRide"
    BY <2>1 DEF Call
  <2>3. QED
    BY <2>1, <2>2 DEF Knows, findActiveByDriver
<1>3. CASE checkStillRequested(c)
  <2>1. /\ call[c] \in Call /\ call'[c] = [call[c] EXCEPT !.pc = "tryAssign"]
        /\ findActiveByDriver(call[c].user) = {} /\ UNCHANGED ride
    BY <1>0, <1>3 DEF checkStillRequested, Goto, At, Knows
  <2>2. call'[c].user = call[c].user /\ call'[c].pc = "tryAssign"
    BY <2>1 DEF Call
  <2>3. QED
    BY <2>1, <2>2 DEF Knows, findActiveByDriver
<1>4. CASE tryAssignDriver(c)
  <2>1. call[c] \in Call /\ call'[c] = [call[c] EXCEPT !.pc = "setAvailable"]
    BY <1>0, <1>4 DEF tryAssignDriver, Goto, At
  <2>2. call'[c].user = call[c].user /\ call'[c].ride = call[c].ride
        /\ call'[c].pc = "setAvailable"
    BY <2>1 DEF Call
  <2>3. QED
    BY <1>4, <2>2, AssignAccepts DEF Knows
<1>5. CASE create(c)
  <2>1. call[c] \in Call /\ \E r \in Rides : call'[c] = [[call[c] EXCEPT !.ride = r] EXCEPT !.pc = "record"]
    BY <1>0, <1>5 DEF create, At
  <2>2. call'[c].pc = "record"
    BY <2>1 DEF Call
  <2>3. QED
    BY <1>1, <2>2
<1>6. CASE \E pc \in {"record", "removePending", "addPending"} : call[c] # Idle /\ Goto(c, pc)
  <2>1. PICK pc \in {"record", "removePending", "addPending"} :
            call[c] \in Call /\ call'[c] = [call[c] EXCEPT !.pc = pc]
    BY <1>0, <1>6 DEF Goto
  <2>2. call'[c].pc = pc
    BY <2>1 DEF Call
  <2>3. QED
    BY <1>1, <2>2
<1>7. CASE call'[c] = Idle
  BY <1>7
<1>8. QED
  BY <1>0, <1>2, <1>3, <1>4, <1>5, <1>6, <1>7
     DEF CallStep, addPendingRide, rejectAccept, setUnavailable, writeStatus,
         commitCompletion, commitCancellation, removePendingRide, record, Abandon, Return, At

LEMMA CallsKnowStep == ASSUME KInv, [SerialNext]_vars PROVE CallsKnow'
<1> SUFFICES ASSUME NEW c \in Calls, call'[c] # Idle PROVE Knows(call[c])'
  BY DEF CallsKnow
<1>1. CASE call[c] # Idle
  <2>1. CASE CallStep(c)
    BY <2>1, CallStepKnows
  <2>2. CASE Unmoved /\ UNCHANGED <<call, sweep>>
    <3>1. Knows(call[c]) /\ call'[c] = call[c]
      BY <1>1, <2>2 DEF KInv, CallsKnow
    <3>2. call[c].ride \in Rides \/ call[c].pc = "create"
      BY <1>1, CallFacts DEF KInv
    <3>3. QED
      BY <2>2, <3>1, <3>2 DEF Knows, Unmoved, SameFor, findActiveByPassenger, findActiveByDriver
  <2>3. QED
    BY <1>1, <2>1, <2>2, Alone
<1>2. CASE call[c] = Idle
  <2>1. ASSUME NEW e \in Calls, CallStep(e) PROVE FALSE
    <3>1. call[e] # Idle
      BY <2>1 DEF CallStep, create, addPendingRide, checkNoActiveRide, checkStillRequested,
         tryAssignDriver, rejectAccept, setUnavailable, writeStatus, commitCompletion,
         commitCancellation, removePendingRide, record, Abandon, At
    <3>2. QED
      BY <1>2, <2>1, <3>1, StepIsOwn
  <2>2. ASSUME NEW e \in Calls, NewCall(e) PROVE e = c
    BY <1>2, <2>2, StepIsOwn
  <2>3. CASE UNCHANGED call
    BY <1>2, <2>3
  <2>4. QED
    BY <2>1, <2>2, <2>3, NewCallKnows
       DEF SerialNext, expireStaleRides, SweepStep, expireRequested, expireAccepted,
           expireArrived, expireAssigned, sweepRemovePending, sweepRecord, sweepDone,
           sweepAbandon, DriverStep, goOnline, goOffline, Tick, vars
<1>3. QED
  BY <1>1, <1>2

\* What the sweep has listed keeps its status: nothing else steps meanwhile.
LEMMA SweepKnowsStep == ASSUME KInv, [SerialNext]_vars PROVE SweepKnows'
<1>0. ride \in [Rides -> Row] /\ sweep \in Sweep
  BY DEF KInv, IInv, TypeOK
<1>1. CASE sweep.pc = "idle" /\ UNCHANGED sweep
  BY <1>1 DEF KInv, SweepKnows
<1>2. CASE Unmoved /\ UNCHANGED sweep
  BY <1>2 DEF KInv, SweepKnows, Unmoved, SameFor
<1>3. ASSUME NEW c \in Calls, Quiet, NewCall(c) PROVE SweepKnows'
  BY <1>1, <1>3, StepIsOwn DEF Quiet
<1>4. ASSUME NEW c \in Calls, CallStep(c) PROVE SweepKnows'
  <2>1. call[c] # Idle
    BY <1>4 DEF CallStep, create, addPendingRide, checkNoActiveRide, checkStillRequested,
       tryAssignDriver, rejectAccept, setUnavailable, writeStatus, commitCompletion,
       commitCancellation, removePendingRide, record, Abandon, At
  <2>2. QED
    BY <1>1, <1>4, <2>1, StepIsOwn DEF KInv, OneAtATime
<1>5. CASE expireStaleRides
  BY <1>5 DEF expireStaleRides, isStale, SweepKnows
<1>6. ASSUME NEW r \in Rides, expireRequested(r) \/ expireAccepted(r) \/ expireArrived(r)
      PROVE  SweepKnows'
  <2>1. OthersUnmoved(r)
    BY <1>6, ExpireAdvances DEF Advances
  <2>2. sweep'.pc # "idle" /\ sweep'.seen = Dropped(r)
    BY <1>6 DEF expireRequested, expireAccepted, expireArrived, expireAssigned, expireRide,
       skipRide
  <2>3. \A q \in Rides : sweep'.seen[q] = IF q = r THEN "NONE" ELSE sweep.seen[q]
    BY <1>0, <2>2 DEF Dropped, Sweep
  <2>4. QED
    BY <2>1, <2>2, <2>3 DEF KInv, SweepKnows, OthersUnmoved, SameFor
<1>7. CASE sweepRemovePending \/ sweepRecord
  <2>1. sweep'.pc # "idle" /\ sweep'.seen = sweep.seen /\ UNCHANGED ride
    BY <1>0, <1>7 DEF sweepRemovePending, sweepRecord, Sweep
  <2>2. QED
    BY <2>1 DEF KInv, SweepKnows
<1>8. CASE sweepDone \/ sweepAbandon
  BY <1>8 DEF sweepDone, sweepAbandon, NoSweep, SweepKnows
<1>9. CASE DriverStep \/ UNCHANGED vars
  BY <1>2, <1>9 DEF DriverStep, goOnline, goOffline, vars, Unmoved, SameFor
<1>10. CASE Tick
  BY <1>2, <1>10, TickUnmoved DEF KInv, Tick
<1>11. QED
  BY <1>3, <1>4, <1>5, <1>6, <1>7, <1>8, <1>9, <1>10 DEF SerialNext, SweepStep

-----------------------------------------------------------------------------
(* What a step of the contract keeps.                                      *)

\* One ride advances: it stays with its users, and no ride becomes active.
LEMMA AdvanceKeepsApart ==
    ASSUME KInv, NEW r \in Rides, NEW from, NEW to, Advances(r, from, to),
           from \subseteq ACTIVE_STATUSES
    PROVE  RidesApart'
<1>1. \A q \in Rides : /\ ride'[q].passengerId = ride[q].passengerId
                       /\ ride'[q].driverId = ride[q].driverId
                       /\ ride'[q].status \in ACTIVE_STATUSES => ride[q].status \in ACTIVE_STATUSES
  BY DEF Advances, OthersUnmoved, SameFor
<1>2. QED
  BY <1>1 DEF KInv, RidesApart

LEMMA RidesApartStep == ASSUME KInv, Outcome PROVE RidesApart'
<1>1. CASE Unmoved
  BY <1>1 DEF KInv, RidesApart, Unmoved, SameFor
<1>2. ASSUME NEW r \in Rides, NEW p \in Passengers, Requests(r, p) PROVE RidesApart'
  <2>1. ride'[r].driverId = Null /\ Null \notin Drivers
    BY <1>2, RowsAssumption DEF Requests, KInv, IInv, DriverOnRecord
  <2>2. QED
    BY <1>2, <2>1 DEF Requests, OthersUnmoved, SameFor, findActiveByPassenger, KInv, RidesApart
<1>3. ASSUME NEW r \in Rides, NEW d \in Drivers, Accepts(r, d) PROVE RidesApart'
  <2>1. ride[r].status \in ACTIVE_STATUSES
    BY <1>3 DEF Accepts, ACTIVE_STATUSES
  <2>2. QED
    BY <1>3, <2>1 DEF Accepts, OthersUnmoved, SameFor, findActiveByDriver, KInv, RidesApart
<1>4. /\ CANCELLABLE_STATUSES \subseteq ACTIVE_STATUSES /\ {ACCEPTED} \subseteq ACTIVE_STATUSES
      /\ {ARRIVED} \subseteq ACTIVE_STATUSES /\ {IN_PROGRESS} \subseteq ACTIVE_STATUSES
  BY DEF CANCELLABLE_STATUSES, ACTIVE_STATUSES
<1>5. QED
  BY <1>1, <1>2, <1>3, <1>4, AdvanceKeepsApart DEF Outcome

\* A driver keeps a ride that stays active, and is freed with one that ends.
LEMMA UnavailableStep == ASSUME KInv, [SerialNext]_vars, Outcome PROVE UnavailableHasRide'
<1> SUFFICES ASSUME NEW d \in Drivers, isOnline'[d], ~isAvailable'[d]
             PROVE  \E q \in Rides : ride'[q].driverId = d /\ ride'[q].status \in ACTIVE_STATUSES
  BY DEF UnavailableHasRide, findActiveByDriver
<1>0. isAvailable \in [Drivers -> BOOLEAN] /\ isOnline \in [Drivers -> BOOLEAN]
  BY DEF KInv, IInv, TypeOK
<1>1. ASSUME isOnline[d], ~isAvailable[d]
      PROVE  \E q \in Rides : ride[q].driverId = d /\ ride[q].status \in ACTIVE_STATUSES
  BY <1>1 DEF KInv, UnavailableHasRide, findActiveByDriver
<1>2. CASE Unmoved /\ UNCHANGED dbVars
  BY <1>1, <1>2 DEF Unmoved, SameFor, dbVars
<1>3. CASE Unmoved /\ DriverStep
  <2>1. isOnline[d] /\ ~isAvailable[d]
    BY <1>0, <1>3 DEF DriverStep, goOnline, goOffline
  <2>2. QED
    BY <1>1, <1>3, <2>1 DEF Unmoved, SameFor
<1>4. CASE Unmoved /\ \E c \in Calls : setUnavailable(c)
  <2>1. PICK c \in Calls : setUnavailable(c)
    BY <1>4
  <2>2. /\ call[c].ride \in Rides /\ ride[call[c].ride].driverId = call[c].user
        /\ ride[call[c].ride].status = ACCEPTED
    BY <2>1, CallFacts DEF setUnavailable, At, KInv, CallsKnow, Knows
  <2>3. CASE call[c].user = d
    BY <1>4, <2>2, <2>3 DEF Unmoved, SameFor, ACTIVE_STATUSES
  <2>4. CASE call[c].user # d
    <3>1. isOnline[d] /\ ~isAvailable[d]
      BY <1>0, <2>1, <2>4 DEF setUnavailable
    <3>2. QED
      BY <1>1, <1>4, <3>1 DEF Unmoved, SameFor
  <2>5. QED
    BY <2>3, <2>4
<1>5. ASSUME NEW r \in Rides, NEW p \in Passengers, Requests(r, p), UNCHANGED dbVars
      PROVE  \E q \in Rides : ride'[q].driverId = d /\ ride'[q].status \in ACTIVE_STATUSES
  BY <1>1, <1>5 DEF Requests, OthersUnmoved, SameFor, dbVars, ACTIVE_STATUSES
<1>6. ASSUME NEW r \in Rides, NEW e \in Drivers, Accepts(r, e), UNCHANGED dbVars
      PROVE  \E q \in Rides : ride'[q].driverId = d /\ ride'[q].status \in ACTIVE_STATUSES
  <2>1. ride[r].driverId # d
    BY <1>6, RowsAssumption DEF Accepts, KInv, IInv, DriverOnRecord
  <2>2. QED
    BY <1>1, <1>6, <2>1 DEF Accepts, OthersUnmoved, SameFor, dbVars
<1>7. ASSUME NEW r \in Rides, NEW from, NEW to, to \in ACTIVE_STATUSES, Advances(r, from, to),
             UNCHANGED dbVars
      PROVE  \E q \in Rides : ride'[q].driverId = d /\ ride'[q].status \in ACTIVE_STATUSES
  BY <1>1, <1>7 DEF Advances, OthersUnmoved, SameFor, dbVars
<1>8. ASSUME NEW r \in Rides, NEW from, NEW to, Advances(r, from, to), UNCHANGED isOnline,
             Free(ride[r].driverId) \/ isAvailable' = [isAvailable EXCEPT ![ride[r].driverId] = TRUE]
      PROVE  \E q \in Rides : ride'[q].driverId = d /\ ride'[q].status \in ACTIVE_STATUSES
  <2>1. ride[r].driverId # d /\ isOnline[d] /\ ~isAvailable[d]
    BY <1>0, <1>8, RowsAssumption DEF Free
  <2>2. QED
    BY <1>1, <1>8, <2>1 DEF Advances, OthersUnmoved, SameFor
<1>9. ARRIVED \in ACTIVE_STATUSES /\ IN_PROGRESS \in ACTIVE_STATUSES
  BY DEF ACTIVE_STATUSES
<1>10. QED
  BY <1>2, <1>3, <1>4, <1>5, <1>6, <1>7, <1>8, <1>9 DEF Outcome

\* The rides a driver has completed are those before, or one more.
LEMMA CountStep == ASSUME KInv, Outcome PROVE RidesCounted'
<1> SUFFICES ASSUME NEW d \in Drivers
             PROVE  IsFiniteSet(DrivenBy(d)') /\ driverRides'[d] = Cardinality(DrivenBy(d)')
  BY DEF RidesCounted, DrivenBy
<1>0. /\ IsFiniteSet(DrivenBy(d)) /\ driverRides[d] = Cardinality(DrivenBy(d))
      /\ driverRides \in [Drivers -> Nat]
  BY DEF KInv, RidesCounted, IInv, TypeOK
<1>1. CASE DrivenBy(d)' = DrivenBy(d) /\ driverRides' = driverRides
  BY <1>0, <1>1
<1>2. CASE Unmoved /\ driverRides' = driverRides
  <2>1. DrivenBy(d)' = DrivenBy(d)
    BY <1>2 DEF Unmoved, SameFor, DrivenBy
  <2>2. QED
    BY <1>1, <1>2, <2>1
<1>3. ASSUME NEW r \in Rides, ride[r].status # COMPLETED, ride'[r].status # COMPLETED,
             OthersUnmoved(r), driverRides' = driverRides
      PROVE  IsFiniteSet(DrivenBy(d)') /\ driverRides'[d] = Cardinality(DrivenBy(d)')
  <2>1. DrivenBy(d)' = DrivenBy(d)
    BY <1>3 DEF OthersUnmoved, SameFor, DrivenBy
  <2>2. QED
    BY <1>1, <1>3, <2>1
<1>4. ASSUME NEW r \in Rides, Advances(r, {IN_PROGRESS}, COMPLETED),
             driverRides' = [driverRides EXCEPT ![ride[r].driverId] = @ + 1]
      PROVE  IsFiniteSet(DrivenBy(d)') /\ driverRides'[d] = Cardinality(DrivenBy(d)')
  <2>1. CASE ride[r].driverId = d
    <3>1. DrivenBy(d)' = DrivenBy(d) \cup {r} /\ r \notin DrivenBy(d)
      BY <1>4, <2>1 DEF Advances, OthersUnmoved, SameFor, DrivenBy
    <3>2. driverRides'[d] = driverRides[d] + 1
      BY <1>0, <1>4, <2>1
    <3>3. QED
      BY <1>0, <3>1, <3>2, FS_AddElement
  <2>2. CASE ride[r].driverId # d
    <3>1. DrivenBy(d)' = DrivenBy(d)
      BY <1>4, <2>2 DEF Advances, OthersUnmoved, SameFor, DrivenBy
    <3>2. driverRides'[d] = driverRides[d]
      BY <1>0, <1>4, <2>2
    <3>3. QED
      BY <1>0, <3>1, <3>2
  <2>3. QED
    BY <2>1, <2>2
<1>5. QED
  BY <1>2, <1>3, <1>4
     DEF Outcome, Requests, Accepts, Advances, CANCELLABLE_STATUSES, TotalsKept, dbVars,
         DriverStep, goOnline, goOffline, setUnavailable

LEMMA SerialKeeps == ASSUME KInv, [SerialNext]_vars PROVE KInv'
<1>1. Outcome
  BY Outcomes
<1>2. IInv'
  BY SerialIsNext, NextIInv DEF KInv
<1>3. OneAtATime' /\ CallsKnow' /\ SweepKnows'
  BY OneAtATimeStep, CallsKnowStep, SweepKnowsStep
<1>4. RidesApart' /\ UnavailableHasRide' /\ RidesCounted'
  BY <1>1, RidesApartStep, UnavailableStep, CountStep
<1>5. QED
  BY <1>2, <1>3, <1>4 DEF KInv

-----------------------------------------------------------------------------
(* The theorems.                                                           *)

\* The invariant above holds of the ride service when its handlers and its
\* sweep run one at a time (acceptRide, cancelRide, ..., expireStaleRides).
THEOREM SerialInvariance == SerialSpec => []KInv
  BY SerialStarts, SerialKeeps, PTL DEF SerialSpec

\* A passenger has one active ride at most, and so has a driver, although
\* requestRide and acceptRide are only checks followed by a write.
THEOREM OneRideEach == SerialSpec => []OneActiveRideEach
<1>1. ASSUME KInv PROVE OneActiveRideEach
  <2>1. ASSUME NEW S, \A x, y \in S : x = y PROVE Cardinality(S) <= 1
    <3>1. S = {} \/ \E x : S = {x}
      BY <2>1
    <3>2. ASSUME S = {} PROVE Cardinality(S) <= 1
      BY <3>2, FS_EmptySet
    <3>3. ASSUME NEW x, S = {x} PROVE Cardinality(S) <= 1
      BY <3>3, FS_Singleton
    <3>4. QED
      BY <3>1, <3>2, <3>3
  <2>2. ASSUME NEW p \in Passengers, NEW x \in findActiveByPassenger(p),
               NEW y \in findActiveByPassenger(p)
        PROVE  x = y
    BY <1>1, <2>2 DEF KInv, RidesApart, findActiveByPassenger
  <2>3. ASSUME NEW d \in Drivers, NEW x \in findActiveByDriver(d), NEW y \in findActiveByDriver(d)
        PROVE  x = y
    BY <1>1, <2>3 DEF KInv, RidesApart, findActiveByDriver
  <2>4. QED
    BY <2>1, <2>2, <2>3 DEF OneActiveRideEach
<1>2. QED
  BY <1>1, SerialInvariance, PTL

\* An online driver who is not available has a ride that will free them,
\* wherever acceptRide, completeRide, cancelRide or the sweep is abandoned.
THEOREM NoDriverIsStuck == SerialSpec => []UnavailableHasRide
  BY SerialInvariance, PTL DEF KInv

\* A driver's total counts the rides they have completed, each once.
THEOREM CompletionsAreCounted == SerialSpec => []CompletedOnce
<1>1. KInv => CompletedOnce
  BY DEF KInv, RidesCounted, DrivenBy, CompletedOnce
<1>2. QED
  BY <1>1, SerialInvariance, PTL

-----------------------------------------------------------------------------
(* One at a time, the handlers implement RideContract.                     *)

statusOf    == [r \in Rides |-> ride[r].status]
passengerOf == [r \in Rides |-> ride[r].passengerId]

LEMMA InitContract == Init => Contract!Init
  BY NoRowType DEF Init, NoRow, Contract!Init, holder

\* The rows as the contract sees them, after a step that moves one of them.
LEMMA MovesOne ==
    ASSUME NEW r \in Rides, OthersUnmoved(r)
    PROVE  /\ statusOf' = [statusOf EXCEPT ![r] = ride'[r].status]
           /\ passengerOf' = [passengerOf EXCEPT ![r] = ride'[r].passengerId]
           /\ holder' = [holder EXCEPT ![r] = ride'[r].driverId]
           /\ ride'[r].passengerId = ride[r].passengerId => passengerOf' = passengerOf
           /\ ride'[r].driverId = ride[r].driverId => holder' = holder
  BY DEF OthersUnmoved, SameFor, statusOf, passengerOf, holder

LEMMA RequestIsContract ==
    ASSUME NEW r \in Rides, NEW p \in Passengers, Requests(r, p) PROVE Contract!Request(p, r)
  BY MovesOne DEF Requests, Contract!Request, Contract!Move, Contract!Active, statusOf,
     passengerOf, findActiveByPassenger, ACTIVE_STATUSES

LEMMA AcceptIsContract ==
    ASSUME NEW r \in Rides, NEW d \in Drivers, Accepts(r, d) PROVE Contract!Accept(d, r)
  BY MovesOne DEF Accepts, Contract!Accept, Contract!Move, Contract!Active, statusOf,
     passengerOf, holder, findActiveByDriver, ACTIVE_STATUSES

LEMMA AdvanceIsContract ==
    ASSUME NEW r \in Rides,
           \/ Advances(r, {ACCEPTED}, ARRIVED)
           \/ Advances(r, {ARRIVED}, IN_PROGRESS)
           \/ Advances(r, {IN_PROGRESS}, COMPLETED)
           \/ Advances(r, CANCELLABLE_STATUSES, CANCELLED)
    PROVE  Contract!Advance(r)
  BY MovesOne DEF Advances, Contract!Advance, Contract!Move, Contract!Cancellable,
     Contract!Active, statusOf, passengerOf, CANCELLABLE_STATUSES

\* Whatever its handlers are abandoned at, the ride service run one request
\* at a time makes the steps of the README's lifecycle and no other.
THEOREM ServiceKeepsContract == SerialSpec => ImplementsContract
<1>1. ASSUME KInv, [SerialNext]_vars PROVE [Contract!Next]_Contract!vars
  <2>1. CASE Unmoved
    BY <2>1 DEF Unmoved, SameFor, Contract!vars, holder
  <2>2. QED
    BY <1>1, <2>1, Outcomes, RequestIsContract, AcceptIsContract, AdvanceIsContract
       DEF Outcome, Contract!Next
<1>2. QED
  BY <1>1, InitContract, SerialInvariance, PTL DEF SerialSpec, ImplementsContract, Contract!Spec
=============================================================================
