-------------------------- MODULE RideLifecycleProofs --------------------------
(***************************************************************************)
(* Theorems about RideLifecycle, for any number of rides, users and        *)
(* requests in flight.                                                     *)
(***************************************************************************)
EXTENDS RideLifecycle, TLAPS

-----------------------------------------------------------------------------
(* The inductive invariant.  A late write overwrites the status of a row   *)
(* blindly; what keeps the rows consistent is what the call that makes it  *)
(* has seen and nobody can undo: the ride exists and this is its driver.   *)

\* The steps a call takes are those of its handler.
Shaped(k) ==
    /\ k.pc = "create" => k.op = "requestRide"
    /\ k.op = "requestRide" => k.user \in Passengers
    /\ k.pc # "create" => k.ride \in Rides
    /\ k.op \in {"acceptRide", "markArrived", "startRide", "completeRide"}
         => k.user \in Drivers
    /\ k.pc \in {"findActive", "findRide", "tryAssign", "setAvailable"}
         => k.op = "acceptRide"
    /\ k.pc = "write"
         => k.op \in {"markArrived", "startRide", "completeRide", "cancelRide"}

CallShape == \A c \in Calls : call[c] # Idle => Shaped(call[c])

\* What a call has seen of its ride still holds of the rows in "table".
SeenBy(k, table) ==
    /\ k.op \in {"markArrived", "startRide", "completeRide"}
         => table[k.ride].driverId = k.user
    /\ k.pc = "write" => table[k.ride].status # "NONE"

SeenHolds == \A c \in Calls : call[c] # Idle => SeenBy(call[c], ride)

IInv == TypeOK /\ CallShape /\ SeenHolds /\ DriverOnRecord

USE DEF REQUESTED, ACCEPTED, ARRIVED, IN_PROGRESS, COMPLETED, CANCELLED

\* Stamping a row changes its status, its stamps and its age.
LEMMA StampedRow ==
    ASSUME NEW row \in Row, NEW s \in RideStatus
    PROVE  /\ Stamped(row, s) \in Row
           /\ Stamped(row, s).status = s
           /\ Stamped(row, s).passengerId = row.passengerId
           /\ Stamped(row, s).driverId = row.driverId
           /\ Stamped(row, s).stamps = row.stamps \cup {s}
           /\ Stamped(row, s).age = 0
  <1>1. Stamped(row, s) \in Row
    <2>1. row.stamps \cup {s} \in SUBSET RideStatus
      BY DEF Row
    <2>2. 0 \in 0..MaxAge
      BY DEF MaxAge
    <2>3. QED
      BY <2>1, <2>2 DEF Stamped, Row
  <1>2. Stamped(row, s).status = s
    BY DEF Stamped, Row
  <1>3. Stamped(row, s).age = 0
    BY DEF Stamped, Row
  <1>4. Stamped(row, s).stamps = row.stamps \cup {s}
    BY DEF Stamped, Row
  <1>5. /\ Stamped(row, s).driverId = row.driverId
        /\ Stamped(row, s).passengerId = row.passengerId
    BY DEF Stamped, Row
  <1>6. QED
    BY <1>1, <1>2, <1>3, <1>4, <1>5

LEMMA NoRowType ==
    /\ NoRow \in Row
    /\ NoRow.status = "NONE" /\ NoRow.driverId = Null /\ NoRow.stamps = {}
  BY DEF NoRow, Row, RideStatus, MaxAge

LEMMA InitIInv == Init => IInv
  BY NoRowType DEF Init, IInv, TypeOK, CallShape, SeenHolds, DriverOnRecord,
     NoSweep, Sweep, CANCELLABLE_STATUSES

-----------------------------------------------------------------------------
(* What a step does to the rows.                                           *)

\* The actions that write the Ride table.
RideWrite ==
    \/ \E c \in Calls : \/ create(c) \/ tryAssignDriver(c) \/ writeStatus(c)
                        \/ commitCompletion(c) \/ commitCancellation(c)
    \/ \E r \in Rides : expireRequested(r) \/ expireAccepted(r) \/ expireArrived(r)
    \/ Tick

LEMMA RideWriters == [Next]_vars => RideWrite \/ UNCHANGED ride
<1> SUFFICES ASSUME [Next]_vars PROVE RideWrite \/ UNCHANGED ride
  OBVIOUS
<1>1. ASSUME NEW c \in Calls, NewCall(c) PROVE UNCHANGED ride
  BY <1>1 DEF NewCall, requestRide, acceptRide, markArrived, startRide,
     completeRide, cancelRide
<1>2. ASSUME NEW c \in Calls, CallStep(c) PROVE RideWrite \/ UNCHANGED ride
  BY <1>2 DEF CallStep, RideWrite, addPendingRide, checkNoActiveRide,
     checkStillRequested, rejectAccept, setUnavailable, removePendingRide,
     record, Abandon
<1>3. CASE SweepStep
  BY <1>3 DEF SweepStep, RideWrite, sweepRemovePending, sweepRecord, sweepDone,
     sweepAbandon
<1>4. CASE expireStaleRides \/ DriverStep \/ UNCHANGED vars
  BY <1>4 DEF expireStaleRides, DriverStep, goOnline, goOffline, vars
<1>5. QED
  BY <1>1, <1>2, <1>3, <1>4 DEF Next, RideWrite

\* A row that may stand in the table: its status and its driver agree.
Sound(row) ==
    /\ row \in Row
    /\ row.status \in {ACCEPTED, ARRIVED, IN_PROGRESS, COMPLETED}
         => row.driverId \in Drivers
    /\ row.status \in {"NONE", REQUESTED} => row.driverId = Null

\* A step from one row to another: an id stays used and a driver stays.
Keeps(old, new) ==
    /\ old.status # "NONE" => new.status # "NONE"
    /\ old.driverId # Null => new.driverId = old.driverId

RowsKept == \A r \in Rides : Sound(ride'[r]) /\ Keeps(ride[r], ride'[r])

LEMMA SoundRows ==
    /\ IInv => \A r \in Rides : Sound(ride[r])
    /\ (ride' \in [Rides -> Row] /\ RowsKept) => DriverOnRecord'
  BY DEF IInv, TypeOK, DriverOnRecord, RowsKept, Sound

\* Writing one sound row that keeps the old one.
LEMMA OneRow ==
    ASSUME IInv, NEW r \in Rides, NEW x, Sound(x), Keeps(ride[r], x),
           ride' = [ride EXCEPT ![r] = x]
    PROVE  ride' \in [Rides -> Row] /\ RowsKept
<1>1. \A q \in Rides : Sound(ride[q])
  BY SoundRows
<1>2. ride \in [Rides -> Row] /\ x \in Row
  BY DEF IInv, TypeOK, Sound
<1>3. \A q \in Rides : ride'[q] = IF q = r THEN x ELSE ride[q]
  BY <1>2
<1>4. RowsKept
  BY <1>1, <1>3 DEF RowsKept, Keeps
<1>5. QED
  BY <1>2, <1>4

\* Stamping a row of the table with a status a driver is not needed for, or
\* a row with a driver with any status but REQUESTED.
LEMMA StampedSound ==
    ASSUME NEW row, Sound(row), NEW s \in RideStatus \ {REQUESTED},
           s = CANCELLED \/ row.driverId \in Drivers
    PROVE  Sound(Stamped(row, s)) /\ Keeps(row, Stamped(row, s))
<1>1. row \in Row
  BY DEF Sound
<1>2. QED
  BY <1>1, StampedRow DEF Sound, Keeps, RideStatus

\* What a call in flight has in its record.
LEMMA CallFacts ==
    ASSUME IInv, NEW c \in Calls, call[c] # Idle
    PROVE  /\ call[c] \in Call
           /\ call[c].pc # "create" => call[c].ride \in Rides
           /\ call[c].pc \in {"findActive", "findRide", "tryAssign", "setAvailable"}
                => call[c].user \in Drivers
           /\ call[c].op \in {"markArrived", "startRide", "completeRide"} =>
                /\ call[c].user \in Drivers
                /\ ride[call[c].ride].driverId = call[c].user
  BY DEF IInv, TypeOK, CallShape, Shaped, SeenHolds, SeenBy

LEMMA CreateKeeps == ASSUME IInv, NEW c \in Calls, create(c)
                     PROVE  ride' \in [Rides -> Row] /\ RowsKept
<1> DEFINE x == Stamped([NoRow EXCEPT !.passengerId = call[c].user], REQUESTED)
<1>1. PICK r \in Rides : ride[r].status = "NONE" /\ ride' = [ride EXCEPT ![r] = x]
  BY DEF create
<1>2. call[c].user \in Passengers
  BY DEF IInv, CallShape, Shaped, create, At
<1>3. [NoRow EXCEPT !.passengerId = call[c].user] \in Row
  <2>1. 0 \in 0..MaxAge
    BY DEF MaxAge
  <2>2. QED
    BY <1>2, <2>1 DEF NoRow, Row
<1>4. [NoRow EXCEPT !.passengerId = call[c].user].driverId = Null
  BY DEF NoRow
<1>5. x \in Row /\ x.status = REQUESTED /\ x.driverId = Null
  BY <1>3, <1>4, StampedRow DEF RideStatus
<1>6. Sound(x)
  BY <1>5 DEF Sound
<1>7. ride[r].driverId = Null
  BY <1>1 DEF IInv, DriverOnRecord
<1>8. Keeps(ride[r], x)
  BY <1>1, <1>5, <1>7 DEF Keeps
<1> HIDE DEF x
<1>9. QED
  BY <1>1, <1>6, <1>8, OneRow

LEMMA AssignKeeps == ASSUME IInv, NEW c \in Calls, tryAssignDriver(c)
                     PROVE  ride' \in [Rides -> Row] /\ RowsKept
<1> DEFINE r == call[c].ride
           d == call[c].user
           x == [Stamped(ride[r], ACCEPTED) EXCEPT !.driverId = d]
<1>1. r \in Rides /\ d \in Drivers
  BY CallFacts DEF tryAssignDriver, At
<1>2. ride[r].driverId = Null /\ ride' = [ride EXCEPT ![r] = x]
  BY DEF tryAssignDriver, Assignable
<1>3. Stamped(ride[r], ACCEPTED) \in Row /\ Stamped(ride[r], ACCEPTED).status = ACCEPTED
  BY <1>1, StampedRow DEF IInv, TypeOK, RideStatus
<1>4. x \in Row /\ x.status = ACCEPTED /\ x.driverId = d
  BY <1>1, <1>3 DEF Row
<1>5. Sound(x) /\ Keeps(ride[r], x)
  BY <1>1, <1>2, <1>4 DEF Sound, Keeps
<1> HIDE DEF x
<1>6. QED
  BY <1>1, <1>2, <1>5, OneRow

\* updateStatus, by whichever handler.
LEMMA UpdateKeeps ==
    ASSUME IInv, NEW r \in Rides, NEW s \in RideStatus \ {REQUESTED},
           s = CANCELLED \/ ride[r].driverId \in Drivers, updateStatus(r, s)
    PROVE  ride' \in [Rides -> Row] /\ RowsKept
<1>1. Sound(ride[r])
  BY SoundRows
<1>2. Sound(Stamped(ride[r], s)) /\ Keeps(ride[r], Stamped(ride[r], s))
  BY <1>1, StampedSound
<1>3. QED
  BY <1>2, OneRow DEF updateStatus

LEMMA TickKeeps == ASSUME IInv, Tick PROVE ride' \in [Rides -> Row] /\ RowsKept
<1> SUFFICES ASSUME NEW r \in Rides
             PROVE  Sound(ride'[r]) /\ Keeps(ride[r], ride'[r])
  BY DEF RowsKept, Sound, Tick
<1>1. Sound(ride[r]) /\ ride[r] \in Row
  BY SoundRows DEF Sound
<1>2. CASE ride'[r] = ride[r]
  BY <1>1, <1>2 DEF Keeps
<1>3. CASE ride[r].age < MaxAge /\ ride'[r] = [ride[r] EXCEPT !.age = @ + 1]
  <2>1. ride[r].age + 1 \in 0..MaxAge
    BY <1>1, <1>3 DEF Row, MaxAge
  <2>2. ride'[r] \in Row /\ ride'[r].status = ride[r].status
                         /\ ride'[r].driverId = ride[r].driverId
    BY <1>1, <1>3, <2>1 DEF Row
  <2>3. QED
    BY <1>1, <2>2 DEF Sound, Keeps
<1>4. QED
  BY <1>2, <1>3 DEF Tick

LEMMA RideStep == ASSUME IInv, [Next]_vars
                  PROVE  ride' \in [Rides -> Row] /\ RowsKept
<1>1. CASE UNCHANGED ride
  BY <1>1, SoundRows DEF RowsKept, Keeps, IInv, TypeOK
<1>2. ASSUME NEW c \in Calls, writeStatus(c)
      PROVE  ride' \in [Rides -> Row] /\ RowsKept
  <2>1. call[c].ride \in Rides /\ ride[call[c].ride].driverId \in Drivers
    BY <1>2, CallFacts DEF writeStatus, At
  <2>2. Target[call[c].op] \in {ARRIVED, IN_PROGRESS}
    BY <1>2 DEF writeStatus, Target
  <2>3. QED
    BY <1>2, <2>1, <2>2, UpdateKeeps DEF writeStatus, RideStatus
<1>3. ASSUME NEW c \in Calls, commitCompletion(c)
      PROVE  ride' \in [Rides -> Row] /\ RowsKept
  <2>1. call[c].ride \in Rides /\ ride[call[c].ride].driverId \in Drivers
    BY <1>3, CallFacts DEF commitCompletion, At
  <2>2. QED
    BY <1>3, <2>1, UpdateKeeps DEF commitCompletion, RideStatus
<1>4. ASSUME NEW c \in Calls, commitCancellation(c)
      PROVE  ride' \in [Rides -> Row] /\ RowsKept
  BY <1>4, CallFacts, UpdateKeeps DEF commitCancellation, At, RideStatus
<1>5. ASSUME NEW r \in Rides, expireRequested(r) \/ expireAccepted(r) \/ expireArrived(r)
      PROVE  ride' \in [Rides -> Row] /\ RowsKept
  <2>1. UNCHANGED ride \/ updateStatus(r, CANCELLED)
    BY <1>5 DEF expireRequested, expireAccepted, expireArrived, expireAssigned,
       expireRide, skipRide
  <2>2. QED
    BY <1>1, <2>1, UpdateKeeps DEF RideStatus
<1>6. QED
  BY <1>1, <1>2, <1>3, <1>4, <1>5, CreateKeeps, AssignKeeps, TickKeeps, RideWriters
     DEF RideWrite

-----------------------------------------------------------------------------
(* What a step does to the calls in flight.                                *)

\* A record a call may have after the step.
Good(k) == k = Idle \/ (k \in Call /\ Shaped(k) /\ SeenBy(k, ride'))

\* A call that does nothing in a step that keeps the rows stays good.
LEMMA OthersGood ==
    ASSUME IInv, RowsKept, NEW c \in Calls
    PROVE  Good(call[c])
<1>1. CASE call[c] = Idle
  BY <1>1 DEF Good
<1>2. CASE call[c] # Idle
  <2>1. call[c] \in Call /\ Shaped(call[c]) /\ SeenBy(call[c], ride)
    BY <1>2 DEF IInv, TypeOK, CallShape, SeenHolds
  <2>2. call[c].op \in {"markArrived", "startRide", "completeRide"}
          => call[c].pc # "create" /\ call[c].user \in Drivers
    BY <2>1 DEF Shaped
  <2>3. SeenBy(call[c], ride')
    BY <2>1, <2>2, RowsAssumption DEF RowsKept, Keeps, SeenBy, Shaped
  <2>4. QED
    BY <2>1, <2>3 DEF Good
<1>3. QED
  BY <1>1, <1>2

\* A new call has seen what its first read returned.
LEMMA BeginGood ==
    ASSUME IInv, NEW c \in Calls, NewCall(c)
    PROVE  \E k : k \in Call /\ Shaped(k) /\ SeenBy(k, ride)
                  /\ call' = [call EXCEPT ![c] = k] /\ UNCHANGED ride
<1>1. ASSUME NEW p \in Passengers, requestRide(c, p)
      PROVE  \E k : k \in Call /\ Shaped(k) /\ SeenBy(k, ride)
                    /\ call' = [call EXCEPT ![c] = k] /\ UNCHANGED ride
  <2> DEFINE k == [op |-> "requestRide", pc |-> "create", ride |-> Null,
                   user |-> p, frees |-> Null]
  <2>1. k \in Call /\ Shaped(k) /\ SeenBy(k, ride)
    BY DEF Call, Shaped, SeenBy, Ops, Steps
  <2>2. QED
    BY <1>1, <2>1 DEF requestRide, Begin
<1>2. ASSUME NEW d \in Drivers, NEW r \in Rides, acceptRide(c, d, r)
      PROVE  \E k : k \in Call /\ Shaped(k) /\ SeenBy(k, ride)
                    /\ call' = [call EXCEPT ![c] = k] /\ UNCHANGED ride
  <2> DEFINE k == [op |-> "acceptRide", pc |-> "findActive", ride |-> r,
                   user |-> d, frees |-> Null]
  <2>1. k \in Call /\ Shaped(k) /\ SeenBy(k, ride)
    BY DEF Call, Shaped, SeenBy, Ops, Steps
  <2>2. QED
    BY <1>2, <2>1 DEF acceptRide, Begin
<1>3. ASSUME NEW d \in Drivers, NEW r \in Rides,
             NEW op \in {"markArrived", "startRide", "completeRide"},
             NEW s \in RideStatus, AssignedRideInStatus(d, r, s),
             Begin(c, op, "write", r, d, Null), UNCHANGED ride
      PROVE  \E k : k \in Call /\ Shaped(k) /\ SeenBy(k, ride)
                    /\ call' = [call EXCEPT ![c] = k] /\ UNCHANGED ride
  <2> DEFINE k == [op |-> op, pc |-> "write", ride |-> r, user |-> d, frees |-> Null]
  <2>1. k \in Call /\ Shaped(k)
    BY DEF Call, Shaped, Ops, Steps
  <2>2. SeenBy(k, ride)
    BY <1>3 DEF SeenBy, AssignedRideInStatus, RideStatus
  <2>3. QED
    BY <1>3, <2>1, <2>2 DEF Begin
<1>4. ASSUME NEW u \in Passengers \cup Drivers, NEW r \in Rides, cancelRide(c, u, r)
      PROVE  \E k : k \in Call /\ Shaped(k) /\ SeenBy(k, ride)
                    /\ call' = [call EXCEPT ![c] = k] /\ UNCHANGED ride
  <2> DEFINE k == [op |-> "cancelRide", pc |-> "write", ride |-> r, user |-> u,
                   frees |-> ride[r].driverId]
  <2>1. ride[r].driverId \in Drivers \cup {Null}
    BY DEF IInv, TypeOK, Row
  <2>2. k \in Call /\ Shaped(k) /\ SeenBy(k, ride)
    BY <1>4, <2>1 DEF Call, Shaped, SeenBy, Ops, Steps, cancelRide, CANCELLABLE_STATUSES
  <2>3. QED
    BY <1>4, <2>2 DEF cancelRide, Begin
<1>5. QED
  BY <1>1, <1>2, <1>3, <1>4 DEF NewCall, markArrived, startRide, completeRide, RideStatus

\* A call that goes on keeps its handler, its user and its ride; past its
\* creation it never comes to a write.
LEMMA GotoGood ==
    ASSUME IInv, RowsKept, NEW c \in Calls, call[c] # Idle, call[c].pc # "create",
           NEW pc \in {"findRide", "tryAssign", "setAvailable", "removePending",
                       "record", "addPending"},
           pc \in {"findRide", "tryAssign", "setAvailable"} => call[c].op = "acceptRide"
    PROVE  Good([call[c] EXCEPT !.pc = pc])
<1> DEFINE k == [call[c] EXCEPT !.pc = pc]
<1>1. call[c] \in Call /\ Shaped(call[c]) /\ SeenBy(call[c], ride')
  BY OthersGood DEF Good
<1>2. k \in Call
  BY <1>1 DEF Call, Steps
<1>3. /\ k.op = call[c].op /\ k.user = call[c].user /\ k.ride = call[c].ride
      /\ k.pc = pc
  BY <1>1 DEF Call
<1>4. Shaped(k) /\ SeenBy(k, ride')
  BY <1>1, <1>3 DEF Shaped, SeenBy
<1>5. QED
  BY <1>2, <1>4 DEF Good

\* The record a step of a call leaves behind.
LEMMA StepGood ==
    ASSUME IInv, RowsKept, NEW c \in Calls, CallStep(c)
    PROVE  \E k : Good(k) /\ call' = [call EXCEPT ![c] = k]
<1>1. CASE Return(c)
  BY <1>1 DEF Return, Good
<1>2. ASSUME NEW pc \in {"findRide", "tryAssign", "setAvailable", "removePending",
                         "record", "addPending"},
             call[c] # Idle, call[c].pc # "create", Goto(c, pc),
             pc \in {"findRide", "tryAssign", "setAvailable"} => call[c].op = "acceptRide"
      PROVE  \E k : Good(k) /\ call' = [call EXCEPT ![c] = k]
  BY <1>2, GotoGood DEF Goto
<1>3. CASE create(c)
  <2>1. PICK r \in Rides : call' = [call EXCEPT ![c] = [@ EXCEPT !.ride = r, !.pc = "record"]]
    BY <1>3 DEF create
  <2> DEFINE k == [call[c] EXCEPT !.ride = r, !.pc = "record"]
  <2>2. call[c] \in Call /\ Shaped(call[c]) /\ call[c].pc = "create"
    BY <1>3 DEF create, At, IInv, TypeOK, CallShape
  <2>3. /\ k \in Call /\ k.op = "requestRide" /\ k.pc = "record" /\ k.ride = r
        /\ k.user \in Passengers
    BY <2>2 DEF Call, Shaped, Steps
  <2>4. Good(k)
    BY <2>3 DEF Good, Shaped, SeenBy
  <2>5. call' = [call EXCEPT ![c] = k]
    BY <2>1
  <2>6. QED
    BY <2>4, <2>5
<1>4. CASE checkNoActiveRide(c) \/ checkStillRequested(c) \/ tryAssignDriver(c)
  <2>1. call[c] # Idle /\ call[c].op = "acceptRide"
    BY <1>4 DEF checkNoActiveRide, checkStillRequested, tryAssignDriver, At, IInv,
       CallShape, Shaped
  <2>2. QED
    BY <1>2, <1>4, <2>1 DEF checkNoActiveRide, checkStillRequested, tryAssignDriver, At
<1>5. CASE setUnavailable(c) \/ writeStatus(c) \/ commitCompletion(c)
           \/ commitCancellation(c) \/ removePendingRide(c)
  BY <1>2, <1>5 DEF setUnavailable, writeStatus, commitCompletion, commitCancellation,
     removePendingRide, At
<1>6. CASE record(c)
  BY <1>1, <1>2, <1>6 DEF record, At
<1>7. CASE addPendingRide(c) \/ rejectAccept(c) \/ Abandon(c)
  BY <1>1, <1>7 DEF addPendingRide, rejectAccept, Abandon
<1>8. QED
  BY <1>3, <1>4, <1>5, <1>6, <1>7 DEF CallStep

LEMMA CallsStep ==
    ASSUME IInv, [Next]_vars
    PROVE  /\ call' \in [Calls -> Call \cup {Idle}]
           /\ CallShape' /\ SeenHolds'
<1>1. RowsKept
  BY RideStep
<1>2. call \in [Calls -> Call \cup {Idle}]
  BY DEF IInv, TypeOK
<1>3. ASSUME NEW c \in Calls, NEW k, Good(k), call' = [call EXCEPT ![c] = k]
      PROVE  \A o \in Calls : Good(call'[o])
  <2>1. \A o \in Calls : call'[o] = IF o = c THEN k ELSE call[o]
    BY <1>2, <1>3
  <2>2. QED
    BY <1>1, <1>3, <2>1, OthersGood
<1>4. \A o \in Calls : Good(call'[o])
  <2>1. ASSUME NEW c \in Calls, NewCall(c) PROVE \A o \in Calls : Good(call'[o])
    <3>1. PICK k : k \in Call /\ Shaped(k) /\ SeenBy(k, ride)
                   /\ call' = [call EXCEPT ![c] = k] /\ ride' = ride
      BY <2>1, BeginGood
    <3>2. Good(k)
      BY <3>1 DEF Good
    <3>3. QED
      BY <1>3, <3>1, <3>2
  <2>2. ASSUME NEW c \in Calls, CallStep(c) PROVE \A o \in Calls : Good(call'[o])
    BY <1>1, <1>3, <2>2, StepGood
  <2>3. CASE UNCHANGED call
    BY <1>1, <2>3, OthersGood
  <2>4. CASE SweepStep
    BY <2>3, <2>4 DEF SweepStep, expireRequested, expireAccepted, expireArrived,
       expireAssigned, sweepRemovePending, sweepRecord, sweepDone, sweepAbandon
  <2>5. CASE expireStaleRides \/ DriverStep \/ Tick \/ UNCHANGED vars
    BY <2>3, <2>5 DEF expireStaleRides, DriverStep, goOnline, goOffline, Tick, vars
  <2>6. QED
    BY <2>1, <2>2, <2>4, <2>5 DEF Next
<1>5. DOMAIN call' = Calls /\ call' = [c \in Calls |-> call'[c]]
  <2>1. CASE UNCHANGED call
    BY <1>2, <2>1
  <2>2. ASSUME NEW c \in Calls, NEW k, call' = [call EXCEPT ![c] = k]
        PROVE  DOMAIN call' = Calls /\ call' = [o \in Calls |-> call'[o]]
    BY <1>2, <2>2
  <2>3. ASSUME NEW c \in Calls, NewCall(c) \/ CallStep(c)
        PROVE  \E k : call' = [call EXCEPT ![c] = k]
    BY <1>1, <2>3, BeginGood, StepGood
  <2>4. CASE SweepStep
    BY <2>1, <2>4 DEF SweepStep, expireRequested, expireAccepted, expireArrived,
       expireAssigned, sweepRemovePending, sweepRecord, sweepDone, sweepAbandon
  <2>5. CASE expireStaleRides \/ DriverStep \/ Tick \/ UNCHANGED vars
    BY <2>1, <2>5 DEF expireStaleRides, DriverStep, goOnline, goOffline, Tick, vars
  <2>6. QED
    BY <2>2, <2>3, <2>4, <2>5 DEF Next
<1>6. call' \in [Calls -> Call \cup {Idle}]
  BY <1>4, <1>5 DEF Good
<1>7. CallShape' /\ SeenHolds'
  BY <1>4 DEF CallShape, SeenHolds, Good
<1>8. QED
  BY <1>6, <1>7

-----------------------------------------------------------------------------
(* What a step does to the other tables, and the invariant.                *)

\* A counter incremented is a counter.
LEMMA Increment ==
    ASSUME NEW S, NEW f \in [S -> Nat], NEW x
    PROVE  [f EXCEPT ![x] = @ + 1] \in [S -> Nat]
<1>1. \A y \in S : f[y] \in Nat /\ f[y] + 1 \in Nat
  OBVIOUS
<1>2. CASE x \in S
  BY <1>1, <1>2
<1>3. CASE x \notin S
  BY <1>3
<1>4. QED
  BY <1>2, <1>3

LEMMA FreeType ==
    ASSUME TypeOK, NEW d, Free(d) PROVE isAvailable' \in [Drivers -> BOOLEAN]
  BY DEF TypeOK, Free

LEMMA DriversStep ==
    ASSUME IInv, [Next]_vars
    PROVE  /\ isOnline' \in [Drivers -> BOOLEAN]
           /\ isAvailable' \in [Drivers -> BOOLEAN]
           /\ driverRides' \in [Drivers -> Nat]
           /\ passengerRides' \in [Passengers -> Nat]
<1> DEFINE T == /\ isOnline' \in [Drivers -> BOOLEAN]
                /\ isAvailable' \in [Drivers -> BOOLEAN]
                /\ driverRides' \in [Drivers -> Nat]
                /\ passengerRides' \in [Passengers -> Nat]
<1> SUFFICES T
  OBVIOUS
<1>1. TypeOK
  BY DEF IInv
<1>2. CASE UNCHANGED dbVars
  BY <1>1, <1>2 DEF TypeOK, dbVars
<1>3. ASSUME NEW c \in Calls, NewCall(c) PROVE T
  BY <1>2, <1>3 DEF NewCall, requestRide, acceptRide, markArrived, startRide,
     completeRide, cancelRide
<1>4. ASSUME NEW c \in Calls, setUnavailable(c) PROVE T
  BY <1>1, <1>4 DEF setUnavailable, TypeOK
<1>5. ASSUME NEW c \in Calls, commitCompletion(c) PROVE T
  <2>1. isOnline' = isOnline
        /\ isAvailable' = [isAvailable EXCEPT ![call[c].user] = TRUE]
        /\ countRide(call[c].user, ride[call[c].ride].passengerId)
    BY <1>5 DEF commitCompletion
  <2>2. isOnline' \in [Drivers -> BOOLEAN] /\ isAvailable' \in [Drivers -> BOOLEAN]
    BY <1>1, <2>1 DEF TypeOK
  <2>3. driverRides' \in [Drivers -> Nat] /\ passengerRides' \in [Passengers -> Nat]
    BY <1>1, <2>1, Increment DEF TypeOK, countRide
  <2>4. QED
    BY <2>2, <2>3
<1>6. ASSUME NEW c \in Calls, commitCancellation(c) PROVE T
  BY <1>1, <1>6, FreeType DEF commitCancellation, TypeOK
<1>7. ASSUME NEW c \in Calls, CallStep(c) PROVE T
  BY <1>2, <1>4, <1>5, <1>6, <1>7 DEF CallStep, create, addPendingRide,
     checkNoActiveRide, checkStillRequested, tryAssignDriver, rejectAccept,
     writeStatus, removePendingRide, record, Abandon
<1>8. ASSUME NEW r \in Rides, expireAccepted(r) \/ expireArrived(r) PROVE T
  BY <1>1, <1>8, FreeType DEF expireAccepted, expireArrived, expireAssigned, TypeOK
<1>9. CASE SweepStep
  BY <1>2, <1>8, <1>9 DEF SweepStep, expireRequested, sweepRemovePending,
     sweepRecord, sweepDone, sweepAbandon
<1>10. CASE DriverStep
  BY <1>1, <1>10 DEF DriverStep, goOnline, goOffline, TypeOK
<1>11. CASE expireStaleRides \/ Tick \/ UNCHANGED vars
  BY <1>2, <1>11 DEF expireStaleRides, Tick, vars, dbVars
<1>12. QED
  BY <1>3, <1>7, <1>9, <1>10, <1>11 DEF Next

LEMMA LogStep ==
    ASSUME IInv, [Next]_vars
    PROVE  logged' \in [Rides -> SUBSET RideStatus] /\ pending' \in SUBSET Rides
<1> DEFINE T == logged' \in [Rides -> SUBSET RideStatus] /\ pending' \in SUBSET Rides
<1> SUFFICES T
  OBVIOUS
<1>1. logged \in [Rides -> SUBSET RideStatus] /\ pending \in SUBSET Rides
  BY DEF IInv, TypeOK
<1>2. CASE UNCHANGED <<logged, pending>>
  BY <1>1, <1>2
<1>3. ASSUME NEW c \in Calls, NewCall(c) PROVE T
  BY <1>2, <1>3 DEF NewCall, requestRide, acceptRide, markArrived, startRide,
     completeRide, cancelRide
<1>4. ASSUME NEW c \in Calls, record(c) PROVE T
  <2>1. call[c].op \in Ops
    BY <1>4 DEF record, At, IInv, TypeOK, Call
  <2>2. Target[call[c].op] \in RideStatus
    BY <2>1 DEF Ops, Target, RideStatus
  <2>3. QED
    BY <1>1, <1>4, <2>2 DEF record
<1>5. ASSUME NEW c \in Calls, addPendingRide(c) \/ removePendingRide(c) PROVE T
  <2>1. call[c].ride \in Rides
    BY <1>5, CallFacts DEF addPendingRide, removePendingRide, At
  <2>2. QED
    BY <1>1, <1>5, <2>1 DEF addPendingRide, removePendingRide, SetPending
<1>6. ASSUME NEW c \in Calls, CallStep(c) PROVE T
  BY <1>2, <1>4, <1>5, <1>6 DEF CallStep, create, checkNoActiveRide,
     checkStillRequested, tryAssignDriver, rejectAccept, setUnavailable, writeStatus,
     commitCompletion, commitCancellation, Abandon
<1>7. CASE sweepRemovePending
  BY <1>1, <1>7 DEF sweepRemovePending, SetPending
<1>8. CASE sweepRecord
  <2>1. \A r \in Rides : logged[r] \cup {CANCELLED} \in SUBSET RideStatus
    BY <1>1 DEF RideStatus
  <2>2. QED
    BY <1>1, <1>8, <2>1 DEF sweepRecord
<1>9. CASE SweepStep
  BY <1>2, <1>7, <1>8, <1>9 DEF SweepStep, expireRequested, expireAccepted,
     expireArrived, expireAssigned, sweepDone, sweepAbandon
<1>10. CASE expireStaleRides \/ DriverStep \/ Tick \/ UNCHANGED vars
  BY <1>2, <1>10 DEF expireStaleRides, DriverStep, goOnline, goOffline, Tick, vars
<1>11. QED
  BY <1>3, <1>6, <1>9, <1>10 DEF Next

LEMMA SweepType == ASSUME IInv, [Next]_vars PROVE sweep' \in Sweep
<1>1. sweep \in Sweep /\ NoSweep \in Sweep
  BY DEF IInv, TypeOK, NoSweep, Sweep, CANCELLABLE_STATUSES
<1>2. CASE UNCHANGED sweep
  BY <1>1, <1>2
<1>3. ASSUME NEW c \in Calls, NewCall(c) PROVE sweep' \in Sweep
  BY <1>2, <1>3 DEF NewCall, requestRide, acceptRide, markArrived, startRide,
     completeRide, cancelRide
<1>4. ASSUME NEW c \in Calls, CallStep(c) PROVE sweep' \in Sweep
  BY <1>2, <1>4 DEF CallStep, create, addPendingRide, checkNoActiveRide,
     checkStillRequested, tryAssignDriver, rejectAccept, setUnavailable, writeStatus,
     commitCompletion, commitCancellation, removePendingRide, record, Abandon
<1>5. CASE expireStaleRides
  BY <1>5 DEF expireStaleRides, Sweep, isStale
<1>6. ASSUME NEW r \in Rides, NEW then \in {"removePending", "record"},
             expireRide(r, then) \/ skipRide(r)
      PROVE  sweep' \in Sweep
  <2>1. Dropped(r) \in [Rides -> CANCELLABLE_STATUSES \cup {"NONE"}]
    BY <1>1 DEF Dropped, Sweep
  <2>2. QED
    BY <1>6, <2>1 DEF expireRide, skipRide, Sweep
<1>7. CASE sweepRemovePending \/ sweepRecord
  BY <1>1, <1>7 DEF sweepRemovePending, sweepRecord, Sweep
<1>8. CASE SweepStep
  BY <1>1, <1>6, <1>7, <1>8 DEF SweepStep, expireRequested, expireAccepted,
     expireArrived, expireAssigned, sweepDone, sweepAbandon
<1>9. CASE DriverStep \/ Tick \/ UNCHANGED vars
  BY <1>2, <1>9 DEF DriverStep, goOnline, goOffline, Tick, vars
<1>10. QED
  BY <1>3, <1>4, <1>5, <1>8, <1>9 DEF Next

LEMMA NextIInv == IInv /\ [Next]_vars => IInv'
<1> SUFFICES ASSUME IInv, [Next]_vars PROVE IInv'
  OBVIOUS
<1>1. ride' \in [Rides -> Row] /\ RowsKept
  BY RideStep
<1>2. TypeOK'
  BY <1>1, CallsStep, DriversStep, LogStep, SweepType DEF TypeOK
<1>3. DriverOnRecord'
  BY <1>1, SoundRows
<1>4. QED
  BY <1>2, <1>3, CallsStep DEF IInv

\* The inductive invariant: calls take the steps of their handlers, and what a
\* call has seen of a ride and nobody can undo still holds.
THEOREM Invariance == Spec => []IInv
  BY InitIInv, NextIInv, PTL DEF Spec

\* Every variable keeps its type, whatever runs and fails concurrently.
THEOREM TypeCorrectness == Spec => []TypeOK
  BY Invariance, PTL DEF IInv

\* Status and driver of a ride never disagree, under every interleaving of
\* any number of requests and the sweep, any of them abandoned anywhere.
THEOREM DriverIsOnRecord == Spec => []DriverOnRecord
  BY Invariance, PTL DEF IInv

\* No two acceptRide calls both get a ride: its driver is set once.
THEOREM DriverIsFixed == Spec => DriverFixed
<1>1. IInv /\ [Next]_vars
        => [\A r \in Rides : ride[r].driverId # Null
                               => ride'[r].driverId = ride[r].driverId]_vars
  BY RideStep DEF RowsKept, Keeps
<1>2. QED
  BY <1>1, Invariance, PTL DEF Spec, DriverFixed

-----------------------------------------------------------------------------
(* Matching implements RideAssignment.                                     *)

LEMMA InitAssignment == Init => Assignment!Init
  BY DEF Init, Assignment!Init, NoRow, Standing, standing, holder

\* One row written is one ride that moves, and perhaps gets a driver.
LEMMA OneStands ==
    ASSUME IInv, NEW r \in Rides, NEW x, ride' = [ride EXCEPT ![r] = x]
    PROVE  /\ standing'
                = [standing EXCEPT ![r] = Standing(x)]
           /\ holder'
                = [holder EXCEPT ![r] = x.driverId]
           /\ x.driverId = ride[r].driverId =>
                holder' = holder
<1>1. \A q \in Rides : ride'[q] = IF q = r THEN x ELSE ride[q]
  BY DEF IInv, TypeOK
<1>2. \A q \in Rides : Standing(ride'[q]) = IF q = r THEN Standing(x) ELSE Standing(ride[q])
  BY <1>1
<1>3. \A q \in Rides : ride'[q].driverId = IF q = r THEN x.driverId ELSE ride[q].driverId
  BY <1>1
<1>4. standing' = [q \in Rides |-> Standing(ride'[q])]
  BY DEF standing, Standing
<1>5. standing' = [standing EXCEPT ![r] = Standing(x)]
  BY <1>2, <1>4 DEF standing
<1>6. holder' = [holder EXCEPT ![r] = x.driverId]
  BY <1>3 DEF holder
<1>7. x.driverId = ride[r].driverId => holder' = holder
  BY <1>3 DEF holder
<1>8. QED
  BY <1>5, <1>6, <1>7

LEMMA SameStands ==
    ASSUME \A q \in Rides : /\ Standing(ride'[q]) = Standing(ride[q])
                            /\ ride'[q].driverId = ride[q].driverId
    PROVE  [Assignment!Next]_Assignment!vars
<1>1. standing' = [q \in Rides |-> Standing(ride'[q])]
  BY DEF standing, Standing
<1>2. standing' = standing
  BY <1>1 DEF standing
<1>3. holder' = holder
  BY DEF holder
<1>4. QED
  BY <1>2, <1>3 DEF Assignment!vars

LEMMA CreatePosts ==
    ASSUME IInv, NEW c \in Calls, create(c) PROVE Assignment!Next
<1> DEFINE x == Stamped([NoRow EXCEPT !.passengerId = call[c].user], REQUESTED)
<1>0. PICK r \in Rides : ride[r].status = "NONE" /\ ride' = [ride EXCEPT ![r] = x]
  BY DEF create
<1>1. ride[r].status = "NONE" /\ ride' = [ride EXCEPT ![r] = x]
      /\ x.status = REQUESTED /\ x.driverId = Null
  BY <1>0 DEF Stamped, NoRow
<1> HIDE DEF x
<1>2. ride[r].driverId = Null
  BY <1>1 DEF IInv, DriverOnRecord
<1>3. Standing(ride[r]) = "unposted" /\ Standing(x) = "open"
  BY <1>1 DEF Standing
<1>4. /\ standing' = [standing EXCEPT ![r] = Standing(x)]
      /\ x.driverId = ride[r].driverId => holder' = holder
  BY <1>1, OneStands
<1>5. Assignment!Post(r)
  BY <1>1, <1>2, <1>3, <1>4 DEF Assignment!Post, standing
<1>6. QED
  BY <1>5 DEF Assignment!Next

LEMMA AssignTakes ==
    ASSUME IInv, NEW c \in Calls, tryAssignDriver(c) PROVE Assignment!Next
<1>1. PICK r \in Rides, d \in Drivers : r = call[c].ride /\ d = call[c].user
  BY CallFacts DEF tryAssignDriver, At
<1> DEFINE x == [Stamped(ride[r], ACCEPTED) EXCEPT !.driverId = d]
<1>2. ride[r].status = REQUESTED /\ ride' = [ride EXCEPT ![r] = x]
  BY <1>1 DEF tryAssignDriver, Assignable
<1>3. Stamped(ride[r], ACCEPTED) \in Row /\ Stamped(ride[r], ACCEPTED).status = ACCEPTED
  BY <1>1, StampedRow DEF IInv, TypeOK, RideStatus
<1>4. x.status = ACCEPTED /\ x.driverId = d
  BY <1>1, <1>3 DEF Row
<1> HIDE DEF x
<1>5. Standing(ride[r]) = "open" /\ Standing(x) = "taken"
  BY <1>1, <1>2, <1>4, RowsAssumption DEF Standing
<1>6. /\ standing' = [standing EXCEPT ![r] = Standing(x)]
      /\ holder' = [holder EXCEPT ![r] = x.driverId]
  BY <1>2, OneStands
<1>7. Assignment!Take(r, d)
  BY <1>4, <1>5, <1>6 DEF Assignment!Take, standing
<1>8. QED
  BY <1>7 DEF Assignment!Next

LEMMA UpdateCloses ==
    ASSUME IInv, NEW r \in Rides, ride[r].status # "NONE",
           NEW s \in RideStatus \ {REQUESTED},
           s = CANCELLED \/ ride[r].driverId \in Drivers, updateStatus(r, s)
    PROVE  [Assignment!Next]_Assignment!vars
<1> DEFINE x == Stamped(ride[r], s)
<1>1. x.status = s /\ x.driverId = ride[r].driverId
  BY StampedRow DEF IInv, TypeOK
<1>2. ride' = [ride EXCEPT ![r] = x]
  BY DEF updateStatus
<1> HIDE DEF x
<1>3. Standing(x) = IF ride[r].driverId = Null THEN "closed" ELSE "taken"
  BY <1>1 DEF Standing, RideStatus
<1>4. CASE ride[r].status = REQUESTED
  <2>1. ride[r].driverId = Null /\ Standing(ride[r]) = "open"
    BY <1>4 DEF IInv, DriverOnRecord, Standing
  <2>2. /\ standing' = [standing EXCEPT ![r] = Standing(x)]
        /\ x.driverId = ride[r].driverId => holder' = holder
    BY <1>2, OneStands
  <2>3. Assignment!Close(r)
    BY <1>1, <1>3, <2>1, <2>2 DEF Assignment!Close, standing
  <2>4. QED
    BY <2>3 DEF Assignment!Next
<1>5. CASE ride[r].status # REQUESTED
  <2>1. Standing(ride[r]) = Standing(x)
    BY <1>3, <1>5 DEF Standing
  <2>2. \A q \in Rides : ride'[q] = IF q = r THEN x ELSE ride[q]
    BY <1>2 DEF IInv, TypeOK
  <2>3. QED
    BY <1>1, <2>1, <2>2, SameStands
<1>6. QED
  BY <1>4, <1>5

LEMMA StepAssignment ==
    ASSUME IInv, [Next]_vars PROVE [Assignment!Next]_Assignment!vars
<1>1. CASE UNCHANGED ride
  BY <1>1, SameStands
<1>2. ASSUME NEW c \in Calls, writeStatus(c) \/ commitCompletion(c)
      PROVE  [Assignment!Next]_Assignment!vars
  <2>1. /\ call[c].ride \in Rides /\ ride[call[c].ride].driverId \in Drivers
        /\ ride[call[c].ride].status # "NONE"
    BY <1>2, CallFacts DEF writeStatus, commitCompletion, At, IInv, SeenHolds, SeenBy
  <2>2. PICK s \in RideStatus \ {REQUESTED} : updateStatus(call[c].ride, s)
    BY <1>2 DEF writeStatus, commitCompletion, Target, RideStatus
  <2>3. QED
    BY <2>1, <2>2, UpdateCloses
<1>3. ASSUME NEW c \in Calls, commitCancellation(c)
      PROVE  [Assignment!Next]_Assignment!vars
  <2>1. call[c].ride \in Rides /\ ride[call[c].ride].status # "NONE"
    BY <1>3, CallFacts DEF commitCancellation, At, IInv, SeenHolds, SeenBy
  <2>2. QED
    BY <1>3, <2>1, UpdateCloses DEF commitCancellation, RideStatus
<1>4. ASSUME NEW r \in Rides, expireRequested(r) \/ expireAccepted(r) \/ expireArrived(r)
      PROVE  [Assignment!Next]_Assignment!vars
  <2>1. UNCHANGED ride \/ (updateStatus(r, CANCELLED) /\ ride[r].status # "NONE")
    BY <1>4 DEF expireRequested, expireAccepted, expireArrived, expireAssigned,
       expireRide, skipRide, StillAsSeen
  <2>2. QED
    BY <1>1, <2>1, UpdateCloses DEF RideStatus
<1>5. CASE Tick
  <2>1. \A r \in Rides : /\ ride'[r].status = ride[r].status
                         /\ ride'[r].driverId = ride[r].driverId
    BY <1>5 DEF Tick, IInv, TypeOK, Row
  <2>2. QED
    BY <2>1, SameStands DEF Standing
<1>6. QED
  BY <1>1, <1>2, <1>3, <1>4, <1>5, CreatePosts, AssignTakes, RideWriters DEF RideWrite

\* The ride service implements RideAssignment: however its handlers overlap
\* and wherever they are abandoned, a ride is taken by one driver or closed.
THEOREM MatchingIsCorrect == Spec => ImplementsAssignment
<1>1. Init => Assignment!Init
  BY InitAssignment
<1>2. IInv /\ [Next]_vars => [Assignment!Next]_Assignment!vars
  BY StepAssignment
<1>3. QED
  BY <1>1, <1>2, Invariance, PTL DEF Spec, ImplementsAssignment, Assignment!Spec

-----------------------------------------------------------------------------
(* The stages of a ride and its log.  Stamps are never taken away, so what *)
(* a call has seen stamped stays stamped, however late it writes.          *)

\* The status a handler must have seen before it writes its own.
SeenStatus == [markArrived |-> ACCEPTED, startRide |-> ARRIVED,
               completeRide |-> IN_PROGRESS]

PastWrite == {"setAvailable", "removePending", "record", "addPending"}

StampedBy(k, table) ==
    /\ k.op \in DOMAIN SeenStatus => SeenStatus[k.op] \in table[k.ride].stamps
    /\ k.pc \in PastWrite => Target[k.op] \in table[k.ride].stamps

\* A row whose stamps are in order and hold its status.
Staged(row) ==
    /\ row.status # "NONE" => row.status \in row.stamps
    /\ row.status = "NONE" => row.stamps = {}
    /\ COMPLETED   \in row.stamps => IN_PROGRESS \in row.stamps
    /\ IN_PROGRESS \in row.stamps => ARRIVED \in row.stamps
    /\ ARRIVED     \in row.stamps => ACCEPTED \in row.stamps
    /\ ACCEPTED    \in row.stamps => REQUESTED \in row.stamps

HInv ==
    /\ \A r \in Rides : Staged(ride[r])
    /\ \A c \in Calls : call[c] # Idle => StampedBy(call[c], ride)
    /\ \A r \in sweep.current : CANCELLED \in ride[r].stamps
    /\ LogFollowsRide

LEMMA InitHInv == Init => HInv
  BY DEF Init, HInv, NoRow, Staged, NoSweep, LogFollowsRide

\* What must be stamped before s can be.
Ready(row, s) ==
    /\ s = COMPLETED   => IN_PROGRESS \in row.stamps
    /\ s = IN_PROGRESS => ARRIVED \in row.stamps
    /\ s = ARRIVED     => ACCEPTED \in row.stamps
    /\ s = ACCEPTED    => REQUESTED \in row.stamps

LEMMA StampStaged ==
    ASSUME NEW row \in Row, Staged(row), NEW s \in RideStatus, Ready(row, s)
    PROVE  Staged(Stamped(row, s))
<1>1. Stamped(row, s).status = s /\ Stamped(row, s).stamps = row.stamps \cup {s}
  BY StampedRow
<1>2. s # "NONE"
  BY DEF RideStatus
<1>3. QED
  BY <1>1, <1>2 DEF Staged, Ready

\* A step of the table: stamps are kept and stay in order.
StampsKept == \A r \in Rides : ride[r].stamps \subseteq ride'[r].stamps /\ Staged(ride'[r])

LEMMA OneStamp ==
    ASSUME IInv, HInv, NEW r \in Rides, NEW x, Staged(x),
           ride[r].stamps \subseteq x.stamps, ride' = [ride EXCEPT ![r] = x]
    PROVE  StampsKept
<1>1. \A q \in Rides : ride'[q] = IF q = r THEN x ELSE ride[q]
  BY DEF IInv, TypeOK
<1>2. QED
  BY <1>1 DEF StampsKept, HInv

LEMMA UpdateStamps ==
    ASSUME IInv, HInv, NEW r \in Rides, NEW s \in RideStatus, Ready(ride[r], s),
           updateStatus(r, s)
    PROVE  StampsKept /\ s \in ride'[r].stamps
<1> DEFINE x == Stamped(ride[r], s)
<1>1. ride[r] \in Row /\ Staged(ride[r])
  BY DEF IInv, TypeOK, HInv
<1>2. Staged(x) /\ x.stamps = ride[r].stamps \cup {s}
  BY <1>1, StampStaged, StampedRow
<1>3. ride' = [ride EXCEPT ![r] = x]
  BY DEF updateStatus
<1>4. ride'[r] = x
  BY <1>3 DEF IInv, TypeOK
<1> HIDE DEF x
<1>5. StampsKept
  BY <1>2, <1>3, OneStamp
<1>6. QED
  BY <1>2, <1>4, <1>5

LEMMA CreateStamps ==
    ASSUME IInv, HInv, NEW c \in Calls, create(c)
    PROVE  StampsKept /\ StampedBy(call'[c], ride')
<1> DEFINE row == [NoRow EXCEPT !.passengerId = call[c].user]
           x == Stamped(row, REQUESTED)
<1>1. PICK r \in Rides : /\ ride[r].status = "NONE" /\ ride' = [ride EXCEPT ![r] = x]
                         /\ call' = [call EXCEPT ![c] = [@ EXCEPT !.ride = r, !.pc = "record"]]
  BY DEF create
<1>2. call[c] \in Call /\ call[c].op = "requestRide"
  BY DEF create, At, IInv, TypeOK, CallShape, Shaped
<1>3. x.status = REQUESTED /\ x.stamps = {REQUESTED}
  BY DEF Stamped, NoRow
<1>4. Staged(x) /\ ride[r].stamps \subseteq x.stamps
  BY <1>1, <1>3 DEF Staged, HInv
<1>5. ride'[r] = x
  BY <1>1 DEF IInv, TypeOK
<1>6. call'[c].op = "requestRide" /\ call'[c].ride = r
  BY <1>1, <1>2 DEF IInv, TypeOK, Call
<1> HIDE DEF x
<1>7. StampsKept
  BY <1>1, <1>4, OneStamp
<1>8. StampedBy(call'[c], ride')
  BY <1>3, <1>5, <1>6 DEF StampedBy, SeenStatus, Target
<1>9. QED
  BY <1>7, <1>8

LEMMA AssignStamps ==
    ASSUME IInv, HInv, NEW c \in Calls, tryAssignDriver(c)
    PROVE  StampsKept /\ ACCEPTED \in ride'[call[c].ride].stamps
<1>1. PICK r \in Rides, d \in Drivers : r = call[c].ride /\ d = call[c].user
  BY CallFacts DEF tryAssignDriver, At
<1> DEFINE y == Stamped(ride[r], ACCEPTED)
           x == [y EXCEPT !.driverId = d]
<1>2. ride[r].status = REQUESTED /\ ride' = [ride EXCEPT ![r] = x]
  BY <1>1 DEF tryAssignDriver, Assignable
<1>3. ride[r] \in Row /\ Staged(ride[r])
  BY DEF IInv, TypeOK, HInv
<1>4. Ready(ride[r], ACCEPTED)
  BY <1>2, <1>3 DEF Ready, Staged
<1>5. y \in Row /\ Staged(y) /\ y.stamps = ride[r].stamps \cup {ACCEPTED}
  BY <1>3, <1>4, StampStaged, StampedRow DEF RideStatus
<1> HIDE DEF y
<1>6. x.stamps = y.stamps /\ x.status = y.status
  BY <1>5 DEF Row
<1>7. Staged(x)
  BY <1>5, <1>6 DEF Staged
<1>8. ride'[r] = x
  BY <1>2 DEF IInv, TypeOK
<1> HIDE DEF x
<1>9. StampsKept
  BY <1>2, <1>5, <1>6, <1>7, OneStamp
<1>10. QED
  BY <1>1, <1>5, <1>6, <1>8, <1>9

\* A late write: its handler has seen the stamp it must come after.
LEMMA WriteStamps ==
    ASSUME IInv, HInv, NEW c \in Calls, At(c, "write"),
           updateStatus(call[c].ride, Target[call[c].op])
    PROVE  StampsKept /\ Target[call[c].op] \in ride'[call[c].ride].stamps
<1>1. /\ call[c].ride \in Rides
      /\ call[c].op \in {"markArrived", "startRide", "completeRide", "cancelRide"}
  BY DEF At, IInv, CallShape, Shaped
<1>2. StampedBy(call[c], ride)
  BY DEF At, HInv
<1>3. Target[call[c].op] \in RideStatus /\ Ready(ride[call[c].ride], Target[call[c].op])
  BY <1>1, <1>2 DEF StampedBy, SeenStatus, Target, Ready, RideStatus
<1>4. QED
  BY <1>1, <1>3, UpdateStamps

LEMMA StampsStep == ASSUME IInv, HInv, [Next]_vars PROVE StampsKept
<1>1. CASE UNCHANGED ride
  BY <1>1 DEF StampsKept, HInv
<1>2. ASSUME NEW c \in Calls,
             writeStatus(c) \/ commitCompletion(c) \/ commitCancellation(c)
      PROVE  StampsKept
  BY <1>2, WriteStamps DEF writeStatus, commitCompletion, commitCancellation, Target
<1>3. ASSUME NEW r \in Rides, expireRequested(r) \/ expireAccepted(r) \/ expireArrived(r)
      PROVE  StampsKept
  <2>1. UNCHANGED ride \/ updateStatus(r, CANCELLED)
    BY <1>3 DEF expireRequested, expireAccepted, expireArrived, expireAssigned,
       expireRide, skipRide
  <2>2. QED
    BY <1>1, <2>1, UpdateStamps DEF Ready, RideStatus
<1>4. CASE Tick
  <2>1. \A r \in Rides : /\ ride'[r].status = ride[r].status
                         /\ ride'[r].stamps = ride[r].stamps
    BY <1>4 DEF Tick, IInv, TypeOK, Row
  <2>2. QED
    BY <2>1 DEF StampsKept, HInv, Staged
<1>5. QED
  BY <1>1, <1>2, <1>3, <1>4, CreateStamps, AssignStamps, RideWriters DEF RideWrite

\* A record a call may have after the step.
Backed(k) == k = Idle \/ StampedBy(k, ride')

LEMMA OthersBacked ==
    ASSUME IInv, HInv, StampsKept, NEW c \in Calls
    PROVE  Backed(call[c])
<1>1. CASE call[c] # Idle
  <2>1. StampedBy(call[c], ride) /\ Shaped(call[c])
    BY <1>1 DEF IInv, CallShape, HInv
  <2>2. call[c].op \in DOMAIN SeenStatus \/ call[c].pc \in PastWrite
          => call[c].ride \in Rides
    BY <2>1 DEF Shaped, SeenStatus, PastWrite
  <2>3. QED
    BY <2>1, <2>2 DEF Backed, StampedBy, StampsKept
<1>2. QED
  BY <1>1 DEF Backed

\* A new call has seen the stamp its handler asks for.
LEMMA BeginBacked ==
    ASSUME IInv, HInv, NEW c \in Calls, NewCall(c)
    PROVE  StampedBy(call'[c], ride')
<1>0. call \in [Calls -> Call \cup {Idle}]
  BY DEF IInv, TypeOK
<1>1. ASSUME NEW p \in Passengers, requestRide(c, p) PROVE StampedBy(call'[c], ride')
  BY <1>0, <1>1 DEF requestRide, Begin, StampedBy, SeenStatus, PastWrite
<1>2. ASSUME NEW d \in Drivers, NEW r \in Rides, acceptRide(c, d, r)
      PROVE  StampedBy(call'[c], ride')
  BY <1>0, <1>2 DEF acceptRide, Begin, StampedBy, SeenStatus, PastWrite
<1>3. ASSUME NEW op \in {"markArrived", "startRide", "completeRide"},
             NEW d \in Drivers, NEW r \in Rides, UNCHANGED ride,
             AssignedRideInStatus(d, r, SeenStatus[op]), Begin(c, op, "write", r, d, Null)
      PROVE  StampedBy(call'[c], ride')
  <2>1. SeenStatus[op] \in ride[r].stamps
    BY <1>3 DEF HInv, Staged, AssignedRideInStatus, SeenStatus
  <2>2. call'[c].op = op /\ call'[c].ride = r /\ call'[c].pc = "write"
    BY <1>0, <1>3 DEF Begin
  <2>3. QED
    BY <1>3, <2>1, <2>2 DEF StampedBy, PastWrite
<1>4. ASSUME NEW u \in Passengers \cup Drivers, NEW r \in Rides, cancelRide(c, u, r)
      PROVE  StampedBy(call'[c], ride')
  BY <1>0, <1>4 DEF cancelRide, Begin, StampedBy, SeenStatus, PastWrite
<1>5. QED
  BY <1>1, <1>2, <1>3, <1>4 DEF NewCall, markArrived, startRide, completeRide, SeenStatus

\* A call that goes past its write has made it.
LEMMA GotoBacked ==
    ASSUME IInv, HInv, StampsKept, NEW c \in Calls, call[c] # Idle, NEW pc, Goto(c, pc),
           pc \in PastWrite => Target[call[c].op] \in ride'[call[c].ride].stamps
    PROVE  StampedBy(call'[c], ride')
<1>1. call[c] \in Call /\ StampedBy(call[c], ride')
  BY OthersBacked DEF Backed, IInv, TypeOK
<1>2. call'[c] = [call[c] EXCEPT !.pc = pc]
  BY DEF Goto, IInv, TypeOK
<1>3. /\ call'[c].op = call[c].op /\ call'[c].ride = call[c].ride
      /\ call'[c].pc = pc
  BY <1>1, <1>2 DEF Call
<1>4. QED
  BY <1>1, <1>3 DEF StampedBy

LEMMA StepBacked ==
    ASSUME IInv, HInv, StampsKept, NEW c \in Calls, CallStep(c)
    PROVE  Backed(call'[c])
<1>0. call \in [Calls -> Call \cup {Idle}]
  BY DEF IInv, TypeOK
<1>1. CASE Return(c)
  BY <1>0, <1>1 DEF Return, Backed
<1>2. CASE create(c)
  BY <1>2, CreateStamps DEF Backed
<1>3. CASE checkNoActiveRide(c) \/ checkStillRequested(c)
  BY <1>3, GotoBacked DEF checkNoActiveRide, checkStillRequested, At, PastWrite, Backed
<1>4. CASE tryAssignDriver(c)
  <2>1. call[c].op = "acceptRide"
    BY <1>4 DEF tryAssignDriver, At, IInv, CallShape, Shaped
  <2>2. Target[call[c].op] \in ride'[call[c].ride].stamps
    BY <1>4, <2>1, AssignStamps DEF Target
  <2>3. QED
    BY <1>4, <2>2, GotoBacked DEF tryAssignDriver, At, Backed
<1>5. CASE writeStatus(c) \/ commitCompletion(c) \/ commitCancellation(c)
  <2>1. /\ At(c, "write")
        /\ updateStatus(call[c].ride, Target[call[c].op])
    BY <1>5 DEF writeStatus, commitCompletion, commitCancellation, Target
  <2>2. Target[call[c].op] \in ride'[call[c].ride].stamps
    BY <2>1, WriteStamps
  <2>3. QED
    BY <1>5, <2>2, GotoBacked
       DEF writeStatus, commitCompletion, commitCancellation, At, Backed
<1>6. CASE setUnavailable(c) \/ removePendingRide(c)
  <2>1. call[c] # Idle /\ call[c].pc \in PastWrite
    BY <1>6 DEF setUnavailable, removePendingRide, At, PastWrite
  <2>2. Target[call[c].op] \in ride'[call[c].ride].stamps
    BY <2>1, OthersBacked DEF Backed, StampedBy
  <2>3. QED
    BY <1>6, <2>1, <2>2, GotoBacked DEF setUnavailable, removePendingRide, Backed
<1>7. CASE record(c)
  <2>1. call[c] # Idle /\ call[c].pc \in PastWrite
    BY <1>7 DEF record, At, PastWrite
  <2>2. Target[call[c].op] \in ride'[call[c].ride].stamps
    BY <2>1, OthersBacked DEF Backed, StampedBy
  <2>3. QED
    BY <1>1, <1>7, <2>1, <2>2, GotoBacked DEF record, Backed
<1>8. CASE addPendingRide(c) \/ rejectAccept(c) \/ Abandon(c)
  BY <1>1, <1>8 DEF addPendingRide, rejectAccept, Abandon
<1>9. QED
  BY <1>2, <1>3, <1>4, <1>5, <1>6, <1>7, <1>8 DEF CallStep

\* A step changes the record of one call, or of none.
LEMMA OneCall ==
    ASSUME IInv, [Next]_vars
    PROVE  \/ UNCHANGED call
           \/ \E c \in Calls : /\ NewCall(c) \/ CallStep(c)
                               /\ \A o \in Calls \ {c} : call'[o] = call[o]
<1>0. call \in [Calls -> Call \cup {Idle}] /\ RowsKept
  BY RideStep DEF IInv, TypeOK
<1>1. ASSUME NEW c \in Calls, NewCall(c) \/ CallStep(c)
      PROVE  \A o \in Calls \ {c} : call'[o] = call[o]
  <2>1. PICK k : call' = [call EXCEPT ![c] = k]
    BY <1>0, <1>1, BeginGood, StepGood
  <2>2. QED
    BY <1>0, <2>1
<1>2. CASE SweepStep
  BY <1>2 DEF SweepStep, expireRequested, expireAccepted, expireArrived,
     expireAssigned, sweepRemovePending, sweepRecord, sweepDone, sweepAbandon
<1>3. CASE expireStaleRides \/ DriverStep \/ Tick \/ UNCHANGED vars
  BY <1>3 DEF expireStaleRides, DriverStep, goOnline, goOffline, Tick, vars
<1>4. QED
  BY <1>1, <1>2, <1>3 DEF Next

LEMMA CallsBacked ==
    ASSUME IInv, HInv, StampsKept, [Next]_vars
    PROVE  \A c \in Calls : Backed(call'[c])
<1>1. CASE UNCHANGED call
  BY <1>1, OthersBacked
<1>2. ASSUME NEW c \in Calls, NewCall(c) \/ CallStep(c),
             \A o \in Calls \ {c} : call'[o] = call[o]
      PROVE  \A o \in Calls : Backed(call'[o])
  BY <1>2, OthersBacked, BeginBacked, StepBacked DEF Backed
<1>3. QED
  BY <1>1, <1>2, OneCall

\* The ride the sweep is at has been cancelled, also if a late write has
\* brought it back since.
LEMMA SweepBacked ==
    ASSUME IInv, HInv, StampsKept, [Next]_vars
    PROVE  \A r \in sweep'.current : CANCELLED \in ride'[r].stamps
<1>0. sweep.current \subseteq Rides
  BY DEF IInv, TypeOK, Sweep
<1>1. CASE UNCHANGED sweep
  BY <1>0, <1>1 DEF HInv, StampsKept
<1>2. ASSUME NEW c \in Calls, NewCall(c)
      PROVE  \A r \in sweep'.current : CANCELLED \in ride'[r].stamps
  BY <1>1, <1>2 DEF NewCall, requestRide, acceptRide, markArrived, startRide,
     completeRide, cancelRide
<1>3. ASSUME NEW c \in Calls, CallStep(c)
      PROVE  \A r \in sweep'.current : CANCELLED \in ride'[r].stamps
  BY <1>1, <1>3 DEF CallStep, create, addPendingRide, checkNoActiveRide,
     checkStillRequested, tryAssignDriver, rejectAccept, setUnavailable, writeStatus,
     commitCompletion, commitCancellation, removePendingRide, record, Abandon
<1>4. ASSUME NEW r \in Rides, NEW then, expireRide(r, then)
      PROVE  \A q \in sweep'.current : CANCELLED \in ride'[q].stamps
  <2>1. CANCELLED \in ride'[r].stamps
    BY <1>4, UpdateStamps DEF expireRide, Ready, RideStatus
  <2>2. sweep'.current = {r}
    BY <1>4 DEF expireRide
  <2>3. QED
    BY <2>1, <2>2
<1>5. CASE expireStaleRides
  BY <1>5 DEF expireStaleRides
<1>6. CASE sweepRemovePending \/ sweepRecord
  <2>1. sweep'.current \subseteq sweep.current
    BY <1>6 DEF sweepRemovePending, sweepRecord, IInv, TypeOK, Sweep
  <2>2. QED
    BY <1>0, <2>1 DEF HInv, StampsKept
<1>7. ASSUME NEW r \in Rides, skipRide(r)
      PROVE  \A q \in sweep'.current : CANCELLED \in ride'[q].stamps
  BY <1>7 DEF skipRide
<1>8. CASE sweepDone \/ sweepAbandon
  BY <1>8 DEF sweepDone, sweepAbandon, NoSweep
<1>9. CASE SweepStep
  BY <1>4, <1>6, <1>7, <1>8, <1>9 DEF SweepStep, expireRequested, expireAccepted,
     expireArrived, expireAssigned
<1>10. CASE DriverStep \/ Tick \/ UNCHANGED vars
  BY <1>1, <1>10 DEF DriverStep, goOnline, goOffline, Tick, vars
<1>11. QED
  BY <1>2, <1>3, <1>5, <1>9, <1>10 DEF Next

\* What is logged has been written.
LEMMA LogBacked ==
    ASSUME IInv, HInv, StampsKept, [Next]_vars
    PROVE  LogFollowsRide'
<1>0. logged \in [Rides -> SUBSET RideStatus]
  BY DEF IInv, TypeOK
<1>1. CASE UNCHANGED logged
  BY <1>1 DEF HInv, StampsKept, LogFollowsRide
<1>2. ASSUME NEW c \in Calls, NewCall(c) PROVE LogFollowsRide'
  BY <1>1, <1>2 DEF NewCall, requestRide, acceptRide, markArrived, startRide,
     completeRide, cancelRide
<1>3. ASSUME NEW c \in Calls, record(c) PROVE LogFollowsRide'
  <2>1. Target[call[c].op] \in ride[call[c].ride].stamps
    BY <1>3 DEF record, At, HInv, StampedBy, PastWrite
  <2>2. \A r \in Rides : logged'[r] = IF r = call[c].ride
                                      THEN logged[r] \cup {Target[call[c].op]} ELSE logged[r]
    BY <1>0, <1>3 DEF record
  <2>3. ASSUME NEW r \in Rides PROVE logged'[r] \subseteq ride[r].stamps
    <3>1. logged[r] \subseteq ride[r].stamps
      BY DEF HInv, LogFollowsRide
    <3>2. QED
      BY <2>1, <2>2, <3>1
  <2>4. QED
    BY <2>3 DEF StampsKept, LogFollowsRide
<1>4. ASSUME NEW c \in Calls, CallStep(c) PROVE LogFollowsRide'
  BY <1>1, <1>3, <1>4 DEF CallStep, create, addPendingRide, checkNoActiveRide,
     checkStillRequested, tryAssignDriver, rejectAccept, setUnavailable, writeStatus,
     commitCompletion, commitCancellation, removePendingRide, Abandon
<1>5. CASE sweepRecord
  BY <1>5 DEF sweepRecord, HInv, StampsKept, LogFollowsRide
<1>6. CASE SweepStep
  BY <1>1, <1>5, <1>6 DEF SweepStep, expireRequested, expireAccepted, expireArrived,
     expireAssigned, sweepRemovePending, sweepDone, sweepAbandon
<1>7. CASE expireStaleRides \/ DriverStep \/ Tick \/ UNCHANGED vars
  BY <1>1, <1>7 DEF expireStaleRides, DriverStep, goOnline, goOffline, Tick, vars
<1>8. QED
  BY <1>2, <1>4, <1>6, <1>7 DEF Next

LEMMA NextHInv == IInv /\ HInv /\ [Next]_vars => HInv'
<1> SUFFICES ASSUME IInv, HInv, [Next]_vars PROVE HInv'
  OBVIOUS
<1>1. StampsKept
  BY StampsStep
<1>2. \A c \in Calls : call'[c] # Idle => StampedBy(call'[c], ride')
  BY <1>1, CallsBacked DEF Backed
<1>3. QED
  BY <1>1, <1>2, SweepBacked, LogBacked DEF HInv, StampsKept

\* The stages a call has checked and written are stamped on its ride, and so is
\* every status in the audit trail.
THEOREM History == Spec => []HInv
  BY Invariance, InitHInv, NextHInv, PTL DEF Spec

\* However late a write comes, a ride has passed every earlier stage.
THEOREM NoStageIsSkipped == Spec => []StagesInOrder
<1>1. HInv => StagesInOrder
  BY DEF HInv, Staged, StagesInOrder
<1>2. QED
  BY <1>1, History, PTL

\* The audit trail never names a status the ride has not had.
THEOREM LogIsBacked == Spec => []LogFollowsRide
  BY History, PTL DEF HInv

-----------------------------------------------------------------------------
(* The pool is entered once and left once.                                 *)

\* A row that changes its status as the pool allows.
Once(old, new) ==
    new.status # old.status =>
        /\ new.status = REQUESTED => old.status = "NONE"
        /\ new.status = ACCEPTED  => old.status = REQUESTED

OnceEach == \A r \in Rides : Once(ride[r], ride'[r])

LEMMA OneOnce ==
    ASSUME IInv, NEW r \in Rides, NEW x, Once(ride[r], x), ride' = [ride EXCEPT ![r] = x]
    PROVE  OnceEach
<1>1. \A q \in Rides : ride'[q] = IF q = r THEN x ELSE ride[q]
  BY DEF IInv, TypeOK
<1>2. QED
  BY <1>1 DEF OnceEach, Once

LEMMA UpdateOnce ==
    ASSUME IInv, NEW r \in Rides, NEW s \in RideStatus \ {REQUESTED, ACCEPTED},
           updateStatus(r, s)
    PROVE  OnceEach
<1>1. Stamped(ride[r], s).status = s
  BY StampedRow DEF IInv, TypeOK
<1>2. Once(ride[r], Stamped(ride[r], s))
  BY <1>1 DEF Once
<1>3. QED
  BY <1>2, OneOnce DEF updateStatus

LEMMA OnceStep == ASSUME IInv, [Next]_vars PROVE OnceEach
<1>1. CASE UNCHANGED ride
  BY <1>1 DEF OnceEach, Once
<1>2. ASSUME NEW c \in Calls, create(c) PROVE OnceEach
  <2> DEFINE x == Stamped([NoRow EXCEPT !.passengerId = call[c].user], REQUESTED)
  <2>1. PICK r \in Rides : ride[r].status = "NONE" /\ ride' = [ride EXCEPT ![r] = x]
    BY <1>2 DEF create
  <2>2. x.status = REQUESTED
    BY DEF Stamped, NoRow
  <2> HIDE DEF x
  <2>3. QED
    BY <2>1, <2>2, OneOnce DEF Once
<1>3. ASSUME NEW c \in Calls, tryAssignDriver(c) PROVE OnceEach
  <2>1. PICK r \in Rides, d \in Drivers : r = call[c].ride /\ d = call[c].user
    BY <1>3, CallFacts DEF tryAssignDriver, At
  <2> DEFINE x == [Stamped(ride[r], ACCEPTED) EXCEPT !.driverId = d]
  <2>2. ride[r].status = REQUESTED /\ ride' = [ride EXCEPT ![r] = x]
    BY <1>3, <2>1 DEF tryAssignDriver, Assignable
  <2>3. Stamped(ride[r], ACCEPTED) \in Row /\ Stamped(ride[r], ACCEPTED).status = ACCEPTED
    BY StampedRow DEF IInv, TypeOK, RideStatus
  <2>4. x.status = ACCEPTED
    BY <2>3 DEF Row
  <2> HIDE DEF x
  <2>5. QED
    BY <2>2, <2>4, OneOnce DEF Once
<1>4. ASSUME NEW c \in Calls,
             writeStatus(c) \/ commitCompletion(c) \/ commitCancellation(c)
      PROVE  OnceEach
  <2>1. call[c].ride \in Rides
    BY <1>4, CallFacts DEF writeStatus, commitCompletion, commitCancellation, At
  <2>2. PICK s \in RideStatus \ {REQUESTED, ACCEPTED} : updateStatus(call[c].ride, s)
    BY <1>4 DEF writeStatus, commitCompletion, commitCancellation, Target, RideStatus
  <2>3. QED
    BY <2>1, <2>2, UpdateOnce
<1>5. ASSUME NEW r \in Rides, expireRequested(r) \/ expireAccepted(r) \/ expireArrived(r)
      PROVE  OnceEach
  <2>1. UNCHANGED ride \/ updateStatus(r, CANCELLED)
    BY <1>5 DEF expireRequested, expireAccepted, expireArrived, expireAssigned,
       expireRide, skipRide
  <2>2. QED
    BY <1>1, <2>1, UpdateOnce DEF RideStatus
<1>6. CASE Tick
  <2>1. \A r \in Rides : ride'[r].status = ride[r].status
    BY <1>6 DEF Tick, IInv, TypeOK, Row
  <2>2. QED
    BY <2>1 DEF OnceEach, Once
<1>7. QED
  BY <1>1, <1>2, <1>3, <1>4, <1>5, <1>6, RideWriters DEF RideWrite

\* A ride is posted once and accepted at most once, from the pool: no late
\* write, and no sweep, offers it again.
THEOREM NotReopened == Spec => NeverReopened
<1>1. IInv /\ [Next]_vars
        => [\A r \in Rides : ride'[r].status # ride[r].status =>
              /\ ride'[r].status = REQUESTED => ride[r].status = "NONE"
              /\ ride'[r].status = ACCEPTED  => ride[r].status = REQUESTED]_vars
  BY OnceStep DEF OnceEach, Once
<1>2. QED
  BY <1>1, Invariance, PTL DEF Spec, NeverReopened

-----------------------------------------------------------------------------
(* Delisting and the sweep.  A call that takes a ride off the pending set, *)
(* and the sweep, act on what they have read or written before; no step    *)
(* brings a ride back to the pool, and none makes a row listed as stale    *)
(* younger without changing its status.                                    *)

\* Out of the pool.
Left(r) == ride[r].status \notin {"NONE", REQUESTED}

Leaving(k) == k # Idle /\ k.pc \in {"setAvailable", "removePending"}

\* What was listed is not in an earlier status again, and as stale as it was.
SeenAsStale(r, s) ==
    s # "NONE" =>
        /\ ride[r].status # "NONE"
        /\ s # REQUESTED => Left(r)
        /\ ride[r].status = s /\ s \in {REQUESTED, ACCEPTED} => isStale(r)

SweepHolds ==
    /\ \A r \in sweep.current : Left(r)
    /\ \A r \in Rides : SeenAsStale(r, sweep.seen[r])

QInv == IInv /\ (\A c \in Calls : Leaving(call[c]) => Left(call[c].ride)) /\ SweepHolds

LEMMA InitQInv == Init => QInv
  BY InitIInv DEF Init, QInv, SweepHolds, Leaving, SeenAsStale, NoSweep

\* What a step may do to a row: of the status it keeps it grows older.
Aged(old, new) ==
    /\ Keeps(old, new) /\ Once(old, new)
    /\ new.status = "NONE" => old.status = "NONE"
    /\ new.status = old.status /\ old.status \in {REQUESTED, ACCEPTED} => new.age >= old.age

AgedEach == \A r \in Rides : Aged(ride[r], ride'[r])

\* A row written with another status than these has no age to keep.
LEMMA WrittenAged ==
    ASSUME IInv, OnceEach, RowsKept, NEW r \in Rides, NEW x, ride' = [ride EXCEPT ![r] = x],
           x.status = ride[r].status => x.status \notin {REQUESTED, ACCEPTED}
    PROVE  AgedEach
<1>1. \A q \in Rides : ride'[q] = IF q = r THEN x ELSE ride[q]
  BY DEF IInv, TypeOK
<1>2. \A q \in Rides : ride[q].age >= ride[q].age
  <2>1. \A q \in Rides : ride[q] \in Row
    BY DEF IInv, TypeOK
  <2>2. QED
    BY <2>1 DEF Row, MaxAge
<1>3. QED
  BY <1>1, <1>2 DEF AgedEach, Aged, OnceEach, RowsKept, Keeps

LEMMA AgedStep == ASSUME IInv, [Next]_vars PROVE AgedEach
<1>0. OnceEach /\ RowsKept
  BY OnceStep, RideStep
<1>1. CASE UNCHANGED ride
  <2>1. \A r \in Rides : ride[r].age >= ride[r].age
    BY DEF IInv, TypeOK, Row, MaxAge
  <2>2. QED
    BY <1>0, <1>1, <2>1 DEF AgedEach, Aged, OnceEach, RowsKept
<1>2. ASSUME NEW c \in Calls, create(c) PROVE AgedEach
  <2> DEFINE x == Stamped([NoRow EXCEPT !.passengerId = call[c].user], REQUESTED)
  <2>1. PICK r \in Rides : ride[r].status = "NONE" /\ ride' = [ride EXCEPT ![r] = x]
    BY <1>2 DEF create
  <2>2. x.status = REQUESTED
    BY DEF Stamped, NoRow
  <2> HIDE DEF x
  <2>3. QED
    BY <1>0, <2>1, <2>2, WrittenAged
<1>3. ASSUME NEW c \in Calls, tryAssignDriver(c) PROVE AgedEach
  <2>1. PICK r \in Rides, d \in Drivers : r = call[c].ride /\ d = call[c].user
    BY <1>3, CallFacts DEF tryAssignDriver, At
  <2> DEFINE x == [Stamped(ride[r], ACCEPTED) EXCEPT !.driverId = d]
  <2>2. ride[r].status = REQUESTED /\ ride' = [ride EXCEPT ![r] = x]
    BY <1>3, <2>1 DEF tryAssignDriver, Assignable
  <2>3. Stamped(ride[r], ACCEPTED) \in Row /\ Stamped(ride[r], ACCEPTED).status = ACCEPTED
    BY StampedRow DEF IInv, TypeOK, RideStatus
  <2>4. x.status = ACCEPTED
    BY <2>3 DEF Row
  <2> HIDE DEF x
  <2>5. QED
    BY <1>0, <2>2, <2>4, WrittenAged
<1>4. ASSUME NEW r \in Rides, NEW s \in RideStatus \ {REQUESTED, ACCEPTED}, updateStatus(r, s)
      PROVE  AgedEach
  <2>1. Stamped(ride[r], s).status = s
    BY StampedRow DEF IInv, TypeOK
  <2>2. QED
    BY <1>0, <1>4, <2>1, WrittenAged DEF updateStatus
<1>5. ASSUME NEW c \in Calls,
             writeStatus(c) \/ commitCompletion(c) \/ commitCancellation(c)
      PROVE  AgedEach
  <2>1. call[c].ride \in Rides
    BY <1>5, CallFacts DEF writeStatus, commitCompletion, commitCancellation, At
  <2>2. PICK s \in RideStatus \ {REQUESTED, ACCEPTED} : updateStatus(call[c].ride, s)
    BY <1>5 DEF writeStatus, commitCompletion, commitCancellation, Target, RideStatus
  <2>3. QED
    BY <1>4, <2>1, <2>2
<1>6. ASSUME NEW r \in Rides, expireRequested(r) \/ expireAccepted(r) \/ expireArrived(r)
      PROVE  AgedEach
  <2>1. UNCHANGED ride \/ updateStatus(r, CANCELLED)
    BY <1>6 DEF expireRequested, expireAccepted, expireArrived, expireAssigned,
       expireRide, skipRide
  <2>2. QED
    BY <1>1, <1>4, <2>1 DEF RideStatus
<1>7. CASE Tick
  <2>1. ASSUME NEW r \in Rides PROVE ride'[r].age >= ride[r].age /\ ride'[r].status = ride[r].status
    <3>0. ride[r] \in Row
      BY DEF IInv, TypeOK
    <3>1. ride[r].age \in Nat
      BY <3>0 DEF Row, MaxAge
    <3>2. ride'[r] = ride[r] \/ ride'[r] = [ride[r] EXCEPT !.age = @ + 1]
      BY <1>7 DEF Tick
    <3>3. QED
      BY <3>0, <3>1, <3>2 DEF Row
  <2>2. QED
    BY <1>0, <2>1 DEF AgedEach, Aged, OnceEach, RowsKept
<1>8. QED
  BY <1>1, <1>2, <1>3, <1>5, <1>6, <1>7, RideWriters DEF RideWrite

\* What is out of the pool stays out, and what is listed as stale stays so.
LEMMA StaysOut ==
    ASSUME IInv, IInv', AgedEach, NEW r \in Rides
    PROVE  /\ Left(r) => Left(r)'
           /\ \A s \in CANCELLABLE_STATUSES \cup {"NONE"} :
                 SeenAsStale(r, s) => SeenAsStale(r, s)'
<1>1. Aged(ride[r], ride'[r])
  BY DEF AgedEach
<1>2. Left(r) => Left(r)'
  BY <1>1 DEF Aged, Once, Keeps, Left
<1>3. ASSUME NEW s \in CANCELLABLE_STATUSES \cup {"NONE"}, SeenAsStale(r, s)
      PROVE  SeenAsStale(r, s)'
  <2> SUFFICES ASSUME s # "NONE" PROVE SeenAsStale(r, s)'
    BY DEF SeenAsStale
  <2>1. ride'[r].status # "NONE" /\ (s # REQUESTED => Left(r)')
    BY <1>1, <1>2, <1>3 DEF SeenAsStale, Aged
  <2>2. ASSUME ride'[r].status = s, s \in {REQUESTED, ACCEPTED} PROVE isStale(r)'
    <3>1. ride[r].status = s
      BY <1>1, <1>3, <2>2 DEF SeenAsStale, Aged, Once, Left
    <3>2. isStale(r) /\ ride'[r].age >= ride[r].age
      BY <1>1, <1>3, <2>2, <3>1 DEF SeenAsStale, Aged
    <3>3. ride[r].age \in Nat /\ ride'[r].age \in Nat /\ TimeoutOf[s] \in Nat
      <4>1. ride[r] \in Row /\ ride'[r] \in Row
        BY DEF IInv, TypeOK
      <4>2. ride[r].age \in Nat /\ ride'[r].age \in Nat
        BY <4>1 DEF Row, MaxAge
      <4>3. QED
        BY <2>2, <4>2 DEF TimeoutOf, REQUESTED_TIMEOUT, ACCEPTED_TIMEOUT
    <3>4. QED
      BY <2>2, <3>1, <3>2, <3>3 DEF isStale
  <2>3. QED
    BY <2>1, <2>2 DEF SeenAsStale
<1>4. QED
  BY <1>2, <1>3

\* A call that is to take its ride off the set has assigned or cancelled it.
LEMMA LeavingStep ==
    ASSUME QInv, IInv', AgedEach, [Next]_vars, NEW c \in Calls, Leaving(call[c])'
    PROVE  Left(call[c].ride)'
<1>0. call \in [Calls -> Call \cup {Idle}] /\ ride \in [Rides -> Row]
  BY DEF QInv, IInv, TypeOK
<1>1. ASSUME call'[c] # Idle, call[c] # Idle, call'[c].ride = call[c].ride, Leaving(call[c])
      PROVE  Left(call[c].ride)'
  <2>1. call[c].ride \in Rides /\ Left(call[c].ride)
    BY <1>1, CallFacts DEF QInv, Leaving
  <2>2. PICK r \in Rides : r = call[c].ride
    BY <2>1
  <2>3. Left(r)'
    BY <2>1, <2>2, StaysOut DEF QInv
  <2>4. QED
    BY <1>1, <2>2, <2>3 DEF Left
<1>2. CASE call'[c] = call[c]
  BY <1>1, <1>2 DEF Leaving
<1>3. CASE NewCall(c)
  <2>1. \E op, r, u, d : \E pc \in {"create", "findActive", "write"} : Begin(c, op, pc, r, u, d)
    BY <1>3 DEF NewCall, requestRide, acceptRide, markArrived, startRide, completeRide, cancelRide
  <2>2. call'[c].pc \in {"create", "findActive", "write"}
    BY <1>0, <2>1 DEF Begin
  <2>3. QED
    BY <2>2 DEF Leaving
<1>4. ASSUME call[c] # Idle, NEW pc, Goto(c, pc)
      PROVE  call'[c].pc = pc /\ call'[c].ride = call[c].ride
  <2>1. call[c] \in Call /\ call'[c] = [call[c] EXCEPT !.pc = pc]
    BY <1>0, <1>4 DEF Goto
  <2>2. QED
    BY <2>1 DEF Call
<1>5. CASE tryAssignDriver(c)
  <2>1. PICK r \in Rides, d \in Drivers : r = call[c].ride /\ d = call[c].user
    BY <1>5, CallFacts DEF tryAssignDriver, At, QInv
  <2> DEFINE x == [Stamped(ride[r], ACCEPTED) EXCEPT !.driverId = d]
  <2>2. ride' = [ride EXCEPT ![r] = x] /\ call'[c].ride = r
    BY <1>4, <1>5, <2>1 DEF tryAssignDriver, At
  <2>3. Stamped(ride[r], ACCEPTED) \in Row /\ Stamped(ride[r], ACCEPTED).status = ACCEPTED
    BY <1>0, StampedRow DEF RideStatus
  <2>4. x.status = ACCEPTED
    BY <2>3 DEF Row
  <2> HIDE DEF x
  <2>5. QED
    BY <1>0, <2>2, <2>4 DEF Left
<1>6. CASE commitCancellation(c)
  <2>1. PICK r \in Rides : r = call[c].ride
    BY <1>6, CallFacts DEF commitCancellation, At, QInv
  <2>2. updateStatus(r, CANCELLED) /\ call'[c].ride = r
    BY <1>4, <1>6, <2>1 DEF commitCancellation, At
  <2>3. ride'[r].status = CANCELLED
    BY <1>0, <2>2, StampedRow DEF updateStatus, RideStatus
  <2>4. QED
    BY <2>2, <2>3 DEF Left
<1>7. CASE setUnavailable(c)
  BY <1>1, <1>4, <1>7 DEF setUnavailable, At, Leaving
<1>8. CASE Return(c)
  BY <1>0, <1>8 DEF Return, Leaving
<1>9. ASSUME call[c] # Idle, NEW pc \in {"findRide", "tryAssign", "record", "addPending"}, Goto(c, pc)
      PROVE  Left(call[c].ride)'
  BY <1>4, <1>9 DEF Leaving
<1>10. CASE create(c)
  <2>1. call[c] \in Call
    BY <1>0, <1>10 DEF create, At
  <2>2. PICK r \in Rides : call'[c] = [call[c] EXCEPT !.ride = r, !.pc = "record"]
    BY <1>0, <1>10 DEF create
  <2>3. call'[c].pc = "record"
    BY <2>1, <2>2 DEF Call
  <2>4. QED
    BY <2>3 DEF Leaving
<1>11. CASE CallStep(c)
  BY <1>5, <1>6, <1>7, <1>8, <1>9, <1>10, <1>11
     DEF CallStep, addPendingRide, checkNoActiveRide, checkStillRequested, rejectAccept,
         writeStatus, commitCompletion, removePendingRide, record, Abandon, At
<1>12. QED
  BY <1>2, <1>3, <1>11, OneCall DEF QInv

\* What the sweep lists is stale when it is listed, and what it is at, cancelled.
LEMMA SweepHoldsStep == ASSUME QInv, IInv', AgedEach, [Next]_vars PROVE SweepHolds'
<1>0. ride \in [Rides -> Row] /\ sweep \in Sweep
  BY DEF QInv, IInv, TypeOK
<1>1. ASSUME sweep'.current \subseteq sweep.current,
             \A r \in Rides : sweep'.seen[r] = sweep.seen[r] \/ sweep'.seen[r] = "NONE"
      PROVE  SweepHolds'
  <2>1. \A r \in sweep'.current : r \in Rides /\ Left(r)
    BY <1>0, <1>1 DEF QInv, SweepHolds, Sweep
  <2>2. \A r \in sweep'.current : Left(r)'
    BY <2>1, StaysOut DEF QInv
  <2>3. ASSUME NEW r \in Rides PROVE \E s : s = sweep'.seen[r] /\ SeenAsStale(r, s)'
    <3>1. PICK s \in CANCELLABLE_STATUSES \cup {"NONE"} : s = sweep'.seen[r] /\ s \in {sweep.seen[r], "NONE"}
      BY <1>0, <1>1 DEF Sweep
    <3>2. SeenAsStale(r, s)
      BY <3>1 DEF QInv, SweepHolds, SeenAsStale
    <3>3. SeenAsStale(r, s)'
      BY <3>1, <3>2, StaysOut DEF QInv
    <3>4. QED
      BY <3>1, <3>3
  <2>4. QED
    BY <2>2, <2>3 DEF SweepHolds, SeenAsStale, Left, isStale
<1>2. CASE UNCHANGED sweep
  BY <1>1, <1>2
<1>3. CASE expireStaleRides
  <2>1. /\ ride' = ride /\ sweep'.current = {}
        /\ \A r \in Rides : sweep'.seen[r] = IF isStale(r) THEN ride[r].status ELSE "NONE"
    BY <1>3 DEF expireStaleRides
  <2>2. \A r \in Rides : SeenAsStale(r, sweep'.seen[r])
    BY <2>1 DEF SeenAsStale, isStale, CANCELLABLE_STATUSES, Left
  <2>3. QED
    BY <2>1, <2>2 DEF SweepHolds, SeenAsStale, Left, isStale
<1>4. ASSUME NEW r \in Rides, NEW then, expireRide(r, then) PROVE SweepHolds'
  <2>1. sweep'.seen = Dropped(r) /\ sweep'.current = {r} /\ updateStatus(r, CANCELLED)
    BY <1>4 DEF expireRide
  <2>2. Left(r)'
    BY <1>0, <2>1, StampedRow DEF updateStatus, RideStatus, Left
  <2>3. \A q \in Rides : sweep'.seen[q] = sweep.seen[q] \/ sweep'.seen[q] = "NONE"
    BY <1>0, <2>1 DEF Dropped, Sweep
  <2>4. ASSUME NEW q \in Rides PROVE \E s : s = sweep'.seen[q] /\ SeenAsStale(q, s)'
    <3>1. PICK s \in CANCELLABLE_STATUSES \cup {"NONE"} : s = sweep'.seen[q] /\ s \in {sweep.seen[q], "NONE"}
      BY <1>0, <2>3 DEF Sweep
    <3>2. SeenAsStale(q, s)
      BY <3>1 DEF QInv, SweepHolds, SeenAsStale
    <3>3. SeenAsStale(q, s)'
      BY <3>1, <3>2, StaysOut DEF QInv
    <3>4. QED
      BY <3>1, <3>3
  <2>5. QED
    BY <2>1, <2>2, <2>4 DEF SweepHolds, SeenAsStale, Left, isStale
<1>5. ASSUME NEW r \in Rides, skipRide(r) PROVE SweepHolds'
  <2>1. sweep'.seen = Dropped(r) /\ sweep'.current = {}
    BY <1>5 DEF skipRide
  <2>2. QED
    BY <1>0, <1>1, <2>1 DEF Dropped, Sweep
<1>6. CASE sweepRemovePending \/ sweepRecord \/ sweepDone \/ sweepAbandon
  <2>1. \/ sweep'.seen = sweep.seen /\ sweep'.current \in {sweep.current, {}}
        \/ sweep' = NoSweep
    <3>1. CASE sweepRemovePending
      BY <1>0, <3>1 DEF sweepRemovePending, Sweep
    <3>2. CASE sweepRecord
      BY <1>0, <3>2 DEF sweepRecord, Sweep
    <3>3. QED
      BY <1>6, <3>1, <3>2 DEF sweepDone, sweepAbandon
  <2>2. sweep'.current \in {sweep.current, {}}
    BY <2>1 DEF NoSweep
  <2>3. \A r \in Rides : sweep'.seen[r] = sweep.seen[r] \/ sweep'.seen[r] = "NONE"
    BY <2>1 DEF NoSweep
  <2>4. QED
    BY <1>1, <2>2, <2>3
<1>7. CASE SweepStep
  BY <1>4, <1>5, <1>6, <1>7 DEF SweepStep, expireRequested, expireAccepted, expireArrived, expireAssigned
<1>8. ASSUME NEW c \in Calls, NewCall(c) \/ CallStep(c) PROVE UNCHANGED sweep
  BY <1>8 DEF NewCall, requestRide, acceptRide, markArrived, startRide, completeRide, cancelRide,
     CallStep, create, addPendingRide, checkNoActiveRide, checkStillRequested, tryAssignDriver,
     rejectAccept, setUnavailable, writeStatus, commitCompletion, commitCancellation,
     removePendingRide, record, Abandon
<1>9. QED
  BY <1>2, <1>3, <1>7, <1>8 DEF Next, DriverStep, goOnline, goOffline, Tick, vars

LEMMA NextQInv == QInv /\ [Next]_vars => QInv'
<1> SUFFICES ASSUME QInv, [Next]_vars PROVE QInv'
  OBVIOUS
<1>1. IInv' /\ AgedEach
  BY NextIInv, AgedStep DEF QInv
<1>2. QED
  BY <1>1, LeavingStep, SweepHoldsStep DEF QInv

\* What calls and the sweep have seen of the pool holds.
THEOREM PoolInvariance == Spec => []QInv
  BY InitQInv, NextQInv, PTL DEF Spec

\* The sweep cancels only what is as it was listed and stale
\* (ride.service.js:414-417).
THEOREM SweepsAreGuarded == Spec => SweepIsGuarded
<1>1. ASSUME QInv, Next, NEW r \in Rides, sweep.seen[r] # sweep'.seen[r], sweep.seen[r] # "NONE",
             ride'[r].status # ride[r].status
      PROVE  ride[r].status = sweep.seen[r]
  <2>0. sweep \in Sweep /\ ride \in [Rides -> Row]
    BY <1>1 DEF QInv, IInv, TypeOK
  <2>1. ASSUME NEW q \in Rides, NEW then, expireRide(q, then) PROVE ride[r].status = sweep.seen[r]
    BY <1>1, <2>0, <2>1 DEF expireRide, StillAsSeen, Dropped, Sweep
  <2>2. ride' # ride
    BY <1>1
  <2>3. ASSUME NEW c \in Calls, NewCall(c) \/ CallStep(c) PROVE UNCHANGED sweep
    BY <2>3 DEF NewCall, requestRide, acceptRide, markArrived, startRide, completeRide, cancelRide,
       CallStep, create, addPendingRide, checkNoActiveRide, checkStillRequested, tryAssignDriver,
       rejectAccept, setUnavailable, writeStatus, commitCompletion, commitCancellation,
       removePendingRide, record, Abandon
  <2>4. CASE SweepStep
    BY <2>1, <2>2, <2>4 DEF SweepStep, expireRequested, expireAccepted, expireArrived,
       expireAssigned, skipRide, sweepRemovePending, sweepRecord, sweepDone, sweepAbandon
  <2>5. CASE expireStaleRides \/ DriverStep \/ Tick
    BY <1>1, <2>2, <2>5 DEF expireStaleRides, DriverStep, goOnline, goOffline, Tick
  <2>6. QED
    BY <1>1, <2>3, <2>4, <2>5 DEF Next
<1>2. ASSUME QInv, [Next]_vars
      PROVE  [\A r \in Rides :
                sweep.seen[r] # sweep'.seen[r] /\ sweep.seen[r] # "NONE"
                  /\ ride'[r].status # ride[r].status =>
                /\ ride[r].status = sweep.seen[r]
                /\ ride[r].status \in {REQUESTED, ACCEPTED} => isStale(r)]_vars
  BY <1>1, <1>2 DEF QInv, SweepHolds, SeenAsStale
<1>3. QED
  BY <1>2, PoolInvariance, PTL DEF Spec, SweepIsGuarded

\* A ride leaves the set that matching searches only when it can no longer be
\* matched, whoever takes it off and however late.
THEOREM MatchablesStayListed == Spec => MatchableStaysListed
<1>1. ASSUME QInv, Next, NEW r \in Rides, r \in pending, r \notin pending'
      PROVE  Left(r)
  <2>1. ASSUME NEW c \in Calls, removePendingRide(c) PROVE Left(r)
    <3>1. call[c] # Idle /\ call[c].pc = "removePending" /\ r = call[c].ride
      BY <1>1, <2>1 DEF removePendingRide, SetPending, At
    <3>2. QED
      BY <1>1, <3>1 DEF QInv, Leaving
  <2>2. CASE sweepRemovePending
    BY <1>1, <2>2 DEF sweepRemovePending, SetPending, QInv, SweepHolds
  <2>3. ASSUME NEW c \in Calls, NewCall(c) \/ CallStep(c) PROVE removePendingRide(c)
    BY <1>1, <2>3 DEF NewCall, requestRide, acceptRide, markArrived, startRide, completeRide, cancelRide,
       CallStep, create, addPendingRide, SetPending, checkNoActiveRide, checkStillRequested,
       tryAssignDriver, rejectAccept, setUnavailable, writeStatus, commitCompletion,
       commitCancellation, record, Abandon
  <2>4. CASE SweepStep
    BY <1>1, <2>2, <2>4 DEF SweepStep, expireRequested, expireAccepted, expireArrived,
       expireAssigned, sweepRecord, sweepDone, sweepAbandon
  <2>5. CASE expireStaleRides \/ DriverStep \/ Tick
    BY <1>1, <2>5 DEF expireStaleRides, DriverStep, goOnline, goOffline, Tick
  <2>6. QED
    BY <1>1, <2>1, <2>3, <2>4, <2>5 DEF Next
<1>2. ASSUME QInv, [Next]_vars
      PROVE  [\A r \in Rides : r \in pending /\ r \notin pending'
                                 => ride[r].status \notin {"NONE", REQUESTED}]_vars
  BY <1>1, <1>2 DEF Left
<1>3. QED
  BY <1>2, PoolInvariance, PTL DEF Spec, MatchableStaysListed
=============================================================================
