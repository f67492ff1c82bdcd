----------------------------- MODULE MCRideSerial ------------------------------
(***************************************************************************)
(* RideLifecycle with its handlers one at a time: a request, or the sweep, *)
(* begins when none is in flight.  Drivers come and go, the clock runs and *)
(* calls are abandoned at any await as before.  What holds here and fails  *)
(* in RideLifecycle is lost to the overlap of handlers alone.              *)
(***************************************************************************)
EXTENDS MCRideLifecycle

SerialNext ==
    \/ Quiet /\ \E c \in Calls : NewCall(c)
    \/ \E c \in Calls : CallStep(c)
    \/ Quiet /\ expireStaleRides
    \/ SweepStep
    \/ DriverStep
    \/ Tick

SerialSpec == Init /\ [][SerialNext]_vars
SerialFairSpec == SerialSpec /\ Fairness /\ \A c \in Calls : WF_vars(CallStep(c))

\* One handler at a time implements the lifecycle of the README: the check
\* and the write of every endpoint act on the same state.
ImplementsContract == Contract!Spec

\* A passenger rides once at a time, and so does a driver, although an
\* abandoned acceptRide leaves its driver available.
OneActiveRideEach ==
    /\ \A p \in Passengers : Cardinality(findActiveByPassenger(p)) <= 1
    /\ \A d \in Drivers : Cardinality(findActiveByDriver(d)) <= 1

\* A driver's totals count each ride once.
CompletedOnce ==
    \A d \in Drivers : driverRides[d] =
        Cardinality({r \in Rides : ride[r].driverId = d /\ ride[r].status = COMPLETED})
=============================================================================
