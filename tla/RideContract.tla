----------------------------- MODULE RideContract ------------------------------
(***************************************************************************)
(* The ride lifecycle of the README, each endpoint in one step.  It is     *)
(* what the ride service does when its handlers run one at a time, also    *)
(* when some of them are abandoned half way; RideLifecycle says what they  *)
(* do when they overlap.                                                   *)
(***************************************************************************)
CONSTANTS Rides, Passengers, Drivers, Null

VARIABLES status, passengerOf, driverOf
vars == <<status, passengerOf, driverOf>>

Active == {"REQUESTED", "ACCEPTED", "ARRIVED", "IN_PROGRESS"}
Cancellable == Active \ {"IN_PROGRESS"}

Init ==
    /\ status = [r \in Rides |-> "NONE"]
    /\ passengerOf = [r \in Rides |-> Null]
    /\ driverOf = [r \in Rides |-> Null]

Move(r, from, to) ==
    /\ status[r] \in from
    /\ status' = [status EXCEPT ![r] = to]

Request(p, r) ==
    /\ \A o \in Rides : passengerOf[o] = p => status[o] \notin Active
    /\ Move(r, {"NONE"}, "REQUESTED")
    /\ passengerOf' = [passengerOf EXCEPT ![r] = p]
    /\ UNCHANGED driverOf

Accept(d, r) ==
    /\ \A o \in Rides : driverOf[o] = d => status[o] \notin Active
    /\ Move(r, {"REQUESTED"}, "ACCEPTED")
    /\ driverOf' = [driverOf EXCEPT ![r] = d]
    /\ UNCHANGED passengerOf

Advance(r) ==
    /\ \/ Move(r, {"ACCEPTED"}, "ARRIVED")
       \/ Move(r, {"ARRIVED"}, "IN_PROGRESS")
       \/ Move(r, {"IN_PROGRESS"}, "COMPLETED")
       \/ Move(r, Cancellable, "CANCELLED")
    /\ UNCHANGED <<passengerOf, driverOf>>

Next ==
    \E r \in Rides :
        \/ \E p \in Passengers : Request(p, r)
        \/ \E d \in Drivers : Accept(d, r)
        \/ Advance(r)

Spec == Init /\ [][Next]_vars
=============================================================================
