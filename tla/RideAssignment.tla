---------------------------- MODULE RideAssignment -----------------------------
(***************************************************************************)
(* What matching promises, whatever runs concurrently: a ride is put in    *)
(* the pool once and leaves it once, either taken by one driver, for good, *)
(* or closed without one, for good.                                        *)
(***************************************************************************)
CONSTANTS Rides, Drivers, Null

VARIABLES
    pool,    \* where each ride stands
    holder   \* the driver who took it

vars == <<pool, holder>>

Init ==
    /\ pool = [r \in Rides |-> "unposted"]
    /\ holder = [r \in Rides |-> Null]

Post(r) ==
    /\ pool[r] = "unposted"
    /\ pool' = [pool EXCEPT ![r] = "open"]
    /\ UNCHANGED holder

Take(r, d) ==
    /\ pool[r] = "open"
    /\ pool' = [pool EXCEPT ![r] = "taken"]
    /\ holder' = [holder EXCEPT ![r] = d]

Close(r) ==
    /\ pool[r] = "open"
    /\ pool' = [pool EXCEPT ![r] = "closed"]
    /\ UNCHANGED holder

Next ==
    \E r \in Rides :
        \/ Post(r)
        \/ \E d \in Drivers : Take(r, d)
        \/ Close(r)

Spec == Init /\ [][Next]_vars
=============================================================================
