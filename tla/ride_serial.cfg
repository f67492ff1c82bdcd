\* Handlers one at a time, two rides of two passengers at once.
CONSTANTS
    Rides = {r1, r2}
    Passengers = {p1, p2}
    Drivers = {d1, d2}
    Calls = {c1}
    Faults = {"app", "worker"}
    Null = Null
SPECIFICATION SerialSpec
SYMMETRY Symmetry
VIEW Unlogged
INVARIANTS OneActiveRideEach UnavailableHasRide CompletedOnce
PROPERTIES ImplementsContract
CHECK_DEADLOCK FALSE
