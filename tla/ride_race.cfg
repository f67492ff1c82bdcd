\* Two requests and the sweep in flight at a time, over one ride.
CONSTANTS
    Rides = {r1}
    Passengers = {p1}
    Drivers = {d1, d2}
    Calls = {c1, c2}
    Faults = {"redis"}
    Null = Null
SPECIFICATION Spec
SYMMETRY Symmetry
INVARIANTS TypeOK StagesInOrder
PROPERTIES SweepIsGuarded MatchableStaysListed ImplementsAssignment
CHECK_DEADLOCK FALSE
