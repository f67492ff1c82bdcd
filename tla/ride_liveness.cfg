CONSTANTS
    Rides = {r1}
    Passengers = {p1}
    Drivers = {d1}
    Calls = {c1, c2}
    Faults = {"worker"}
    Null = Null
SPECIFICATION FairSpec
PROPERTIES NoOneStranded
CHECK_DEADLOCK FALSE
