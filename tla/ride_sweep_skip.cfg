CONSTANTS
    Rides = {r1}
    Passengers = {p1}
    Drivers = {d1}
    Calls = {c1, c2}
    Faults = {}
    Null = Null
SPECIFICATION Spec
PROPERTY SkippedIsUntouched
ACTION_CONSTRAINT HandlersAreQuick
CHECK_DEADLOCK FALSE
