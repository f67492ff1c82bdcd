CONSTANTS
    Drivers = {d1}
    Places = {home, town}
    Toggles = {r1}
    Samples = {r1, r2}
    Ttl = 1
    Journey = 2
    Nowhere = Nowhere
SPECIFICATION FairSpec
INVARIANTS TypeOK
PROPERTIES SilentDriversLeave PlaceIsLearned
CHECK_DEADLOCK FALSE
