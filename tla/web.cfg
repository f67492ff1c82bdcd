CONSTANTS
    People = {u1, u2}
    Fetches = {c1, c2}
    MaxSerial = 2
    NoOne = NoOne
SPECIFICATION FairSpec
INVARIANTS TypeOK KeptSessionsWork
PROPERTIES CallsSettle
CHECK_DEADLOCK FALSE
