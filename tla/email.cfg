CONSTANTS
    Notes = {n1}
    Workers = {w1, w2}
    Attempts = 3
    MaxStalls = 1
    Nobody = Nobody
SPECIFICATION FairSpec
INVARIANTS TypeOK SentOnce OutcomeIsTrue
PROPERTIES EmailsSettle
CHECK_DEADLOCK FALSE
