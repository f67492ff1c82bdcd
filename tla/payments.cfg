\* Everything at once on one ride.
CONSTANTS
    Null = Null
    U = u
    Users = {u}
    Rides = {r1}
    TopUps = {t}
    Coupons = {k}
    Calls = {c1, c2}
    Deliveries = {w1, w2}
    Faults = {"app", "database", "stripe"}
    MaxAdjustments = 2
    Adjustments <- FiveAndMinusOne
    Payer <- AllOf
    Fare <- TwoCents
    Discount <- OneCentOff
    UsageLimit <- Once
    UsagePerUser <- Once
    TopUpAmounts <- One
SPECIFICATION Spec
INVARIANTS TypeOK WalletsSound PaidOnce CompletedIsCharged RefundsAreCredited CardRefundsWithinCharge TopUpIsCharged
VIEW Unacked
SYMMETRY Symmetry
CHECK_DEADLOCK FALSE
