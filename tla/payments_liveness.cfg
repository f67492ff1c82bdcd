\* Deliveries die; requests may hang.
CONSTANTS
    Null = Null
    U = u
    Users = {u}
    Rides = {r1}
    TopUps = {t}
    Coupons = {k}
    Calls = {c1}
    Deliveries = {w1, w2}
    Faults = {"app", "database", "stripe"}
    MaxAdjustments = 1
    Adjustments <- FiveAndMinusOne
    Payer <- AllOf
    Fare <- TwoCents
    Discount <- OneCentOff
    UsageLimit <- Once
    UsagePerUser <- Once
    TopUpAmounts <- One
SPECIFICATION FairSpec
PROPERTY ChargesAreBooked
CHECK_DEADLOCK FALSE
