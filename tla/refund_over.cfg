CONSTANTS
    Null = Null
    U = u
    Users = {u}
    Rides = {r1}
    TopUps = {t}
    Coupons = {k}
    Calls = {c1, c2}
    Deliveries = {w1, w2}
    Faults = {}
    MaxAdjustments = 1
    Adjustments <- FiveAndMinusOne
    Payer <- AllOf
    Fare <- TwoCents
    Discount <- OneCentOff
    UsageLimit <- Once
    UsagePerUser <- Once
    TopUpAmounts <- One
SPECIFICATION Spec
INVARIANT RefundsWithinPayment
CHECK_DEADLOCK FALSE
