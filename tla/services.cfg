CONSTANTS
    People = {d1}
    Vehicles = {v1}
    Identities = {i1, i2}
    Documents = {k1}
    Requests = {q1, q2}
    Nothing = Nothing
    Rides = {1, 2, 3}
    Riders = {"ann", "bob", "cid"}
    PassengerOf <- MCPassengerOf
    DriverOf <- MCDriverOf
    Raters = {s1, s2}
    NoRating = NoRating
    Codes = {c1}
    Fares = {199, 1005}
    Values = {50, 3333, 15000}
    Days = {0, 1, 2}
    NoCoupon = NoCoupon
    Unlimited = Unlimited
    Trips = {1, 2, 3, 4}
    PayerOf <- MCPayerOf
    Checkouts = {p1, p2, p3}
    Limit = 2
    PerUser = 1
    NoTrip = NoTrip
    Attempters = {a1, a2, a3}
    MaxAttempts = 2
    Window = 2
    Validity = 1
    MaxStarts = 5
    Bookings = {b1}
    Takers = {"ann", "bob"}
    Polls = {l1}
    Refusals = {j1}
    RequesterOf <- MCRequesterOf
    Nobody = "nobody"
SPECIFICATION MCSpec
INVARIANTS ServicesTypeOK VerifiedAsReviewed DocumentsHaveFiles AverageHeals DiscountFits OversellIsBounded GuessesBounded OffersAreDue CodeStaysWithPassenger
CHECK_DEADLOCK FALSE
