------------------------------ MODULE Redemptions ------------------------------
(***************************************************************************)
(* How often a coupon is used: the counts of validateCoupon                *)
(* (src/src/services/coupon.service.js) and the redemption that payForRide *)
(* (payment.service.js) records once the payment is made, query by query.  *)
(* Payments takes the two counts as one look and follows the money; here   *)
(* the payment is a step that succeeds or does not.                        *)
(***************************************************************************)
EXTENDS Naturals, FiniteSets

CONSTANTS
    Trips,          \* completed rides, each paid for once
    PayerOf,        \* their passengers
    Checkouts,      \* payForRide requests that may be in flight at one time
    Limit,          \* Coupon.usageLimit
    PerUser,        \* Coupon.usagePerUser
    NoTrip          \* null

ASSUME LimitAssumption == Limit \in Nat \ {0} /\ PerUser \in Nat \ {0}
ASSUME TripsAssumption == IsFiniteSet(Trips) /\ IsFiniteSet(Checkouts) /\ NoTrip \notin Trips

VARIABLES
    redeemed,       \* the rides of the rows of CouponRedemption
    paidTrips,      \* the rides of the Payment table
    checkout        \* the requests in flight

redemptionVars == <<redeemed, paidTrips, checkout>>

NotPaying == [pc |-> "done", trip |-> NoTrip]

RedemptionInit ==
    /\ redeemed = {}
    /\ paidTrips = {}
    /\ checkout = [p \in Checkouts |-> NotPaying]

-----------------------------------------------------------------------------

Advance(p, pc) == checkout' = [checkout EXCEPT ![p].pc = pc]
GiveUp(p) == checkout' = [checkout EXCEPT ![p] = NotPaying]

\* findByCode, and the payment of the ride that is not there yet.
checkOut(p, t) ==
    /\ checkout[p] = NotPaying /\ t \notin paidTrips
    /\ checkout' = [checkout EXCEPT ![p] = [pc |-> "countAll", trip |-> t]]
    /\ UNCHANGED <<redeemed, paidTrips>>

BelowAnyLimit(n, limit) == TRUE
Below(n, limit) == n < limit

countAll(p) ==
    /\ checkout[p].pc = "countAll"
    /\ IF Below(Cardinality(redeemed), Limit) THEN Advance(p, "countOwn") ELSE GiveUp(p)
    /\ UNCHANGED <<redeemed, paidTrips>>

Own(p) == {t \in redeemed : PayerOf[t] = PayerOf[checkout[p].trip]}

countOwn(p) ==
    /\ checkout[p].pc = "countOwn"
    /\ IF Below(Cardinality(Own(p)), PerUser) THEN Advance(p, "pay") ELSE GiveUp(p)
    /\ UNCHANGED <<redeemed, paidTrips>>

\* rideId is unique in Payment: of two payments of one ride, one fails.
pay(p) ==
    LET t == checkout[p].trip IN
    /\ checkout[p].pc = "pay"
    /\ paidTrips' = paidTrips \cup {t}
    /\ IF t \in paidTrips THEN GiveUp(p) ELSE Advance(p, "redeem")
    /\ UNCHANGED redeemed

redeem(p) ==
    /\ checkout[p].pc = "redeem"
    /\ redeemed' = redeemed \cup {checkout[p].trip}
    /\ GiveUp(p)
    /\ UNCHANGED paidTrips

\* The instance dies, or the payment is refused.
dropCheckout(p) ==
    /\ checkout[p] # NotPaying
    /\ GiveUp(p)
    /\ UNCHANGED <<redeemed, paidTrips>>

RedemptionNext ==
    \E p \in Checkouts :
        \/ \E t \in Trips : checkOut(p, t)
        \/ countAll(p) \/ countOwn(p) \/ pay(p) \/ redeem(p) \/ dropCheckout(p)

RedemptionSpec == RedemptionInit /\ [][RedemptionNext]_redemptionVars

-----------------------------------------------------------------------------
(* Properties.                                                             *)

\* The types, and that only rides paid for redeem a coupon.
RedemptionTypeOK ==
    /\ paidTrips \subseteq Trips /\ redeemed \subseteq paidTrips
    /\ checkout \in [Checkouts -> [pc : {"done", "countAll", "countOwn", "pay", "redeem"},
                                   trip : Trips \cup {NoTrip}]]

\* The requests that have passed a count and may still redeem.
Past(steps) == {p \in Checkouts : checkout[p].pc \in steps}

\* "usageLimit could theoretically be oversold by a handful of requests racing
\* the count check" (coupon.service.js:20), and so could usagePerUser, by no more
\* than those: each redemption above a limit is one of a request that was
\* already past the count when the limit was reached.
OversellIsBounded ==
    /\ Cardinality(redeemed) + Cardinality(Past({"countOwn", "pay", "redeem"}))
          <= Limit + Cardinality(Checkouts) - 1
    /\ \A u \in {PayerOf[t] : t \in Trips} :
          Cardinality({t \in redeemed : PayerOf[t] = u})
              + Cardinality({p \in Past({"pay", "redeem"}) : PayerOf[checkout[p].trip] = u})
                  <= PerUser + Cardinality(Checkouts) - 1
===============================================================================
