-------------------------------- MODULE Coupons --------------------------------
(***************************************************************************)
(* Coupons as administrators write them and as a fare meets them:          *)
(* src/src/services/coupon.service.js with the two schemas of              *)
(* coupon.validator.js.  Redemptions and their limits are in Redemptions   *)
(* and Payments, which take for granted what DiscountFits states here.     *)
(*                                                                         *)
(* Money is counted in cents, a percentage in hundredths of a percent.     *)
(* toFixed(2) rounds to the nearest cent.                                  *)
(***************************************************************************)
EXTENDS Naturals

CONSTANTS
    Codes,
    Fares,        \* fares a coupon is offered for
    Values,       \* numbers an administrator may enter
    Days,         \* 0 .. the last day
    NoCoupon,     \* null
    Unlimited     \* maxDiscount and minRideFare when left out

ASSUME MoneyAssumption == Fares \subseteq Nat /\ Values \subseteq Nat \ {0}
ASSUME DaysAssumption == Days \subseteq Nat
ASSUME UnlimitedAssumption == Unlimited \notin Nat

VARIABLES
    coupon,       \* the Coupon table
    today,
    quoted        \* the last discount validateCoupon answered with

couponVars == <<coupon, today, quoted>>

Percent == 100
NoQuote == [fare |-> 0, discount |-> 0]

CouponInit ==
    /\ coupon = [k \in Codes |-> NoCoupon]
    /\ today = 0
    /\ quoted = NoQuote

\* Hundredths of a percent of cents are counted in Unit-ths of a cent.
Unit == 100 * Percent
Lower(a, b) == IF a <= b THEN a ELSE b
toCents(x) == (x + Unit \div 2) \div Unit
capped(x, max) == IF max = Unlimited THEN x ELSE Lower(x, max * Unit)

discountOf(k, fare) ==
    IF k.discountType = "PERCENTAGE" THEN fare * k.discountValue ELSE k.discountValue * Unit

\* "never discount more than the fare itself"
computeDiscountUncapped(k, fare) == toCents(capped(discountOf(k, fare), k.maxDiscount))
computeDiscount(k, fare) == toCents(Lower(capped(discountOf(k, fare), k.maxDiscount), fare * Unit))

validateCoupon(k, fare) ==
    /\ k # NoCoupon /\ k.isActive
    /\ k.validFrom <= today /\ today <= k.validTo
    /\ k.minRideFare # Unlimited => fare >= k.minRideFare

quote(c, fare) ==
    /\ validateCoupon(coupon[c], fare)
    /\ quoted' = [fare |-> fare, discount |-> computeDiscount(coupon[c], fare)]
    /\ UNCHANGED <<coupon, today>>

\* createCouponSchema holds the fields against each other; the code is unique.
createCoupon(c, type, value, max, min, from, to) ==
    /\ coupon[c] = NoCoupon
    /\ from < to
    /\ type = "PERCENTAGE" => value <= 100 * Percent
    /\ coupon' = [coupon EXCEPT ![c] =
          [discountType |-> type, discountValue |-> value, maxDiscount |-> max, minRideFare |-> min,
           validFrom |-> from, validTo |-> to, isActive |-> TRUE]]
    /\ UNCHANGED <<today, quoted>>

\* updateCouponSchema does not: any of the fields may change, each on its own.
updateCoupon(c) ==
    /\ coupon[c] # NoCoupon
    /\ \/ \E x \in Values : coupon' = [coupon EXCEPT ![c].discountValue = x]
       \/ \E x \in Values : coupon' = [coupon EXCEPT ![c].maxDiscount = x]
       \/ \E x \in Values : coupon' = [coupon EXCEPT ![c].minRideFare = x]
       \/ \E d \in Days : coupon' = [coupon EXCEPT ![c].validFrom = d]
       \/ \E d \in Days : coupon' = [coupon EXCEPT ![c].validTo = d]
       \/ \E b \in BOOLEAN : coupon' = [coupon EXCEPT ![c].isActive = b]
    /\ UNCHANGED <<today, quoted>>

nextDay ==
    /\ today + 1 \in Days
    /\ today' = today + 1
    /\ UNCHANGED <<coupon, quoted>>

CouponNext ==
    \/ \E c \in Codes, fare \in Fares : quote(c, fare)
    \/ \E c \in Codes, type \in {"PERCENTAGE", "FIXED"}, value \in Values,
          max, min \in Values \cup {Unlimited}, from, to \in Days :
             createCoupon(c, type, value, max, min, from, to)
    \/ \E c \in Codes : updateCoupon(c)
    \/ nextDay

CouponSpec == CouponInit /\ [][CouponNext]_couponVars

-----------------------------------------------------------------------------
(* Properties.                                                             *)

Coupon == [discountType : {"PERCENTAGE", "FIXED"}, discountValue : Values,
           maxDiscount : Values \cup {Unlimited}, minRideFare : Values \cup {Unlimited},
           validFrom : Days, validTo : Days, isActive : BOOLEAN]

\* The types: each field of a coupon is one somebody may enter.
CouponTypeOK ==
    /\ coupon \in [Codes -> Coupon \cup {NoCoupon}]
    /\ today \in Nat
    /\ quoted \in [fare : Nat, discount : Nat]

\* "never discount more than the fare itself" (coupon.service.js:13): whatever
\* administrators have made of a coupon, percentages above 100 included, what
\* remains to be paid of any fare it is quoted for is not negative.
DiscountFits == quoted.discount <= quoted.fare
===============================================================================
