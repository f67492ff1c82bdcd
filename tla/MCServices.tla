------------------------------ MODULE MCServices ------------------------------
(***************************************************************************)
(* Six services for TLC that share no state: a behaviour is one of one of  *)
(* them, chosen at the start, and the others rest.                         *)
(***************************************************************************)
EXTENDS Vetting, Ratings, Coupons, Redemptions, StartCode, RideOffers

VARIABLE part

allVars == <<vetVars, ratingVars, couponVars, redemptionVars, codeVars, offerVars,
             part>>

\* Bob drives two of three rides and is driven in the third.
MCPassengerOf == <<"ann", "cid", "bob">>
MCPayerOf == <<"ann", "ann", "ann", "cid">>
MCDriverOf == <<"bob", "bob", "ann">>
MCRequesterOf == [b \in Bookings |-> "ann"]

MCInit ==
    /\ VettingInit /\ RatingInit /\ CouponInit /\ RedemptionInit /\ CodeInit
    /\ OfferInit
    /\ part \in {"vetting", "ratings", "coupons", "redemptions", "code", "offers"}

MCNext ==
    /\ part' = part
    /\ \/ part = "vetting" /\ VettingNext
             /\ UNCHANGED <<ratingVars, couponVars, redemptionVars, codeVars, offerVars>>
       \/ part = "ratings" /\ RatingNext
             /\ UNCHANGED <<vetVars, couponVars, redemptionVars, codeVars, offerVars>>
       \/ part = "coupons" /\ CouponNext
             /\ UNCHANGED <<vetVars, ratingVars, redemptionVars, codeVars, offerVars>>
       \/ part = "redemptions" /\ RedemptionNext
             /\ UNCHANGED <<vetVars, ratingVars, couponVars, codeVars, offerVars>>
       \/ part = "code" /\ CodeNext
             /\ UNCHANGED <<vetVars, ratingVars, couponVars, redemptionVars, offerVars>>
       \/ part = "offers" /\ OfferNext
             /\ UNCHANGED <<vetVars, ratingVars, couponVars, redemptionVars, codeVars>>

MCSpec == MCInit /\ [][MCNext]_allVars

\* The types of all that is kept.
ServicesTypeOK ==
    /\ VettingTypeOK /\ RatingTypeOK /\ CouponTypeOK
    /\ RedemptionTypeOK /\ CodeTypeOK /\ OfferTypeOK
===============================================================================
