------------------------------ MODULE MCPayments ------------------------------
(***************************************************************************)
(* Payments for TLC: one passenger, fares of two cents, a coupon worth     *)
(* one.                                                                    *)
(***************************************************************************)
EXTENDS Payments, TLC

CONSTANT U

AllOf == [i \in Intents |-> U]
TwoCents == [r \in Rides |-> 2]
OneCentOff == [k \in Coupons |-> [r \in Rides |-> 1]]
Once == [k \in Coupons |-> 1]
FiveAndMinusOne == {5, -1}
One == {1}

Symmetry == Permutations(Calls) \cup Permutations(Deliveries) \cup Permutations(Rides)

\* No action reads what Stripe has had answered.
Unacked == <<walletVars, tables, call, webhook, stripe>>

-----------------------------------------------------------------------------
(* What a check of the code says, and overlapping handlers break.          *)

\* "Refund amount must be between 0 and" what is left of the payment
\* (payment.service.js:266): the refunds of a payment never exceed it.
RefundsWithinPayment ==
    \A r \in Rides : RefundSum(r, LAMBDA row : TRUE) <= payment[r].amount
=============================================================================
