------------------------------- MODULE Payments -------------------------------
(***************************************************************************)
(* Paying for rides: src/src/services/payment.service.js with coupons and  *)
(* the wallet, and Stripe as far as the code relies on it.                 *)
(*                                                                         *)
(* As in RideLifecycle, each awaited query or Stripe call is one step, a   *)
(* prisma.$transaction is one step, and a handler may end at any await.    *)
(* A ride has at most one Payment (rideId is unique) and rows are never    *)
(* deleted, so that a ride stands for its payment, and for the intent      *)
(* Stripe keeps under the idempotency key ride-payment-<ride>.             *)
(***************************************************************************)
EXTENDS WalletLedger, FiniteSetsExt

CONSTANTS
    Payer,         \* the user who is the passenger of a ride, or tops up
    Fare,          \* actualFare of each ride, all of them COMPLETED, in cents
    Coupons,
    Discount,      \* what a coupon takes off a fare: Discount[coupon][ride]
    UsageLimit,    \* Coupon.usageLimit
    UsagePerUser,  \* Coupon.usagePerUser
    TopUpAmounts,  \* what a user may top up, MIN_TOPUP to MAX_TOPUP
    Calls,         \* requests that may be in flight at one time
    Deliveries,    \* webhook deliveries that may be handled at one time
    Faults         \* what may fail: "app", "database", "stripe"

ASSUME PaymentsAssumption ==
    /\ Payer \in [Rides \cup TopUps -> Users]
    /\ Fare \in [Rides -> Nat]
    /\ Discount \in [Coupons -> [Rides -> Nat]]
    /\ \A k \in Coupons, r \in Rides : Discount[k][r] <= Fare[r]
    /\ TopUpAmounts \subseteq Nat
    /\ Rides \cap TopUps = {}
    /\ Null \notin Coupons
    /\ Faults \subseteq {"app", "database", "stripe"}

VARIABLES
    payment,     \* the Payment table, by ride
    refunds,     \* the Refund rows of each payment, oldest first
    redemption,  \* the CouponRedemption table: the coupon redeemed for a ride
    call,        \* the requests in flight
    webhook,     \* the webhook deliveries in flight
    intent,      \* Stripe: the PaymentIntents
    reversed,    \* Stripe: the refunds it has made of each ride's charge
    secret,      \* clients: the intents whose client secret they have
    events,      \* Stripe: the events it has to deliver
    acked        \* Stripe: those answered with 200

tables == <<payment, refunds, redemption>>
stripe == <<intent, reversed, secret, events>>
vars == <<walletVars, tables, call, webhook, stripe, acked>>

-----------------------------------------------------------------------------
(* Rows.                                                                   *)

Methods == {"CASH", "WALLET", "CARD"}
PaymentStatus == {"PENDING", "COMPLETED", "FAILED", "REFUNDED", "PARTIALLY_REFUNDED"}
RefundStatus == {"PENDING", "COMPLETED"}  \* those the code writes

NoPayment == [method |-> "NONE", status |-> "NONE", amount |-> 0]
Payment == [method : Methods, status : PaymentStatus, amount : Nat]

\* Stripe's id of a refund is the idempotency key it was made under: the
\* amount refunded before it, and its own.
Key == [already : Nat, amount : Nat]
Refund == [amount : Nat, status : RefundStatus, stripeRefundId : Key \cup {Null}]

Intents == Rides \cup TopUps
NoIntent == [status |-> "none", amount |-> 0]
Intent == [status : {"open", "succeeded", "canceled"}, amount : Nat]

Event == [type : {"succeeded", "payment_failed"}, intent : Intents]

\* Sum of the amounts of the refunds of a payment that satisfy a condition.
RefundSum(r, Counted(_)) ==
    MapThenSumSet(LAMBDA n : refunds[r][n].amount,
                  {n \in DOMAIN refunds[r] : Counted(refunds[r][n])})

sumCompletedByPayment(r) == RefundSum(r, LAMBDA row : row.status = "COMPLETED")

-----------------------------------------------------------------------------
(* Requests in flight.  "pc" names the next awaited operation; "already"   *)
(* and "result" are alreadyRefunded and the status of Stripe's refund.     *)

Steps == Methods \cup {"insert", "cancel", "redeem", "sum", "refund", "record"}
Call == [pc : Steps, ride : Rides, method : Methods, amount : Nat,
         coupon : Coupons \cup {Null}, already : Nat, result : RefundStatus]
Idle == [pc |-> "idle"]

Goto(c, pc) == call' = [call EXCEPT ![c].pc = pc]
Done(c) == call' = [call EXCEPT ![c] = Idle]

\* What follows the creation of the payment: the redemption of the coupon,
\* if there is one, and the response, which carries the client secret of a
\* card payment.  The response may be lost.
GetSecret(c) ==
    \/ /\ call[c].method = "CARD"
       /\ secret' = secret \cup {call[c].ride}
    \/ /\ call[c].method # "CARD" \/ "app" \in Faults
       /\ UNCHANGED secret

Created(c) ==
    IF call[c].coupon = Null
    THEN Done(c) /\ GetSecret(c)
    ELSE Goto(c, "redeem") /\ UNCHANGED secret

-----------------------------------------------------------------------------
(* coupon.service.js                                                       *)

countByCoupon(k) == Cardinality({r \in Rides : redemption[r] = k})
countByCouponAndUser(k, u) ==
    Cardinality({r \in Rides : redemption[r] = k /\ Payer[r] = u})

\* Expired and inactive coupons are refused, as if not given.
validateCoupon(k, u) ==
    /\ countByCoupon(k) < UsageLimit[k]
    /\ countByCouponAndUser(k, u) < UsagePerUser[k]

-----------------------------------------------------------------------------
(* payForRide, by each method.                                             *)

\* Mutant: rideId is not unique.
upsertPayment(r, method, status, amount) ==
    payment' = [payment EXCEPT ![r] = [method |-> method, status |-> status,
                                       amount |-> amount]]

createPayment(r, method, status, amount) ==
    /\ payment[r] = NoPayment
    /\ payment' = [payment EXCEPT ![r] = [method |-> method, status |-> status,
                                          amount |-> amount]]

\* The checks of the ride and the coupon.  Redemptions are only ever added,
\* so that counts taken one after the other allow no more than one look.
payForRide(c, r, method, k) ==
    /\ call[c] = Idle
    /\ payment[r] = NoPayment
    /\ k # Null => validateCoupon(k, Payer[r])
    /\ call' = [call EXCEPT ![c] =
                  [pc |-> method, ride |-> r, method |-> method, coupon |-> k,
                   amount |-> IF k = Null THEN Fare[r] ELSE Fare[r] - Discount[k][r],
                   already |-> 0, result |-> "COMPLETED"]]
    /\ UNCHANGED <<walletVars, tables, webhook, stripe, acked>>

payCash(c) ==
    /\ call[c].pc = "CASH"
    /\ createPayment(call[c].ride, "CASH", "COMPLETED", call[c].amount)
    /\ Created(c)
    /\ UNCHANGED <<walletVars, refunds, redemption, webhook, intent, reversed, events, acked>>

\* One transaction: the debit, its ledger entry and the payment.
payFromWallet(c) ==
    LET r == call[c].ride IN
    /\ call[c].pc = "WALLET"
    /\ debitRide(Payer[r], call[c].amount, r)
    /\ createPayment(r, "WALLET", "COMPLETED", call[c].amount)
    /\ Created(c)
    /\ UNCHANGED <<refunds, redemption, webhook, intent, reversed, events, acked>>

\* The balance does not cover the fare, or another request has paid: the
\* transaction rolls back.
rejectPayment(c) ==
    LET r == call[c].ride IN
    /\ call[c].pc \in {"CASH", "WALLET"}
    /\ \/ payment[r] # NoPayment
       \/ call[c].pc = "WALLET" /\ balance[Payer[r]] < call[c].amount
    /\ Done(c)
    /\ UNCHANGED <<walletVars, tables, webhook, stripe, acked>>

\* Stripe answers a repeated key with the intent made under it, provided the
\* amount is the same, and with an error otherwise.
createIntent(c) ==
    LET r == call[c].ride
        made == [status |-> "open", amount |-> call[c].amount] IN
    /\ call[c].pc = "CARD"
    /\ \/ /\ intent[r] = NoIntent /\ call[c].amount > 0
          /\ intent' = [intent EXCEPT ![r] = made]
          /\ Goto(c, "insert")
       \/ /\ intent[r] # NoIntent /\ intent[r].amount = call[c].amount
          /\ Goto(c, "insert") /\ UNCHANGED intent
       \/ /\ intent[r] # NoIntent => intent[r].amount # call[c].amount
          /\ intent[r] = NoIntent => call[c].amount = 0
          /\ Done(c) /\ UNCHANGED intent
    /\ UNCHANGED <<walletVars, tables, webhook, reversed, secret, events, acked>>

insertPayment(c) ==
    /\ call[c].pc = "insert"
    /\ createPayment(call[c].ride, "CARD", "PENDING", call[c].amount)
    /\ Created(c)
    /\ UNCHANGED <<walletVars, refunds, redemption, webhook, intent, reversed, events, acked>>

insertFails(c) ==
    /\ call[c].pc = "insert"
    /\ payment[call[c].ride] # NoPayment \/ "database" \in Faults
    /\ Goto(c, "cancel")
    /\ UNCHANGED <<walletVars, tables, webhook, stripe, acked>>

\* The compensation; Stripe does not cancel an intent that has succeeded.
cancelIntent(c) ==
    LET r == call[c].ride IN
    /\ call[c].pc = "cancel"
    /\ \/ /\ intent[r].status = "open"
          /\ intent' = [intent EXCEPT ![r].status = "canceled"]
       \/ /\ intent[r].status # "open" \/ "stripe" \in Faults
          /\ UNCHANGED intent
    /\ Done(c)
    /\ UNCHANGED <<walletVars, tables, webhook, reversed, secret, events, acked>>

redeemCoupon(c) ==
    LET r == call[c].ride IN
    /\ call[c].pc = "redeem"
    /\ redemption[r] = Null
    /\ redemption' = [redemption EXCEPT ![r] = call[c].coupon]
    /\ Done(c)
    /\ GetSecret(c)
    /\ UNCHANGED <<walletVars, payment, refunds, webhook, intent, reversed, events, acked>>

\* An instance dies, or a query is rejected.
failCall(c) ==
    /\ "app" \in Faults
    /\ call[c] # Idle
    /\ Done(c)
    /\ UNCHANGED <<walletVars, tables, webhook, stripe, acked>>

-----------------------------------------------------------------------------
(* handleStripeEvent.  A payment that is not there is passed over and the  *)
(* event answered with 200 all the same.                                   *)

\* Mutant: every event that applies completes the payment.
TargetCompleted(e) == "COMPLETED"

Target(e) == IF e.type = "succeeded" THEN "COMPLETED" ELSE "FAILED"

\* Mutant: a payment that was declined is settled.
AppliesToPending(e) == payment[e.intent].status = "PENDING"

\* "succeeded" is the final word whatever came before; "payment_failed" only
\* settles a payment nothing has settled.
Applies(e) ==
    IF e.type = "succeeded"
    THEN payment[e.intent].status \notin {"NONE", "COMPLETED"}
    ELSE payment[e.intent].status = "PENDING"

PaymentOf(e) == payment[e.intent].method = "CARD"

findPayment(d, e) ==
    /\ webhook[d] = Idle
    /\ e \in events /\ e.intent \in Rides
    /\ \/ /\ PaymentOf(e) /\ Applies(e)
          /\ webhook' = [webhook EXCEPT ![d] = e]
          /\ UNCHANGED acked
       \/ /\ ~(PaymentOf(e) /\ Applies(e))
          /\ acked' = acked \cup {e}
          /\ UNCHANGED webhook
    /\ UNCHANGED <<walletVars, tables, call, stripe>>

writeStatus(d) ==
    LET e == webhook[d] IN
    /\ e # Idle
    /\ payment' = [payment EXCEPT ![e.intent].status = Target(e)]
    /\ webhook' = [webhook EXCEPT ![d] = Idle]
    /\ acked' = acked \cup {e}
    /\ UNCHANGED <<walletVars, refunds, redemption, call, stripe>>

failDelivery(d) ==
    /\ "app" \in Faults
    /\ webhook[d] # Idle
    /\ webhook' = [webhook EXCEPT ![d] = Idle]
    /\ UNCHANGED <<walletVars, tables, call, stripe, acked>>

\* Mutant: a decline is booked too.
CreditsAny(e) == TRUE

\* A decline has nothing to roll back.
Credits(e) == e.type = "succeeded"

deliverTopUp(e) ==
    /\ e \in events /\ e.intent \in TopUps
    /\ IF Credits(e)
       THEN confirmTopUp(Payer[e.intent], intent[e.intent].amount, e.intent)
       ELSE UNCHANGED walletVars
    /\ acked' = acked \cup {e}
    /\ UNCHANGED <<tables, call, webhook, stripe>>

-----------------------------------------------------------------------------
(* refundPayment.                                                          *)

refundPayment(c, r) ==
    /\ call[c] = Idle
    /\ payment[r].status \in {"COMPLETED", "PARTIALLY_REFUNDED"}
    /\ call' = [call EXCEPT ![c] =
                  [pc |-> "sum", ride |-> r, method |-> payment[r].method, coupon |-> Null,
                   amount |-> payment[r].amount, already |-> 0, result |-> "COMPLETED"]]
    /\ UNCHANGED <<walletVars, tables, webhook, stripe, acked>>

\* Any amount up to what is left; left out, it is what is left.
sumRefunds(c) ==
    LET sum == sumCompletedByPayment(call[c].ride) IN
    /\ call[c].pc = "sum"
    /\ \/ \E already \in 0..call[c].amount, amount \in 1..call[c].amount :
             /\ already = sum /\ already + amount <= call[c].amount
             /\ call' = [call EXCEPT
                           ![c].pc = IF call[c].method = "CARD" THEN "refund" ELSE "record",
                           ![c].already = already, ![c].amount = amount]
       \/ sum >= call[c].amount /\ Done(c)
    /\ UNCHANGED <<walletVars, tables, webhook, stripe, acked>>

\* Mutant: a status the enum does not have.
newStatusMisspelt(c) == "REFUND"

newStatus(c) ==
    IF call[c].already + call[c].amount >= payment[call[c].ride].amount
    THEN "REFUNDED" ELSE "PARTIALLY_REFUNDED"

\* The refund row and the new status of the payment.
createRefund(c, stripeRefundId) ==
    LET r == call[c].ride IN
    /\ refunds' = [refunds EXCEPT ![r] = Append(@,
                     [amount |-> call[c].amount, status |-> call[c].result,
                      stripeRefundId |-> stripeRefundId])]
    /\ payment' = [payment EXCEPT ![r].status = newStatus(c)]

\* One transaction: the row, the credit to the payer's wallet and the status.
refundToWallet(c) ==
    LET r == call[c].ride IN
    /\ call[c].pc = "record" /\ call[c].method # "CARD"
    /\ createRefund(c, Null)
    /\ creditRefund(Payer[r], call[c].amount, <<r, Len(refunds[r]) + 1>>)
    /\ Done(c)
    /\ UNCHANGED <<redemption, webhook, stripe, acked>>

sumReversed(r) == MapThenSumSet(LAMBDA f : f.key.amount, reversed[r])

KeyOf(c) == [already |-> call[c].already, amount |-> call[c].amount]

\* Stripe answers a repeated key with the refund made under it; it refuses
\* what the charge does not cover.  A refund may take days to be paid out.
refundCharge(c) ==
    LET r == call[c].ride
        key == KeyOf(c) IN
    /\ call[c].pc = "refund"
    /\ \/ \E f \in reversed[r] :
             /\ f.key = key
             /\ call' = [call EXCEPT ![c].pc = "record", ![c].result = f.status]
             /\ UNCHANGED reversed
       \/ /\ \A f \in reversed[r] : f.key # key
          /\ intent[r].status = "succeeded" /\ sumReversed(r) + key.amount <= intent[r].amount
          /\ \E status \in RefundStatus :
                /\ reversed' = [reversed EXCEPT ![r] = @ \cup {[key |-> key, status |-> status]}]
                /\ call' = [call EXCEPT ![c].pc = "record", ![c].result = status]
       \/ /\ \A f \in reversed[r] : f.key # key
          /\ intent[r].status = "succeeded" => sumReversed(r) + key.amount > intent[r].amount
          /\ Done(c) /\ UNCHANGED reversed
    /\ UNCHANGED <<walletVars, tables, webhook, intent, secret, events, acked>>

\* Mutant: stripeRefundId is not unique.
RecordableAgain(r, key) == TRUE

Recordable(r, key) == \A n \in DOMAIN refunds[r] : refunds[r][n].stripeRefundId # key

recordRefund(c) ==
    LET r == call[c].ride IN
    /\ call[c].pc = "record" /\ call[c].method = "CARD"
    /\ \/ Recordable(r, KeyOf(c)) /\ createRefund(c, KeyOf(c))
       \/ ~Recordable(r, KeyOf(c)) /\ UNCHANGED <<refunds, payment>>
    /\ Done(c)
    /\ UNCHANGED <<walletVars, redemption, webhook, stripe, acked>>

-----------------------------------------------------------------------------
(* Clients, the administrator and Stripe.                                  *)

initiateTopUp(t, amount) ==
    /\ intent[t] = NoIntent
    /\ intent' = [intent EXCEPT ![t] = [status |-> "open", amount |-> amount]]
    /\ secret' = secret \cup {t}
    /\ UNCHANGED <<walletVars, tables, call, webhook, reversed, events, acked>>

adjust(u, halves) ==
    /\ Cardinality(AdjustmentsOf(u)) < MaxAdjustments
    /\ adjustBalance(u, halves)
    /\ UNCHANGED <<tables, call, webhook, stripe, acked>>

\* Only who has the client secret can confirm an intent; a card that is
\* declined leaves it open.
confirm(i) ==
    /\ i \in secret /\ intent[i].status = "open"
    /\ intent' = [intent EXCEPT ![i].status = "succeeded"]
    /\ events' = events \cup {[type |-> "succeeded", intent |-> i]}
    /\ UNCHANGED <<walletVars, tables, call, webhook, reversed, secret, acked>>

decline(i) ==
    /\ i \in secret /\ intent[i].status = "open"
    /\ events' = events \cup {[type |-> "payment_failed", intent |-> i]}
    /\ UNCHANGED <<walletVars, tables, call, webhook, intent, reversed, secret, acked>>

-----------------------------------------------------------------------------
Init ==
    /\ WalletInit
    /\ payment = [r \in Rides |-> NoPayment]
    /\ refunds = [r \in Rides |-> <<>>]
    /\ redemption = [r \in Rides |-> Null]
    /\ call = [c \in Calls |-> Idle]
    /\ webhook = [d \in Deliveries |-> Idle]
    /\ intent = [i \in Intents |-> NoIntent]
    /\ reversed = [r \in Rides |-> {}]
    /\ secret = {} /\ events = {} /\ acked = {}

Pay(c) ==
    \/ \E r \in Rides, method \in Methods, k \in Coupons \cup {Null} : payForRide(c, r, method, k)
    \/ payCash(c) \/ payFromWallet(c) \/ rejectPayment(c)
    \/ createIntent(c) \/ insertPayment(c) \/ insertFails(c) \/ cancelIntent(c)
    \/ redeemCoupon(c)

RefundOf(c) ==
    \/ \E r \in Rides : refundPayment(c, r)
    \/ sumRefunds(c) \/ refundToWallet(c) \/ refundCharge(c) \/ recordRefund(c)

Deliver ==
    \/ \E d \in Deliveries : writeStatus(d) \/ failDelivery(d) \/ \E e \in Event : findPayment(d, e)
    \/ \E e \in Event : deliverTopUp(e)

Environment ==
    \/ \E t \in TopUps, amount \in TopUpAmounts : initiateTopUp(t, amount)
    \/ \E u \in Users, halves \in Adjustments : adjust(u, halves)
    \/ \E i \in Intents : confirm(i) \/ decline(i)

Next == (\E c \in Calls : Pay(c) \/ RefundOf(c) \/ failCall(c)) \/ Deliver \/ Environment

Spec == Init /\ [][Next]_vars

Succeeded(i) == [type |-> "succeeded", intent |-> i]

\* Stripe delivers a success until it is answered with 200, and now and then
\* a delivery is not cut short.  Nothing is assumed of requests, of clients
\* or of declines.
Fairness ==
    /\ \A d \in Deliveries : WF_vars(writeStatus(d))
    /\ \A r \in Rides :
          /\ SF_vars(Succeeded(r) \notin acked
                     /\ \E d \in Deliveries : findPayment(d, Succeeded(r)))
          /\ SF_vars(\E d \in Deliveries : webhook[d] = Succeeded(r) /\ writeStatus(d))
    /\ \A t \in TopUps : SF_vars(Succeeded(t) \notin acked /\ deliverTopUp(Succeeded(t)))

FairSpec == Spec /\ Fairness

-----------------------------------------------------------------------------
(* Properties.                                                             *)

TypeOK ==
    /\ WalletTypeOK
    /\ payment \in [Rides -> Payment \cup {NoPayment}]
    /\ refunds \in [Rides -> Seq(Refund)]
    /\ redemption \in [Rides -> Coupons \cup {Null}]
    /\ call \in [Calls -> Call \cup {Idle}]
    /\ webhook \in [Deliveries -> Event \cup {Idle}]
    /\ intent \in [Intents -> Intent \cup {NoIntent}]
    /\ reversed \in [Rides -> SUBSET [key : Key, status : RefundStatus]]
    /\ secret \subseteq Intents
    /\ events \subseteq Event /\ acked \subseteq Event

EntriesOf(u, reason, ref) ==
    {n \in DOMAIN ledger[u] : ledger[u][n].reason = reason /\ ledger[u][n].referenceId = ref}

\* A ride is paid for once, and by the method on record: the wallet of its
\* passenger is debited for it exactly if the payment is a WALLET payment, by
\* its amount, and Stripe has charged a card only if it is a CARD payment, by
\* its amount.  Concurrent requests by different methods never both take the
\* money (payment.service.js:24, 120).
PaidOnce ==
    \A r \in Rides :
        /\ payment[r].method = "WALLET" <=> EntriesOf(Payer[r], "RIDE_PAYMENT", r) # {}
        /\ \A n \in EntriesOf(Payer[r], "RIDE_PAYMENT", r) :
              ledger[Payer[r]][n].amount = payment[r].amount
        /\ intent[r].status = "succeeded" =>
              payment[r].method = "CARD" /\ payment[r].amount = intent[r].amount

\* A card payment is COMPLETED, or refunded, only after Stripe has charged the
\* card, whatever the order in which events arrive (payment.service.js:200).
CompletedIsCharged ==
    \A r \in Rides :
        payment[r].method = "CARD" /\ payment[r].status \notin {"PENDING", "FAILED"}
        => intent[r].status = "succeeded"

\* A refund row of a wallet or cash payment and the credit to its payer's
\* wallet stand or fall together (payment.service.js:311).
RefundsAreCredited ==
    /\ \A r \in Rides : payment[r].method # "CARD" =>
          \A n \in DOMAIN refunds[r] : \E m \in EntriesOf(Payer[r], "REFUND", <<r, n>>) :
              ledger[Payer[r]][m].amount = refunds[r][n].amount
    /\ \A u \in Users : \A m \in DOMAIN ledger[u] :
          ledger[u][m].reason = "REFUND" =>
              \E r \in Rides : \E n \in DOMAIN refunds[r] :
                  /\ payment[r].method # "CARD"
                  /\ ledger[u][m].referenceId = <<r, n>>

\* Each of Stripe's refunds is recorded at most once, so that the refunds of
\* a card payment never exceed the charge (payment.service.js:282).
CardRefundsWithinCharge ==
    \A r \in Rides : payment[r].method = "CARD" =>
        RefundSum(r, LAMBDA row : TRUE) <= payment[r].amount

\* A redemption is a discount given: the ride is paid for, at the fare less
\* what the coupon takes off (payment.service.js:158).
RedeemedIsDiscounted ==
    \A r \in Rides : redemption[r] # Null =>
        payment[r] # NoPayment /\ payment[r].amount = Fare[r] - Discount[redemption[r]][r]

\* A top-up credits what Stripe has charged, and nothing else
\* (wallet.service.js:38).
TopUpIsCharged ==
    \A t \in TopUps : \A n \in EntriesOf(Payer[t], "TOPUP", t) :
        intent[t].status = "succeeded" /\ ledger[Payer[t]][n].amount = intent[t].amount

\* The secret of a card payment is in the client's hands only once the
\* payment is on record, so that no event ever finds it missing
\* (payment.service.js:120).
EventsFindPayment ==
    \A e \in events : e.intent \in Rides => payment[e.intent].method = "CARD"

Booked(i) ==
    IF i \in Rides
    THEN payment[i].status \in {"COMPLETED", "PARTIALLY_REFUNDED", "REFUNDED"}
    ELSE EntriesOf(Payer[i], "TOPUP", i) # {}

\* Every charge reaches the books: as long as Stripe has not had the success
\* of an intent answered, the payment or the top-up is still to be booked, and
\* eventually is, though instances die in the middle of deliveries
\* (payment.service.js:194).
ChargesAreBooked ==
    \A i \in Intents :
        (intent[i].status = "succeeded" /\ Succeeded(i) \notin acked) ~> Booked(i)
=============================================================================
