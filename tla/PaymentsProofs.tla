---------------------------- MODULE PaymentsProofs ----------------------------
(***************************************************************************)
(* Theorems about WalletLedger and Payments, for any rides, users,         *)
(* coupons, top-ups, adjustments, requests, deliveries and faults.         *)
(***************************************************************************)
EXTENDS Payments, FiniteSetTheorems, TLAPS

-----------------------------------------------------------------------------
(* Rounding.                                                               *)

\* A credit is rounded alike in the balance and in its entry.
LEMMA CentsCredited ==
    ASSUME NEW b \in Nat, NEW h \in Nat
    PROVE  /\ Cents(h) \in Nat
           /\ Cents(2 * b + h) = b + Cents(h)
  BY DEF Cents

\* A debit is, if it is one of whole cents; half a cent more, and the balance
\* is rounded up and so is the entry.
LEMMA CentsDebited ==
    ASSUME NEW b \in Nat, NEW h \in Nat, 2 * b >= h
    PROVE  /\ Cents(2 * b - h) \in Nat
           /\ \/ Cents(2 * b - h) = b - Cents(h)
              \/ Cents(2 * b - h) = b - Cents(h) + 1
           /\ \A c \in Nat : h = 2 * c => Cents(2 * b - h) = b - Cents(h)
  BY DEF Cents

-----------------------------------------------------------------------------
(* The invariant is inductive as it stands: a transaction adds one entry   *)
(* to one ledger, and changes the balance as the entry says.               *)

WInv == WalletTypeOK /\ NeverOverdrawn /\ LedgerChains /\ BookedOnce

\* The entry e takes a balance b to the one it records.
Takes(b, e) ==
    \/ e.type = "CREDIT" /\ e.balanceAfter = b + e.amount
    \/ e.type = "DEBIT" /\ e.balanceAfter = b - e.amount
    \/ e.type = "DEBIT" /\ e.reason = "ADJUSTMENT" /\ e.balanceAfter = b - e.amount + 1

\* What a transaction of wallet.service.js comes to.
Books(u, e) ==
    /\ e.balanceAfter \in Nat
    /\ Takes(balance[u], e)
    /\ Unique(u, e.reason, e.referenceId)
    /\ balance' = [balance EXCEPT ![u] = e.balanceAfter]
    /\ ledger' = [ledger EXCEPT ![u] = Append(@, e)]

\* After it, the ledger is the old one and the entry.
LEMMA Appended ==
    ASSUME WalletTypeOK, NEW u \in Users, NEW e \in Entry, Books(u, e)
    PROVE  /\ WalletTypeOK'
           /\ Len(ledger[u]) \in Nat /\ DOMAIN ledger[u] = 1..Len(ledger[u])
           /\ Len(ledger'[u]) = Len(ledger[u]) + 1
           /\ DOMAIN ledger'[u] = 1..(Len(ledger[u]) + 1)
           /\ \A n \in DOMAIN ledger[u] : ledger'[u][n] = ledger[u][n]
           /\ ledger'[u][Len(ledger[u]) + 1] = e
           /\ balance'[u] = e.balanceAfter
           /\ \A v \in Users : v # u => ledger'[v] = ledger[v] /\ balance'[v] = balance[v]
  <1>1. ledger[u] \in Seq(Entry) /\ ledger'[u] = Append(ledger[u], e)
    BY DEF WalletTypeOK, Books
  <1>2. e.balanceAfter \in Int
    BY DEF Entry
  <1>3. WalletTypeOK'
    <2>1. balance' \in [Users -> Int]
      BY <1>2 DEF WalletTypeOK, Books
    <2>2. Append(ledger[u], e) \in Seq(Entry)
      BY <1>1
    <2>3. ledger' \in [Users -> Seq(Entry)]
      BY <2>2 DEF WalletTypeOK, Books
    <2> QED
      BY <2>1, <2>3 DEF WalletTypeOK
  <1>4. \A v \in Users : v # u => ledger'[v] = ledger[v] /\ balance'[v] = balance[v]
    BY DEF WalletTypeOK, Books
  <1>5. balance'[u] = e.balanceAfter
    BY DEF WalletTypeOK, Books
  <1> QED
    BY <1>1, <1>3, <1>4, <1>5

LEMMA BookingChains ==
    ASSUME WInv, NEW u \in Users, NEW e \in Entry, Books(u, e)
    PROVE  LedgerChains'
  <1> DEFINE N == Len(ledger[u])
             After(v, n) == IF n = 1 THEN 0 ELSE ledger'[v][n - 1].balanceAfter
  <1>1. WalletTypeOK
    BY DEF WInv
  <1>2. N \in Nat /\ DOMAIN ledger[u] = 1..N /\ DOMAIN ledger'[u] = 1..(N + 1)
        /\ Len(ledger'[u]) = N + 1
    BY <1>1, Appended
  <1>3. /\ \A n \in 1..N : ledger'[u][n] = ledger[u][n]
        /\ ledger'[u][N + 1] = e
        /\ balance'[u] = e.balanceAfter
    BY <1>1, <1>2, Appended
  <1>4. \A v \in Users : v # u => ledger'[v] = ledger[v] /\ balance'[v] = balance[v]
    BY <1>1, Appended
  <1>5. \A v \in Users :
            /\ \A n \in DOMAIN ledger[v] : Takes(Before(v, n), ledger[v][n])
            /\ balance[v] = Before(v, Len(ledger[v]) + 1)
    BY DEF WInv, LedgerChains, Takes
  <1>6. \A n \in 1..(N + 1) : After(u, n) = Before(u, n)
    BY <1>2, <1>3 DEF Before
  <1>7. Takes(Before(u, N + 1), e)
    BY <1>5 DEF Books
  <1>8. \A n \in 1..(N + 1) : Takes(After(u, n), ledger'[u][n])
    <2> TAKE n \in 1..(N + 1)
    <2>1. CASE n = N + 1
      BY <2>1, <1>2, <1>3, <1>6, <1>7
    <2>2. CASE n \in 1..N
      BY <2>2, <1>2, <1>3, <1>5, <1>6
    <2> QED
      BY <2>1, <2>2, <1>2
  <1>9. balance'[u] = After(u, N + 2)
    BY <1>2, <1>3 DEF Before
  <1>10. \A v \in Users : v # u => \A n \in Int : After(v, n) = Before(v, n)
    BY <1>4 DEF Before
  <1>11. \A v \in Users :
            /\ \A n \in DOMAIN ledger'[v] : Takes(After(v, n), ledger'[v][n])
            /\ balance'[v] = After(v, Len(ledger'[v]) + 1)
    <2> TAKE v \in Users
    <2>1. CASE v = u
      BY <2>1, <1>2, <1>8, <1>9
    <2>2. CASE v # u
      <3>1. ledger[v] \in Seq(Entry)
        BY <1>1 DEF WalletTypeOK
      <3>2. DOMAIN ledger[v] \subseteq Int /\ Len(ledger[v]) + 1 \in Int
        BY <3>1
      <3>3. ledger'[v] = ledger[v] /\ balance'[v] = balance[v]
        BY <2>2, <1>4
      <3>4. \A n \in Int : After(v, n) = Before(v, n)
        BY <2>2, <1>10
      <3> HIDE DEF After
      <3>5. \A n \in DOMAIN ledger'[v] : Takes(After(v, n), ledger'[v][n])
        BY <3>2, <3>3, <3>4, <1>5
      <3>6. balance'[v] = After(v, Len(ledger'[v]) + 1)
        BY <3>2, <3>3, <3>4, <1>5
      <3> QED
        BY <3>5, <3>6
    <2> QED
      BY <2>1, <2>2
  <1> QED
    BY <1>11 DEF LedgerChains, Takes, Before

LEMMA BookingOnce ==
    ASSUME WInv, NEW u \in Users, NEW e \in Entry, Books(u, e)
    PROVE  BookedOnce'
  <1> DEFINE N == Len(ledger[u])
  <1>1. WalletTypeOK
    BY DEF WInv
  <1>2. N \in Nat /\ DOMAIN ledger[u] = 1..N /\ DOMAIN ledger'[u] = 1..(N + 1)
        /\ (\A n \in 1..N : ledger'[u][n] = ledger[u][n])
        /\ ledger'[u][N + 1] = e
    BY <1>1, Appended
  <1>3. \A v \in Users : v # u => ledger'[v] = ledger[v]
    BY <1>1, Appended
  <1>4. e.referenceId # Null => \A n \in 1..N :
            ledger[u][n].reason # e.reason \/ ledger[u][n].referenceId # e.referenceId
    BY <1>2 DEF Books, Unique
  <1>5. ASSUME NEW m \in 1..(N + 1), NEW n \in 1..(N + 1),
               ledger'[u][m].reason = ledger'[u][n].reason,
               ledger'[u][m].referenceId = ledger'[u][n].referenceId,
               ledger'[u][m].referenceId # Null
        PROVE  m = n
    <2>1. CASE m \in 1..N /\ n \in 1..N
      BY <2>1, <1>2, <1>5 DEF WInv, BookedOnce
    <2>2. CASE m = N + 1 /\ n \in 1..N
      BY <2>2, <1>2, <1>4, <1>5
    <2>3. CASE m \in 1..N /\ n = N + 1
      BY <2>3, <1>2, <1>4, <1>5
    <2>4. CASE m = N + 1 /\ n = N + 1
      BY <2>4
    <2> QED
      BY <2>1, <2>2, <2>3, <2>4, <1>2
  <1>6. ASSUME NEW v \in Users, NEW m \in DOMAIN ledger'[v], NEW n \in DOMAIN ledger'[v],
               ledger'[v][m].reason = ledger'[v][n].reason,
               ledger'[v][m].referenceId = ledger'[v][n].referenceId,
               ledger'[v][m].referenceId # Null
        PROVE  m = n
    <2>1. CASE v = u
      BY <2>1, <1>2, <1>5, <1>6
    <2>2. CASE v # u
      BY <2>2, <1>3, <1>6 DEF WInv, BookedOnce
    <2> QED
      BY <2>1, <2>2
  <1> QED
    BY <1>6 DEF BookedOnce

LEMMA BookingKeepsWInv ==
    ASSUME WInv, NEW u \in Users, NEW e \in Entry, Books(u, e)
    PROVE  WInv'
  <1>1. WalletTypeOK'
    BY Appended DEF WInv
  <1>2. NeverOverdrawn'
    BY Appended DEF WInv, NeverOverdrawn, Books
  <1> QED
    BY <1>1, <1>2, BookingChains, BookingOnce DEF WInv

-----------------------------------------------------------------------------
(* Each transaction books an entry.                                        *)

LEMMA CreditBooks ==
    ASSUME WInv, NEW u \in Users, NEW reason \in Reasons, NEW h \in Nat,
           NEW ref \in References,
           credit(u, h), createTransaction(u, "CREDIT", reason, h, ref)
    PROVE  \E e \in Entry : Books(u, e)
  <1> DEFINE e == [type |-> "CREDIT", reason |-> reason, amount |-> Cents(h),
                   balanceAfter |-> balance[u] + Cents(h), referenceId |-> ref]
  <1>1. balance[u] \in Nat /\ balance \in [Users -> Int]
    BY DEF WInv, WalletTypeOK, NeverOverdrawn
  <1>2. Cents(h) \in Nat /\ Cents(2 * balance[u] + h) = balance[u] + Cents(h)
    BY <1>1, CentsCredited
  <1>3. /\ balance' = [balance EXCEPT ![u] = balance[u] + Cents(h)]
        /\ balance'[u] = balance[u] + Cents(h)
    BY <1>1, <1>2 DEF credit
  <1>4. e \in Entry /\ Takes(balance[u], e) /\ e.balanceAfter \in Nat
    BY <1>1, <1>2 DEF Entry, Types, Takes
  <1>5. Unique(u, reason, ref) /\ ledger' = [ledger EXCEPT ![u] = Append(@, e)]
    BY <1>3 DEF createTransaction
  <1> QED
    BY <1>3, <1>4, <1>5 DEF Books

LEMMA DebitBooks ==
    ASSUME WInv, NEW u \in Users, NEW reason \in Reasons, NEW h \in Nat,
           NEW ref \in References,
           reason = "ADJUSTMENT" \/ \E c \in Nat : h = 2 * c,
           tryDebit(u, h), createTransaction(u, "DEBIT", reason, h, ref)
    PROVE  \E e \in Entry : Books(u, e)
  <1> DEFINE left == Cents(2 * balance[u] - h)
             e == [type |-> "DEBIT", reason |-> reason, amount |-> Cents(h),
                   balanceAfter |-> left, referenceId |-> ref]
  <1>1. balance[u] \in Nat /\ balance \in [Users -> Int]
    BY DEF WInv, WalletTypeOK, NeverOverdrawn
  <1>2. /\ Cents(h) \in Nat /\ left \in Nat
        /\ left = balance[u] - Cents(h) \/ left = balance[u] - Cents(h) + 1
        /\ (\A c \in Nat : h = 2 * c => left = balance[u] - Cents(h))
    BY <1>1, CentsCredited, CentsDebited DEF tryDebit
  <1>3. balance' = [balance EXCEPT ![u] = left] /\ balance'[u] = left
    BY <1>1 DEF tryDebit
  <1> HIDE DEF left
  <1>4. \/ left = balance[u] - Cents(h)
        \/ reason = "ADJUSTMENT" /\ left = balance[u] - Cents(h) + 1
    <2>1. CASE reason = "ADJUSTMENT"
      BY <1>2, <2>1
    <2>2. CASE \E c \in Nat : h = 2 * c
      BY <1>2, <2>2
    <2> QED
      BY <2>1, <2>2
  <1>5. e \in Entry /\ e.balanceAfter \in Nat
    BY <1>2 DEF Entry, Types
  <1>6. Takes(balance[u], e)
    BY <1>4 DEF Takes
  <1>7. Unique(u, reason, ref) /\ ledger' = [ledger EXCEPT ![u] = Append(@, e)]
    BY <1>3 DEF createTransaction
  <1> QED
    BY <1>3, <1>5, <1>6, <1>7 DEF Books

LEMMA WalletBooks ==
    ASSUME WInv, [WalletNext]_walletVars
    PROVE  UNCHANGED walletVars \/ \E u \in Users, e \in Entry : Books(u, e)
  <1>1. ASSUME NEW u \in Users, NEW t \in TopUps, NEW cents \in Nat, confirmTopUp(u, cents, t)
        PROVE  UNCHANGED walletVars \/ \E e \in Entry : Books(u, e)
    <2>1. 2 * cents \in Nat /\ t \in References /\ "TOPUP" \in Reasons
      BY DEF References, Reasons
    <2> QED
      BY <1>1, <2>1, CreditBooks DEF confirmTopUp
  <1>2. ASSUME NEW u \in Users, NEW r \in Rides, NEW cents \in Nat, debitRide(u, cents, r)
        PROVE  \E e \in Entry : Books(u, e)
    <2>1. 2 * cents \in Nat /\ r \in References /\ "RIDE_PAYMENT" \in Reasons
      BY DEF References, Reasons
    <2> QED
      BY <1>2, <2>1, DebitBooks DEF debitRide
  <1>3. ASSUME NEW u \in Users, NEW ref \in Rides \X Nat, NEW cents \in Nat,
               creditRefund(u, cents, ref)
        PROVE  \E e \in Entry : Books(u, e)
    <2>1. 2 * cents \in Nat /\ ref \in References /\ "REFUND" \in Reasons
      BY DEF References, Reasons
    <2> QED
      BY <1>3, <2>1, CreditBooks DEF creditRefund
  <1>4. ASSUME NEW u \in Users, NEW h \in Adjustments, adjustBalance(u, h)
        PROVE  \E e \in Entry : Books(u, e)
    <2>1. h \in Int /\ Null \in References /\ "ADJUSTMENT" \in Reasons
      BY WalletAssumption DEF References, Reasons
    <2>2. CASE h >= 0 /\ credit(u, h) /\ createTransaction(u, "CREDIT", "ADJUSTMENT", h, Null)
      BY <2>1, <2>2, CreditBooks
    <2>3. CASE h < 0 /\ tryDebit(u, -h) /\ createTransaction(u, "DEBIT", "ADJUSTMENT", -h, Null)
      <3>1. -h \in Nat
        BY <2>1, <2>3
      <3> QED
        BY <2>1, <2>3, <3>1, DebitBooks
    <2> QED
      BY <1>4, <2>2, <2>3 DEF adjustBalance
  <1> QED
    BY <1>1, <1>2, <1>3, <1>4 DEF WalletNext

LEMMA WalletStep ==
    ASSUME WInv, [WalletNext]_walletVars
    PROVE  WInv'
  <1>1. CASE UNCHANGED walletVars
    <2>1. balance' = balance /\ ledger' = ledger
      BY <1>1 DEF walletVars
    <2>2. WalletTypeOK' /\ NeverOverdrawn'
      BY <2>1 DEF WInv, WalletTypeOK, NeverOverdrawn
    <2>3. LedgerChains'
      BY <2>1 DEF WInv, LedgerChains, Before
    <2>4. BookedOnce'
      BY <2>1 DEF WInv, BookedOnce
    <2> QED
      BY <2>2, <2>3, <2>4 DEF WInv
  <1> QED
    BY <1>1, WalletBooks, BookingKeepsWInv

-----------------------------------------------------------------------------
LEMMA WalletStart == WalletInit => WInv
  BY DEF WalletInit, WInv, WalletTypeOK, NeverOverdrawn, LedgerChains, BookedOnce, Before

\* Wallets keep their types, are never overdrawn, agree with their ledgers and
\* book every reference once, whoever uses them and whatever for
\* (wallet.repository.js:37, wallet.service.js:50).
THEOREM WalletsAreSound == WalletSpec => []WInv
  <1> QED
    BY WalletStart, WalletStep, PTL DEF WalletSpec

-----------------------------------------------------------------------------
(* The inductive invariant.                                                *)

\* TypeOK without the types of wallets.
TypesOK ==
    /\ payment \in [Rides -> Payment \cup {NoPayment}]
    /\ refunds \in [Rides -> Seq(Refund)]
    /\ redemption \in [Rides -> Coupons \cup {Null}]
    /\ call \in [Calls -> Call \cup {Idle}]
    /\ webhook \in [Deliveries -> Event \cup {Idle}]
    /\ intent \in [Intents -> Intent \cup {NoIntent}]
    /\ reversed \in [Rides -> SUBSET [key : Key, status : RefundStatus]]
    /\ secret \subseteq Intents
    /\ events \subseteq Event /\ acked \subseteq Event

\* Stripe has an intent of this amount for the ride.
IntentFor(r, amount) == intent[r].status # "none" /\ intent[r].amount = amount

\* What a request in flight has seen or done, and nobody undoes.
CallHolds(c) ==
    LET r == call[c].ride
        p == payment[r] IN
    /\ call[c].pc \in Methods => call[c].pc = call[c].method
    /\ call[c].pc \in Methods \cup {"insert", "redeem"} /\ call[c].coupon # Null =>
          call[c].amount = Fare[r] - Discount[call[c].coupon][r]
    /\ call[c].pc \in {"insert", "cancel"} =>
          call[c].method = "CARD" /\ IntentFor(r, call[c].amount)
    /\ call[c].pc = "redeem" =>
          /\ p.method = call[c].method /\ p.amount = call[c].amount
          /\ call[c].coupon # Null
          /\ call[c].method = "CARD" => IntentFor(r, p.amount)
    /\ call[c].pc \in {"sum", "refund", "record"} =>
          /\ p.method = call[c].method
          /\ call[c].method = "CARD" => intent[r].status = "succeeded"

CallsHold == \A c \in Calls : CallHolds(c)

\* An event waiting for its write is one of Stripe's, about a card payment.
DeliveriesHold ==
    \A d \in Deliveries : webhook[d] # Idle =>
        /\ webhook[d] \in events
        /\ webhook[d].intent \in Rides
        /\ payment[webhook[d].intent].method = "CARD"

\* A secret is out only after the payment is on record, and without it
\* nothing happens to an intent.
StripeHolds ==
    /\ \A i \in Intents : intent[i].status = "succeeded" => i \in secret
    /\ \A e \in events :
          /\ e.intent \in secret
          /\ e.type = "succeeded" => intent[e.intent].status = "succeeded"
    /\ \A r \in Rides \cap secret :
          payment[r].method = "CARD" /\ IntentFor(r, payment[r].amount)

\* Only what has been paid is refunded.
RefundsOfPayments == \A r \in Rides : payment[r] = NoPayment => refunds[r] = <<>>

PInv ==
    /\ TypesOK /\ WInv /\ CallsHold /\ DeliveriesHold /\ StripeHolds
    /\ PaidOnce /\ CompletedIsCharged /\ RedeemedIsDiscounted /\ TopUpIsCharged
    /\ RefundsOfPayments /\ RefundsAreCredited

-----------------------------------------------------------------------------
(* Types.                                                                  *)

LEMMA CallFields ==
    ASSUME TypesOK, NEW c \in Calls, call[c].pc \in Steps
    PROVE  /\ call[c] \in Call /\ call[c] # Idle
           /\ call[c].ride \in Rides /\ call[c].ride \in Intents
           /\ call[c].method \in Methods /\ call[c].amount \in Nat
           /\ call[c].coupon \in Coupons \cup {Null}
           /\ call[c].already \in Nat /\ call[c].result \in RefundStatus
  BY DEF TypesOK, Call, Idle, Steps, Methods, Intents

LEMMA CallTypes ==
    ASSUME TypesOK, NEW c \in Calls
    PROVE  /\ Done(c) => call' \in [Calls -> Call \cup {Idle}]
           /\ \A pc \in Steps : call[c].pc \in Steps /\ Goto(c, pc)
                 => call' \in [Calls -> Call \cup {Idle}]
  <1>1. call \in [Calls -> Call \cup {Idle}]
    BY DEF TypesOK
  <1>2. ASSUME NEW pc \in Steps, call[c].pc \in Steps
        PROVE  [call[c] EXCEPT !.pc = pc] \in Call
    <2>1. call[c] \in Call
      BY <1>2, CallFields
    <2> QED
      BY <2>1 DEF Call
  <1>3. ASSUME NEW pc \in Steps, call[c].pc \in Steps, Goto(c, pc)
        PROVE  call' \in [Calls -> Call \cup {Idle}]
    <2>1. call' = [call EXCEPT ![c] = [call[c] EXCEPT !.pc = pc]]
      BY <1>1, <1>3 DEF Goto
    <2> QED
      BY <1>1, <1>2, <1>3, <2>1
  <1> QED
    BY <1>1, <1>3 DEF Done

LEMMA CreatedTypes ==
    ASSUME TypesOK, NEW c \in Calls, call[c].pc \in Steps, Created(c) \/ (Done(c) /\ GetSecret(c))
    PROVE  call' \in [Calls -> Call \cup {Idle}] /\ secret' \subseteq Intents
  <1>1. secret' \subseteq Intents
    BY CallFields DEF TypesOK, Created, GetSecret
  <1>2. "redeem" \in Steps
    BY DEF Steps
  <1> QED
    BY <1>1, <1>2, CallTypes DEF Created

LEMMA CreateTypes ==
    ASSUME TypesOK, NEW r \in Rides, NEW m \in Methods, NEW s \in PaymentStatus,
           NEW a \in Nat, createPayment(r, m, s, a)
    PROVE  payment' \in [Rides -> Payment \cup {NoPayment}]
  BY DEF TypesOK, createPayment, Payment

LEMMA StatusTypes ==
    ASSUME TypesOK, NEW i \in Intents, NEW s \in {"succeeded", "canceled"},
           intent[i].status = "open", intent' = [intent EXCEPT ![i].status = s]
    PROVE  intent' \in [Intents -> Intent \cup {NoIntent}]
  <1>1. intent[i] \in Intent
    BY DEF TypesOK, NoIntent
  <1>2. [intent[i] EXCEPT !.status = s] \in Intent
    BY <1>1 DEF Intent
  <1> QED
    BY <1>2 DEF TypesOK

\* Every step but those of refunds and webhooks, which overwrite a status.
LEMMA PayTypes ==
    ASSUME TypesOK, NEW c \in Calls, Pay(c) \/ failCall(c)
    PROVE  TypesOK'
  <1> USE DEF TypesOK
  <1>1. ASSUME NEW r \in Rides, NEW m \in Methods, NEW k \in Coupons \cup {Null},
               payForRide(c, r, m, k)
        PROVE  TypesOK'
    <2>1. (IF k = Null THEN Fare[r] ELSE Fare[r] - Discount[k][r]) \in Nat
      BY PaymentsAssumption
    <2>2. call' \in [Calls -> Call \cup {Idle}]
      BY <1>1, <2>1 DEF payForRide, Call, Steps, RefundStatus
    <2> QED
      BY <1>1, <2>2 DEF payForRide, tables, stripe
  <1>2. ASSUME payCash(c)
        PROVE  TypesOK'
    <2>1. call[c].pc \in Steps /\ "CASH" \in Methods /\ "COMPLETED" \in PaymentStatus
      BY <1>2 DEF payCash, Steps, Methods, PaymentStatus
    <2> QED
      BY <1>2, <2>1, CallFields, CreatedTypes, CreateTypes DEF payCash
  <1>3. ASSUME payFromWallet(c)
        PROVE  TypesOK'
    <2>1. call[c].pc \in Steps /\ "WALLET" \in Methods /\ "COMPLETED" \in PaymentStatus
      BY <1>3 DEF payFromWallet, Steps, Methods, PaymentStatus
    <2> QED
      BY <1>3, <2>1, CallFields, CreatedTypes, CreateTypes DEF payFromWallet
  <1>4. ASSUME rejectPayment(c) \/ failCall(c)
        PROVE  TypesOK'
    BY <1>4, CallTypes DEF rejectPayment, failCall, tables, stripe
  <1>5. ASSUME createIntent(c)
        PROVE  TypesOK'
    <2>1. call[c].pc \in Steps /\ "insert" \in Steps
      BY <1>5 DEF createIntent, Steps, Methods
    <2>2. call' \in [Calls -> Call \cup {Idle}]
      BY <1>5, <2>1, CallTypes DEF createIntent
    <2>3. intent' \in [Intents -> Intent \cup {NoIntent}]
      BY <1>5, <2>1, CallFields DEF createIntent, Intent
    <2> QED
      BY <1>5, <2>2, <2>3 DEF createIntent, tables
  <1>6. ASSUME insertPayment(c)
        PROVE  TypesOK'
    <2>1. call[c].pc \in Steps /\ "CARD" \in Methods /\ "PENDING" \in PaymentStatus
      BY <1>6 DEF insertPayment, Steps, Methods, PaymentStatus
    <2> QED
      BY <1>6, <2>1, CallFields, CreatedTypes, CreateTypes DEF insertPayment
  <1>7. ASSUME insertFails(c)
        PROVE  TypesOK'
    <2>1. call[c].pc \in Steps /\ "cancel" \in Steps
      BY <1>7 DEF insertFails, Steps
    <2> QED
      BY <1>7, <2>1, CallTypes DEF insertFails, tables, stripe
  <1>8. ASSUME cancelIntent(c)
        PROVE  TypesOK'
    <2>1. call[c].pc \in Steps
      BY <1>8 DEF cancelIntent, Steps
    <2>2. intent' \in [Intents -> Intent \cup {NoIntent}]
      <3>1. CASE UNCHANGED intent
        BY <3>1
      <3>2. CASE /\ intent[call[c].ride].status = "open"
                 /\ intent' = [intent EXCEPT ![call[c].ride].status = "canceled"]
        BY <2>1, <3>2, CallFields, StatusTypes
      <3> QED
        BY <1>8, <3>1, <3>2 DEF cancelIntent
    <2> QED
      BY <1>8, <2>2, CallTypes DEF cancelIntent, tables
  <1>9. ASSUME redeemCoupon(c)
        PROVE  TypesOK'
    <2>1. call[c].pc \in Steps
      BY <1>9 DEF redeemCoupon, Steps
    <2>2. redemption' \in [Rides -> Coupons \cup {Null}]
      BY <1>9, <2>1, CallFields DEF redeemCoupon
    <2> QED
      BY <1>9, <2>1, <2>2, CreatedTypes DEF redeemCoupon
  <1> QED
    BY <1>1, <1>2, <1>3, <1>4, <1>5, <1>6, <1>7, <1>8, <1>9 DEF Pay

\* A status is only overwritten where there is a payment.
LEMMA OverwriteTypes ==
    ASSUME TypesOK, NEW r \in Rides, NEW s \in PaymentStatus, payment[r] # NoPayment,
           payment' = [payment EXCEPT ![r].status = s]
    PROVE  payment' \in [Rides -> Payment \cup {NoPayment}]
  <1>1. payment[r] \in Payment
    BY DEF TypesOK
  <1>2. [payment[r] EXCEPT !.status = s] \in Payment
    BY <1>1 DEF Payment
  <1> QED
    BY <1>2 DEF TypesOK

\* A request for a refund has found a payment.
LEMMA PaymentIsThere ==
    ASSUME TypesOK, CallsHold, NEW c \in Calls, call[c].pc \in {"sum", "refund", "record"}
    PROVE  payment[call[c].ride] # NoPayment
  <1>1. call[c].method \in Methods
    BY CallFields DEF Steps
  <1>2. payment[call[c].ride].method = call[c].method
    BY DEF CallsHold, CallHolds
  <1> QED
    BY <1>1, <1>2 DEF Methods, NoPayment

LEMMA CreateRefundTypes ==
    ASSUME TypesOK, CallsHold, NEW c \in Calls, call[c].pc = "record",
           NEW id \in Key \cup {Null}, createRefund(c, id)
    PROVE  /\ payment' \in [Rides -> Payment \cup {NoPayment}]
           /\ refunds' \in [Rides -> Seq(Refund)]
  <1> DEFINE r == call[c].ride
             row == [amount |-> call[c].amount, status |-> call[c].result,
                     stripeRefundId |-> id]
  <1>1. r \in Rides /\ row \in Refund
    BY CallFields DEF Steps, Refund
  <1>2. newStatus(c) \in PaymentStatus
    BY DEF newStatus, PaymentStatus
  <1>3. payment' \in [Rides -> Payment \cup {NoPayment}]
    BY <1>1, <1>2, PaymentIsThere, OverwriteTypes DEF createRefund
  <1>4. Append(refunds[r], row) \in Seq(Refund)
    BY <1>1 DEF TypesOK
  <1>5. refunds' = [refunds EXCEPT ![r] = Append(refunds[r], row)]
    BY DEF createRefund
  <1> QED
    BY <1>1, <1>3, <1>4, <1>5 DEF TypesOK

\* What may come of asking Stripe for a refund.
LEMMA ChargeOutcome ==
    ASSUME NEW c \in Calls, refundCharge(c)
    PROVE  \/ \E f \in reversed[call[c].ride] :
                 /\ call' = [call EXCEPT ![c].pc = "record", ![c].result = f.status]
                 /\ reversed' = reversed
           \/ \E status \in RefundStatus :
                 /\ reversed' = [reversed EXCEPT ![call[c].ride] =
                                   @ \cup {[key |-> KeyOf(c), status |-> status]}]
                 /\ call' = [call EXCEPT ![c].pc = "record", ![c].result = status]
           \/ Done(c) /\ reversed' = reversed
  <1> HIDE DEF Done, KeyOf, sumReversed
  <1> QED
    BY Zenon DEF refundCharge

LEMMA RefundTypes ==
    ASSUME TypesOK, CallsHold, NEW c \in Calls, RefundOf(c)
    PROVE  TypesOK'
  <1> USE DEF TypesOK
  <1>1. ASSUME NEW r \in Rides, refundPayment(c, r)
        PROVE  TypesOK'
    <2>1. payment[r].method \in Methods /\ payment[r].amount \in Nat
      BY <1>1 DEF refundPayment, Payment, NoPayment
    <2>2. call' \in [Calls -> Call \cup {Idle}]
      BY <1>1, <2>1 DEF refundPayment, Call, Steps, RefundStatus
    <2> QED
      BY <1>1, <2>2 DEF refundPayment, tables, stripe
  <1>2. ASSUME sumRefunds(c)
        PROVE  TypesOK'
    <2>1. call[c] \in Call
      BY <1>2, CallFields DEF sumRefunds, Steps
    <2>2. ASSUME NEW already \in 0..call[c].amount, NEW amount \in 1..call[c].amount,
                 NEW pc \in {"refund", "record"},
                 call' = [call EXCEPT ![c].pc = pc, ![c].already = already, ![c].amount = amount]
          PROVE  call' \in [Calls -> Call \cup {Idle}]
      <3>1. call[c].amount \in Nat /\ already \in Nat /\ amount \in Nat /\ pc \in Steps
        BY <2>1, <2>2 DEF Call, Steps
      <3>2. [call[c] EXCEPT !.pc = pc, !.already = already, !.amount = amount] \in Call
        BY <2>1, <3>1 DEF Call
      <3> QED
        BY <2>2, <3>2
    <2>3. call' \in [Calls -> Call \cup {Idle}]
      BY <1>2, <2>2, CallTypes DEF sumRefunds
    <2> QED
      BY <1>2, <2>3 DEF sumRefunds, tables, stripe
  <1>3. ASSUME refundToWallet(c)
        PROVE  TypesOK'
    BY <1>3, CreateRefundTypes, CallTypes DEF refundToWallet, stripe
  <1>4. ASSUME refundCharge(c)
        PROVE  TypesOK'
    <2>1. call[c] \in Call /\ call[c].ride \in Rides
      BY <1>4, CallFields DEF refundCharge, Steps
    <2>2. KeyOf(c) \in Key
      BY <2>1 DEF KeyOf, Key, Call
    <2>3. ASSUME NEW status \in RefundStatus,
                 call' = [call EXCEPT ![c].pc = "record", ![c].result = status]
          PROVE  call' \in [Calls -> Call \cup {Idle}]
      <3>1. [call[c] EXCEPT !.pc = "record", !.result = status] \in Call
        BY <2>1 DEF Call, Steps
      <3> QED
        BY <2>3, <3>1
    <2>4. /\ call' \in [Calls -> Call \cup {Idle}]
          /\ reversed' \in [Rides -> SUBSET [key : Key, status : RefundStatus]]
      <3>1. CASE \E f \in reversed[call[c].ride] :
                    /\ call' = [call EXCEPT ![c].pc = "record", ![c].result = f.status]
                    /\ reversed' = reversed
        <4>1. \A f \in reversed[call[c].ride] : f.status \in RefundStatus
          BY <2>1
        <4> QED
          BY <2>3, <3>1, <4>1
      <3>2. CASE \E status \in RefundStatus :
                    /\ reversed' = [reversed EXCEPT ![call[c].ride] =
                                      @ \cup {[key |-> KeyOf(c), status |-> status]}]
                    /\ call' = [call EXCEPT ![c].pc = "record", ![c].result = status]
        <4>1. call' \in [Calls -> Call \cup {Idle}]
          BY <2>3, <3>2
        <4>2. PICK status \in RefundStatus :
                  reversed' = [reversed EXCEPT ![call[c].ride] =
                                 @ \cup {[key |-> KeyOf(c), status |-> status]}]
          BY <3>2
        <4>3. [key |-> KeyOf(c), status |-> status] \in [key : Key, status : RefundStatus]
          BY <2>2
        <4>4. reversed' \in [Rides -> SUBSET [key : Key, status : RefundStatus]]
          BY <2>1, <4>2, <4>3
        <4> QED
          BY <4>1, <4>4
      <3>3. CASE Done(c) /\ reversed' = reversed
        BY <3>3, CallTypes
      <3> QED
        BY <1>4, <3>1, <3>2, <3>3, ChargeOutcome
    <2> QED
      BY <1>4, <2>4 DEF refundCharge, tables
  <1>5. ASSUME recordRefund(c)
        PROVE  TypesOK'
    <2>1. KeyOf(c) \in Key
      BY <1>5, CallFields DEF recordRefund, Steps, KeyOf, Key
    <2> QED
      BY <1>5, <2>1, CreateRefundTypes, CallTypes DEF recordRefund, stripe
  <1> QED
    BY <1>1, <1>2, <1>3, <1>4, <1>5 DEF RefundOf

LEMMA DeliverTypes ==
    ASSUME TypesOK, DeliveriesHold, Deliver
    PROVE  TypesOK'
  <1> USE DEF TypesOK
  <1>1. ASSUME NEW d \in Deliveries, NEW e \in Event, findPayment(d, e)
        PROVE  TypesOK'
    BY <1>1 DEF findPayment, tables, stripe
  <1>2. ASSUME NEW d \in Deliveries, writeStatus(d)
        PROVE  TypesOK'
    <2>1. webhook[d] \in Event /\ webhook[d].intent \in Rides
      BY <1>2 DEF writeStatus, DeliveriesHold
    <2>2. payment[webhook[d].intent] # NoPayment
      BY <1>2 DEF writeStatus, DeliveriesHold, NoPayment
    <2>3. Target(webhook[d]) \in PaymentStatus
      BY DEF Target, PaymentStatus
    <2>4. payment' \in [Rides -> Payment \cup {NoPayment}]
      BY <1>2, <2>1, <2>2, <2>3, OverwriteTypes DEF writeStatus
    <2> QED
      BY <1>2, <2>1, <2>4 DEF writeStatus, stripe
  <1>3. ASSUME NEW d \in Deliveries, failDelivery(d)
        PROVE  TypesOK'
    BY <1>3 DEF failDelivery, tables, stripe
  <1>4. ASSUME NEW e \in Event, deliverTopUp(e)
        PROVE  TypesOK'
    BY <1>4 DEF deliverTopUp, tables, stripe
  <1> QED
    BY <1>1, <1>2, <1>3, <1>4 DEF Deliver

LEMMA EnvironmentTypes ==
    ASSUME TypesOK, Environment
    PROVE  TypesOK'
  <1> USE DEF TypesOK
  <1>1. ASSUME NEW t \in TopUps, NEW amount \in TopUpAmounts, initiateTopUp(t, amount)
        PROVE  TypesOK'
    BY <1>1, PaymentsAssumption DEF initiateTopUp, Intents, Intent, tables
  <1>2. ASSUME NEW u \in Users, NEW halves \in Adjustments, adjust(u, halves)
        PROVE  TypesOK'
    BY <1>2 DEF adjust, tables, stripe
  <1>3. ASSUME NEW i \in Intents, confirm(i)
        PROVE  TypesOK'
    <2>1. [type |-> "succeeded", intent |-> i] \in Event
      BY DEF Event
    <2> QED
      BY <1>3, <2>1, StatusTypes DEF confirm, tables
  <1>4. ASSUME NEW i \in Intents, decline(i)
        PROVE  TypesOK'
    BY <1>4 DEF decline, Event, tables
  <1> QED
    BY <1>1, <1>2, <1>3, <1>4 DEF Environment

-----------------------------------------------------------------------------
(* Wallets.  Whatever payments do to a wallet is an operation of           *)
(* wallet.service.js.                                                      *)

LEMMA PayUsesWallets ==
    ASSUME TypesOK, NEW c \in Calls, Pay(c) \/ RefundOf(c) \/ failCall(c)
    PROVE  [WalletNext]_walletVars
  <1>1. CASE payFromWallet(c)
    <2>1. /\ call[c].ride \in Rides /\ call[c].amount \in Nat
          /\ Payer[call[c].ride] \in Users
      BY <1>1, CallFields, PaymentsAssumption DEF payFromWallet, Steps, Methods
    <2> QED
      BY <1>1, <2>1 DEF payFromWallet, WalletNext
  <1>2. CASE refundToWallet(c)
    <2>1. /\ call[c].ride \in Rides /\ call[c].amount \in Nat
          /\ Payer[call[c].ride] \in Users
      BY <1>2, CallFields, PaymentsAssumption DEF refundToWallet, Steps
    <2>2. <<call[c].ride, Len(refunds[call[c].ride]) + 1>> \in Rides \X Nat
      BY <2>1 DEF TypesOK
    <2> QED
      BY <1>2, <2>1, <2>2 DEF refundToWallet, WalletNext
  <1>3. CASE ~payFromWallet(c) /\ ~refundToWallet(c)
    <2>1. UNCHANGED walletVars
      BY <1>3 DEF Pay, RefundOf, payForRide, payCash, rejectPayment, createIntent,
           insertPayment, insertFails, cancelIntent, redeemCoupon, failCall,
           refundPayment, sumRefunds, refundCharge, recordRefund
    <2> QED
      BY <2>1
  <1> QED
    BY <1>1, <1>2, <1>3

LEMMA OthersUseWallets ==
    ASSUME TypesOK, Deliver \/ Environment \/ UNCHANGED vars
    PROVE  [WalletNext]_walletVars
  <1>1. ASSUME NEW e \in Event, deliverTopUp(e)
        PROVE  [WalletNext]_walletVars
    <2>1. e.intent \in TopUps /\ e.intent \in Intents
      BY <1>1 DEF deliverTopUp, Intents
    <2>2. intent[e.intent].amount \in Nat /\ Payer[e.intent] \in Users
      BY <2>1, PaymentsAssumption DEF TypesOK, Intent, NoIntent
    <2> QED
      BY <1>1, <2>1, <2>2 DEF deliverTopUp, WalletNext
  <1>2. ASSUME NEW u \in Users, NEW halves \in Adjustments, adjust(u, halves)
        PROVE  [WalletNext]_walletVars
    BY <1>2 DEF adjust, WalletNext
  <1>3. ASSUME NEW d \in Deliveries,
               \/ writeStatus(d) \/ failDelivery(d)
               \/ \E e \in Event : findPayment(d, e)
        PROVE  [WalletNext]_walletVars
    BY <1>3 DEF writeStatus, failDelivery, findPayment
  <1>4. ASSUME \/ \E t \in TopUps, amount \in TopUpAmounts : initiateTopUp(t, amount)
               \/ \E i \in Intents : confirm(i) \/ decline(i)
        PROVE  [WalletNext]_walletVars
    BY <1>4 DEF initiateTopUp, confirm, decline
  <1> QED
    BY <1>1, <1>2, <1>3, <1>4 DEF Deliver, Environment, vars

LEMMA UsesWallets ==
    ASSUME TypesOK, [Next]_vars
    PROVE  [WalletNext]_walletVars
  BY PayUsesWallets, OthersUseWallets DEF Next

-----------------------------------------------------------------------------
(* What no step undoes.                                                    *)

Kept ==
    /\ \A r \in Rides : payment[r].method \in Methods =>
          payment'[r].method = payment[r].method /\ payment'[r].amount = payment[r].amount
    /\ \A i \in Intents : intent[i].status # "none" =>
          intent'[i].status # "none" /\ intent'[i].amount = intent[i].amount
    /\ \A i \in Intents : intent[i].status = "succeeded" => intent'[i].status = "succeeded"
    /\ secret \subseteq secret' /\ events \subseteq events'

LEMMA CreateKeeps ==
    ASSUME TypesOK, NEW c \in Calls, call[c].pc \in Steps, NEW m \in Methods,
           NEW s \in PaymentStatus,
           createPayment(call[c].ride, m, s, call[c].amount), Created(c),
           UNCHANGED <<intent, events>>
    PROVE  Kept
  <1>1. secret \subseteq secret'
    BY DEF Created, GetSecret
  <1>2. \A r \in Rides : payment[r].method \in Methods => payment'[r] = payment[r]
    BY DEF createPayment, NoPayment, Methods, TypesOK
  <1> QED
    BY <1>1, <1>2 DEF Kept

LEMMA StatusKeeps ==
    ASSUME TypesOK, NEW r \in Rides, NEW s,
           payment' = [payment EXCEPT ![r].status = s], UNCHANGED stripe
    PROVE  Kept
  <1>1. \A q \in Rides : payment'[q].method = payment[q].method
                         /\ payment'[q].amount = payment[q].amount
    BY DEF TypesOK, Payment, NoPayment
  <1> QED
    BY <1>1 DEF Kept, stripe

LEMMA PayKeeps ==
    ASSUME TypesOK, NEW c \in Calls, Pay(c) \/ failCall(c)
    PROVE  Kept
  <1>1. CASE \/ payCash(c) \/ payFromWallet(c) \/ insertPayment(c)
    <2>1. call[c].pc \in Steps /\ {"COMPLETED", "PENDING"} \subseteq PaymentStatus
          /\ Methods = {"CASH", "WALLET", "CARD"}
      BY <1>1 DEF payCash, payFromWallet, insertPayment, Steps, Methods, PaymentStatus
    <2> QED
      BY <1>1, <2>1, CreateKeeps DEF payCash, payFromWallet, insertPayment
  <1>2. CASE createIntent(c)
    <2>1. call[c].ride \in Intents
      BY <1>2, CallFields DEF createIntent, Steps, Methods
    <2>2. \A i \in Intents : intent[i].status # "none" => intent'[i] = intent[i]
      BY <1>2, <2>1 DEF createIntent, NoIntent, TypesOK
    <2> QED
      BY <1>2, <2>2 DEF createIntent, Kept, tables
  <1>3. CASE cancelIntent(c)
    <2>1. call[c].ride \in Intents
      BY <1>3, CallFields DEF cancelIntent, Steps
    <2>2. UNCHANGED <<payment, secret, events>>
      BY <1>3 DEF cancelIntent, tables
    <2>3. CASE UNCHANGED intent
      BY <2>2, <2>3 DEF Kept
    <2>4. CASE /\ intent[call[c].ride].status = "open"
               /\ intent' = [intent EXCEPT ![call[c].ride].status = "canceled"]
      <3>1. \A i \in Intents :
                /\ intent[i].status = "succeeded" => intent'[i].status = "succeeded"
                /\ intent'[i].amount = intent[i].amount
                /\ intent[i].status # "none" => intent'[i].status # "none"
        BY <2>1, <2>4 DEF TypesOK, Intent, NoIntent
      <3> QED
        BY <2>2, <3>1 DEF Kept
    <2> QED
      BY <1>3, <2>3, <2>4 DEF cancelIntent
  <1>4. CASE redeemCoupon(c)
    BY <1>4 DEF redeemCoupon, GetSecret, Kept
  <1>5. CASE \/ \E r \in Rides, m \in Methods, k \in Coupons \cup {Null} : payForRide(c, r, m, k)
             \/ rejectPayment(c) \/ insertFails(c) \/ failCall(c)
    BY <1>5 DEF payForRide, rejectPayment, insertFails, failCall, Kept, tables, stripe
  <1> QED
    BY <1>1, <1>2, <1>3, <1>4, <1>5 DEF Pay

LEMMA RefundKeeps ==
    ASSUME TypesOK, NEW c \in Calls, RefundOf(c)
    PROVE  Kept
  <1>1. CASE refundToWallet(c) \/ recordRefund(c)
    <2>1. call[c].ride \in Rides
      BY <1>1, CallFields DEF refundToWallet, recordRefund, Steps
    <2>2. UNCHANGED stripe
      BY <1>1 DEF refundToWallet, recordRefund
    <2>3. \/ UNCHANGED payment
          \/ payment' = [payment EXCEPT ![call[c].ride].status = newStatus(c)]
      BY <1>1 DEF refundToWallet, recordRefund, createRefund
    <2>4. CASE UNCHANGED payment
      BY <2>2, <2>4 DEF Kept, stripe
    <2> QED
      BY <2>1, <2>2, <2>3, <2>4, StatusKeeps
  <1>2. CASE \/ \E r \in Rides : refundPayment(c, r)
             \/ sumRefunds(c) \/ refundCharge(c)
    BY <1>2 DEF refundPayment, sumRefunds, refundCharge, Kept, tables, stripe
  <1> QED
    BY <1>1, <1>2 DEF RefundOf

LEMMA OthersKeep ==
    ASSUME TypesOK, DeliveriesHold, Deliver \/ Environment \/ UNCHANGED vars
    PROVE  Kept
  <1>1. ASSUME NEW d \in Deliveries, writeStatus(d)
        PROVE  Kept
    BY <1>1, StatusKeeps DEF writeStatus, DeliveriesHold
  <1>2. ASSUME NEW t \in TopUps, NEW amount \in TopUpAmounts, initiateTopUp(t, amount)
        PROVE  Kept
    BY <1>2 DEF initiateTopUp, NoIntent, TypesOK, Kept, tables
  <1>3. ASSUME NEW i \in Intents, confirm(i)
        PROVE  Kept
    BY <1>3 DEF confirm, TypesOK, Intent, NoIntent, Kept, tables
  <1>4. ASSUME NEW i \in Intents, decline(i)
        PROVE  Kept
    BY <1>4 DEF decline, Kept, tables
  <1>5. ASSUME UNCHANGED <<payment, intent, secret, events>>
        PROVE  Kept
    BY <1>5 DEF Kept
  <1>6. ASSUME NEW d \in Deliveries, failDelivery(d) \/ \E e \in Event : findPayment(d, e)
        PROVE  Kept
    BY <1>5, <1>6 DEF failDelivery, findPayment, tables, stripe
  <1>7. ASSUME \/ \E e \in Event : deliverTopUp(e)
               \/ \E u \in Users, halves \in Adjustments : adjust(u, halves)
        PROVE  Kept
    BY <1>5, <1>7 DEF deliverTopUp, adjust, tables, stripe
  <1>8. CASE UNCHANGED vars
    BY <1>5, <1>8 DEF vars, tables, stripe
  <1> QED
    BY <1>1, <1>2, <1>3, <1>4, <1>6, <1>7, <1>8 DEF Deliver, Environment

LEMMA StepKeeps ==
    ASSUME TypesOK, DeliveriesHold, [Next]_vars
    PROVE  Kept
  BY PayKeeps, RefundKeeps, OthersKeep DEF Next

LEMMA StepTypes ==
    ASSUME TypesOK, CallsHold, DeliveriesHold, [Next]_vars
    PROVE  TypesOK'
  <1>1. CASE UNCHANGED vars
    BY <1>1 DEF vars, tables, stripe, TypesOK
  <1> QED
    BY <1>1, PayTypes, RefundTypes, DeliverTypes, EnvironmentTypes DEF Next

-----------------------------------------------------------------------------
(* Requests, deliveries and Stripe.                                        *)

LEMMA CallKept ==
    ASSUME TypesOK, Kept, NEW c \in Calls, CallHolds(c), call'[c] = call[c]
    PROVE  CallHolds(c)'
  <1>1. CASE call[c] = Idle
    BY <1>1 DEF Idle, CallHolds, Methods
  <1>2. CASE call[c] \in Call
    <2>1. /\ call[c].ride \in Rides /\ call[c].ride \in Intents
          /\ call[c].method \in Methods
      BY <1>2 DEF Call, Intents
    <2>2. IntentFor(call[c].ride, call[c].amount) => IntentFor(call[c].ride, call[c].amount)'
      BY <2>1 DEF Kept, IntentFor
    <2>3. call[c].pc = "redeem" /\ call[c].method = "CARD" =>
              IntentFor(call[c].ride, payment[call[c].ride].amount)'
      BY <2>1, <2>2 DEF CallHolds, Kept
    <2> QED
      BY <2>1, <2>2, <2>3 DEF CallHolds, Kept
  <1> QED
    BY <1>1, <1>2 DEF TypesOK

LEMMA DoneHolds ==
    ASSUME TypesOK, NEW c \in Calls, Done(c)
    PROVE  CallHolds(c)'
  <1>1. call'[c] = Idle
    BY DEF Done, TypesOK
  <1> QED
    BY <1>1 DEF Idle, CallHolds, Methods

LEMMA CreatedHolds ==
    ASSUME TypesOK, NEW c \in Calls, CallHolds(c), call[c].pc \in Methods \cup {"insert"},
           NEW s \in PaymentStatus, Created(c), UNCHANGED intent,
           createPayment(call[c].ride, call[c].method, s, call[c].amount),
           call[c].method = "CARD" => IntentFor(call[c].ride, call[c].amount)
    PROVE  CallHolds(c)'
  <1>1. CASE call[c].coupon = Null
    BY <1>1, DoneHolds DEF Created
  <1>2. CASE call[c].coupon # Null
    <2>1. call[c] \in Call /\ call[c].ride \in Rides
      BY CallFields DEF Steps
    <2>2. call'[c] = [call[c] EXCEPT !.pc = "redeem"]
      BY <1>2 DEF Created, Goto, TypesOK
    <2>3. /\ call'[c].pc = "redeem" /\ call'[c].ride = call[c].ride
          /\ call'[c].method = call[c].method /\ call'[c].coupon = call[c].coupon
          /\ call'[c].amount = call[c].amount
      BY <2>1, <2>2 DEF Call
    <2>4. /\ payment'[call[c].ride].method = call[c].method
          /\ payment'[call[c].ride].amount = call[c].amount
      BY <2>1 DEF createPayment, TypesOK
    <2>5. call[c].amount = Fare[call[c].ride] - Discount[call[c].coupon][call[c].ride]
      BY <1>2 DEF CallHolds
    <2> QED
      BY <1>2, <2>3, <2>4, <2>5 DEF CallHolds, IntentFor, Methods
  <1> QED
    BY <1>1, <1>2

LEMMA PayHolds ==
    ASSUME TypesOK, NEW c \in Calls, CallHolds(c), Pay(c) \/ failCall(c)
    PROVE  CallHolds(c)'
  <1>1. ASSUME NEW r \in Rides, NEW m \in Methods, NEW k \in Coupons \cup {Null},
               payForRide(c, r, m, k)
        PROVE  CallHolds(c)'
    <2>1. /\ call'[c].pc = m /\ call'[c].method = m /\ call'[c].ride = r
          /\ call'[c].coupon = k
          /\ k # Null => call'[c].amount = Fare[r] - Discount[k][r]
      BY <1>1 DEF payForRide, TypesOK
    <2> QED
      BY <2>1 DEF CallHolds, Methods
  <1>2. CASE payCash(c) \/ payFromWallet(c) \/ insertPayment(c)
    <2>1. /\ call[c].pc \in {"CASH", "WALLET", "insert"}
          /\ \E s \in PaymentStatus :
                createPayment(call[c].ride, call[c].method, s, call[c].amount)
      BY <1>2 DEF payCash, payFromWallet, insertPayment, CallHolds, Methods, PaymentStatus
    <2>2. /\ Created(c) /\ UNCHANGED intent
          /\ call[c].method = "CARD" => IntentFor(call[c].ride, call[c].amount)
      BY <1>2, <2>1 DEF payCash, payFromWallet, insertPayment, CallHolds, Methods
    <2> QED
      BY <2>1, <2>2, CreatedHolds DEF Methods
  <1>3. CASE createIntent(c)
    <2>1. /\ call[c] \in Call /\ call[c].ride \in Intents /\ call[c].method = "CARD"
          /\ call[c].pc = "CARD"
      BY <1>3, CallFields DEF createIntent, Steps, Methods, CallHolds
    <2>2. CASE Done(c)
      BY <2>2, DoneHolds
    <2>3. CASE Goto(c, "insert") /\ IntentFor(call[c].ride, call[c].amount)'
      <3>1. call'[c] = [call[c] EXCEPT !.pc = "insert"]
        BY <2>3 DEF Goto, TypesOK
      <3>2. /\ call'[c].pc = "insert" /\ call'[c].ride = call[c].ride
            /\ call'[c].method = call[c].method /\ call'[c].coupon = call[c].coupon
            /\ call'[c].amount = call[c].amount
        BY <2>1, <3>1 DEF Call
      <3>3. call[c].coupon # Null =>
                call[c].amount = Fare[call[c].ride] - Discount[call[c].coupon][call[c].ride]
        BY <2>1 DEF CallHolds, Methods
      <3>4. intent'[call[c].ride].status # "none" /\ intent'[call[c].ride].amount = call[c].amount
        BY <2>3, <3>2 DEF IntentFor
      <3> QED
        BY <2>1, <3>2, <3>3, <3>4 DEF CallHolds, Methods, IntentFor
    <2>4. \/ Done(c)
          \/ Goto(c, "insert") /\ IntentFor(call[c].ride, call[c].amount)'
      <3>1. intent[call[c].ride] # NoIntent => intent[call[c].ride].status # "none"
        BY <2>1 DEF TypesOK, Intent
      <3>2. CASE /\ Goto(c, "insert") /\ UNCHANGED intent
                 /\ intent[call[c].ride] # NoIntent
                 /\ intent[call[c].ride].amount = call[c].amount
        <4>1. call'[c].ride = call[c].ride /\ call'[c].amount = call[c].amount
          BY <2>1, <3>2 DEF Goto, TypesOK, Call
        <4> QED
          BY <3>1, <3>2, <4>1 DEF IntentFor
      <3>3. CASE /\ Goto(c, "insert")
                 /\ intent' = [intent EXCEPT ![call[c].ride] =
                                 [status |-> "open", amount |-> call[c].amount]]
        <4>1. call'[c].ride = call[c].ride /\ call'[c].amount = call[c].amount
          BY <2>1, <3>3 DEF Goto, TypesOK, Call
        <4> QED
          BY <2>1, <3>3, <4>1 DEF IntentFor, TypesOK
      <3> QED
        BY <1>3, <3>2, <3>3 DEF createIntent
    <2> QED
      BY <2>2, <2>3, <2>4
  <1>4. CASE insertFails(c)
    <2>1. call[c] \in Call /\ call[c].pc = "insert"
      BY <1>4, CallFields DEF insertFails, Steps
    <2>2. /\ call'[c].pc = "cancel" /\ call'[c].ride = call[c].ride
          /\ call'[c].method = call[c].method /\ call'[c].amount = call[c].amount
      BY <1>4, <2>1 DEF insertFails, Goto, TypesOK, Call
    <2> QED
      BY <1>4, <2>1, <2>2 DEF insertFails, CallHolds, Methods, IntentFor, stripe
  <1>5. CASE rejectPayment(c) \/ cancelIntent(c) \/ redeemCoupon(c) \/ failCall(c)
    BY <1>5, DoneHolds DEF rejectPayment, cancelIntent, redeemCoupon, failCall
  <1> QED
    BY <1>1, <1>2, <1>3, <1>4, <1>5 DEF Pay

\* A refund of a card payment is asked for only once the card is charged.
LEMMA RefundHolds ==
    ASSUME TypesOK, CompletedIsCharged, NEW c \in Calls, CallHolds(c), RefundOf(c)
    PROVE  CallHolds(c)'
  <1>1. ASSUME NEW r \in Rides, refundPayment(c, r)
        PROVE  CallHolds(c)'
    <2>1. /\ call'[c].pc = "sum" /\ call'[c].ride = r
          /\ call'[c].method = payment[r].method
          /\ UNCHANGED <<payment, intent>>
      BY <1>1 DEF refundPayment, TypesOK, tables, stripe
    <2>2. payment[r].method = "CARD" => intent[r].status = "succeeded"
      BY <1>1 DEF refundPayment, CompletedIsCharged
    <2> QED
      BY <2>1, <2>2 DEF CallHolds, Methods
  <1>2. ASSUME call[c].pc \in {"sum", "refund"}, UNCHANGED <<payment, intent>>,
               call'[c].pc \in {"refund", "record"},
               call'[c].ride = call[c].ride, call'[c].method = call[c].method
        PROVE  CallHolds(c)'
    BY <1>2 DEF CallHolds, Methods
  <1>3. CASE sumRefunds(c)
    <2>1. call[c] \in Call /\ call[c].pc = "sum" /\ UNCHANGED <<payment, intent>>
      BY <1>3, CallFields DEF sumRefunds, Steps, tables, stripe
    <2>2. ASSUME NEW already, NEW amount, NEW pc \in {"refund", "record"},
                 call' = [call EXCEPT ![c].pc = pc, ![c].already = already, ![c].amount = amount]
          PROVE  /\ call'[c].pc \in {"refund", "record"}
                 /\ call'[c].ride = call[c].ride /\ call'[c].method = call[c].method
      BY <2>1, <2>2 DEF TypesOK, Call
    <2> QED
      BY <1>2, <1>3, <2>1, <2>2, DoneHolds DEF sumRefunds
  <1>4. CASE refundCharge(c)
    <2>1. /\ call[c] \in Call /\ call[c].pc = "refund" /\ UNCHANGED <<payment, intent>>
      BY <1>4, CallFields DEF refundCharge, Steps, tables
    <2>2. ASSUME NEW status,
                 call' = [call EXCEPT ![c].pc = "record", ![c].result = status]
          PROVE  /\ call'[c].pc \in {"refund", "record"}
                 /\ call'[c].ride = call[c].ride /\ call'[c].method = call[c].method
      BY <2>1, <2>2 DEF TypesOK, Call
    <2> QED
      BY <1>2, <1>4, <2>1, <2>2, DoneHolds, ChargeOutcome
  <1>5. CASE refundToWallet(c) \/ recordRefund(c)
    BY <1>5, DoneHolds DEF refundToWallet, recordRefund
  <1> QED
    BY <1>1, <1>3, <1>4, <1>5 DEF RefundOf

\* A request changes no other.
LEMMA OtherCalls ==
    ASSUME TypesOK, NEW c \in Calls, Pay(c) \/ RefundOf(c) \/ failCall(c)
    PROVE  \A d \in Calls : d # c => call'[d] = call[d]
  <1>1. CASE Pay(c) \/ failCall(c)
    BY <1>1 DEF Pay, payForRide, payCash, payFromWallet, rejectPayment, createIntent,
         insertPayment, insertFails, cancelIntent, redeemCoupon, failCall, Created,
         Done, Goto, TypesOK
  <1>2. CASE refundCharge(c)
    BY <1>2, ChargeOutcome DEF Done, TypesOK
  <1>3. CASE sumRefunds(c)
    BY <1>3 DEF sumRefunds, Done, TypesOK
  <1>4. CASE (\E r \in Rides : refundPayment(c, r)) \/ refundToWallet(c) \/ recordRefund(c)
    BY <1>4 DEF refundPayment, refundToWallet, recordRefund, Done, TypesOK
  <1> QED
    BY <1>1, <1>2, <1>3, <1>4 DEF RefundOf

LEMMA CallsStep ==
    ASSUME TypesOK, CallsHold, DeliveriesHold, CompletedIsCharged, [Next]_vars
    PROVE  CallsHold'
  <1>1. Kept
    BY StepKeeps
  <1>2. ASSUME NEW c \in Calls, Pay(c) \/ RefundOf(c) \/ failCall(c), NEW d \in Calls
        PROVE  CallHolds(d)'
    <2>1. CASE d = c
      BY <1>2, <2>1, PayHolds, RefundHolds DEF CallsHold
    <2>2. CASE d # c
      BY <1>1, <1>2, <2>2, OtherCalls, CallKept DEF CallsHold
    <2> QED
      BY <2>1, <2>2
  <1>3. CASE Deliver \/ Environment \/ UNCHANGED vars
    <2>1. call' = call
      BY <1>3 DEF Deliver, Environment, vars, writeStatus, failDelivery, findPayment,
           deliverTopUp, initiateTopUp, adjust, confirm, decline
    <2> QED
      BY <1>1, <2>1, CallKept DEF CallsHold
  <1> QED
    BY <1>2, <1>3 DEF Next, CallsHold

LEMMA DeliveriesStep ==
    ASSUME TypesOK, DeliveriesHold, [Next]_vars
    PROVE  DeliveriesHold'
  <1>1. Kept
    BY StepKeeps
  <1>2. ASSUME NEW d \in Deliveries, webhook'[d] = webhook[d], webhook[d] # Idle
        PROVE  /\ webhook'[d] \in events' /\ webhook'[d].intent \in Rides
               /\ payment'[webhook'[d].intent].method = "CARD"
    BY <1>1, <1>2 DEF DeliveriesHold, Kept, Methods
  <1>3. ASSUME NEW d \in Deliveries, NEW e \in Event, findPayment(d, e)
        PROVE  DeliveriesHold'
    <2>1. e \in events' /\ e.intent \in Rides /\ (PaymentOf(e) => payment'[e.intent].method = "CARD")
      BY <1>3 DEF findPayment, PaymentOf, stripe, tables
    <2>2. \A b \in Deliveries : \/ webhook'[b] = webhook[b]
                                \/ webhook'[b] = e /\ PaymentOf(e)
      BY <1>3 DEF findPayment, TypesOK
    <2> QED
      BY <1>2, <2>1, <2>2 DEF DeliveriesHold
  <1>4. ASSUME NEW d \in Deliveries, writeStatus(d) \/ failDelivery(d)
        PROVE  DeliveriesHold'
    <2>1. \A b \in Deliveries : webhook'[b] = webhook[b] \/ webhook'[b] = Idle
      BY <1>4 DEF writeStatus, failDelivery, TypesOK
    <2> QED
      BY <1>2, <2>1 DEF DeliveriesHold
  <1>5. CASE UNCHANGED webhook
    BY <1>2, <1>5 DEF DeliveriesHold
  <1>6. ASSUME NEW c \in Calls, Pay(c) \/ RefundOf(c) \/ failCall(c)
        PROVE  UNCHANGED webhook
    BY <1>6 DEF Pay, RefundOf, payForRide, payCash, payFromWallet, rejectPayment,
         createIntent, insertPayment, insertFails, cancelIntent, redeemCoupon, failCall,
         refundPayment, sumRefunds, refundToWallet, refundCharge, recordRefund
  <1>7. ASSUME (\E e \in Event : deliverTopUp(e)) \/ Environment \/ UNCHANGED vars
        PROVE  UNCHANGED webhook
    BY <1>7 DEF Environment, vars, deliverTopUp, initiateTopUp, adjust, confirm, decline
  <1> QED
    BY <1>3, <1>4, <1>5, <1>6, <1>7 DEF Next, Deliver

\* The only secrets a request gives away are those of payments on record.
LEMMA SecretsOfPayments ==
    ASSUME TypesOK, NEW c \in Calls, CallHolds(c), Pay(c) \/ RefundOf(c) \/ failCall(c)
    PROVE  \A i \in secret' \ secret :
              i \in Rides => payment'[i].method = "CARD" /\ IntentFor(i, payment[i].amount)'
  <1>1. ASSUME GetSecret(c), NEW i \in secret' \ secret
        PROVE  i = call[c].ride /\ call[c].method = "CARD"
    BY <1>1 DEF GetSecret
  <1>2. CASE insertPayment(c)
    <2>1. call[c] \in Call /\ call[c].ride \in Rides /\ call[c].pc = "insert"
      BY <1>2, CallFields DEF insertPayment, Steps
    <2>2. /\ payment'[call[c].ride].method = "CARD"
          /\ payment'[call[c].ride].amount = call[c].amount
          /\ intent' = intent /\ IntentFor(call[c].ride, call[c].amount)
      BY <1>2, <2>1 DEF insertPayment, createPayment, TypesOK, CallHolds
    <2>3. GetSecret(c) \/ UNCHANGED secret
      BY <1>2 DEF insertPayment, Created
    <2> QED
      BY <1>1, <2>2, <2>3 DEF IntentFor
  <1>3. CASE redeemCoupon(c)
    BY <1>1, <1>3 DEF redeemCoupon, CallHolds, IntentFor
  <1>4. CASE payCash(c) \/ payFromWallet(c)
    <2>1. call[c].method # "CARD"
      BY <1>4 DEF payCash, payFromWallet, CallHolds, Methods
    <2> QED
      BY <1>1, <1>4, <2>1 DEF payCash, payFromWallet, Created
  <1>5. ASSUME \/ \E r \in Rides, m \in Methods, k \in Coupons \cup {Null} : payForRide(c, r, m, k)
               \/ rejectPayment(c) \/ createIntent(c) \/ insertFails(c) \/ cancelIntent(c)
               \/ RefundOf(c) \/ failCall(c)
        PROVE  UNCHANGED secret
    BY <1>5 DEF RefundOf, payForRide, rejectPayment, createIntent, insertFails,
         cancelIntent, failCall, refundPayment, sumRefunds, refundToWallet,
         refundCharge, recordRefund, stripe
  <1> QED
    BY <1>2, <1>3, <1>4, <1>5 DEF Pay

\* Only confirm charges a card, and only clients make Stripe report.
LEMMA ChargesAndEvents ==
    ASSUME TypesOK, [Next]_vars
    PROVE  \/ \E i \in Intents : confirm(i) \/ decline(i)
           \/ /\ UNCHANGED events
              /\ \A i \in Intents : intent'[i].status = "succeeded" => intent[i].status = "succeeded"
  <1>1. ASSUME NEW c \in Calls, createIntent(c)
        PROVE  /\ UNCHANGED events
               /\ \A i \in Intents : intent'[i].status = "succeeded" => intent[i].status = "succeeded"
    BY <1>1 DEF createIntent, TypesOK
  <1>2. ASSUME NEW c \in Calls, cancelIntent(c)
        PROVE  /\ UNCHANGED events
               /\ \A i \in Intents : intent'[i].status = "succeeded" => intent[i].status = "succeeded"
    <2>1. CASE UNCHANGED intent
      BY <1>2, <2>1 DEF cancelIntent
    <2>2. CASE intent' = [intent EXCEPT ![call[c].ride].status = "canceled"]
      <3>1. \A i \in Intents : intent'[i].status = intent[i].status \/ intent'[i].status = "canceled"
        BY <2>2 DEF TypesOK, Intent, NoIntent
      <3> QED
        BY <1>2, <3>1 DEF cancelIntent
    <2> QED
      BY <1>2, <2>1, <2>2 DEF cancelIntent
  <1>3. ASSUME NEW t \in TopUps, NEW amount \in TopUpAmounts, initiateTopUp(t, amount)
        PROVE  /\ UNCHANGED events
               /\ \A i \in Intents : intent'[i].status = "succeeded" => intent[i].status = "succeeded"
    BY <1>3 DEF initiateTopUp, TypesOK
  <1>4. ASSUME NEW c \in Calls, Pay(c) \/ RefundOf(c) \/ failCall(c), ~createIntent(c),
               ~cancelIntent(c)
        PROVE  UNCHANGED <<intent, events>>
    BY <1>4 DEF Pay, RefundOf, payForRide, payCash, payFromWallet, rejectPayment,
         insertPayment, insertFails, redeemCoupon, failCall, refundPayment, sumRefunds,
         refundToWallet, refundCharge, recordRefund, stripe
  <1>5. ASSUME \/ Deliver \/ UNCHANGED vars
               \/ \E u \in Users, halves \in Adjustments : adjust(u, halves)
        PROVE  UNCHANGED <<intent, events>>
    BY <1>5 DEF Deliver, vars, writeStatus, failDelivery, findPayment, deliverTopUp,
         adjust, stripe
  <1> QED
    BY <1>1, <1>2, <1>3, <1>4, <1>5 DEF Next, Environment

LEMMA StripeStep ==
    ASSUME TypesOK, CallsHold, DeliveriesHold, StripeHolds, [Next]_vars
    PROVE  StripeHolds'
  <1>1. Kept /\ secret \subseteq Intents /\ Rides \subseteq Intents /\ TypesOK'
    BY StepKeeps, StepTypes DEF TypesOK, Intents
  <1>2. ASSUME NEW i \in secret' \ secret, i \in Rides
        PROVE  payment'[i].method = "CARD" /\ IntentFor(i, payment[i].amount)'
    <2>1. CASE \E c \in Calls : Pay(c) \/ RefundOf(c) \/ failCall(c)
      BY <1>2, <2>1, SecretsOfPayments DEF CallsHold
    <2>2. CASE \E t \in TopUps, amount \in TopUpAmounts : initiateTopUp(t, amount)
      BY <1>2, <2>2, PaymentsAssumption DEF initiateTopUp
    <2>3. ASSUME \/ Deliver \/ UNCHANGED vars
                 \/ \E u \in Users, halves \in Adjustments : adjust(u, halves)
                 \/ \E j \in Intents : confirm(j) \/ decline(j)
          PROVE  UNCHANGED secret
      BY <2>3 DEF Deliver, vars, writeStatus, failDelivery, findPayment, deliverTopUp,
           adjust, confirm, decline, stripe
    <2> QED
      BY <1>2, <2>1, <2>2, <2>3 DEF Next, Environment
  <1>3. \A r \in Rides \cap secret' :
            payment'[r].method = "CARD" /\ IntentFor(r, payment[r].amount)'
    <2>1. TAKE r \in Rides \cap secret'
    <2>2. CASE r \in secret
      <3>1. /\ payment[r].method = "CARD" /\ intent[r].status # "none"
            /\ intent[r].amount = payment[r].amount
        BY <2>2 DEF StripeHolds, IntentFor
      <3> QED
        BY <1>1, <3>1 DEF Kept, Methods, IntentFor
    <2> QED
      BY <1>2, <2>2
  <1>4. ASSUME NEW i \in Intents, confirm(i) \/ decline(i)
        PROVE  /\ \A j \in Intents : intent'[j].status = "succeeded" => j \in secret'
               /\ \A e \in events' :
                     /\ e.intent \in secret'
                     /\ e.type = "succeeded" => intent'[e.intent].status = "succeeded"
    <2>1. CASE confirm(i)
      <3>1. /\ i \in secret /\ secret' = secret
            /\ events' = events \cup {[type |-> "succeeded", intent |-> i]}
        BY <2>1 DEF confirm
      <3>2. \A j \in Intents : intent'[j].status = IF j = i THEN "succeeded" ELSE intent[j].status
        BY <2>1 DEF confirm, TypesOK, Intent, NoIntent
      <3> QED
        BY <1>1, <3>1, <3>2 DEF StripeHolds
    <2>2. CASE decline(i)
      BY <2>2 DEF decline, StripeHolds
    <2> QED
      BY <1>4, <2>1, <2>2
  <1>5. CASE \E i \in Intents : confirm(i) \/ decline(i)
    BY <1>3, <1>4, <1>5 DEF StripeHolds
  <1>6. CASE /\ UNCHANGED events
             /\ \A i \in Intents : intent'[i].status = "succeeded" => intent[i].status = "succeeded"
    <2>1. \A e \in events : e.intent \in Intents
      BY DEF TypesOK, Event
    <2> QED
      BY <1>1, <1>3, <1>6, <2>1 DEF StripeHolds, Kept
  <1> QED
    BY <1>5, <1>6, ChargesAndEvents

-----------------------------------------------------------------------------
(* Charges and redemptions.                                                *)

\* A request creates payments and settles those of refunds.
LEMMA StatusOfCalls ==
    ASSUME TypesOK, NEW c \in Calls, CallHolds(c), Pay(c) \/ RefundOf(c) \/ failCall(c),
           NEW r \in Rides
    PROVE  \/ payment'[r] = payment[r]
           \/ payment'[r].method = "CARD" => payment'[r].status = "PENDING"
           \/ payment'[r].method = "CARD" => intent[r].status = "succeeded"
  <1>1. CASE payCash(c) \/ payFromWallet(c) \/ insertPayment(c)
    BY <1>1 DEF payCash, payFromWallet, insertPayment, createPayment, TypesOK
  <1>2. CASE refundToWallet(c) \/ recordRefund(c)
    <2>1. call[c].ride \in Rides /\ call[c].pc = "record"
      BY <1>2, CallFields DEF refundToWallet, recordRefund, Steps
    <2>2. \/ UNCHANGED payment
          \/ payment' = [payment EXCEPT ![call[c].ride].status = newStatus(c)]
      BY <1>2 DEF refundToWallet, recordRefund, createRefund
    <2>3. payment'[call[c].ride].method = call[c].method
      <3>1. Kept
        BY <1>2, RefundKeeps DEF RefundOf
      <3>2. /\ payment[call[c].ride].method = call[c].method
            /\ call[c].method \in Methods
        BY <2>1, CallFields DEF CallHolds, Steps
      <3> QED
        BY <2>1, <3>1, <3>2 DEF Kept
    <2>4. r # call[c].ride => payment'[r] = payment[r]
      BY <2>1, <2>2 DEF TypesOK
    <2> QED
      BY <2>1, <2>3, <2>4 DEF CallHolds
  <1>3. ASSUME \/ \E q \in Rides, m \in Methods, k \in Coupons \cup {Null} : payForRide(c, q, m, k)
               \/ rejectPayment(c) \/ createIntent(c) \/ insertFails(c) \/ cancelIntent(c)
               \/ redeemCoupon(c) \/ failCall(c)
               \/ (\E q \in Rides : refundPayment(c, q)) \/ sumRefunds(c) \/ refundCharge(c)
        PROVE  UNCHANGED payment
    BY <1>3 DEF payForRide, rejectPayment, createIntent, insertFails, cancelIntent,
         redeemCoupon, failCall, refundPayment, sumRefunds, refundCharge, tables
  <1> QED
    BY <1>1, <1>2, <1>3 DEF Pay, RefundOf

LEMMA CompletedStep ==
    ASSUME TypesOK, CallsHold, DeliveriesHold, StripeHolds, CompletedIsCharged, [Next]_vars
    PROVE  CompletedIsCharged'
  <1>1. Kept /\ Rides \subseteq Intents
    BY StepKeeps DEF Intents
  <1>2. ASSUME NEW r \in Rides, payment'[r] = payment[r],
               payment'[r].method = "CARD", payment'[r].status \notin {"PENDING", "FAILED"}
        PROVE  intent'[r].status = "succeeded"
    BY <1>1, <1>2 DEF Kept, CompletedIsCharged
  <1>3. ASSUME NEW c \in Calls, Pay(c) \/ RefundOf(c) \/ failCall(c), NEW r \in Rides,
               payment'[r].method = "CARD", payment'[r].status \notin {"PENDING", "FAILED"}
        PROVE  intent'[r].status = "succeeded"
    <2>1. CallHolds(c)
      BY DEF CallsHold
    <2>2. payment'[r] = payment[r] \/ intent[r].status = "succeeded"
      BY <1>3, <2>1, StatusOfCalls
    <2> QED
      BY <1>1, <1>2, <1>3, <2>2 DEF Kept
  <1>4. ASSUME NEW d \in Deliveries, writeStatus(d), NEW r \in Rides,
               payment'[r].method = "CARD", payment'[r].status \notin {"PENDING", "FAILED"}
        PROVE  intent'[r].status = "succeeded"
    <2>1. /\ webhook[d] \in Event /\ webhook[d].intent \in Rides /\ webhook[d] \in events
          /\ payment' = [payment EXCEPT ![webhook[d].intent].status = Target(webhook[d])]
      BY <1>4 DEF writeStatus, DeliveriesHold, TypesOK
    <2>2. CASE r = webhook[d].intent
      <3>1. payment'[r].status = Target(webhook[d])
        BY <2>1, <2>2 DEF TypesOK, Payment, NoPayment
      <3>2. webhook[d].type = "succeeded"
        BY <1>4, <3>1 DEF Target
      <3> QED
        BY <1>1, <2>1, <2>2, <3>2 DEF StripeHolds, Kept
    <2>3. CASE r # webhook[d].intent
      BY <1>2, <1>4, <2>1, <2>3 DEF TypesOK
    <2> QED
      BY <2>2, <2>3
  <1>5. ASSUME \/ \E d \in Deliveries : failDelivery(d) \/ \E e \in Event : findPayment(d, e)
               \/ (\E e \in Event : deliverTopUp(e)) \/ Environment \/ UNCHANGED vars
        PROVE  UNCHANGED payment
    BY <1>5 DEF Environment, vars, failDelivery, findPayment, deliverTopUp,
         initiateTopUp, adjust, confirm, decline, tables
  <1> QED
    BY <1>2, <1>3, <1>4, <1>5 DEF Next, Deliver, CompletedIsCharged

LEMMA RedeemedStep ==
    ASSUME TypesOK, CallsHold, DeliveriesHold, RedeemedIsDiscounted, [Next]_vars
    PROVE  RedeemedIsDiscounted'
  <1>1. Kept /\ TypesOK'
    BY StepKeeps, StepTypes
  <1>2. ASSUME NEW r \in Rides, payment[r] # NoPayment
        PROVE  payment'[r] # NoPayment /\ payment'[r].amount = payment[r].amount
    <2>1. payment[r].method \in Methods
      BY <1>2 DEF TypesOK, Payment
    <2>2. payment'[r].method \in Methods /\ payment'[r].amount = payment[r].amount
      BY <1>1, <2>1 DEF Kept
    <2> QED
      BY <2>2 DEF NoPayment, Methods
  <1>3. ASSUME NEW c \in Calls, redeemCoupon(c)
        PROVE  RedeemedIsDiscounted'
    <2>1. /\ call[c].ride \in Rides /\ call[c].pc = "redeem" /\ UNCHANGED payment
          /\ redemption' = [redemption EXCEPT ![call[c].ride] = call[c].coupon]
          /\ call[c].method \in Methods
      BY <1>3, CallFields DEF redeemCoupon, Steps
    <2>2. /\ payment[call[c].ride] # NoPayment
          /\ payment[call[c].ride].amount = Fare[call[c].ride] - Discount[call[c].coupon][call[c].ride]
      BY <2>1 DEF CallsHold, CallHolds, Methods, NoPayment
    <2> QED
      BY <2>1, <2>2 DEF RedeemedIsDiscounted, TypesOK
  <1>4. CASE UNCHANGED redemption
    BY <1>2, <1>4 DEF RedeemedIsDiscounted
  <1>5. ASSUME NEW c \in Calls, Pay(c) \/ RefundOf(c) \/ failCall(c), ~redeemCoupon(c)
        PROVE  UNCHANGED redemption
    BY <1>5 DEF Pay, RefundOf, payForRide, payCash, payFromWallet, rejectPayment,
         createIntent, insertPayment, insertFails, cancelIntent, failCall, refundPayment,
         sumRefunds, refundToWallet, refundCharge, recordRefund, tables
  <1>6. ASSUME Deliver \/ Environment \/ UNCHANGED vars
        PROVE  UNCHANGED redemption
    BY <1>6 DEF Deliver, Environment, vars, writeStatus, failDelivery, findPayment,
         deliverTopUp, initiateTopUp, adjust, confirm, decline, tables
  <1> QED
    BY <1>3, <1>4, <1>5, <1>6 DEF Next

-----------------------------------------------------------------------------
(* Ledgers.                                                                *)

\* The step enters an amount in the ledger of u.
Entered(u, reason, amount, ref) ==
    \E e \in Entry :
        /\ e.reason = reason /\ e.amount = amount /\ e.referenceId = ref
        /\ ledger' = [ledger EXCEPT ![u] = Append(@, e)]

LEMMA TransactionEnters ==
    ASSUME WalletTypeOK', NEW u \in Users, NEW type \in Types, NEW reason \in Reasons,
           NEW halves \in Nat, NEW ref \in References,
           createTransaction(u, type, reason, halves, ref)
    PROVE  /\ Entered(u, reason, Cents(halves), ref)
           /\ \A cents \in Nat : halves = 2 * cents => Entered(u, reason, cents, ref)
  <1> DEFINE e == [type |-> type, reason |-> reason, amount |-> Cents(halves),
                   balanceAfter |-> balance'[u], referenceId |-> ref]
  <1>1. Cents(halves) \in Nat /\ \A cents \in Nat : halves = 2 * cents => Cents(halves) = cents
    BY DEF Cents
  <1>2. e \in Entry
    BY <1>1 DEF WalletTypeOK, Entry
  <1>3. e.reason = reason /\ e.amount = Cents(halves) /\ e.referenceId = ref
    OBVIOUS
  <1>4. ledger' = [ledger EXCEPT ![u] = Append(@, e)]
    BY DEF createTransaction
  <1>5. Entered(u, reason, Cents(halves), ref)
    BY <1>2, <1>3, <1>4 DEF Entered
  <1> QED
    BY <1>1, <1>5

\* An entry is added to those of its own reason and reference, and to no other.
LEMMA EntriesAfter ==
    ASSUME WalletTypeOK, NEW u \in Users, NEW reason, NEW amount, NEW ref,
           Entered(u, reason, amount, ref)
    PROVE  /\ \A v \in Users : \A why, what :
                 v # u \/ why # reason \/ what # ref =>
                     /\ EntriesOf(v, why, what)' = EntriesOf(v, why, what)
                     /\ \A n \in EntriesOf(v, why, what) : ledger'[v][n] = ledger[v][n]
           /\ \E m : /\ EntriesOf(u, reason, ref)' = EntriesOf(u, reason, ref) \cup {m}
                     /\ ledger'[u][m].amount = amount
                     /\ \A n \in EntriesOf(u, reason, ref) : ledger'[u][n] = ledger[u][n]
           /\ \A v \in Users : \A n \in DOMAIN ledger'[v] :
                 \/ n \in DOMAIN ledger[v] /\ ledger'[v][n] = ledger[v][n]
                 \/ ledger'[v][n].reason = reason /\ ledger'[v][n].referenceId = ref
  <1> DEFINE N == Len(ledger[u])
  <1>1. PICK e \in Entry :
            /\ e.reason = reason /\ e.amount = amount /\ e.referenceId = ref
            /\ ledger' = [ledger EXCEPT ![u] = Append(@, e)]
    BY DEF Entered
  <1>2. ledger[u] \in Seq(Entry) /\ ledger'[u] = Append(ledger[u], e)
    BY <1>1 DEF WalletTypeOK
  <1>3. /\ N \in Nat /\ DOMAIN ledger[u] = 1..N /\ DOMAIN ledger'[u] = 1..(N + 1)
        /\ \A n \in 1..N : ledger'[u][n] = ledger[u][n]
        /\ ledger'[u][N + 1] = e
    BY <1>2
  <1>4. \A v \in Users : v # u => ledger'[v] = ledger[v]
    BY <1>1 DEF WalletTypeOK
  <1> HIDE DEF N
  <1>5. ASSUME NEW v \in Users, NEW why, NEW what, v # u \/ why # reason \/ what # ref
        PROVE  /\ EntriesOf(v, why, what)' = EntriesOf(v, why, what)
               /\ \A n \in EntriesOf(v, why, what) : ledger'[v][n] = ledger[v][n]
    <2>1. CASE v # u
      BY <1>4, <2>1 DEF EntriesOf
    <2>2. CASE v = u
      <3>1. why # e.reason \/ what # e.referenceId
        BY <1>1, <1>5, <2>2
      <3>2. \A n \in 1..(N + 1) : n = N + 1 \/ n \in 1..N
        BY <1>3
      <3>3. \A n : n \in EntriesOf(v, why, what)' <=> n \in EntriesOf(v, why, what)
        BY <1>3, <2>2, <3>1, <3>2 DEF EntriesOf
      <3> QED
        BY <1>3, <2>2, <3>3 DEF EntriesOf
    <2> QED
      BY <2>1, <2>2
  <1>6. /\ EntriesOf(u, reason, ref)' = EntriesOf(u, reason, ref) \cup {N + 1}
        /\ ledger'[u][N + 1].amount = amount
        /\ \A n \in EntriesOf(u, reason, ref) : ledger'[u][n] = ledger[u][n]
    <2>1. \A n \in 1..(N + 1) : n = N + 1 \/ n \in 1..N
      BY <1>3
    <2>2. \A n : n \in EntriesOf(u, reason, ref)' <=> n \in EntriesOf(u, reason, ref) \cup {N + 1}
      BY <1>1, <1>3, <2>1 DEF EntriesOf
    <2> QED
      BY <1>1, <1>3, <2>2 DEF EntriesOf
  <1>7. ASSUME NEW v \in Users, NEW n \in DOMAIN ledger'[v]
        PROVE  \/ n \in DOMAIN ledger[v] /\ ledger'[v][n] = ledger[v][n]
               \/ ledger'[v][n].reason = reason /\ ledger'[v][n].referenceId = ref
    <2>1. CASE v # u
      BY <1>4, <1>7, <2>1
    <2>2. CASE v = u
      <3>1. n = N + 1 \/ n \in 1..N
        BY <1>3, <1>7, <2>2
      <3> QED
        BY <1>1, <1>3, <2>2, <3>1
    <2> QED
      BY <2>1, <2>2
  <1> QED
    BY <1>5, <1>6, <1>7

LEMMA EntersDebit ==
    ASSUME TypesOK, WInv, [Next]_vars, NEW c \in Calls, payFromWallet(c)
    PROVE  Entered(Payer[call[c].ride], "RIDE_PAYMENT", call[c].amount, call[c].ride)
  <1>1. WalletTypeOK'
    BY UsesWallets, WalletStep DEF WInv
  <1>2. call[c].ride \in Rides /\ call[c].amount \in Nat /\ Payer[call[c].ride] \in Users
    BY CallFields, PaymentsAssumption DEF payFromWallet, Steps, Methods
  <1> QED
    BY <1>1, <1>2, TransactionEnters DEF payFromWallet, debitRide, Types, Reasons, References

LEMMA EntersCredit ==
    ASSUME TypesOK, WInv, [Next]_vars, NEW c \in Calls, refundToWallet(c)
    PROVE  Entered(Payer[call[c].ride], "REFUND", call[c].amount,
                   <<call[c].ride, Len(refunds[call[c].ride]) + 1>>)
  <1>1. WalletTypeOK'
    BY UsesWallets, WalletStep DEF WInv
  <1>2. /\ call[c].ride \in Rides /\ call[c].amount \in Nat /\ Payer[call[c].ride] \in Users
        /\ <<call[c].ride, Len(refunds[call[c].ride]) + 1>> \in Rides \X Nat
    BY CallFields, PaymentsAssumption DEF refundToWallet, Steps, TypesOK
  <1> QED
    BY <1>1, <1>2, TransactionEnters DEF refundToWallet, creditRefund, Types, Reasons, References

\* What a step may enter in a ledger, and when.
LEMMA LedgerSteps ==
    ASSUME TypesOK, WInv, [Next]_vars
    PROVE  \/ UNCHANGED ledger
           \/ \E c \in Calls :
                 /\ payFromWallet(c)
                 /\ Entered(Payer[call[c].ride], "RIDE_PAYMENT", call[c].amount, call[c].ride)
           \/ \E c \in Calls :
                 /\ refundToWallet(c)
                 /\ Entered(Payer[call[c].ride], "REFUND", call[c].amount,
                            <<call[c].ride, Len(refunds[call[c].ride]) + 1>>)
           \/ \E e \in events :
                 /\ deliverTopUp(e) /\ e.intent \in TopUps /\ e.type = "succeeded"
                 /\ Entered(Payer[e.intent], "TOPUP", intent[e.intent].amount, e.intent)
           \/ /\ \E u \in Users, amount \in Nat : Entered(u, "ADJUSTMENT", amount, Null)
              /\ UNCHANGED <<tables, call, webhook, stripe, acked>>
  <1> USE DEF Types, Reasons, References
  <1>1. WalletTypeOK'
    BY UsesWallets, WalletStep DEF WInv
  <1>2. ASSUME NEW c \in Calls, payFromWallet(c)
        PROVE  Entered(Payer[call[c].ride], "RIDE_PAYMENT", call[c].amount, call[c].ride)
    BY <1>2, EntersDebit
  <1>3. ASSUME NEW c \in Calls, refundToWallet(c)
        PROVE  Entered(Payer[call[c].ride], "REFUND", call[c].amount,
                       <<call[c].ride, Len(refunds[call[c].ride]) + 1>>)
    BY <1>3, EntersCredit
  <1>4. ASSUME NEW e \in Event, deliverTopUp(e)
        PROVE  \/ UNCHANGED ledger
               \/ /\ e \in events /\ e.intent \in TopUps /\ e.type = "succeeded"
                  /\ Entered(Payer[e.intent], "TOPUP", intent[e.intent].amount, e.intent)
    <2>1. /\ e \in events /\ e.intent \in TopUps /\ intent[e.intent].amount \in Nat
          /\ Payer[e.intent] \in Users
      BY <1>4, PaymentsAssumption DEF deliverTopUp, Intents, TypesOK, Intent, NoIntent
    <2>2. CASE UNCHANGED walletVars
      BY <2>2 DEF walletVars
    <2>3. CASE Credits(e) /\ ~UNCHANGED walletVars
      <3>1. createTransaction(Payer[e.intent], "CREDIT", "TOPUP", 2 * intent[e.intent].amount,
                              e.intent)
        BY <1>4, <2>3 DEF deliverTopUp, confirmTopUp
      <3>2. 2 * intent[e.intent].amount \in Nat
        BY <2>1
      <3>3. Entered(Payer[e.intent], "TOPUP", intent[e.intent].amount, e.intent)
        BY <1>1, <2>1, <3>1, <3>2, TransactionEnters
      <3> QED
        BY <2>1, <2>3, <3>3 DEF Credits
    <2> QED
      BY <1>4, <2>2, <2>3 DEF deliverTopUp
  <1>5. ASSUME NEW u \in Users, NEW halves \in Adjustments, adjust(u, halves)
        PROVE  \E amount \in Nat : Entered(u, "ADJUSTMENT", amount, Null)
    <2>1. halves \in Int
      BY WalletAssumption
    <2>2. \E h \in Nat, type \in Types : createTransaction(u, type, "ADJUSTMENT", h, Null)
      <3>1. CASE halves >= 0 /\ createTransaction(u, "CREDIT", "ADJUSTMENT", halves, Null)
        <4>1. halves \in Nat
          BY <2>1, <3>1
        <4> QED
          BY <3>1, <4>1
      <3>2. CASE halves < 0 /\ createTransaction(u, "DEBIT", "ADJUSTMENT", -halves, Null)
        <4>1. -halves \in Nat
          BY <2>1, <3>2
        <4> QED
          BY <3>2, <4>1
      <3> QED
        BY <1>5, <3>1, <3>2 DEF adjust, adjustBalance
    <2>3. PICK h \in Nat : Entered(u, "ADJUSTMENT", Cents(h), Null)
      BY <1>1, <2>2, TransactionEnters
    <2>4. Cents(h) \in Nat
      BY DEF Cents
    <2> QED
      BY <2>3, <2>4
  <1>6. ASSUME NEW c \in Calls, Pay(c) \/ RefundOf(c) \/ failCall(c),
               ~payFromWallet(c), ~refundToWallet(c)
        PROVE  UNCHANGED ledger
    BY <1>6 DEF Pay, RefundOf, payForRide, payCash, rejectPayment, createIntent,
         insertPayment, insertFails, cancelIntent, redeemCoupon, failCall,
         refundPayment, sumRefunds, refundCharge, recordRefund, walletVars
  <1>7. ASSUME \/ \E d \in Deliveries :
                     writeStatus(d) \/ failDelivery(d) \/ \E e \in Event : findPayment(d, e)
               \/ \E t \in TopUps, amount \in TopUpAmounts : initiateTopUp(t, amount)
               \/ \E i \in Intents : confirm(i) \/ decline(i)
               \/ UNCHANGED vars
        PROVE  UNCHANGED ledger
    BY <1>7 DEF writeStatus, failDelivery, findPayment, initiateTopUp, confirm, decline,
         vars, walletVars
  <1>8. CASE \E c \in Calls : Pay(c) \/ RefundOf(c) \/ failCall(c)
    BY <1>2, <1>3, <1>6, <1>8
  <1>9. CASE Deliver
    BY <1>4, <1>7, <1>9 DEF Deliver
  <1>10. CASE Environment
    <2>1. CASE \E u \in Users, halves \in Adjustments : adjust(u, halves)
      BY <1>5, <2>1 DEF adjust
    <2> QED
      BY <1>7, <1>10, <2>1 DEF Environment
  <1> QED
    BY <1>7, <1>8, <1>9, <1>10 DEF Next

\* A WALLET payment comes only with its debit.
LEMMA WalletPayments ==
    ASSUME TypesOK, CallsHold, DeliveriesHold, [Next]_vars, NEW r \in Rides,
           ~ \E c \in Calls : payFromWallet(c) /\ call[c].ride = r
    PROVE  /\ payment'[r].method = "WALLET" <=> payment[r].method = "WALLET"
           /\ payment[r].method = "WALLET" => payment'[r].amount = payment[r].amount
  <1>1. Kept
    BY StepKeeps
  <1>2. payment[r].method \in Methods \/ payment[r] = NoPayment
    BY DEF TypesOK, Payment
  <1>3. CASE payment[r].method \in Methods
    BY <1>1, <1>3 DEF Kept
  <1>4. CASE payment[r] = NoPayment
    <2>1. payment[r].method \notin Methods
      BY <1>4 DEF NoPayment, Methods
    <2>2. ASSUME NEW c \in Calls, payCash(c) \/ insertPayment(c) \/ payFromWallet(c)
          PROVE  payment'[r].method # "WALLET"
      <3>1. ASSUME NEW m \in {"CASH", "CARD"}, NEW s,
                   createPayment(call[c].ride, m, s, call[c].amount)
            PROVE  payment'[r] = payment[r] \/ payment'[r].method = m
        BY <3>1 DEF createPayment, TypesOK
      <3>2. CASE payFromWallet(c)
        <4>1. call[c].ride # r
          BY <3>2
        <4>2. payment'[r] = payment[r]
          BY <3>2, <4>1 DEF payFromWallet, createPayment, TypesOK
        <4> QED
          BY <2>1, <4>2 DEF Methods
      <3>3. CASE payCash(c) \/ insertPayment(c)
        <4>1. payment'[r] = payment[r] \/ payment'[r].method \in {"CASH", "CARD"}
          BY <3>1, <3>3 DEF payCash, insertPayment
        <4> QED
          BY <2>1, <4>1 DEF Methods
      <3> QED
        BY <2>2, <3>2, <3>3
    <2>3. ASSUME NEW c \in Calls, refundToWallet(c) \/ recordRefund(c)
          PROVE  payment'[r] = payment[r]
      <3>1. call[c].ride \in Rides /\ payment[call[c].ride] # NoPayment
        BY <2>3, CallFields, PaymentIsThere DEF refundToWallet, recordRefund, Steps
      <3>2. \/ UNCHANGED payment
            \/ payment' = [payment EXCEPT ![call[c].ride].status = newStatus(c)]
        BY <2>3 DEF refundToWallet, recordRefund, createRefund
      <3> QED
        BY <1>4, <3>1, <3>2 DEF TypesOK
    <2>4. ASSUME NEW d \in Deliveries, writeStatus(d)
          PROVE  payment'[r] = payment[r]
      <3>1. webhook[d].intent # r
        BY <1>4, <2>4 DEF writeStatus, DeliveriesHold, NoPayment
      <3> QED
        BY <2>4, <3>1 DEF writeStatus, TypesOK
    <2>5. ASSUME NEW c \in Calls,
                 \/ \E q \in Rides, m \in Methods, k \in Coupons \cup {Null} : payForRide(c, q, m, k)
                 \/ rejectPayment(c) \/ createIntent(c) \/ insertFails(c) \/ cancelIntent(c)
                 \/ redeemCoupon(c) \/ failCall(c)
                 \/ (\E q \in Rides : refundPayment(c, q)) \/ sumRefunds(c) \/ refundCharge(c)
          PROVE  UNCHANGED payment
      BY <2>5 DEF payForRide, rejectPayment, createIntent, insertFails, cancelIntent,
           redeemCoupon, failCall, refundPayment, sumRefunds, refundCharge, tables
    <2>6. ASSUME \/ \E d \in Deliveries : failDelivery(d) \/ \E e \in Event : findPayment(d, e)
                 \/ (\E e \in Event : deliverTopUp(e)) \/ Environment \/ UNCHANGED vars
          PROVE  UNCHANGED payment
      BY <2>6 DEF Environment, vars, failDelivery, findPayment, deliverTopUp,
           initiateTopUp, adjust, confirm, decline, tables
    <2>7. payment'[r] = payment[r] \/ payment'[r].method # "WALLET"
      BY <2>2, <2>3, <2>4, <2>5, <2>6 DEF Next, Pay, RefundOf, Deliver
    <2> QED
      BY <1>4, <2>1, <2>7 DEF Methods, NoPayment
  <1> QED
    BY <1>2, <1>3, <1>4

LEMMA PaidStep ==
    ASSUME PInv, [Next]_vars
    PROVE  PaidOnce'
  <1> DEFINE Debits(r) == EntriesOf(Payer[r], "RIDE_PAYMENT", r)
  <1>1. /\ TypesOK /\ WInv /\ WalletTypeOK /\ CallsHold /\ DeliveriesHold /\ StripeHolds
        /\ PaidOnce /\ Payer \in [Rides \cup TopUps -> Users]
    BY PaymentsAssumption DEF PInv, WInv
  <1>2. StripeHolds'
    BY <1>1, StripeStep
  <1>3. \A r \in Rides : intent'[r].status = "succeeded" =>
            payment'[r].method = "CARD" /\ payment'[r].amount = intent'[r].amount
    BY <1>2 DEF StripeHolds, IntentFor, Intents
  <1>4. ASSUME NEW r \in Rides, ~ \E c \in Calls : payFromWallet(c) /\ call[c].ride = r,
               /\ Debits(r)' = Debits(r)
               /\ \A n \in Debits(r) : ledger'[Payer[r]][n] = ledger[Payer[r]][n]
        PROVE  /\ payment'[r].method = "WALLET" <=> Debits(r)' # {}
               /\ \A n \in Debits(r)' : ledger'[Payer[r]][n].amount = payment'[r].amount
    <2>1. /\ payment'[r].method = "WALLET" <=> payment[r].method = "WALLET"
          /\ payment[r].method = "WALLET" => payment'[r].amount = payment[r].amount
      BY <1>1, <1>4, WalletPayments
    <2>2. /\ payment[r].method = "WALLET" <=> Debits(r) # {}
          /\ \A n \in Debits(r) : ledger[Payer[r]][n].amount = payment[r].amount
      BY <1>1 DEF PaidOnce
    <2> HIDE DEF Debits
    <2> QED
      BY <1>4, <2>1, <2>2
  <1>5. ASSUME NEW c \in Calls, payFromWallet(c),
               Entered(Payer[call[c].ride], "RIDE_PAYMENT", call[c].amount, call[c].ride),
               NEW r \in Rides
        PROVE  /\ payment'[r].method = "WALLET" <=> Debits(r)' # {}
               /\ \A n \in Debits(r)' : ledger'[Payer[r]][n].amount = payment'[r].amount
    <2>1. /\ call[c].ride \in Rides /\ Payer[call[c].ride] \in Users /\ Payer[r] \in Users
      BY <1>1, <1>5, CallFields DEF payFromWallet, Steps, Methods
    <2>2. CASE r = call[c].ride
      <3>1. /\ payment[r] = NoPayment
            /\ payment'[r].method = "WALLET" /\ payment'[r].amount = call[c].amount
        BY <1>1, <1>5, <2>1, <2>2 DEF payFromWallet, createPayment, TypesOK
      <3>2. Debits(r) = {}
        BY <1>1, <3>1 DEF PaidOnce, NoPayment
      <3>3. \E m : /\ Debits(r)' = Debits(r) \cup {m}
                  /\ ledger'[Payer[r]][m].amount = call[c].amount
        BY <1>1, <1>5, <2>1, <2>2, EntriesAfter
      <3> HIDE DEF Debits
      <3> QED
        BY <3>1, <3>2, <3>3
    <2>3. CASE r # call[c].ride
      <3>1. /\ Debits(r)' = Debits(r)
            /\ \A n \in Debits(r) : ledger'[Payer[r]][n] = ledger[Payer[r]][n]
        BY <1>1, <1>5, <2>1, <2>3, EntriesAfter
      <3>2. payment'[r] = payment[r]
        BY <1>1, <1>5, <2>3 DEF payFromWallet, createPayment, TypesOK
      <3>3. /\ payment[r].method = "WALLET" <=> Debits(r) # {}
            /\ \A n \in Debits(r) : ledger[Payer[r]][n].amount = payment[r].amount
        BY <1>1 DEF PaidOnce
      <3> HIDE DEF Debits
      <3> QED
        BY <3>1, <3>2, <3>3
    <2> QED
      BY <2>2, <2>3
  <1>6. ASSUME NEW u \in Users, NEW reason, NEW amount, NEW ref,
               Entered(u, reason, amount, ref), reason # "RIDE_PAYMENT", NEW r \in Rides
        PROVE  /\ Debits(r)' = Debits(r)
               /\ \A n \in Debits(r) : ledger'[Payer[r]][n] = ledger[Payer[r]][n]
    BY <1>1, <1>6, EntriesAfter
  <1>7. CASE \E c \in Calls : payFromWallet(c)
    <2>1. PICK c \in Calls : payFromWallet(c)
      BY <1>7
    <2>2. Entered(Payer[call[c].ride], "RIDE_PAYMENT", call[c].amount, call[c].ride)
      BY <1>1, <2>1, EntersDebit
    <2> QED
      BY <1>3, <1>5, <2>1, <2>2 DEF PaidOnce
  <1>8. CASE ~ \E c \in Calls : payFromWallet(c)
    <2>1. ASSUME UNCHANGED ledger, NEW r \in Rides
          PROVE  /\ Debits(r)' = Debits(r)
                 /\ \A n \in Debits(r) : ledger'[Payer[r]][n] = ledger[Payer[r]][n]
      BY <2>1 DEF EntriesOf
    <2>2. \/ UNCHANGED ledger
          \/ \E u \in Users : \E reason, amount, ref :
                Entered(u, reason, amount, ref) /\ reason # "RIDE_PAYMENT"
      <3>1. ASSUME NEW c \in Calls, refundToWallet(c)
            PROVE  Payer[call[c].ride] \in Users
        BY <1>1, <3>1, CallFields DEF refundToWallet, Steps
      <3>2. ASSUME NEW e \in events, e.intent \in TopUps
            PROVE  Payer[e.intent] \in Users
        BY <1>1, <3>2
      <3>3. "REFUND" # "RIDE_PAYMENT" /\ "TOPUP" # "RIDE_PAYMENT" /\ "ADJUSTMENT" # "RIDE_PAYMENT"
        OBVIOUS
      <3> HIDE DEF Debits
      <3> QED
        BY <1>1, <1>8, <3>1, <3>2, <3>3, LedgerSteps, Zenon
    <2>3. \A r \in Rides :
              /\ Debits(r)' = Debits(r)
              /\ \A n \in Debits(r) : ledger'[Payer[r]][n] = ledger[Payer[r]][n]
      BY <1>6, <2>1, <2>2
    <2> QED
      BY <1>3, <1>4, <1>8, <2>3 DEF PaidOnce
  <1> QED
    BY <1>7, <1>8

LEMMA TopUpStep ==
    ASSUME PInv, [Next]_vars
    PROVE  TopUpIsCharged'
  <1> DEFINE Credited(t) == EntriesOf(Payer[t], "TOPUP", t)
  <1>1. /\ TypesOK /\ WInv /\ WalletTypeOK /\ DeliveriesHold /\ StripeHolds /\ TopUpIsCharged
        /\ Payer \in [Rides \cup TopUps -> Users] /\ TopUps \subseteq Intents
    BY PaymentsAssumption DEF PInv, WInv, Intents
  <1>2. Kept
    BY <1>1, StepKeeps
  <1>3. ASSUME NEW t \in TopUps, Credited(t)' = Credited(t),
               \A n \in Credited(t) : ledger'[Payer[t]][n] = ledger[Payer[t]][n],
               NEW n \in Credited(t)'
        PROVE  intent'[t].status = "succeeded" /\ ledger'[Payer[t]][n].amount = intent'[t].amount
    <2>1. intent[t].status = "succeeded" /\ ledger[Payer[t]][n].amount = intent[t].amount
      BY <1>1, <1>3 DEF TopUpIsCharged
    <2> HIDE DEF Credited
    <2> QED
      BY <1>1, <1>2, <1>3, <2>1 DEF Kept
  <1>4. ASSUME NEW u \in Users, NEW reason, NEW amount, NEW ref,
               Entered(u, reason, amount, ref), NEW t \in TopUps, reason # "TOPUP" \/ ref # t
        PROVE  /\ Credited(t)' = Credited(t)
               /\ \A n \in Credited(t) : ledger'[Payer[t]][n] = ledger[Payer[t]][n]
    BY <1>1, <1>4, EntriesAfter
  <1>5. ASSUME NEW e \in events, deliverTopUp(e), e.intent \in TopUps, e.type = "succeeded",
               Entered(Payer[e.intent], "TOPUP", intent[e.intent].amount, e.intent)
        PROVE  TopUpIsCharged'
    <2>1. intent' = intent /\ intent[e.intent].status = "succeeded" /\ Payer[e.intent] \in Users
      BY <1>1, <1>5 DEF deliverTopUp, stripe, StripeHolds
    <2>2. PICK m : /\ Credited(e.intent)' = Credited(e.intent) \cup {m}
                   /\ ledger'[Payer[e.intent]][m].amount = intent[e.intent].amount
                   /\ \A n \in Credited(e.intent) :
                         ledger'[Payer[e.intent]][n] = ledger[Payer[e.intent]][n]
      BY <1>1, <1>5, <2>1, EntriesAfter
    <2>3. ASSUME NEW n \in Credited(e.intent)'
          PROVE  ledger'[Payer[e.intent]][n].amount = intent[e.intent].amount
      <3>1. n \in Credited(e.intent) =>
                ledger[Payer[e.intent]][n].amount = intent[e.intent].amount
        BY <1>1, <1>5 DEF TopUpIsCharged
      <3> HIDE DEF Credited
      <3> QED
        BY <2>2, <2>3, <3>1
    <2>4. ASSUME NEW t \in TopUps, t # e.intent, NEW n \in Credited(t)'
          PROVE  intent'[t].status = "succeeded" /\ ledger'[Payer[t]][n].amount = intent'[t].amount
      BY <1>3, <1>4, <1>5, <2>1, <2>4
    <2> QED
      BY <2>1, <2>3, <2>4 DEF TopUpIsCharged
  <1>6. ASSUME UNCHANGED ledger
        PROVE  TopUpIsCharged'
    <2>1. \A t \in TopUps : /\ Credited(t)' = Credited(t)
                            /\ \A n \in Credited(t) : ledger'[Payer[t]][n] = ledger[Payer[t]][n]
      BY <1>6 DEF EntriesOf
    <2> QED
      BY <1>3, <2>1 DEF TopUpIsCharged
  <1>7. ASSUME NEW u \in Users, NEW reason, NEW amount, NEW ref,
               Entered(u, reason, amount, ref), reason # "TOPUP"
        PROVE  TopUpIsCharged'
    BY <1>3, <1>4, <1>7 DEF TopUpIsCharged
  <1>8. ASSUME NEW c \in Calls, payFromWallet(c) \/ refundToWallet(c)
        PROVE  Payer[call[c].ride] \in Users
    BY <1>1, <1>8, CallFields DEF payFromWallet, refundToWallet, Steps, Methods
  <1> QED
    BY <1>1, <1>5, <1>6, <1>7, <1>8, LedgerSteps

\* What a step may do to the refunds of a ride, other than to the wallet.
LEMMA RefundsStep ==
    ASSUME TypesOK, CallsHold, [Next]_vars, NEW r \in Rides
    PROVE  \/ refunds'[r] = refunds[r]
           \/ /\ payment[r] # NoPayment /\ payment'[r].method = payment[r].method
              /\ \E row : refunds'[r] = Append(refunds[r], row)
              /\ payment[r].method = "CARD" \/ \E c \in Calls : refundToWallet(c)
  <1>1. ASSUME NEW c \in Calls, NEW id, createRefund(c, id), call[c].pc = "record",
               refundToWallet(c) \/ recordRefund(c)
        PROVE  \/ refunds'[r] = refunds[r]
               \/ /\ payment[r] # NoPayment /\ payment'[r].method = payment[r].method
                  /\ \E row : refunds'[r] = Append(refunds[r], row)
                  /\ payment[r].method = "CARD" \/ \E b \in Calls : refundToWallet(b)
    <2>1. /\ call[c].ride \in Rides /\ call[c].method \in Methods
          /\ payment[call[c].ride].method = call[c].method
          /\ payment[call[c].ride] # NoPayment
      BY <1>1, CallFields, PaymentIsThere DEF Steps, CallsHold, CallHolds
    <2>2. CASE r = call[c].ride
      <3>1. Kept
        BY <1>1, RefundKeeps DEF RefundOf
      <3>2. payment'[r].method = payment[r].method
        BY <2>1, <2>2, <3>1 DEF Kept
      <3>3. \E row : refunds'[r] = Append(refunds[r], row)
        BY <1>1, <2>2 DEF createRefund, TypesOK
      <3>4. recordRefund(c) => payment[r].method = "CARD"
        BY <2>1, <2>2 DEF recordRefund
      <3> QED
        BY <1>1, <2>1, <2>2, <3>2, <3>3, <3>4
    <2>3. CASE r # call[c].ride
      BY <1>1, <2>3 DEF createRefund, TypesOK
    <2> QED
      BY <2>2, <2>3
  <1>2. ASSUME NEW c \in Calls, refundToWallet(c) \/ recordRefund(c)
        PROVE  UNCHANGED refunds \/ (call[c].pc = "record" /\ \E id : createRefund(c, id))
    BY <1>2 DEF refundToWallet, recordRefund
  <1>3. ASSUME NEW c \in Calls, Pay(c) \/ RefundOf(c) \/ failCall(c),
               ~refundToWallet(c), ~recordRefund(c)
        PROVE  UNCHANGED refunds
    BY <1>3 DEF Pay, RefundOf, payForRide, payCash, payFromWallet, rejectPayment,
         createIntent, insertPayment, insertFails, cancelIntent, redeemCoupon, failCall,
         refundPayment, sumRefunds, refundCharge, tables
  <1>4. ASSUME Deliver \/ Environment \/ UNCHANGED vars
        PROVE  UNCHANGED refunds
    BY <1>4 DEF Deliver, Environment, vars, writeStatus, failDelivery, findPayment,
         deliverTopUp, initiateTopUp, adjust, confirm, decline, tables
  <1>5. CASE UNCHANGED refunds
    BY <1>5
  <1>6. CASE \E c \in Calls : refundToWallet(c) \/ recordRefund(c)
    BY <1>1, <1>2, <1>5, <1>6
  <1> QED
    BY <1>3, <1>4, <1>5, <1>6 DEF Next

LEMMA RefundsOfPaymentsStep ==
    ASSUME TypesOK, CallsHold, DeliveriesHold, RefundsOfPayments, [Next]_vars
    PROVE  RefundsOfPayments'
  <1>1. ASSUME NEW r \in Rides, payment[r] # NoPayment
        PROVE  payment'[r] # NoPayment
    <2>1. payment[r].method \in Methods /\ Kept
      BY <1>1, StepKeeps DEF TypesOK, Payment
    <2>2. payment'[r].method \in Methods
      BY <2>1 DEF Kept
    <2> QED
      BY <2>2 DEF NoPayment, Methods
  <1>2. ASSUME NEW r \in Rides, payment'[r] = NoPayment
        PROVE  refunds'[r] = <<>>
    <2>1. payment[r] = NoPayment
      BY <1>1, <1>2
    <2> QED
      BY <2>1, RefundsStep DEF RefundsOfPayments
  <1> QED
    BY <1>2 DEF RefundsOfPayments

LEMMA CreditedStep ==
    ASSUME PInv, [Next]_vars
    PROVE  RefundsAreCredited'
  <1> DEFINE Entries(r, n) == EntriesOf(Payer[r], "REFUND", <<r, n>>)
             Credited(r, n) ==
                 \E m \in Entries(r, n) : ledger[Payer[r]][m].amount = refunds[r][n].amount
  <1>1. /\ TypesOK /\ WInv /\ WalletTypeOK /\ CallsHold /\ DeliveriesHold /\ RefundsOfPayments
        /\ RefundsAreCredited /\ Payer \in [Rides \cup TopUps -> Users]
    BY PaymentsAssumption DEF PInv, WInv
  <1>2. Kept
    BY <1>1, StepKeeps
  <1>3. ASSUME NEW r \in Rides
        PROVE  /\ payment'[r].method # "CARD" => payment[r].method # "CARD"
               /\ payment[r].method # "CARD" /\ DOMAIN refunds[r] # {} => payment'[r].method # "CARD"
    <2>1. payment[r] \in Payment \cup {NoPayment}
      BY <1>1 DEF TypesOK
    <2>2. payment[r].method = "CARD" => payment'[r].method = "CARD"
      BY <1>2 DEF Kept, Methods
    <2>3. CASE payment[r] = NoPayment
      <3>1. refunds[r] = <<>>
        BY <1>1, <2>3 DEF RefundsOfPayments
      <3> QED
        BY <2>2, <3>1
    <2>4. CASE payment[r] \in Payment
      BY <1>2, <2>2, <2>4 DEF Payment, Kept
    <2> QED
      BY <2>1, <2>3, <2>4
  <1>4. ASSUME NEW r \in Rides
        PROVE  /\ refunds[r] \in Seq(Refund)
               /\ DOMAIN refunds[r] \subseteq DOMAIN refunds'[r]
               /\ \A n \in DOMAIN refunds[r] : refunds'[r][n] = refunds[r][n]
    <2>1. refunds[r] \in Seq(Refund)
      BY <1>1 DEF TypesOK
    <2>2. ASSUME NEW row
          PROVE  /\ DOMAIN refunds[r] \subseteq DOMAIN Append(refunds[r], row)
                 /\ \A n \in DOMAIN refunds[r] : Append(refunds[r], row)[n] = refunds[r][n]
      BY <2>1
    <2> QED
      BY <1>1, <2>1, <2>2, RefundsStep
  \* An entry of before still has its refund.
  <1>5. ASSUME NEW u \in Users, NEW m \in DOMAIN ledger[u], ledger[u][m].reason = "REFUND"
        PROVE  \E r \in Rides : \E n \in DOMAIN refunds'[r] :
                  payment'[r].method # "CARD" /\ ledger[u][m].referenceId = <<r, n>>
    <2>1. PICK r \in Rides : \E n \in DOMAIN refunds[r] :
              payment[r].method # "CARD" /\ ledger[u][m].referenceId = <<r, n>>
      BY <1>1, <1>5 DEF RefundsAreCredited
    <2>2. PICK n \in DOMAIN refunds[r] :
              payment[r].method # "CARD" /\ ledger[u][m].referenceId = <<r, n>>
      BY <2>1
    <2>3. payment'[r].method # "CARD" /\ n \in DOMAIN refunds'[r]
      BY <1>3, <1>4, <2>2
    <2> QED
      BY <2>2, <2>3
  \* A refund of before still has its entry.
  <1>6. ASSUME NEW r \in Rides, payment'[r].method # "CARD", NEW n \in DOMAIN refunds[r],
               Entries(r, n)' = Entries(r, n),
               \A m \in Entries(r, n) : ledger'[Payer[r]][m] = ledger[Payer[r]][m]
        PROVE  Credited(r, n)'
    <2>1. payment[r].method # "CARD" /\ refunds'[r][n] = refunds[r][n]
      BY <1>3, <1>4, <1>6
    <2>2. PICK m \in Entries(r, n) : ledger[Payer[r]][m].amount = refunds[r][n].amount
      BY <1>1, <2>1 DEF RefundsAreCredited
    <2>3. m \in Entries(r, n)' /\ ledger'[Payer[r]][m].amount = refunds'[r][n].amount
      BY <1>6, <2>1, <2>2
    <2> HIDE DEF Entries
    <2> QED
      BY <2>3
  <1> HIDE DEF Credited
  <1>7. ASSUME ~ \E c \in Calls : refundToWallet(c),
               \A r \in Rides : \A n : /\ Entries(r, n)' = Entries(r, n)
                                     /\ \A m \in Entries(r, n) :
                                           ledger'[Payer[r]][m] = ledger[Payer[r]][m],
               \A u \in Users : \A m \in DOMAIN ledger'[u] :
                   \/ m \in DOMAIN ledger[u] /\ ledger'[u][m] = ledger[u][m]
                   \/ ledger'[u][m].reason # "REFUND"
        PROVE  RefundsAreCredited'
    <2>1. ASSUME NEW r \in Rides, payment'[r].method # "CARD", NEW n \in DOMAIN refunds'[r]
          PROVE  Credited(r, n)'
      <3>1. payment[r].method # "CARD"
        BY <1>3, <2>1
      <3>2. refunds'[r] = refunds[r]
        BY <1>1, <1>7, <3>1, RefundsStep
      <3> QED
        BY <1>6, <1>7, <2>1, <3>2
    <2>2. ASSUME NEW u \in Users, NEW m \in DOMAIN ledger'[u], ledger'[u][m].reason = "REFUND"
          PROVE  \E r \in Rides : \E n \in DOMAIN refunds'[r] :
                    payment'[r].method # "CARD" /\ ledger'[u][m].referenceId = <<r, n>>
      BY <1>5, <1>7, <2>2
    <2> QED
      BY <2>1, <2>2 DEF RefundsAreCredited, Credited
  <1>8. ASSUME UNCHANGED ledger, ~ \E c \in Calls : refundToWallet(c)
        PROVE  RefundsAreCredited'
    <2>1. \A r \in Rides : \A n : Entries(r, n)' = Entries(r, n)
      BY <1>8 DEF EntriesOf
    <2> HIDE DEF Entries
    <2> QED
      BY <1>7, <1>8, <2>1
  <1>9. ASSUME NEW u \in Users, NEW reason, NEW amount, NEW ref,
               Entered(u, reason, amount, ref), reason # "REFUND",
               ~ \E c \in Calls : refundToWallet(c)
        PROVE  RefundsAreCredited'
    <2>1. \A r \in Rides : Payer[r] \in Users
      BY <1>1
    <2>2. \A r \in Rides : \A n :
              /\ Entries(r, n)' = Entries(r, n)
              /\ \A m \in Entries(r, n) : ledger'[Payer[r]][m] = ledger[Payer[r]][m]
      BY <1>1, <1>9, <2>1, EntriesAfter
    <2>3. \A v \in Users : \A m \in DOMAIN ledger'[v] :
              \/ m \in DOMAIN ledger[v] /\ ledger'[v][m] = ledger[v][m]
              \/ ledger'[v][m].reason # "REFUND"
      BY <1>1, <1>9, EntriesAfter
    <2> HIDE DEF Entries
    <2> QED
      BY <1>7, <1>9, <2>2, <2>3
  <1>10. ASSUME NEW c \in Calls, refundToWallet(c),
                NEW q, q = call[c].ride, NEW N, N = Len(refunds[q])
         PROVE  RefundsAreCredited'
    <2> DEFINE row == [amount |-> call[c].amount, status |-> call[c].result,
                       stripeRefundId |-> Null]
    <2>1. /\ q \in Rides /\ Payer[q] \in Users /\ call[c].method \in Methods
          /\ payment[q].method = call[c].method /\ call[c].method # "CARD"
      BY <1>1, <1>10, CallFields DEF refundToWallet, Steps, CallsHold, CallHolds
    <2>2. Entered(Payer[q], "REFUND", call[c].amount, <<q, N + 1>>)
      BY <1>1, <1>10, EntersCredit
    <2>3. /\ refunds' = [refunds EXCEPT ![q] = Append(refunds[q], row)]
          /\ refunds \in [Rides -> Seq(Refund)]
      BY <1>1, <1>10 DEF refundToWallet, createRefund, TypesOK
    <2>4. /\ N \in Nat /\ DOMAIN refunds[q] = 1..N /\ DOMAIN refunds'[q] = 1..(N + 1)
          /\ refunds'[q][N + 1] = row
          /\ \A r \in Rides : r # q => refunds'[r] = refunds[r]
      <3>1. refunds[q] \in Seq(Refund) /\ refunds'[q] = Append(refunds[q], row)
        BY <2>1, <2>3
      <3> HIDE DEF row
      <3>2. /\ N \in Nat /\ DOMAIN refunds[q] = 1..N /\ DOMAIN refunds'[q] = 1..(N + 1)
            /\ refunds'[q][N + 1] = row
        BY <1>10, <3>1
      <3> QED
        BY <2>1, <2>3, <3>2
    <2>5. payment'[q].method # "CARD"
      BY <1>2, <2>1 DEF Kept
    <2>6. ASSUME NEW r \in Rides, NEW n, <<r, n>> # <<q, N + 1>>
          PROVE  /\ Entries(r, n)' = Entries(r, n)
                 /\ \A m \in Entries(r, n) : ledger'[Payer[r]][m] = ledger[Payer[r]][m]
      <3>1. Payer[r] \in Users
        BY <1>1
      <3> QED
        BY <1>1, <2>1, <2>2, <2>6, <3>1, EntriesAfter
    <2>7. Credited(q, N + 1)'
      <3>1. \E m : /\ Entries(q, N + 1)' = Entries(q, N + 1) \cup {m}
                  /\ ledger'[Payer[q]][m].amount = call[c].amount
        BY <1>1, <2>1, <2>2, EntriesAfter
      <3>2. refunds'[q][N + 1].amount = call[c].amount
        BY <2>4
      <3> HIDE DEF Entries, row
      <3> QED
        BY <3>1, <3>2 DEF Credited
    <2>8. ASSUME NEW r \in Rides, payment'[r].method # "CARD", NEW n \in DOMAIN refunds'[r]
          PROVE  Credited(r, n)'
      <3>1. CASE r = q /\ n = N + 1
        BY <2>7, <3>1
      <3>2. CASE r # q \/ n # N + 1
        <4>1. n \in DOMAIN refunds[r] /\ <<r, n>> # <<q, N + 1>>
          BY <2>4, <2>8, <3>2
        <4>2. /\ Entries(r, n)' = Entries(r, n)
              /\ \A m \in Entries(r, n) : ledger'[Payer[r]][m] = ledger[Payer[r]][m]
          BY <2>6, <4>1
        <4> HIDE DEF Entries
        <4> QED
          BY <1>6, <2>8, <4>1, <4>2
      <3> QED
        BY <3>1, <3>2
    <2>9. ASSUME NEW u \in Users, NEW m \in DOMAIN ledger'[u], ledger'[u][m].reason = "REFUND"
          PROVE  \E r \in Rides : \E n \in DOMAIN refunds'[r] :
                    payment'[r].method # "CARD" /\ ledger'[u][m].referenceId = <<r, n>>
      <3>1. CASE m \in DOMAIN ledger[u] /\ ledger'[u][m] = ledger[u][m]
        BY <1>5, <2>9, <3>1
      <3>2. CASE ledger'[u][m].referenceId = <<q, N + 1>>
        <4>1. N + 1 \in DOMAIN refunds'[q]
          BY <2>4
        <4> QED
          BY <2>1, <2>5, <3>2, <4>1
      <3> QED
        BY <1>1, <2>1, <2>2, <2>9, <3>1, <3>2, EntriesAfter
    <2> QED
      BY <2>8, <2>9 DEF RefundsAreCredited, Credited
  <1>11. ASSUME NEW c \in Calls, payFromWallet(c)
         PROVE  Payer[call[c].ride] \in Users
    BY <1>1, <1>11, CallFields DEF payFromWallet, Steps, Methods
  <1>12. "RIDE_PAYMENT" # "REFUND" /\ "TOPUP" # "REFUND" /\ "ADJUSTMENT" # "REFUND"
    OBVIOUS
  <1>13. \A t \in TopUps : Payer[t] \in Users
    BY <1>1
  <1> QED
    BY <1>1, <1>8, <1>9, <1>10, <1>11, <1>12, <1>13, LedgerSteps, Zenon

-----------------------------------------------------------------------------
(* Sums over finite sets.  The induction is the pigeonhole principle: the  *)
(* theorems about induction cannot be used here, as their parameters are   *)
(* operators.                                                              *)

\* A set that has 0 and the successors of what it has, has every number:
\* otherwise the numbers up to one that is missing, and missing too, could be
\* mapped by their predecessors to one fewer.
LEMMA Counting ==
    ASSUME NEW K, 0 \in K, \A n \in Nat : n \in K => n + 1 \in K
    PROVE  Nat \subseteq K
  <1> SUFFICES ASSUME NEW n \in Nat, n \notin K
               PROVE  FALSE
    OBVIOUS
  <1> DEFINE F == {m \in 0 .. n : m \notin K}
             f == [m \in F |-> m - 1]
  <1>1. /\ IsFiniteSet(F) /\ IsFiniteSet(F \ {n})
        /\ Cardinality(F) \in Nat /\ Cardinality(F \ {n}) = Cardinality(F) - 1
    <2>1. IsFiniteSet(0 .. n) /\ F \in SUBSET (0 .. n) /\ n \in F
      BY FS_Interval
    <2> HIDE DEF F
    <2> QED
      BY <2>1, FS_Subset, FS_RemoveElement, FS_CardinalityType
  <1>2. ASSUME NEW m \in F
        PROVE  m - 1 \in F \ {n}
    <2>1. m \in Nat /\ m <= n /\ m \notin K /\ m # 0
      OBVIOUS
    <2>2. m - 1 \in 0 .. n /\ m = (m - 1) + 1 /\ m - 1 # n
      BY <2>1
    <2> QED
      BY <2>1, <2>2
  <1>3. f \in [F -> F \ {n}]
    BY <1>2
  <1>4. \A x, y \in F : f[x] = f[y] => x = y
    OBVIOUS
  <1>5. Cardinality(F \ {n}) < Cardinality(F)
    BY <1>1
  <1> HIDE DEF F, f
  <1> QED
    BY <1>1, <1>3, <1>4, <1>5, FS_PigeonHole

\* The element MapThenSumSet takes first.
Picked(s) == CHOOSE x \in s : TRUE

\* it gives every subset of S the sum of a over it.
Sums(it, a, S) ==
    it = [s \in SUBSET S |-> IF s = {} THEN 0 ELSE a[Picked(s)] + it[s \ {Picked(s)}]]

\* By the size of subsets.
LEMMA SumExists ==
    ASSUME NEW S, IsFiniteSet(S), NEW a
    PROVE  \E it : Sums(it, a, S)
  <1> DEFINE Small(n) == {s \in SUBSET S : Cardinality(s) <= n}
             next(it, s) == IF s = {} THEN 0 ELSE a[Picked(s)] + it[s \ {Picked(s)}]
             K == {n \in Nat : \E it : it = [s \in Small(n) |-> next(it, s)]}
  <1>0. \A s \in SUBSET S : IsFiniteSet(s) /\ Cardinality(s) \in Nat
    BY FS_Subset, FS_CardinalityType
  <1>1. \A s \in SUBSET S : s # {} =>
           /\ Picked(s) \in s /\ s \ {Picked(s)} \in SUBSET S
           /\ Cardinality(s \ {Picked(s)}) = Cardinality(s) - 1
    BY <1>0, FS_RemoveElement DEF Picked
  <1> HIDE DEF Picked
  <1>2. 0 \in K
    <2>1. \A s \in Small(0) : s = {}
      BY <1>0, FS_EmptySet
    <2>2. [s \in Small(0) |-> 0] = [s \in Small(0) |-> next([t \in Small(0) |-> 0], s)]
      BY <2>1
    <2> QED
      BY <2>2
  <1>3. ASSUME NEW n \in Nat, n \in K
        PROVE  n + 1 \in K
    <2>1. PICK it : it = [s \in Small(n) |-> next(it, s)]
      BY <1>3
    <2> DEFINE jt == [s \in Small(n + 1) |-> next(it, s)]
    <2>2. \A s \in Small(n) : s \in Small(n + 1)
      BY <1>0
    <2>3. \A s \in Small(n) : it[s] = next(it, s)
      BY <2>1
    <2>4. \A s \in Small(n) : jt[s] = it[s]
      BY <2>2, <2>3
    <2>5. ASSUME NEW s \in Small(n + 1), s # {}
          PROVE  s \ {Picked(s)} \in Small(n)
      <3>1. s \in SUBSET S /\ Cardinality(s) <= n + 1 /\ Cardinality(s) \in Nat
        BY <1>0
      <3>2. PICK t : t = s \ {Picked(s)}
        OBVIOUS
      <3>3. t \in SUBSET S /\ Cardinality(t) = Cardinality(s) - 1
        BY <1>1, <2>5, <3>1, <3>2
      <3>4. Cardinality(t) <= n
        BY <3>1, <3>3
      <3>5. t \in Small(n)
        BY <3>3, <3>4
      <3> QED
        BY <3>2, <3>5
    <2>6. ASSUME NEW s \in Small(n + 1)
          PROVE  next(jt, s) = next(it, s)
      <3>1. s # {} => jt[s \ {Picked(s)}] = it[s \ {Picked(s)}]
        <4> HIDE DEF Small, jt
        <4> QED
          BY <2>4, <2>5
      <3> HIDE DEF Small, jt
      <3> QED
        BY <3>1
    <2>8. jt = [s \in Small(n + 1) |-> jt[s]] /\ \A s \in Small(n + 1) : jt[s] = next(it, s)
      OBVIOUS
    <2> HIDE DEF Small, next, jt
    <2>7. jt = [s \in Small(n + 1) |-> next(jt, s)]
      BY <2>6, <2>8
    <2> QED
      BY <2>7
  <1>4. Cardinality(S) \in K
    <2> HIDE DEF K
    <2> QED
      BY <1>0, <1>2, <1>3, Counting
  <1>5. Small(Cardinality(S)) = SUBSET S
    BY <1>0, FS_Subset
  <1> QED
    BY <1>4, <1>5 DEF Sums

\* The equation, at one set.
LEMMA SumStep ==
    ASSUME NEW S, NEW a, NEW it, Sums(it, a, S), NEW s \in SUBSET S
    PROVE  /\ s = {} => it[s] = 0
           /\ s # {} => /\ Picked(s) \in s /\ s \ {Picked(s)} \in SUBSET S
                        /\ it[s] = a[Picked(s)] + it[s \ {Picked(s)}]
  <1>1. s # {} => Picked(s) \in s
    BY DEF Picked
  <1>2. it[s] = IF s = {} THEN 0 ELSE a[Picked(s)] + it[s \ {Picked(s)}]
    <2> HIDE DEF Picked
    <2> QED
      BY DEF Sums
  <1> HIDE DEF Picked
  <1> QED
    BY <1>1, <1>2

\* Nothing adds up to 0.
LEMMA SumOfNone ==
    ASSUME NEW S, NEW a, NEW it, Sums(it, a, S)
    PROVE  it[{}] = 0
  <1>1. {} \in SUBSET S
    OBVIOUS
  <1> QED
    BY <1>1, SumStep

\* Induction over the size of subsets of a finite set.
LEMMA BySize ==
    ASSUME NEW S, IsFiniteSet(S), NEW K, {} \in K,
           \A s \in SUBSET S : s # {} /\ (\A x \in s : s \ {x} \in K) => s \in K
    PROVE  S \in K
  <1> DEFINE N == {n \in Nat : \A s \in SUBSET S : Cardinality(s) = n => s \in K}
  <1>0. \A s \in SUBSET S : IsFiniteSet(s) /\ Cardinality(s) \in Nat
    BY FS_Subset, FS_CardinalityType
  <1>1. 0 \in N
    BY <1>0, FS_EmptySet
  <1>2. ASSUME NEW n \in Nat, n \in N, NEW s \in SUBSET S, Cardinality(s) = n + 1
        PROVE  s \in K
    <2>1. s # {} /\ IsFiniteSet(s)
      <3>1. Cardinality(s) # 0
        BY <1>2
      <3> QED
        BY <1>0, <3>1, FS_EmptySet
    <2>2. \A x \in s : s \ {x} \in SUBSET S /\ Cardinality(s \ {x}) = n
      <3>1. \A x \in s : s \ {x} \in SUBSET S
        OBVIOUS
      <3>2. \A x \in s : Cardinality(s \ {x}) = Cardinality(s) - 1
        BY <2>1, FS_RemoveElement
      <3> QED
        BY <1>2, <3>1, <3>2
    <2> QED
      BY <1>2, <2>1, <2>2
  <1>3. Cardinality(S) \in N
    <2> HIDE DEF N
    <2>1. \A n \in Nat : n \in N => n + 1 \in N
      BY <1>2 DEF N
    <2> QED
      BY <1>0, <1>1, <2>1, Counting
  <1> QED
    BY <1>0, <1>3

\* Sums of numbers are numbers.
LEMMA SumType ==
    ASSUME NEW S, IsFiniteSet(S), NEW a, NEW it, Sums(it, a, S), \A x \in S : a[x] \in Nat
    PROVE  \A s \in SUBSET S : it[s] \in Nat
  <1> SUFFICES ASSUME NEW R \in SUBSET S
               PROVE  it[R] \in Nat
    OBVIOUS
  <1> DEFINE K == {s \in SUBSET S : it[s] \in Nat}
  <1>1. {} \in SUBSET S /\ IsFiniteSet(R)
    <2> HIDE DEF K
    <2> QED
      BY FS_Subset
  <1>2. {} \in K
    <2>1. it[{}] = 0
      BY SumOfNone
    <2> QED
      BY <1>1, <2>1
  <1>3. ASSUME NEW s \in SUBSET R, s # {}, \A x \in s : s \ {x} \in K
        PROVE  s \in K
    <2>1. s \in SUBSET S
      OBVIOUS
    <2>2. /\ Picked(s) \in s
          /\ it[s] = a[Picked(s)] + it[s \ {Picked(s)}]
      BY <1>3, <2>1, SumStep
    <2> QED
      BY <1>3, <2>1, <2>2
  <1>4. R \in K
    <2> HIDE DEF K
    <2> QED
      BY <1>1, <1>2, <1>3, BySize
  <1> QED
    BY <1>4

\* Which element comes first does not matter.
LEMMA SumAnyOrder ==
    ASSUME NEW S, IsFiniteSet(S), NEW a, NEW it, Sums(it, a, S), \A x \in S : a[x] \in Nat
    PROVE  \A s \in SUBSET S : \A x \in s : it[s] = a[x] + it[s \ {x}]
  <1> SUFFICES ASSUME NEW R \in SUBSET S
               PROVE  \A x \in R : it[R] = a[x] + it[R \ {x}]
    OBVIOUS
  <1> DEFINE K == {s \in SUBSET S : \A x \in s : it[s] = a[x] + it[s \ {x}]}
  <1>1. {} \in K /\ IsFiniteSet(R)
    BY FS_Subset
  <1>2. ASSUME NEW s \in SUBSET R, s # {}, \A x \in s : s \ {x} \in K, NEW x \in s
        PROVE  it[s] = a[x] + it[s \ {x}]
    <2>1. PICK p : p = Picked(s)
      OBVIOUS
    <2>2. p \in s /\ it[s] = a[p] + it[s \ {p}]
      BY <1>2, <2>1, SumStep
    <2>3. CASE x = p
      BY <2>2, <2>3
    <2>4. CASE x # p
      <3>1. x \in s \ {p} /\ p \in s \ {x} /\ (s \ {p}) \ {x} = (s \ {x}) \ {p}
        BY <2>2, <2>4
      <3>2. s \ {p} \in K /\ s \ {x} \in K
        BY <1>2, <2>2
      <3>3. /\ it[s \ {p}] = a[x] + it[(s \ {p}) \ {x}]
            /\ it[s \ {x}] = a[p] + it[(s \ {p}) \ {x}]
        BY <3>1, <3>2
      <3>4. a[x] \in Nat /\ a[p] \in Nat /\ it[(s \ {p}) \ {x}] \in Nat
        BY <1>2, <2>2, SumType
      <3> QED
        BY <2>2, <3>3, <3>4
    <2> QED
      BY <2>3, <2>4
  <1>3. R \in K
    <2>1. \A s \in SUBSET R : s # {} /\ (\A x \in s : s \ {x} \in K) => s \in K
      BY <1>2
    <2> HIDE DEF K
    <2> QED
      BY <1>1, <2>1, BySize
  <1> QED
    BY <1>3

\* Two sums agree on what they have in common.
LEMMA SumsAgree ==
    ASSUME NEW S, IsFiniteSet(S), NEW a, NEW it, Sums(it, a, S),
           NEW T, NEW b, NEW jt, Sums(jt, b, T),
           NEW R, R \subseteq S, R \subseteq T, \A x \in R : a[x] = b[x]
    PROVE  it[R] = jt[R]
  <1> DEFINE K == {s \in SUBSET R : it[s] = jt[s]}
  <1>1. {} \in SUBSET S /\ {} \in SUBSET T /\ IsFiniteSet(R)
    <2>1. R \in SUBSET S
      OBVIOUS
    <2> HIDE DEF K
    <2> QED
      BY <2>1, FS_Subset
  <1>2. {} \in K
    <2>1. it[{}] = 0
      BY SumOfNone
    <2>2. jt[{}] = 0
      BY SumOfNone
    <2> QED
      BY <1>1, <2>1, <2>2
  <1>3. ASSUME NEW s \in SUBSET R, s # {}, \A x \in s : s \ {x} \in K
        PROVE  s \in K
    <2>1. s \in SUBSET S /\ s \in SUBSET T
      OBVIOUS
    <2>2. PICK p : p = Picked(s)
      OBVIOUS
    <2>3. /\ p \in s /\ it[s] = a[p] + it[s \ {p}]
          /\ jt[s] = b[p] + jt[s \ {p}]
      <3>1. Picked(s) \in s /\ it[s] = a[Picked(s)] + it[s \ {Picked(s)}]
        <4> HIDE DEF K, Picked
        <4> QED
          BY <1>3, <2>1, SumStep
      <3>2. jt[s] = b[Picked(s)] + jt[s \ {Picked(s)}]
        <4> HIDE DEF K, Picked
        <4> QED
          BY <1>3, <2>1, SumStep
      <3> QED
        BY <2>2, <3>1, <3>2
    <2>4. a[p] = b[p] /\ it[s \ {p}] = jt[s \ {p}]
      BY <1>3, <2>3
    <2> QED
      BY <2>3, <2>4
  <1>4. R \in K
    <2> HIDE DEF K
    <2> QED
      BY <1>1, <1>2, <1>3, BySize
  <1> QED
    BY <1>4

\* The sum of a over S.
Total(a, S) == MapThenSumSet(LAMBDA x : a[x], S)

\* MapThenSumSet is such a sum.
LEMMA TotalSums ==
    ASSUME NEW S, IsFiniteSet(S), NEW a
    PROVE  \E it : Sums(it, a, S) /\ Total(a, S) = it[S]
  <1> DEFINE jt == CHOOSE jt : jt = [s \in SUBSET S |->
                     IF s = {} THEN 0 ELSE a[Picked(s)] + jt[s \ {Picked(s)}]]
  <1>1. Total(a, S) = jt[S]
    BY DEF Total, MapThenSumSet, MapThenFoldSet, Picked
  <1>2. PICK it : Sums(it, a, S)
    BY SumExists
  <1>3. Sums(jt, a, S)
    <2> HIDE DEF Picked
    <2> QED
      BY <1>2 DEF Sums
  <1> QED
    BY <1>1, <1>3

LEMMA TotalOfNone == ASSUME NEW a PROVE Total(a, {}) = 0
  BY TotalSums, SumOfNone, FS_EmptySet

LEMMA TotalType ==
    ASSUME NEW S, IsFiniteSet(S), NEW a, \A x \in S : a[x] \in Nat
    PROVE  Total(a, S) \in Nat
  <1>1. S \in SUBSET S
    OBVIOUS
  <1> QED
    BY <1>1, TotalSums, SumType

\* Only the amounts matter.
LEMMA TotalsAgree ==
    ASSUME NEW S, IsFiniteSet(S), NEW a, NEW b, \A x \in S : a[x] = b[x]
    PROVE  Total(a, S) = Total(b, S)
  <1>1. PICK it : Sums(it, a, S) /\ Total(a, S) = it[S]
    BY TotalSums
  <1>2. PICK jt : Sums(jt, b, S) /\ Total(b, S) = jt[S]
    BY TotalSums
  <1> QED
    BY <1>1, <1>2, SumsAgree

\* What one more element adds.
LEMMA TotalOfMore ==
    ASSUME NEW S, IsFiniteSet(S), NEW x, x \notin S, NEW a, \A y \in S \cup {x} : a[y] \in Nat
    PROVE  Total(a, S \cup {x}) = a[x] + Total(a, S)
  <1> DEFINE T == S \cup {x}
  <1>1. IsFiniteSet(T)
    BY FS_AddElement
  <1>2. PICK it : Sums(it, a, S) /\ Total(a, S) = it[S]
    BY TotalSums
  <1>3. PICK jt : Sums(jt, a, T) /\ Total(a, T) = jt[T]
    BY <1>1, TotalSums
  <1>4. T \in SUBSET T /\ x \in T /\ T \ {x} = S
    OBVIOUS
  <1>5. jt[T] = a[x] + jt[T \ {x}]
    <2> HIDE DEF T
    <2> QED
      BY <1>1, <1>3, <1>4, SumAnyOrder
  <1>6. it[S] = jt[S]
    <2>1. S \subseteq S /\ S \subseteq T
      OBVIOUS
    <2> HIDE DEF T
    <2> QED
      BY <1>1, <1>2, <1>3, <2>1, SumsAgree
  <1> QED
    BY <1>2, <1>3, <1>4, <1>5, <1>6

\* What all the rows of a payment refund.
Refunded(r) == RefundSum(r, LAMBDA row : TRUE)

\* The two sums of the code, as totals.
RefundsTotalled ==
    \A r \in Rides : IsFiniteSet(DOMAIN refunds[r]) =>
        Refunded(r) = Total([n \in DOMAIN refunds[r] |-> refunds[r][n].amount], DOMAIN refunds[r])

ReversedTotalled ==
    \A r \in Rides : IsFiniteSet(reversed[r]) =>
        sumReversed(r) = Total([f \in reversed[r] |-> f.key.amount], reversed[r])

\* RefundSum spells out the amounts it adds; they are these.
LEMMA RefundTotals == RefundsTotalled
  <1> SUFFICES ASSUME NEW r, IsFiniteSet(DOMAIN refunds[r])
               PROVE  Refunded(r) = Total([n \in DOMAIN refunds[r] |-> refunds[r][n].amount],
                                          DOMAIN refunds[r])
    BY DEF RefundsTotalled
  <1> DEFINE S == DOMAIN refunds[r]
             a == [n \in S |-> refunds[r][n].amount]
             jt == CHOOSE jt : jt = [s \in SUBSET S |->
                     IF s = {} THEN 0
                     ELSE refunds[r][Picked(s)].amount + jt[s \ {Picked(s)}]]
  <1>1. \A it : Sums(it, a, S) <=> it = [s \in SUBSET S |->
                     IF s = {} THEN 0
                     ELSE refunds[r][Picked(s)].amount + it[s \ {Picked(s)}]]
    <2>1. \A s \in SUBSET S : s # {} => Picked(s) \in S
      BY DEF Picked
    <2> HIDE DEF Picked
    <2> QED
      BY <2>1 DEF Sums
  <1>2. {n \in S : TRUE} = S
    OBVIOUS
  <1>3. Refunded(r) = jt[S]
    BY <1>2 DEF Refunded, RefundSum, MapThenSumSet, MapThenFoldSet, Picked
  <1>4. PICK it : Sums(it, a, S) /\ Total(a, S) = it[S]
    BY TotalSums
  <1>5. Sums(jt, a, S)
    <2> HIDE DEF S, a, Picked
    <2> QED
      BY <1>1, <1>4
  <1> HIDE DEF S, a, jt
  <1>6. it[S] = jt[S]
    BY <1>4, <1>5, SumsAgree DEF S
  <1> QED
    BY <1>3, <1>4, <1>6 DEF S, a

\* And so does sumReversed.
LEMMA ReversedTotals == ReversedTotalled
  <1> SUFFICES ASSUME NEW r, IsFiniteSet(reversed[r])
               PROVE  sumReversed(r) = Total([f \in reversed[r] |-> f.key.amount], reversed[r])
    BY DEF ReversedTotalled
  <1> DEFINE S == reversed[r]
             a == [f \in S |-> f.key.amount]
             jt == CHOOSE jt : jt = [s \in SUBSET S |->
                     IF s = {} THEN 0
                     ELSE Picked(s).key.amount + jt[s \ {Picked(s)}]]
  <1>1. \A it : Sums(it, a, S) <=> it = [s \in SUBSET S |->
                     IF s = {} THEN 0
                     ELSE Picked(s).key.amount + it[s \ {Picked(s)}]]
    <2>1. \A s \in SUBSET S : s # {} => Picked(s) \in S
      BY DEF Picked
    <2> HIDE DEF Picked
    <2> QED
      BY <2>1 DEF Sums
  <1>3. sumReversed(r) = jt[S]
    BY DEF sumReversed, MapThenSumSet, MapThenFoldSet, Picked
  <1>4. PICK it : Sums(it, a, S) /\ Total(a, S) = it[S]
    BY TotalSums
  <1>5. Sums(jt, a, S)
    <2> HIDE DEF S, a, Picked
    <2> QED
      BY <1>1, <1>4
  <1> HIDE DEF S, a, jt
  <1>6. it[S] = jt[S]
    BY <1>4, <1>5, SumsAgree DEF S
  <1> QED
    BY <1>3, <1>4, <1>6 DEF S, a

-----------------------------------------------------------------------------
(* Wallets add up.  WalletLedger's LedgerChains relates neighbours; taken  *)
(* together, what a ledger credits less what it debits is the balance.     *)

EntryAmounts(u) == [n \in DOMAIN ledger[u] |-> ledger[u][n].amount]
Positions(u, type) == {n \in DOMAIN ledger[u] : ledger[u][n].type = type}

\* Where a fraction of a cent may have been rounded in the balance's favour.
AdjustedDown(u) == {n \in Positions(u, "DEBIT") : ledger[u][n].reason = "ADJUSTMENT"}

Summed(u, type) == Total(EntryAmounts(u), Positions(u, type))

\* Up to a cent for each debit of an adjustment, the balance is the sum of the
\* ledger.
AddsUp(u) ==
    balance[u] + Summed(u, "DEBIT") - Summed(u, "CREDIT") \in 0 .. Cardinality(AdjustedDown(u))

LedgersAddUp == \A u \in Users : AddsUp(u)

\* The sets and sums are finite, in one state and in the next.
EntriesCounted ==
    WalletTypeOK => \A u \in Users : \A type \in Types :
        /\ IsFiniteSet(Positions(u, type)) /\ Positions(u, type) \subseteq DOMAIN ledger[u]
        /\ \A n \in DOMAIN ledger[u] : EntryAmounts(u)[n] = ledger[u][n].amount
                                       /\ EntryAmounts(u)[n] \in Nat
        /\ Summed(u, type) \in Nat
        /\ IsFiniteSet(AdjustedDown(u)) /\ Cardinality(AdjustedDown(u)) \in Nat

LEMMA NowEntries == EntriesCounted
  <1> SUFFICES ASSUME WalletTypeOK, NEW u \in Users, NEW type \in Types
               PROVE  /\ IsFiniteSet(Positions(u, type)) /\ Positions(u, type) \subseteq DOMAIN ledger[u]
                      /\ \A n \in DOMAIN ledger[u] : EntryAmounts(u)[n] = ledger[u][n].amount
                                                     /\ EntryAmounts(u)[n] \in Nat
                      /\ Summed(u, type) \in Nat
                      /\ IsFiniteSet(AdjustedDown(u)) /\ Cardinality(AdjustedDown(u)) \in Nat
    BY DEF EntriesCounted
  <1>1. ledger[u] \in Seq(Entry)
    BY DEF WalletTypeOK
  <1>2. IsFiniteSet(DOMAIN ledger[u])
    <2>1. DOMAIN ledger[u] = 1 .. Len(ledger[u]) /\ Len(ledger[u]) \in Nat
      BY <1>1
    <2> QED
      BY <2>1, FS_Interval
  <1>3. /\ Positions(u, type) \in SUBSET DOMAIN ledger[u]
        /\ AdjustedDown(u) \in SUBSET DOMAIN ledger[u]
    BY DEF Positions, AdjustedDown
  <1>4. IsFiniteSet(Positions(u, type)) /\ IsFiniteSet(AdjustedDown(u))
    BY <1>2, <1>3, FS_Subset
  <1>5. \A n \in DOMAIN ledger[u] : EntryAmounts(u)[n] = ledger[u][n].amount
                                    /\ EntryAmounts(u)[n] \in Nat
    <2> SUFFICES ASSUME NEW n \in DOMAIN ledger[u]
                 PROVE  EntryAmounts(u)[n] = ledger[u][n].amount /\ EntryAmounts(u)[n] \in Nat
      OBVIOUS
    <2>1. ledger[u][n] \in Entry
      BY <1>1
    <2>2. ledger[u][n].amount \in Nat
      BY <2>1 DEF Entry
    <2> QED
      BY <2>2 DEF EntryAmounts
  <1>6. Summed(u, type) \in Nat
    <2>1. \A n \in Positions(u, type) : EntryAmounts(u)[n] \in Nat
      BY <1>3, <1>5
    <2> QED
      BY <1>4, <2>1, TotalType DEF Summed
  <1>7. Cardinality(AdjustedDown(u)) \in Nat
    BY <1>4, FS_CardinalityType
  <1> QED
    BY <1>3, <1>4, <1>5, <1>6, <1>7

LEMMA NextEntries == EntriesCounted'
  BY NowEntries, PTL

\* A ledger grows by one position at a time.
LEMMA OneMoreEntry ==
    ASSUME WalletTypeOK, NEW u \in Users, NEW e \in Entry, Books(u, e)
    PROVE  \E n : /\ n \notin DOMAIN ledger[u] /\ DOMAIN ledger'[u] = DOMAIN ledger[u] \cup {n}
                  /\ \A m \in DOMAIN ledger[u] : ledger'[u][m] = ledger[u][m]
                  /\ ledger'[u][n] = e
  <1> DEFINE n == Len(ledger[u]) + 1
  <1>1. /\ Len(ledger[u]) \in Nat /\ DOMAIN ledger[u] = 1 .. Len(ledger[u])
        /\ DOMAIN ledger'[u] = 1 .. n
    BY Appended
  <1>2. /\ \A m \in DOMAIN ledger[u] : ledger'[u][m] = ledger[u][m]
        /\ ledger'[u][n] = e
    BY Appended
  <1>3. n \notin DOMAIN ledger[u] /\ 1 .. n = DOMAIN ledger[u] \cup {n}
    BY <1>1
  <1> HIDE DEF n
  <1> QED
    BY <1>1, <1>2, <1>3

\* One more entry counts on its side, and only there.
LEMMA EntryCounts ==
    ASSUME WInv, NEW u \in Users, NEW e \in Entry, Books(u, e), NEW type \in Types
    PROVE  Summed(u, type)' = Summed(u, type) + (IF e.type = type THEN e.amount ELSE 0)
  <1> DEFINE E == Positions(u, type)
             now == EntryAmounts(u)
             next == EntryAmounts(u)'
  <1>1. WalletTypeOK /\ WalletTypeOK'
    BY Appended DEF WInv
  <1>2. PICK n : /\ n \notin DOMAIN ledger[u] /\ DOMAIN ledger'[u] = DOMAIN ledger[u] \cup {n}
                 /\ \A m \in DOMAIN ledger[u] : ledger'[u][m] = ledger[u][m]
                 /\ ledger'[u][n] = e
    BY <1>1, OneMoreEntry
  <1>3. /\ IsFiniteSet(E) /\ E \subseteq DOMAIN ledger[u]
        /\ \A m \in DOMAIN ledger[u] : now[m] = ledger[u][m].amount /\ now[m] \in Nat
        /\ Summed(u, type) \in Nat
    BY <1>1, NowEntries DEF EntriesCounted
  <1>4. \A m \in DOMAIN ledger'[u] : next[m] = ledger'[u][m].amount /\ next[m] \in Nat
    BY <1>1, NextEntries DEF EntriesCounted
  <1>5. Positions(u, type)' = IF e.type = type THEN E \cup {n} ELSE E
    BY <1>2 DEF Positions
  <1>6. Summed(u, type) = Total(now, E) /\ Summed(u, type)' = Total(next, Positions(u, type)')
    BY DEF Summed
  <1>7. n \notin E /\ next[n] = e.amount /\ \A m \in E \cup {n} : next[m] \in Nat
    BY <1>2, <1>3, <1>4
  <1>8. \A m \in E : next[m] = now[m]
    BY <1>2, <1>3, <1>4
  <1> HIDE DEF E, now, next
  <1>9. Total(next, E) = Total(now, E)
    BY <1>3, <1>8, TotalsAgree
  <1>10. Total(next, E \cup {n}) = next[n] + Total(next, E)
    BY <1>3, <1>7, TotalOfMore
  <1>11. e.amount \in Nat
    BY DEF Entry
  <1> QED
    BY <1>3, <1>5, <1>6, <1>7, <1>9, <1>10, <1>11

LEMMA AdjustmentCounts ==
    ASSUME WInv, NEW u \in Users, NEW e \in Entry, Books(u, e)
    PROVE  Cardinality(AdjustedDown(u))' = Cardinality(AdjustedDown(u))
               + (IF e.type = "DEBIT" /\ e.reason = "ADJUSTMENT" THEN 1 ELSE 0)
  <1> DEFINE A == AdjustedDown(u)
  <1>1. WalletTypeOK
    BY DEF WInv
  <1>2. PICK n : /\ n \notin DOMAIN ledger[u] /\ DOMAIN ledger'[u] = DOMAIN ledger[u] \cup {n}
                 /\ \A m \in DOMAIN ledger[u] : ledger'[u][m] = ledger[u][m]
                 /\ ledger'[u][n] = e
    BY <1>1, OneMoreEntry
  <1>3. IsFiniteSet(A) /\ Cardinality(A) \in Nat
    BY <1>1, NowEntries DEF EntriesCounted, Types
  <1>4. n \notin A
    BY <1>2 DEF AdjustedDown, Positions
  <1>5. AdjustedDown(u)' = IF e.type = "DEBIT" /\ e.reason = "ADJUSTMENT" THEN A \cup {n} ELSE A
    BY <1>2 DEF AdjustedDown, Positions
  <1>6. Cardinality(AdjustedDown(u))' = Cardinality(AdjustedDown(u)')
    OBVIOUS
  <1> HIDE DEF A
  <1>7. Cardinality(A \cup {n}) = Cardinality(A) + 1
    BY <1>3, <1>4, FS_AddElement
  <1> QED
    BY <1>3, <1>5, <1>6, <1>7 DEF A

LEMMA AddsUpStep ==
    ASSUME WInv, LedgersAddUp, [WalletNext]_walletVars
    PROVE  LedgersAddUp'
  <1>1. CASE UNCHANGED walletVars
    BY <1>1 DEF walletVars, LedgersAddUp, AddsUp, Summed, EntryAmounts, Positions, AdjustedDown
  <1>2. ASSUME NEW u \in Users, NEW e \in Entry, Books(u, e), NEW v \in Users
        PROVE  AddsUp(v)'
    <2>1. CASE v # u
      <3>1. ledger'[v] = ledger[v] /\ balance'[v] = balance[v]
        BY <1>2, <2>1, Appended DEF WInv
      <3> QED
        BY <3>1 DEF LedgersAddUp, AddsUp, Summed, EntryAmounts, Positions, AdjustedDown
    <2>2. CASE v = u
      <3> DEFINE b == balance[u]
                 c == Summed(u, "CREDIT")
                 d == Summed(u, "DEBIT")
                 k == Cardinality(AdjustedDown(u))
      <3>1. /\ Summed(u, "CREDIT")' = c + (IF e.type = "CREDIT" THEN e.amount ELSE 0)
            /\ Summed(u, "DEBIT")' = d + (IF e.type = "DEBIT" THEN e.amount ELSE 0)
        BY <1>2, EntryCounts DEF Types
      <3>2. k' = k + (IF e.type = "DEBIT" /\ e.reason = "ADJUSTMENT" THEN 1 ELSE 0)
        BY <1>2, AdjustmentCounts
      <3>3. balance'[u] = e.balanceAfter /\ Takes(b, e)
        BY <1>2, Appended DEF WInv, Books
      <3>4. b \in Int /\ c \in Nat /\ d \in Nat /\ k \in Nat
        BY NowEntries DEF WInv, WalletTypeOK, EntriesCounted, Types
      <3>5. e.amount \in Nat /\ e.balanceAfter \in Int
        BY DEF Entry
      <3>6. b + d - c \in 0 .. k
        BY DEF LedgersAddUp, AddsUp
      <3> HIDE DEF b, c, d, k
      <3>7. CASE e.type = "CREDIT" /\ e.balanceAfter = b + e.amount
        BY <2>2, <3>1, <3>2, <3>3, <3>4, <3>5, <3>6, <3>7 DEF AddsUp, k
      <3>8. CASE e.type = "DEBIT" /\ e.balanceAfter = b - e.amount
        BY <2>2, <3>1, <3>2, <3>3, <3>4, <3>5, <3>6, <3>8 DEF AddsUp, k
      <3>9. CASE e.type = "DEBIT" /\ e.reason = "ADJUSTMENT" /\ e.balanceAfter = b - e.amount + 1
        BY <2>2, <3>1, <3>2, <3>3, <3>4, <3>5, <3>6, <3>9 DEF AddsUp, k
      <3> QED
        BY <3>3, <3>7, <3>8, <3>9 DEF Takes
    <2> QED
      BY <2>1, <2>2
  <1>3. UNCHANGED walletVars \/ \E u \in Users, e \in Entry : Books(u, e)
    BY WalletBooks
  <1> QED
    BY <1>1, <1>2, <1>3 DEF LedgersAddUp

LEMMA AddsUpStart == WalletInit => LedgersAddUp
  <1> SUFFICES ASSUME WalletInit, NEW u \in Users
               PROVE  AddsUp(u)
    BY DEF LedgersAddUp
  <1>1. \A type : Positions(u, type) = {}
    BY DEF WalletInit, Positions
  <1>2. \A type : Summed(u, type) = 0
    BY <1>1, TotalOfNone DEF Summed
  <1>3. AdjustedDown(u) = {} /\ balance[u] = 0
    BY <1>1 DEF WalletInit, AdjustedDown
  <1>4. Cardinality(AdjustedDown(u)) = 0
    BY <1>3, FS_EmptySet
  <1> QED
    BY <1>2, <1>3, <1>4 DEF AddsUp

\* A balance is what its ledger credits less what it debits, but for a cent at
\* most for each debit of an adjustment that carries a fraction of one: the two
\* can be reconciled, for "Wallet.balance is a denormalized cache maintained
\* transactionally" (schema.prisma:503).
THEOREM BalancesAreSums == WalletSpec => []LedgersAddUp
  BY AddsUpStart, AddsUpStep, WalletsAreSound, WalletStart, WalletStep, PTL DEF WalletSpec

-----------------------------------------------------------------------------
(* Refunds of card payments.  What Stripe has reversed is what the rows    *)
(* say, and what is still to be recorded of it.                            *)

\* Stripe's refunds of a ride that no row records.
Unrecorded(r) == {f \in reversed[r] : Recordable(r, f.key)}

Amounts(r) == [f \in reversed[r] |-> f.key.amount]

\* Stripe makes one refund under a key, of a charge, and within it.
ReversalsHold(r) ==
    /\ IsFiniteSet(reversed[r])
    /\ \A f, g \in reversed[r] : f.key = g.key => f = g
    /\ reversed[r] # {} => intent[r].status = "succeeded"
    /\ sumReversed(r) <= intent[r].amount

\* Rows record refunds Stripe has made, each its own.
RowsHold(r) ==
    payment[r].method \notin {"CASH", "WALLET"} =>
        /\ \A n \in DOMAIN refunds[r] :
              \E f \in reversed[r] : f.key = refunds[r][n].stripeRefundId
        /\ Refunded(r) + Total(Amounts(r), Unrecorded(r)) = sumReversed(r)

\* A request that is to record a refund has had Stripe make it.
RecordHolds(c) ==
    call[c].pc = "record" /\ call[c].method = "CARD" =>
        \E f \in reversed[call[c].ride] : f.key = KeyOf(c)

CardsHold ==
    /\ \A r \in Rides : ReversalsHold(r) /\ RowsHold(r)
    /\ \A c \in Calls : RecordHolds(c)

\* The amounts of the rows, by their positions.
RowAmounts(r) == [n \in DOMAIN refunds[r] |-> refunds[r][n].amount]

\* What the steps need of all these sums, in one state and in the next.
TotalsHold ==
    TypesOK => \A r \in Rides : IsFiniteSet(reversed[r]) =>
        /\ IsFiniteSet(DOMAIN refunds[r]) /\ IsFiniteSet(Unrecorded(r))
        /\ \A n \in DOMAIN refunds[r] : RowAmounts(r)[n] \in Nat
        /\ \A f \in reversed[r] : f.key.amount \in Nat /\ Amounts(r)[f] = f.key.amount
        /\ Refunded(r) = Total(RowAmounts(r), DOMAIN refunds[r]) /\ Refunded(r) \in Nat
        /\ sumReversed(r) = Total(Amounts(r), reversed[r]) /\ sumReversed(r) \in Nat
        /\ Total(Amounts(r), Unrecorded(r)) \in Nat

LEMMA NowTotals == TotalsHold
  <1> SUFFICES ASSUME TypesOK, NEW r \in Rides, IsFiniteSet(reversed[r])
               PROVE  /\ IsFiniteSet(DOMAIN refunds[r]) /\ IsFiniteSet(Unrecorded(r))
                      /\ \A n \in DOMAIN refunds[r] : RowAmounts(r)[n] \in Nat
                      /\ \A f \in reversed[r] : f.key.amount \in Nat /\ Amounts(r)[f] = f.key.amount
                      /\ Refunded(r) = Total(RowAmounts(r), DOMAIN refunds[r]) /\ Refunded(r) \in Nat
                      /\ sumReversed(r) = Total(Amounts(r), reversed[r]) /\ sumReversed(r) \in Nat
                      /\ Total(Amounts(r), Unrecorded(r)) \in Nat
    BY DEF TotalsHold
  <1>1. IsFiniteSet(DOMAIN refunds[r])
    <2>1. refunds[r] \in Seq(Refund)
      BY DEF TypesOK
    <2>2. DOMAIN refunds[r] = 1 .. Len(refunds[r]) /\ Len(refunds[r]) \in Nat
      BY <2>1
    <2> QED
      BY <2>2, FS_Interval
  <1>2. Unrecorded(r) \subseteq reversed[r] /\ IsFiniteSet(Unrecorded(r))
    <2>1. Unrecorded(r) \in SUBSET reversed[r]
      BY DEF Unrecorded
    <2> QED
      BY <2>1, FS_Subset
  <1>3. \A n \in DOMAIN refunds[r] : RowAmounts(r)[n] \in Nat
    <2>1. \A n \in DOMAIN refunds[r] : refunds[r][n] \in Refund
      BY DEF TypesOK
    <2> QED
      BY <2>1 DEF RowAmounts, Refund
  <1>4. \A f \in reversed[r] : f.key.amount \in Nat /\ Amounts(r)[f] = f.key.amount
    BY DEF TypesOK, Key, Amounts
  <1>5. Refunded(r) = Total(RowAmounts(r), DOMAIN refunds[r])
    BY <1>1, RefundTotals DEF RefundsTotalled, RowAmounts
  <1>6. sumReversed(r) = Total(Amounts(r), reversed[r])
    BY ReversedTotals DEF ReversedTotalled, Amounts
  <1>7. /\ Total(RowAmounts(r), DOMAIN refunds[r]) \in Nat
        /\ Total(Amounts(r), reversed[r]) \in Nat
    BY <1>1, <1>3, <1>4, TotalType
  <1>8. Total(Amounts(r), Unrecorded(r)) \in Nat
    BY <1>2, <1>4, TotalType
  <1> QED
    BY <1>1, <1>2, <1>3, <1>4, <1>5, <1>6, <1>7, <1>8

LEMMA NextTotals == TotalsHold'
  BY NowTotals, PTL

\* What was reversed stays so.
LEMMA ReversalsKept ==
    ASSUME TypesOK, TypesOK', Kept, NEW r \in Rides, ReversalsHold(r), reversed'[r] = reversed[r]
    PROVE  ReversalsHold(r)' /\ sumReversed(r)' = sumReversed(r)
  <1>1. sumReversed(r)' = sumReversed(r)
    <2>1. sumReversed(r) = Total(Amounts(r), reversed[r])
      BY NowTotals DEF TotalsHold, ReversalsHold
    <2>2. sumReversed(r)' = Total(Amounts(r)', reversed'[r])
      BY NextTotals DEF TotalsHold, ReversalsHold
    <2>3. Amounts(r)' = Amounts(r)
      BY DEF Amounts
    <2> QED
      BY <2>1, <2>2, <2>3
  <1>2. CASE reversed[r] = {}
    <2>1. sumReversed(r) = 0
      BY <1>2, NowTotals, TotalOfNone DEF TotalsHold, ReversalsHold
    <2>2. intent'[r].amount \in Nat
      BY DEF TypesOK, Intents, Intent, NoIntent
    <2> QED
      BY <1>1, <1>2, <2>1, <2>2 DEF ReversalsHold
  <1>3. CASE reversed[r] # {}
    <2>1. r \in Intents /\ intent[r].status = "succeeded"
      BY <1>3 DEF ReversalsHold, Intents
    <2>2. intent'[r].status = "succeeded" /\ intent'[r].amount = intent[r].amount
      BY <2>1 DEF Kept
    <2> QED
      BY <1>1, <2>2 DEF ReversalsHold
  <1> QED
    BY <1>2, <1>3

\* Rows and refunds that stay keep their sums.
LEMMA RowsKept ==
    ASSUME TypesOK, TypesOK', Kept, NEW r \in Rides, ReversalsHold(r), RowsHold(r),
           reversed'[r] = reversed[r], refunds'[r] = refunds[r]
    PROVE  RowsHold(r)'
  <1>1. sumReversed(r)' = sumReversed(r) /\ IsFiniteSet(reversed[r])
    BY ReversalsKept DEF ReversalsHold
  <1>2. Refunded(r)' = Refunded(r)
    <2>1. Refunded(r) = Total(RowAmounts(r), DOMAIN refunds[r])
      BY <1>1, NowTotals DEF TotalsHold
    <2>2. Refunded(r)' = Total(RowAmounts(r)', DOMAIN refunds'[r])
      BY <1>1, NextTotals DEF TotalsHold
    <2>3. RowAmounts(r)' = RowAmounts(r)
      BY DEF RowAmounts
    <2> QED
      BY <2>1, <2>2, <2>3
  <1>3. Amounts(r)' = Amounts(r) /\ Unrecorded(r)' = Unrecorded(r)
    BY DEF Amounts, Unrecorded, Recordable
  <1>4. payment'[r].method \notin {"CASH", "WALLET"} => payment[r].method \notin {"CASH", "WALLET"}
    BY DEF Kept, Methods
  <1> QED
    BY <1>1, <1>2, <1>3, <1>4 DEF RowsHold

\* What Stripe answers to a refund, and when.
LEMMA ChargeGuards ==
    ASSUME NEW c \in Calls, refundCharge(c)
    PROVE  \/ /\ reversed' = reversed
              /\ \E f \in reversed[call[c].ride] :
                    /\ f.key = KeyOf(c)
                    /\ call' = [call EXCEPT ![c].pc = "record", ![c].result = f.status]
           \/ \E status \in RefundStatus :
                 /\ \A f \in reversed[call[c].ride] : f.key # KeyOf(c)
                 /\ intent[call[c].ride].status = "succeeded"
                 /\ sumReversed(call[c].ride) + KeyOf(c).amount <= intent[call[c].ride].amount
                 /\ reversed' = [reversed EXCEPT ![call[c].ride] =
                                   @ \cup {[key |-> KeyOf(c), status |-> status]}]
                 /\ call' = [call EXCEPT ![c].pc = "record", ![c].result = status]
           \/ Done(c) /\ reversed' = reversed
  <1> HIDE DEF Done, KeyOf, sumReversed
  <1> QED
    BY Zenon DEF refundCharge

\* A refund is made of what the charge still covers.
LEMMA ReversalMade ==
    ASSUME TypesOK, TypesOK', NEW r \in Rides, ReversalsHold(r), RowsHold(r),
           NEW f, f \notin reversed[r], reversed'[r] = reversed[r] \cup {f},
           \A g \in reversed[r] : g.key # f.key,
           intent[r].status = "succeeded", sumReversed(r) + f.key.amount <= intent[r].amount,
           UNCHANGED <<payment, refunds, intent>>
    PROVE  ReversalsHold(r)' /\ RowsHold(r)'
  <1> DEFINE S == reversed[r]
             more == Amounts(r)'
             U == Unrecorded(r)
  <1>1. IsFiniteSet(S) /\ IsFiniteSet(reversed'[r])
    BY FS_AddElement DEF ReversalsHold
  <1>2. /\ sumReversed(r) = Total(Amounts(r), S) /\ sumReversed(r) \in Nat
        /\ Refunded(r) \in Nat /\ IsFiniteSet(U) /\ U \subseteq S
        /\ Total(Amounts(r), U) \in Nat
        /\ \A g \in S : Amounts(r)[g] = g.key.amount
    BY <1>1, NowTotals DEF TotalsHold, Unrecorded
  <1>3. /\ sumReversed(r)' = Total(more, S \cup {f})
        /\ \A g \in S \cup {f} : g.key.amount \in Nat /\ more[g] = g.key.amount
    BY <1>1, NextTotals DEF TotalsHold
  <1> HIDE DEF more, S, U
  <1>4. Total(more, S) = Total(Amounts(r), S) /\ Total(more, U) = Total(Amounts(r), U)
    BY <1>1, <1>2, <1>3, TotalsAgree
  <1>5. sumReversed(r)' = f.key.amount + sumReversed(r)
    <2>1. f \notin S /\ \A g \in S \cup {f} : more[g] \in Nat
      BY <1>3 DEF S
    <2>2. Total(more, S \cup {f}) = more[f] + Total(more, S)
      BY <1>1, <2>1, TotalOfMore
    <2>3. more[f] = f.key.amount
      BY <1>3
    <2> QED
      BY <1>2, <1>3, <1>4, <2>2, <2>3
  <1>6. ReversalsHold(r)'
    <2>1. sumReversed(r)' <= intent'[r].amount
      BY <1>2, <1>3, <1>5
    <2> QED
      BY <1>1, <2>1 DEF ReversalsHold
  <1>7. ASSUME payment[r].method \notin {"CASH", "WALLET"}
        PROVE  /\ \A n \in DOMAIN refunds'[r] :
                     \E g \in reversed'[r] : g.key = refunds'[r][n].stripeRefundId
               /\ Refunded(r)' + Total(more, Unrecorded(r)') = sumReversed(r)'
    <2>1. \A n \in DOMAIN refunds[r] :
              /\ refunds[r][n].stripeRefundId # f.key
              /\ \E g \in reversed[r] : g.key = refunds[r][n].stripeRefundId
      BY <1>7 DEF RowsHold
    <2>2. Unrecorded(r)' = U \cup {f} /\ f \notin U
      BY <2>1 DEF Unrecorded, Recordable, U
    <2>3. Total(more, U \cup {f}) = f.key.amount + Total(more, U)
      <3>1. \A g \in U \cup {f} : more[g] \in Nat
        BY <1>2, <1>3
      <3>2. Total(more, U \cup {f}) = more[f] + Total(more, U)
        BY <1>2, <2>2, <3>1, TotalOfMore
      <3>3. more[f] = f.key.amount
        BY <1>3
      <3> QED
        BY <3>2, <3>3
    <2>4. Refunded(r)' = Refunded(r)
      <3>1. Refunded(r) = Total(RowAmounts(r), DOMAIN refunds[r])
        BY <1>1, NowTotals DEF TotalsHold, S
      <3>2. Refunded(r)' = Total(RowAmounts(r)', DOMAIN refunds'[r])
        BY <1>1, NextTotals DEF TotalsHold
      <3>3. RowAmounts(r)' = RowAmounts(r)
        BY DEF RowAmounts
      <3> QED
        BY <3>1, <3>2, <3>3
    <2>5. Refunded(r) + Total(Amounts(r), U) = sumReversed(r)
      BY <1>7 DEF RowsHold, U
    <2>6. f.key.amount \in Nat
      BY <1>3
    <2>7. Refunded(r)' + Total(more, Unrecorded(r)') = sumReversed(r)'
      BY <1>2, <1>4, <1>5, <2>2, <2>3, <2>4, <2>5, <2>6
    <2> QED
      BY <2>1, <2>7
  <1> QED
    BY <1>6, <1>7 DEF RowsHold, more

\* A row is added for a refund no row records.
LEMMA ReversalRecorded ==
    ASSUME TypesOK, TypesOK', Kept, NEW r \in Rides, ReversalsHold(r), RowsHold(r),
           NEW f \in reversed[r], Recordable(r, f.key), NEW row,
           row.amount = f.key.amount, row.stripeRefundId = f.key,
           refunds'[r] = Append(refunds[r], row), reversed'[r] = reversed[r]
    PROVE  RowsHold(r)'
  <1> DEFINE D == DOMAIN refunds[r]
             n == Len(refunds[r]) + 1
             U == Unrecorded(r)
             V == Unrecorded(r)'
             more == RowAmounts(r)'
  <1>1. /\ IsFiniteSet(reversed[r])
        /\ sumReversed(r)' = sumReversed(r)
    BY ReversalsKept DEF ReversalsHold
  <1>2. /\ Refunded(r) = Total(RowAmounts(r), D) /\ Refunded(r) \in Nat
        /\ IsFiniteSet(D) /\ IsFiniteSet(U)
        /\ \A g \in reversed[r] : g.key.amount \in Nat /\ Amounts(r)[g] = g.key.amount
    BY <1>1, NowTotals DEF TotalsHold
  <1>3. /\ Refunded(r)' = Total(more, DOMAIN refunds'[r])
        /\ \A m \in DOMAIN refunds'[r] : more[m] \in Nat
        /\ IsFiniteSet(V) /\ Total(Amounts(r)', V) \in Nat
    BY <1>1, NextTotals DEF TotalsHold
  <1>4. /\ DOMAIN refunds'[r] = D \cup {n} /\ n \notin D
        /\ refunds'[r][n] = row /\ \A m \in D : refunds'[r][m] = refunds[r][m]
    BY DEF TypesOK
  <1>5. more[n] = f.key.amount /\ \A m \in D : more[m] = RowAmounts(r)[m]
    BY <1>4 DEF RowAmounts
  <1>6. Amounts(r)' = Amounts(r)
    BY DEF Amounts
  <1>7. U = V \cup {f} /\ f \notin V
    <2>1. \A g \in reversed[r] : g.key = f.key => g = f
      BY DEF ReversalsHold
    <2>2. \A g \in reversed[r] : Recordable(r, g.key)' <=> Recordable(r, g.key) /\ g.key # f.key
      BY <1>4 DEF Recordable
    <2> QED
      BY <2>1, <2>2 DEF Unrecorded
  <1> HIDE DEF D, n, U, V, more
  <1>8. Refunded(r)' = f.key.amount + Refunded(r)
    <2>1. Total(more, D) = Total(RowAmounts(r), D)
      BY <1>2, <1>5, TotalsAgree
    <2>2. Total(more, D \cup {n}) = more[n] + Total(more, D)
      BY <1>2, <1>3, <1>4, TotalOfMore
    <2> QED
      BY <1>2, <1>3, <1>4, <1>5, <2>1, <2>2
  <1>9. Total(Amounts(r), U) = f.key.amount + Total(Amounts(r), V)
    <2>1. \A g \in V \cup {f} : g \in reversed[r]
      BY DEF V, Unrecorded
    <2>2. \A g \in V \cup {f} : Amounts(r)[g] \in Nat
      BY <1>2, <2>1
    <2>3. Total(Amounts(r), V \cup {f}) = Amounts(r)[f] + Total(Amounts(r), V)
      BY <1>3, <1>7, <2>2, TotalOfMore
    <2> QED
      BY <1>2, <1>7, <2>3
  <1>10. ASSUME payment'[r].method \notin {"CASH", "WALLET"}
         PROVE  /\ \A m \in DOMAIN refunds'[r] :
                      \E g \in reversed'[r] : g.key = refunds'[r][m].stripeRefundId
                /\ Refunded(r)' + Total(Amounts(r)', V) = sumReversed(r)'
    <2>1. payment[r].method \notin {"CASH", "WALLET"}
      BY <1>10 DEF Kept, Methods
    <2>2. /\ \A m \in D : \E g \in reversed[r] : g.key = refunds[r][m].stripeRefundId
          /\ Refunded(r) + Total(Amounts(r), U) = sumReversed(r)
      BY <2>1 DEF RowsHold, D, U
    <2>3. Refunded(r)' + Total(Amounts(r)', V) = sumReversed(r)'
      BY <1>1, <1>2, <1>3, <1>6, <1>8, <1>9, <2>2
    <2>4. ASSUME NEW m \in DOMAIN refunds'[r]
          PROVE  \E g \in reversed'[r] : g.key = refunds'[r][m].stripeRefundId
      BY <1>4, <2>2, <2>4
    <2> QED
      BY <2>3, <2>4
  <1> QED
    BY <1>10 DEF RowsHold, V

\* Stripe keeps what it has made.
LEMMA ReversalsGrow ==
    ASSUME TypesOK, [Next]_vars
    PROVE  \A r \in Rides : reversed[r] \subseteq reversed'[r]
  <1>1. ASSUME NEW c \in Calls, refundCharge(c)
        PROVE  \A r \in Rides : reversed[r] \subseteq reversed'[r]
    <2>1. \E F : reversed' = [reversed EXCEPT ![call[c].ride] = @ \cup F]
      <3>1. CASE reversed' = reversed
        <4>1. reversed' = [reversed EXCEPT ![call[c].ride] = @ \cup {}]
          BY <3>1 DEF TypesOK
        <4> QED
          BY <4>1
      <3> HIDE DEF KeyOf, Done
      <3> QED
        BY <1>1, <3>1, ChargeGuards
    <2> QED
      BY <2>1 DEF TypesOK
  <1>2. ASSUME NEW c \in Calls, Pay(c) \/ RefundOf(c) \/ failCall(c), ~refundCharge(c)
        PROVE  UNCHANGED reversed
    BY <1>2 DEF Pay, RefundOf, payForRide, payCash, payFromWallet, rejectPayment,
         createIntent, insertPayment, insertFails, cancelIntent, redeemCoupon, failCall,
         refundPayment, sumRefunds, refundToWallet, recordRefund, stripe
  <1>3. ASSUME Deliver \/ Environment \/ UNCHANGED vars
        PROVE  UNCHANGED reversed
    BY <1>3 DEF Deliver, Environment, vars, writeStatus, failDelivery, findPayment,
         deliverTopUp, initiateTopUp, adjust, confirm, decline, stripe
  <1> QED
    BY <1>1, <1>2, <1>3 DEF Next

\* A request comes to record a refund of a card only from Stripe's answer.
LEMMA RecordStep ==
    ASSUME TypesOK, CallsHold, CardsHold, [Next]_vars, NEW d \in Calls
    PROVE  RecordHolds(d)'
  <1> SUFFICES ASSUME call'[d].pc = "record", call'[d].method = "CARD"
               PROVE  \E f \in reversed'[call'[d].ride] : f.key = KeyOf(d)'
    BY DEF RecordHolds
  <1>1. \A r \in Rides : reversed[r] \subseteq reversed'[r]
    BY ReversalsGrow
  <1>2. CASE call'[d] = call[d]
    <2>1. call[d].ride \in Rides
      BY <1>2, CallFields DEF Steps
    <2>2. \E f \in reversed[call[d].ride] : f.key = KeyOf(d)
      BY <1>2 DEF CardsHold, RecordHolds
    <2> QED
      BY <1>1, <1>2, <2>1, <2>2 DEF KeyOf
  <1>3. ASSUME Pay(d) \/ failCall(d)
        PROVE  FALSE
    <2>1. ~ Done(d)
      BY DEF Done, Idle, TypesOK
    <2>2. \A pc : pc # "record" => ~ Goto(d, pc)
      <3> SUFFICES ASSUME NEW pc, pc # "record", Goto(d, pc)
                   PROVE  FALSE
        OBVIOUS
      <3>1. CASE call[d] \in Call
        BY <3>1 DEF Goto, TypesOK, Call
      <3>2. CASE call[d] = Idle
        BY <3>2 DEF Goto, TypesOK, Idle
      <3> QED
        BY <3>1, <3>2 DEF TypesOK
    <2>3. \A r, m, k : m # "record" => ~ payForRide(d, r, m, k)
      BY DEF payForRide, TypesOK
    <2> QED
      BY <1>3, <2>1, <2>2, <2>3 DEF Pay, payCash, payFromWallet, rejectPayment,
         createIntent, insertPayment, insertFails, cancelIntent, redeemCoupon, failCall,
         Created, Methods
  <1>4. CASE RefundOf(d)
    <2>1. CASE \E r \in Rides : refundPayment(d, r)
      BY <2>1 DEF refundPayment, TypesOK
    <2>2. CASE sumRefunds(d)
      <3>1. call[d] \in Call
        BY <2>2, CallFields DEF sumRefunds, Steps
      <3>2. call'[d].pc = "record" => call'[d].method # "CARD"
        <4>1. ~ Done(d)
          BY DEF Done, Idle, TypesOK
        <4>2. ASSUME NEW already \in 0..call[d].amount, NEW amount \in 1..call[d].amount,
                     call' = [call EXCEPT
                                ![d].pc = IF call[d].method = "CARD" THEN "refund" ELSE "record",
                                ![d].already = already, ![d].amount = amount]
              PROVE  call'[d].pc = "record" => call'[d].method # "CARD"
          BY <3>1, <4>2 DEF TypesOK, Call
        <4> HIDE DEF Done
        <4> QED
          BY <2>2, <4>1, <4>2 DEF sumRefunds
      <3> QED
        BY <3>2
    <2>3. CASE refundToWallet(d) \/ recordRefund(d)
      BY <2>3 DEF refundToWallet, recordRefund, Done, Idle, TypesOK
    <2>4. CASE refundCharge(d)
      <3>1. call[d] \in Call /\ call[d].ride \in Rides
        BY <2>4, CallFields DEF refundCharge, Steps
      <3>2. \E f \in reversed'[call[d].ride] : f.key = KeyOf(d)
        <4>1. ~ Done(d)
          BY DEF Done, Idle, TypesOK
        <4>2. CASE reversed' = reversed /\ \E f \in reversed[call[d].ride] : f.key = KeyOf(d)
          BY <4>2
        <4>3. ASSUME NEW status \in RefundStatus,
                     reversed' = [reversed EXCEPT ![call[d].ride] =
                                    @ \cup {[key |-> KeyOf(d), status |-> status]}]
              PROVE  \E f \in reversed'[call[d].ride] : f.key = KeyOf(d)
          <5>1. [key |-> KeyOf(d), status |-> status] \in reversed'[call[d].ride]
            BY <3>1, <4>3 DEF TypesOK
          <5> HIDE DEF KeyOf
          <5> QED
            BY <5>1
        <4> HIDE DEF KeyOf, Done
        <4> QED
          BY <2>4, <4>1, <4>2, <4>3, ChargeGuards
      <3>3. /\ call'[d].ride = call[d].ride /\ call'[d].already = call[d].already
            /\ call'[d].amount = call[d].amount
        <4>1. ~ Done(d)
          BY DEF Done, Idle, TypesOK
        <4>2. \E s : call' = [call EXCEPT ![d].pc = "record", ![d].result = s]
          BY <2>4, <4>1, ChargeGuards
        <4> QED
          BY <3>1, <4>2 DEF Call, TypesOK
      <3> QED
        BY <3>2, <3>3 DEF KeyOf
    <2> QED
      BY <1>4, <2>1, <2>2, <2>3, <2>4 DEF RefundOf
  <1>5. ASSUME NEW c \in Calls, c # d, Pay(c) \/ RefundOf(c) \/ failCall(c)
        PROVE  call'[d] = call[d]
    BY <1>5, OtherCalls
  <1>6. ASSUME Deliver \/ Environment \/ UNCHANGED vars
        PROVE  call' = call
    BY <1>6 DEF Deliver, Environment, vars, writeStatus, failDelivery, findPayment,
         deliverTopUp, initiateTopUp, adjust, confirm, decline
  <1> QED
    BY <1>2, <1>3, <1>4, <1>5, <1>6 DEF Next

\* One step for each operation that makes or records a refund.
LEMMA CardsStep ==
    ASSUME TypesOK, CallsHold, DeliveriesHold, CardsHold, [Next]_vars
    PROVE  CardsHold'
  <1>1. TypesOK' /\ Kept
    BY StepTypes, StepKeeps
  <1>2. \A r \in Rides : ReversalsHold(r) /\ RowsHold(r)
    BY DEF CardsHold
  <1>3. ASSUME NEW r \in Rides, reversed'[r] = reversed[r], refunds'[r] = refunds[r]
        PROVE  ReversalsHold(r)' /\ RowsHold(r)'
    BY <1>1, <1>2, <1>3, ReversalsKept, RowsKept
  <1>4. ASSUME NEW c \in Calls, refundCharge(c), NEW r \in Rides
        PROVE  ReversalsHold(r)' /\ RowsHold(r)'
    <2>1. UNCHANGED <<payment, refunds, intent>> /\ call[c].ride \in Rides
      BY <1>4, CallFields DEF refundCharge, tables, Steps
    <2>2. CASE reversed' = reversed
      BY <1>3, <2>1, <2>2
    <2>3. ASSUME NEW status \in RefundStatus,
                 \A f \in reversed[call[c].ride] : f.key # KeyOf(c),
                 intent[call[c].ride].status = "succeeded",
                 sumReversed(call[c].ride) + KeyOf(c).amount <= intent[call[c].ride].amount,
                 reversed' = [reversed EXCEPT ![call[c].ride] =
                                @ \cup {[key |-> KeyOf(c), status |-> status]}]
          PROVE  ReversalsHold(r)' /\ RowsHold(r)'
      <3>1. CASE r # call[c].ride
        <4>1. reversed'[r] = reversed[r]
          BY <2>3, <3>1 DEF TypesOK
        <4> QED
          BY <1>3, <2>1, <4>1
      <3>2. CASE r = call[c].ride
        <4>1. PICK f : f = [key |-> KeyOf(c), status |-> status]
          OBVIOUS
        <4>2. f.key = KeyOf(c)
          BY <4>1
        <4> HIDE DEF KeyOf
        <4>3. reversed'[r] = reversed[r] \cup {f} /\ f \notin reversed[r]
          BY <2>3, <3>2, <4>1, <4>2 DEF TypesOK
        <4>4. /\ \A g \in reversed[r] : g.key # f.key
              /\ intent[r].status = "succeeded" /\ sumReversed(r) + f.key.amount <= intent[r].amount
          BY <2>3, <3>2, <4>2
        <4> QED
          BY <1>1, <1>2, <2>1, <4>3, <4>4, ReversalMade
      <3> QED
        BY <3>1, <3>2
    <2> QED
      BY <1>4, <2>2, <2>3, ChargeGuards
  <1>5. ASSUME NEW c \in Calls, refundToWallet(c) \/ recordRefund(c), NEW r \in Rides
        PROVE  ReversalsHold(r)' /\ RowsHold(r)'
    <2>1. /\ reversed' = reversed /\ call[c].ride \in Rides /\ call[c].pc = "record"
          /\ payment[call[c].ride].method = call[c].method
          /\ call[c].method \in Methods
      BY <1>5, CallFields DEF refundToWallet, recordRefund, stripe, Steps, CallsHold, CallHolds
    <2>2. ReversalsHold(r)'
      BY <1>1, <1>2, <2>1, ReversalsKept
    <2>3. CASE refunds'[r] = refunds[r]
      BY <1>3, <2>1, <2>3
    <2>4. CASE refundToWallet(c) /\ r = call[c].ride
      <3>1. payment'[r].method \in {"CASH", "WALLET"}
        BY <1>1, <2>1, <2>4 DEF refundToWallet, Kept, Methods
      <3> QED
        BY <2>2, <3>1 DEF RowsHold
    <2>5. CASE recordRefund(c) /\ r = call[c].ride /\ Recordable(r, KeyOf(c))
               /\ createRefund(c, KeyOf(c))
      <3>1. PICK f \in reversed[r] : f.key = KeyOf(c)
        BY <2>1, <2>5 DEF CardsHold, RecordHolds, recordRefund
      <3>2. PICK row : row = [amount |-> call[c].amount, status |-> call[c].result,
                              stripeRefundId |-> KeyOf(c)]
        OBVIOUS
      <3>3. row.amount = f.key.amount /\ row.stripeRefundId = f.key
        BY <3>1, <3>2 DEF KeyOf
      <3>4. refunds'[r] = Append(refunds[r], row)
        BY <2>5, <3>2 DEF createRefund, TypesOK
      <3>5. Recordable(r, f.key)
        BY <2>5, <3>1
      <3>6. RowsHold(r)'
        BY <1>1, <1>2, <2>1, <3>3, <3>4, <3>5, ReversalRecorded
      <3> QED
        BY <2>2, <3>6
    <2>6. CASE r # call[c].ride
      <3>1. refunds'[r] = refunds[r]
        BY <1>5, <2>6 DEF refundToWallet, recordRefund, createRefund, TypesOK
      <3> QED
        BY <2>3, <3>1
    <2>7. recordRefund(c) => UNCHANGED refunds \/
             (Recordable(call[c].ride, KeyOf(c)) /\ createRefund(c, KeyOf(c)))
      BY DEF recordRefund
    <2> QED
      BY <1>5, <2>3, <2>4, <2>5, <2>6, <2>7
  <1>6. ASSUME NEW c \in Calls, Pay(c) \/ RefundOf(c) \/ failCall(c), ~refundCharge(c),
               ~refundToWallet(c), ~recordRefund(c)
        PROVE  UNCHANGED <<refunds, reversed>>
    BY <1>6 DEF Pay, RefundOf, payForRide, payCash, payFromWallet, rejectPayment,
         createIntent, insertPayment, insertFails, cancelIntent, redeemCoupon, failCall,
         refundPayment, sumRefunds, tables, stripe
  <1>7. ASSUME Deliver \/ Environment \/ UNCHANGED vars
        PROVE  UNCHANGED <<refunds, reversed>>
    BY <1>7 DEF Deliver, Environment, vars, writeStatus, failDelivery, findPayment,
         deliverTopUp, initiateTopUp, adjust, confirm, decline, tables, stripe
  <1>8. ASSUME NEW r \in Rides
        PROVE  ReversalsHold(r)' /\ RowsHold(r)'
    BY <1>3, <1>4, <1>5, <1>6, <1>7 DEF Next
  <1>9. \A c \in Calls : RecordHolds(c)'
    BY RecordStep
  <1> QED
    BY <1>8, <1>9 DEF CardsHold

-----------------------------------------------------------------------------
(* The theorems.                                                           *)

LEMMA Start == Init => PInv
  <1> SUFFICES ASSUME Init
               PROVE  PInv
    OBVIOUS
  <1> USE DEF Init
  <1>1. TypesOK /\ WInv
    BY WalletStart DEF TypesOK
  <1>2. \A r \in Rides : r \in Intents
    BY DEF Intents
  <1>3. \A u \in Users : \A why, what : EntriesOf(u, why, what) = {}
    BY DEF EntriesOf, WalletInit
  <1>4. Payer \in [Rides \cup TopUps -> Users]
    BY PaymentsAssumption
  <1>5. CallsHold /\ DeliveriesHold /\ StripeHolds
    BY <1>2 DEF CallsHold, CallHolds, Idle, Methods, DeliveriesHold, StripeHolds, NoIntent
  <1>6. PaidOnce /\ TopUpIsCharged
    BY <1>2, <1>3, <1>4 DEF PaidOnce, TopUpIsCharged, NoPayment, NoIntent
  <1>7. CompletedIsCharged /\ RedeemedIsDiscounted /\ RefundsOfPayments /\ RefundsAreCredited
    BY DEF CompletedIsCharged, RedeemedIsDiscounted, RefundsOfPayments, RefundsAreCredited,
       NoPayment, WalletInit
  <1> QED
    BY <1>1, <1>5, <1>6, <1>7 DEF PInv

LEMMA Step == PInv /\ [Next]_vars => PInv'
  <1> SUFFICES ASSUME PInv, [Next]_vars
               PROVE  PInv'
    OBVIOUS
  <1>1. TypesOK' /\ WInv'
    BY StepTypes, UsesWallets, WalletStep DEF PInv
  <1>2. CallsHold' /\ DeliveriesHold' /\ StripeHolds'
    BY CallsStep, DeliveriesStep, StripeStep DEF PInv
  <1>3. CompletedIsCharged' /\ RedeemedIsDiscounted' /\ RefundsOfPayments'
    BY CompletedStep, RedeemedStep, RefundsOfPaymentsStep DEF PInv
  <1> QED
    BY <1>1, <1>2, <1>3, PaidStep, TopUpStep, CreditedStep DEF PInv

LEMMA Invariance == Spec => []PInv
  <1> QED
    BY Start, Step, PTL DEF Spec

\* Payments use wallets only through the transactions of wallet.service.js, so
\* that they implement WalletSpec (payment.service.js:67, 308).
THEOREM PaymentsImplementWallets == Spec => WalletSpec
  <1>1. Init => WalletInit
    BY DEF Init
  <1>2. PInv /\ [Next]_vars => [WalletNext]_walletVars
    BY UsesWallets DEF PInv
  <1> QED
    BY <1>1, <1>2, Invariance, PTL DEF Spec, WalletSpec

\* So the wallets that rides are paid from and refunded to add up, whatever
\* requests, deliveries and crashes there are (payment.service.js:69, 321).
THEOREM PaidBalancesAreSums == Spec => []LedgersAddUp
  BY BalancesAreSums, PaymentsImplementWallets, PTL

\* Every table, request and event has its type.
THEOREM PaymentsTypeCorrectness == Spec => []TypeOK
  <1>1. PInv => TypeOK
    BY DEF PInv, WInv, TypesOK, TypeOK
  <1> QED
    BY <1>1, Invariance, PTL

\* Whatever rides, coupons, top-ups and refunds do to them at one time, wallets
\* agree with their ledgers, are never overdrawn, and book nothing twice
\* (schema.prisma:503, 517).
THEOREM WalletsStaySound == Spec => []WalletsSound
  <1>1. PInv => WalletsSound
    BY DEF PInv, WInv, WalletsSound
  <1> QED
    BY <1>1, Invariance, PTL

\* No ride is paid for twice, or by another method than the one on record
\* (payment.service.js:24).
THEOREM PaidAtMostOnce == Spec => []PaidOnce
  <1>1. PInv => PaidOnce
    BY DEF PInv
  <1> QED
    BY <1>1, Invariance, PTL

\* Card payments are completed only by a charge (payment.service.js:200).
THEOREM CompletionNeedsCharge == Spec => []CompletedIsCharged
  <1>1. PInv => CompletedIsCharged
    BY DEF PInv
  <1> QED
    BY <1>1, Invariance, PTL

\* Refund rows and credits of wallets stand or fall together
\* (payment.service.js:311).
THEOREM RefundsReachWallets == Spec => []RefundsAreCredited
  <1>1. PInv => RefundsAreCredited
    BY DEF PInv
  <1> QED
    BY <1>1, Invariance, PTL

\* A coupon is redeemed only for a ride paid for with its discount
\* (payment.service.js:158).
THEOREM RedemptionIsDiscount == Spec => []RedeemedIsDiscounted
  <1>1. PInv => RedeemedIsDiscounted
    BY DEF PInv
  <1> QED
    BY <1>1, Invariance, PTL

\* Top-ups credit what has been charged (wallet.service.js:38).
THEOREM TopUpsAreCharged == Spec => []TopUpIsCharged
  <1>1. PInv => TopUpIsCharged
    BY DEF PInv
  <1> QED
    BY <1>1, Invariance, PTL

\* No event finds its payment missing (payment.service.js:120).
THEOREM EventsHavePayments == Spec => []EventsFindPayment
  <1>1. PInv => EventsFindPayment
    BY DEF PInv, StripeHolds, EventsFindPayment
  <1> QED
    BY <1>1, Invariance, PTL

LEMMA CardsStart == Init => CardsHold
  <1> SUFFICES ASSUME Init
               PROVE  CardsHold
    OBVIOUS
  <1>1. TypesOK
    BY Start DEF PInv
  <1>2. ASSUME NEW r \in Rides
        PROVE  ReversalsHold(r) /\ RowsHold(r)
    <2>1. reversed[r] = {} /\ IsFiniteSet(reversed[r]) /\ refunds[r] = <<>>
      BY FS_EmptySet DEF Init
    <2>2. /\ sumReversed(r) = Total(Amounts(r), reversed[r])
          /\ Refunded(r) = Total(RowAmounts(r), DOMAIN refunds[r])
      BY <1>1, <2>1, NowTotals DEF TotalsHold
    <2>3. DOMAIN refunds[r] = {} /\ Unrecorded(r) = {}
      BY <2>1 DEF Unrecorded
    <2>4. sumReversed(r) = 0 /\ Refunded(r) = 0 /\ Total(Amounts(r), Unrecorded(r)) = 0
      BY <2>1, <2>2, <2>3, TotalOfNone
    <2>5. intent[r].amount = 0
      BY DEF Init, NoIntent, Intents
    <2> QED
      BY <2>1, <2>3, <2>4, <2>5 DEF ReversalsHold, RowsHold
  <1>3. \A c \in Calls : RecordHolds(c)
    BY DEF Init, Idle, RecordHolds
  <1> QED
    BY <1>2, <1>3 DEF CardsHold

LEMMA CardsInvariance == Spec => []CardsHold
  <1>1. PInv /\ CardsHold /\ [Next]_vars => CardsHold'
    BY CardsStep DEF PInv
  <1> QED
    BY <1>1, CardsStart, Invariance, PTL DEF Spec

\* Each of Stripe's refunds is recorded at most once, and together they stay
\* within the charge (payment.service.js:282).
THEOREM CardRefundsFit == Spec => []CardRefundsWithinCharge
  <1>1. PInv /\ CardsHold => CardRefundsWithinCharge
    <2> SUFFICES ASSUME PInv, CardsHold, NEW r \in Rides, payment[r].method = "CARD"
                 PROVE  Refunded(r) <= payment[r].amount
      BY DEF CardRefundsWithinCharge, Refunded, RefundSum, MapThenSumSet, MapThenFoldSet
    <2>1. TypesOK /\ PaidOnce /\ ReversalsHold(r) /\ RowsHold(r)
      BY DEF PInv, CardsHold
    <2>2. /\ Refunded(r) \in Nat /\ sumReversed(r) \in Nat
          /\ Total(Amounts(r), Unrecorded(r)) \in Nat
          /\ sumReversed(r) = Total(Amounts(r), reversed[r])
      BY <2>1, NowTotals DEF TotalsHold, ReversalsHold
    <2>3. Refunded(r) + Total(Amounts(r), Unrecorded(r)) = sumReversed(r)
      BY <2>1 DEF RowsHold
    <2>4. Refunded(r) <= sumReversed(r)
      BY <2>2, <2>3
    <2>5. payment[r].amount \in Nat
      BY <2>1 DEF TypesOK, Payment, NoPayment
    <2>6. CASE reversed[r] = {}
      BY <2>2, <2>4, <2>5, <2>6, TotalOfNone
    <2>7. CASE reversed[r] # {}
      <3>1. sumReversed(r) <= intent[r].amount /\ intent[r].status = "succeeded"
        BY <2>1, <2>7 DEF ReversalsHold
      <3>2. payment[r].amount = intent[r].amount
        BY <2>1, <3>1 DEF PaidOnce
      <3> QED
        BY <2>2, <2>4, <2>5, <3>1, <3>2
    <2> QED
      BY <2>6, <2>7
  <1> QED
    BY <1>1, Invariance, CardsInvariance, PTL
-----------------------------------------------------------------------------
(* What Stripe has had answered.  It does not deliver an event again that  *)
(* was answered with 200, so that nothing about it may be left to do.      *)

Declined(i) == [type |-> "payment_failed", intent |-> i]

\* A payment that Stripe said succeeded is completed, refunded since, or was
\* overwritten by a decline.
RideSettled(r) ==
    \/ payment[r].status \in {"COMPLETED", "PARTIALLY_REFUNDED", "REFUNDED"}
    \/ payment[r].status = "FAILED" /\ Declined(r) \in events

AnsweredIsSettled ==
    /\ \A r \in Rides : Succeeded(r) \in acked => RideSettled(r)
    /\ \A t \in TopUps : Succeeded(t) \in acked => Booked(t)

\* Who created a payment, refunded it or wrote what an event says has settled
\* it; otherwise it stays as it is.
LEMMA StatusMoves ==
    ASSUME PInv, [Next]_vars, NEW r \in Rides, RideSettled(r)
    PROVE  RideSettled(r)'
  <1>1. TypesOK /\ DeliveriesHold
    BY DEF PInv
  <1>2. events \subseteq events'
    BY <1>1, StepKeeps DEF Kept
  <1>3. payment[r] # NoPayment /\ payment[r] \in Payment
    BY <1>1 DEF RideSettled, NoPayment, TypesOK
  <1>4. ASSUME payment'[r] = payment[r]
        PROVE  RideSettled(r)'
    BY <1>2, <1>4 DEF RideSettled, Declined
  <1>5. ASSUME NEW c \in Calls, NEW m, NEW s, call[c].ride \in Rides,
               createPayment(call[c].ride, m, s, call[c].amount)
        PROVE  payment'[r] = payment[r]
    BY <1>1, <1>3, <1>5 DEF createPayment, TypesOK
  <1>6. ASSUME NEW c \in Calls, Pay(c) \/ failCall(c)
        PROVE  payment'[r] = payment[r]
    <2>1. CASE payCash(c) \/ payFromWallet(c) \/ insertPayment(c)
      <3>1. call[c].ride \in Rides
        BY <1>1, <2>1, CallFields DEF payCash, payFromWallet, insertPayment, Steps, Methods
      <3> QED
        BY <1>5, <2>1, <3>1 DEF payCash, payFromWallet, insertPayment
    <2>2. CASE ~(payCash(c) \/ payFromWallet(c) \/ insertPayment(c))
      BY <1>6, <2>2 DEF Pay, failCall, payForRide, rejectPayment, createIntent, insertFails,
                        cancelIntent, redeemCoupon, tables
    <2> QED
      BY <2>1, <2>2
  <1>7. ASSUME NEW c \in Calls, RefundOf(c)
        PROVE  RideSettled(r)'
    <2>1. CASE UNCHANGED payment
      BY <1>4, <2>1
    <2>2. CASE payment' = [payment EXCEPT ![call[c].ride].status = newStatus(c)]
      <3>1. newStatus(c) \in {"REFUNDED", "PARTIALLY_REFUNDED"}
        BY DEF newStatus
      <3>2. CASE r = call[c].ride
        <4>1. payment'[r].status = newStatus(c)
          BY <1>1, <1>3, <2>2, <3>2 DEF TypesOK, Payment
        <4> QED
          BY <3>1, <4>1 DEF RideSettled
      <3>3. CASE r # call[c].ride
        BY <1>1, <1>4, <2>2, <3>3 DEF TypesOK
      <3> QED
        BY <3>2, <3>3
    <2> QED
      BY <1>7, <2>1, <2>2 DEF RefundOf, refundPayment, sumRefunds, refundCharge, refundToWallet,
                              recordRefund, createRefund, tables
  <1>8. ASSUME NEW d \in Deliveries, writeStatus(d)
        PROVE  RideSettled(r)'
    <2>1. PICK e : e = webhook[d]
      OBVIOUS
    <2>2. /\ e \in events /\ e \in Event /\ e.intent \in Rides
          /\ payment' = [payment EXCEPT ![e.intent].status = Target(e)]
      BY <1>1, <1>8, <2>1 DEF writeStatus, DeliveriesHold, TypesOK
    <2>3. CASE r = e.intent
      <3>1. payment'[r].status = Target(e)
        BY <1>1, <1>3, <2>2, <2>3 DEF TypesOK, Payment
      <3>2. CASE e.type = "succeeded"
        BY <3>1, <3>2 DEF Target, RideSettled
      <3>3. CASE e.type # "succeeded"
        <4>1. e = Declined(r)
          BY <2>2, <2>3, <3>3 DEF Event, Declined
        <4>2. Declined(r) \in events'
          BY <1>2, <2>2, <4>1
        <4> QED
          BY <3>1, <3>3, <4>2 DEF Target, RideSettled, Declined
      <3> QED
        BY <3>2, <3>3
    <2>4. CASE r # e.intent
      BY <1>1, <1>4, <2>2, <2>4 DEF TypesOK
    <2> QED
      BY <2>3, <2>4
  <1>9. CASE UNCHANGED payment
    BY <1>4, <1>9
  <1> QED
    BY <1>4, <1>6, <1>7, <1>8, <1>9
       DEF Next, Deliver, Environment, failDelivery, findPayment, deliverTopUp, initiateTopUp,
           adjust, confirm, decline, tables, vars

\* What is in a ledger stays there.
LEMMA BookingsStay ==
    ASSUME PInv, [Next]_vars, NEW t \in TopUps, Booked(t)
    PROVE  Booked(t)'
  <1>1. /\ TypesOK /\ WInv /\ WalletTypeOK /\ t \notin Rides
        /\ Payer \in [Rides \cup TopUps -> Users]
    BY PaymentsAssumption DEF PInv, WInv
  <1>2. PICK n : n \in EntriesOf(Payer[t], "TOPUP", t)
    BY <1>1 DEF Booked
  <1>3. UNCHANGED walletVars \/ \E u \in Users, e \in Entry : Books(u, e)
    BY <1>1, UsesWallets, WalletBooks
  <1>4. n \in DOMAIN ledger'[Payer[t]] /\ ledger'[Payer[t]][n] = ledger[Payer[t]][n]
    <2>1. CASE UNCHANGED walletVars
      BY <1>2, <2>1 DEF EntriesOf, walletVars
    <2>2. ASSUME NEW u \in Users, NEW e \in Entry, Books(u, e)
          PROVE  n \in DOMAIN ledger'[Payer[t]] /\ ledger'[Payer[t]][n] = ledger[Payer[t]][n]
      <3>1. CASE u = Payer[t]
        <4>1. n \in DOMAIN ledger[u]
          BY <1>2, <3>1 DEF EntriesOf
        <4> QED
          BY <1>1, <2>2, <3>1, <4>1, OneMoreEntry
      <3>2. CASE u # Payer[t]
        BY <1>1, <1>2, <2>2, <3>2, Appended DEF EntriesOf
      <3> QED
        BY <3>1, <3>2
    <2> QED
      BY <1>3, <2>1, <2>2
  <1>5. n \in EntriesOf(Payer[t], "TOPUP", t)'
    BY <1>2, <1>4 DEF EntriesOf
  <1> QED
    BY <1>1, <1>5 DEF Booked

LEMMA AnsweredStep ==
    ASSUME PInv, AnsweredIsSettled, [Next]_vars
    PROVE  AnsweredIsSettled'
  <1>1. /\ TypesOK /\ WInv /\ WalletTypeOK /\ DeliveriesHold /\ StripeHolds
        /\ Payer \in [Rides \cup TopUps -> Users] /\ Rides \cap TopUps = {}
    BY PaymentsAssumption DEF PInv, WInv
  <1>2. ASSUME NEW r \in Rides, Succeeded(r) \in acked
        PROVE  RideSettled(r)'
    BY <1>2, StatusMoves DEF AnsweredIsSettled
  <1>3. ASSUME NEW t \in TopUps, Succeeded(t) \in acked
        PROVE  Booked(t)'
    BY <1>3, BookingsStay DEF AnsweredIsSettled
  <1>4. ASSUME UNCHANGED acked
        PROVE  AnsweredIsSettled'
    BY <1>2, <1>3, <1>4 DEF AnsweredIsSettled, Succeeded
  <1>5. ASSUME NEW d \in Deliveries, NEW e \in Event, findPayment(d, e)
        PROVE  AnsweredIsSettled'
    <2>1. CASE UNCHANGED acked
      BY <1>4, <2>1
    <2>2. CASE acked' = acked \cup {e} /\ ~(PaymentOf(e) /\ Applies(e))
      <3>1. e \in events /\ e.intent \in Rides /\ UNCHANGED payment
        BY <1>5 DEF findPayment, tables
      <3>2. e.intent \in Rides \cap secret
        BY <1>1, <3>1 DEF StripeHolds
      <3>3. PaymentOf(e)
        BY <1>1, <3>2 DEF StripeHolds, PaymentOf
      <3>4. payment[e.intent].status # "NONE"
        <4>1. payment[e.intent] \in Payment
          BY <1>1, <3>1, <3>3 DEF TypesOK, PaymentOf, NoPayment
        <4> QED
          BY <4>1 DEF Payment, PaymentStatus
      <3>5. ASSUME NEW r \in Rides, e = Succeeded(r)
            PROVE  RideSettled(r)'
        <4>1. e.type = "succeeded" /\ e.intent = r
          BY <3>5 DEF Succeeded
        <4>2. payment[r].status = "COMPLETED"
          BY <2>2, <3>3, <3>4, <4>1 DEF Applies
        <4> QED
          BY <3>1, <4>2 DEF RideSettled
      <3>6. \A t \in TopUps : e # Succeeded(t)
        BY <1>1, <3>1 DEF Succeeded
      <3> QED
        BY <1>2, <1>3, <2>2, <3>5, <3>6 DEF AnsweredIsSettled, Succeeded
    <2> QED
      BY <1>5, <2>1, <2>2 DEF findPayment
  <1>6. ASSUME NEW d \in Deliveries, writeStatus(d)
        PROVE  AnsweredIsSettled'
    <2>1. PICK e : e = webhook[d]
      OBVIOUS
    <2>2. /\ e.intent \in Rides /\ payment[e.intent].method = "CARD" /\ acked' = acked \cup {e}
          /\ payment' = [payment EXCEPT ![e.intent].status = Target(e)]
      BY <1>1, <1>6, <2>1 DEF writeStatus, DeliveriesHold
    <2>3. ASSUME NEW r \in Rides, e = Succeeded(r)
          PROVE  RideSettled(r)'
      <3>1. r = e.intent /\ Target(e) = "COMPLETED"
        BY <2>3 DEF Succeeded, Target
      <3>2. payment[r] \in Payment
        BY <1>1, <2>2, <3>1 DEF TypesOK, NoPayment
      <3>3. payment'[r].status = "COMPLETED"
        BY <1>1, <2>2, <3>1, <3>2 DEF TypesOK, Payment
      <3> QED
        BY <3>3 DEF RideSettled
    <2>4. \A t \in TopUps : e # Succeeded(t)
      BY <1>1, <2>2 DEF Succeeded
    <2> QED
      BY <1>2, <1>3, <2>2, <2>3, <2>4 DEF AnsweredIsSettled, Succeeded
  <1>7. ASSUME NEW e \in Event, deliverTopUp(e)
        PROVE  AnsweredIsSettled'
    <2>1. e.intent \in TopUps /\ acked' = acked \cup {e}
      BY <1>7 DEF deliverTopUp
    <2>2. ASSUME NEW t \in TopUps, e = Succeeded(t)
          PROVE  Booked(t)'
      <3>1. confirmTopUp(Payer[t], intent[t].amount, t) /\ Payer[t] \in Users
        BY <1>1, <1>7, <2>2 DEF deliverTopUp, Credits, Succeeded
      <3>2. EntriesOf(Payer[t], "TOPUP", t)' # {}
        <4>1. CASE createTransaction(Payer[t], "CREDIT", "TOPUP", 2 * intent[t].amount, t)
          <5> DEFINE y == [type |-> "CREDIT", reason |-> "TOPUP",
                           amount |-> Cents(2 * intent[t].amount),
                           balanceAfter |-> balance'[Payer[t]], referenceId |-> t]
          <5>1. ledger' = [ledger EXCEPT ![Payer[t]] = Append(@, y)]
            BY <4>1 DEF createTransaction
          <5>2. y.reason = "TOPUP" /\ y.referenceId = t
            OBVIOUS
          <5> HIDE DEF y
          <5>3. ledger[Payer[t]] \in Seq(Entry)
            BY <1>1, <3>1 DEF WalletTypeOK
          <5>4. PICK x : ledger'[Payer[t]] = Append(ledger[Payer[t]], x)
                         /\ x.reason = "TOPUP" /\ x.referenceId = t
            BY <1>1, <3>1, <5>1, <5>2 DEF WalletTypeOK
          <5>5. /\ Len(ledger[Payer[t]]) + 1 \in DOMAIN ledger'[Payer[t]]
                /\ ledger'[Payer[t]][Len(ledger[Payer[t]]) + 1] = x
            BY <5>3, <5>4
          <5> QED
            BY <5>4, <5>5 DEF EntriesOf
        <4>2. CASE ~ Unique(Payer[t], "TOPUP", t) /\ UNCHANGED walletVars
          BY <4>2 DEF Unique, EntriesOf, walletVars
        <4> QED
          BY <3>1, <4>1, <4>2 DEF confirmTopUp
      <3> QED
        BY <1>1, <3>2 DEF Booked
    <2>3. \A r \in Rides : e # Succeeded(r)
      BY <1>1, <2>1 DEF Succeeded
    <2> QED
      BY <1>2, <1>3, <2>1, <2>2, <2>3 DEF AnsweredIsSettled, Succeeded
  <1> QED
    BY <1>4, <1>5, <1>6, <1>7
       DEF Next, Pay, RefundOf, failCall, payForRide, payCash, payFromWallet, rejectPayment,
           createIntent, insertPayment, insertFails, cancelIntent, redeemCoupon, refundPayment,
           sumRefunds, refundToWallet, refundCharge, recordRefund, Deliver, Environment,
           failDelivery, initiateTopUp, adjust, confirm, decline, stripe, vars

\* A success that was answered with 200, and so never comes again, has been
\* applied: a top-up is booked, and a payment is not left PENDING; if it is
\* FAILED, a decline was read before and written after (payment.service.js:214,
\* 221).
THEOREM AnsweredAreSettled == Spec => []AnsweredIsSettled
  <1>1. Init => AnsweredIsSettled
    BY DEF Init, AnsweredIsSettled
  <1>2. PInv /\ AnsweredIsSettled /\ [Next]_vars => AnsweredIsSettled'
    BY AnsweredStep
  <1> QED
    BY <1>1, <1>2, Invariance, PTL DEF Spec
=============================================================================
