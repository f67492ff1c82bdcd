----------------------------- MODULE WalletLedger -----------------------------
(***************************************************************************)
(* Wallets: src/src/services/wallet.service.js over                        *)
(* src/src/repositories/wallet.repository.js.                              *)
(*                                                                         *)
(* Every operation is one prisma.$transaction that starts with an UPDATE   *)
(* of the wallet's row.  The row stays locked until the commit, so that    *)
(* transactions on one wallet run one after the other and each is one step *)
(* here; one that violates a constraint rolls back as a whole.             *)
(*                                                                         *)
(* Money is counted in cents.  The columns hold whole cents, but an        *)
(* adjustment may carry any fraction; half a cent is all that matters of   *)
(* it, and the arguments that reach the columns are in half cents.         *)
(***************************************************************************)
EXTENDS Integers, Sequences

CONSTANTS
    Users,           \* the passengers, each registered with a wallet
    Rides,           \* rides to pay for
    TopUps,          \* Stripe PaymentIntents made to top up a wallet
    Adjustments,     \* amounts an admin may adjust a wallet by, in half cents
    MaxAdjustments,  \* bound: adjustments of one wallet
    Null

ASSUME WalletAssumption ==
    /\ Adjustments \subseteq Int
    /\ MaxAdjustments \in Nat
    /\ Null \notin Rides \cup TopUps \cup Rides \X Nat

VARIABLES
    balance,   \* Wallet.balance
    ledger     \* the WalletTransaction rows of each wallet, oldest first

walletVars == <<balance, ledger>>

-----------------------------------------------------------------------------
(* Rows.                                                                   *)

Types == {"CREDIT", "DEBIT"}
\* Those the code writes.
Reasons == {"TOPUP", "RIDE_PAYMENT", "REFUND", "ADJUSTMENT"}

\* What an entry is about: an intent, a ride, a refund (the n-th of a ride's
\* payment), or nothing.
References == TopUps \cup Rides \cup (Rides \X Nat) \cup {Null}

Entry == [type : Types, reason : Reasons, amount : Nat, balanceAfter : Int,
          referenceId : References]

\* A number of half cents as a Decimal(12, 2) column stores it: rounded, half
\* a cent away from zero.
Cents(halves) == (halves + 1) \div 2

WalletTypeOK ==
    /\ balance \in [Users -> Int]
    /\ ledger \in [Users -> Seq(Entry)]

-----------------------------------------------------------------------------
(* wallet.repository.js                                                    *)

\* UPDATE ... WHERE balance >= amount.
tryDebit(u, halves) ==
    /\ 2 * balance[u] >= halves
    /\ balance' = [balance EXCEPT ![u] = Cents(2 * @ - halves)]

credit(u, halves) == balance' = [balance EXCEPT ![u] = Cents(2 * @ + halves)]

\* @@unique([walletId, reason, referenceId]); NULLs are distinct.
Unique(u, reason, ref) ==
    ref = Null \/ ~ \E n \in DOMAIN ledger[u] :
                        ledger[u][n].reason = reason /\ ledger[u][n].referenceId = ref

\* Mutant: balanceAfter is the balance read before the update.
createTransactionFromRead(u, type, reason, halves, ref) ==
    /\ Unique(u, reason, ref)
    /\ ledger' = [ledger EXCEPT ![u] = Append(@,
                    [type |-> type, reason |-> reason, amount |-> Cents(halves),
                     balanceAfter |-> balance[u], referenceId |-> ref])]

\* The entry of an update of the balance in the same transaction.
createTransaction(u, type, reason, halves, ref) ==
    /\ Unique(u, reason, ref)
    /\ ledger' = [ledger EXCEPT ![u] = Append(@,
                    [type |-> type, reason |-> reason, amount |-> Cents(halves),
                     balanceAfter |-> balance'[u], referenceId |-> ref])]

-----------------------------------------------------------------------------
(* wallet.service.js                                                       *)

\* A second delivery of the same success violates the constraint and is
\* swallowed.
confirmTopUp(u, cents, t) ==
    \/ /\ credit(u, 2 * cents)
       /\ createTransaction(u, "CREDIT", "TOPUP", 2 * cents, t)
    \/ ~ Unique(u, "TOPUP", t) /\ UNCHANGED walletVars

\* Mutant: keyed by the payment, and a duplicate is swallowed.
creditRefundOfPayment(u, cents, ref) ==
    \/ /\ credit(u, 2 * cents)
       /\ createTransaction(u, "CREDIT", "REFUND", 2 * cents, <<ref[1], 1>>)
    \/ ~ Unique(u, "REFUND", <<ref[1], 1>>) /\ UNCHANGED walletVars

\* Inside the transaction of refundPayment.
creditRefund(u, cents, ref) ==
    /\ credit(u, 2 * cents)
    /\ createTransaction(u, "CREDIT", "REFUND", 2 * cents, ref)

\* Inside the transaction of payForRide (payment.service.js).
debitRide(u, cents, r) ==
    /\ tryDebit(u, 2 * cents)
    /\ createTransaction(u, "DEBIT", "RIDE_PAYMENT", 2 * cents, r)

AdjustmentsOf(u) == {n \in DOMAIN ledger[u] : ledger[u][n].reason = "ADJUSTMENT"}

adjustBalance(u, halves) ==
    \/ /\ halves >= 0
       /\ credit(u, halves)
       /\ createTransaction(u, "CREDIT", "ADJUSTMENT", halves, Null)
    \/ /\ halves < 0
       /\ tryDebit(u, -halves)
       /\ createTransaction(u, "DEBIT", "ADJUSTMENT", -halves, Null)

-----------------------------------------------------------------------------
(* A wallet on its own: any of these transactions, by anybody, at any      *)
(* time.                                                                   *)

WalletInit ==
    /\ balance = [u \in Users |-> 0]
    /\ ledger = [u \in Users |-> <<>>]

WalletNext ==
    \E u \in Users :
        \/ \E t \in TopUps, cents \in Nat : confirmTopUp(u, cents, t)
        \/ \E r \in Rides, cents \in Nat : debitRide(u, cents, r)
        \/ \E ref \in Rides \X Nat, cents \in Nat : creditRefund(u, cents, ref)
        \/ \E halves \in Adjustments : adjustBalance(u, halves)

WalletSpec == WalletInit /\ [][WalletNext]_walletVars

-----------------------------------------------------------------------------
(* What a wallet promises.                                                 *)

Before(u, n) == IF n = 1 THEN 0 ELSE ledger[u][n - 1].balanceAfter

\* The balance is what the ledger says: each entry takes the balance its
\* predecessor left to the one it records, and the last one is the balance.
\* Only the debit of an adjustment with a fraction of a cent may be off: the
\* balance and the entry's amount are rounded apart (schema.prisma:503).
LedgerChains ==
    \A u \in Users :
        /\ \A n \in DOMAIN ledger[u] :
              LET e == ledger[u][n] IN
              \/ e.type = "CREDIT" /\ e.balanceAfter = Before(u, n) + e.amount
              \/ e.type = "DEBIT" /\ e.balanceAfter = Before(u, n) - e.amount
              \/ /\ e.type = "DEBIT" /\ e.reason = "ADJUSTMENT"
                 /\ e.balanceAfter = Before(u, n) - e.amount + 1
        /\ balance[u] = Before(u, Len(ledger[u]) + 1)

\* No wallet is overdrawn, however many debits race for the same balance
\* (wallet.repository.js:28).
NeverOverdrawn == \A u \in Users : balance[u] >= 0

\* What an entry refers to is booked once: a success delivered twice credits
\* once, a ride is debited once, a refund credited once (schema.prisma:517).
BookedOnce ==
    \A u \in Users : \A m, n \in DOMAIN ledger[u] :
        /\ ledger[u][m].reason = ledger[u][n].reason
        /\ ledger[u][m].referenceId = ledger[u][n].referenceId
        /\ ledger[u][m].referenceId # Null
        => m = n

\* All three, whatever order transactions come in.
WalletsSound == LedgerChains /\ NeverOverdrawn /\ BookedOnce
=============================================================================
