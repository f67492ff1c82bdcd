# Verification of the ride-sharing backend

TLA+ specifications of the system under `src/` and `frontend/`, TLC
configurations that check them on small instances, and theorems about them that
TLAPS checks for every instance. Paths below are relative to the repository root;
`S`, `R`, `D` and `Y` are `src/services/ride.service.js`,
`src/repositories/ride.repository.js`, `src/services/driver.service.js` and
`src/services/payment.service.js`, and other files of `src/` are named by their
last part.

    tlc -workers 2 -config ride_race.cfg MCRideLifecycle.tla
    tlc -workers 2 -config ride_serial.cfg MCRideSerial.tla
    tlc -workers 2 -config payments.cfg MCPayments.tla
    tlc -workers 2 -config sessions.cfg MCSessions.tla
    tlc -workers 2 -config services.cfg MCServices.tla
    tlc -workers 2 -config presence.cfg DriverPresence.tla
    tlc -workers 2 -config email.cfg EmailDelivery.tla
    tlc -workers 2 -config web.cfg WebClient.tla
    tlapm RideLifecycleProofs.tla

`PROJECT.json` lists the other runs, which source lines each definition stands
for, the hazards of the code line by line, and the theorems.

## 1. The system

An Express application, any number of instances, and a worker, over one
Postgres (Prisma, isolation READ COMMITTED), one Redis (geo sets, heartbeats,
counters, revocation markers, BullMQ queues), Stripe, an SMTP server, Google
Maps and Socket.IO, and a web client in plain JavaScript. A handler holds
nothing but local variables between two `await`s, and nothing but Postgres
serializes handlers: a `prisma.$transaction` is atomic, a sequence of awaited
queries is not. That is the source of nearly everything that is hard to test
here.

| Component | State it keeps | Operations that change it | What is hard, and what makes it correct |
|---|---|---|---|
| Ride lifecycle and matching (`S`, `R`) | `Ride`, `RideStatusLog`, Redis `geo:rides:pending` and `ride:<id>:rejectedBy`, the counter of start codes | request, accept, reject, arrived, start, complete, cancel; the expiry sweep | checks and writes are separate awaits; accept and sweep use conditional updates, the others do not. One driver per ride, stages in order, no ride stranded, no driver lost, offers that are still to be had, a start code nobody can guess |
| Driver presence and geo index (`D`, `geo.service.js`) | `Driver.isOnline/isAvailable`, last location, `geo:drivers:online`, heartbeat keys | online, offline, location, the heartbeat sweep | Postgres and Redis are written one after the other, Redis may be down. A silent driver leaves the pool, a driver who sends is found where they are |
| Payments (`Y`) | `Payment`, `Refund`, Stripe intents and refunds | payForRide, webhooks, refundPayment | a Stripe call outside the transaction, webhooks repeated and reordered, concurrent refunds. One payment per ride, refunds within the charge, what was charged is booked |
| Wallet (`wallet.service.js`) | `Wallet.balance`, `WalletTransaction` | top-up, debit, refund credit, adjustment | concurrent debits, repeated webhooks. Never negative, always the sum of its ledger |
| Coupons (`coupon.service.js`) | `Coupon`, `CouponRedemption` | create, edit, validate, redeem inside payForRide | counted, then used: limits race; fields edited one by one. Oversold by no more than the requests in flight, never more off than the fare |
| Notifications and email (`notification.service.js`, `email.processor.js`) | `Notification`, the email queue | notify, the worker, its failed handler, shutdown | at-least-once delivery, three attempts, crashes. Sent once but for what could not be recorded, SENT or FAILED in the end unless a process took the last word with it or BullMQ gave the job up |
| Maintenance (`jobs/`) | the schedules | stale rides (2 min), heartbeats (1 min), tokens (daily) | runs may die half way. Each run completes what the last left |
| Sessions and authentication (`auth.service.js`, `token.service.js`) | `RefreshToken`, `VerificationToken`, `User`, revocation markers, lockout counters | register, login, Google, refresh, logout, reset, verify, ban | rotation races, replay, revocation against a concurrent login. What was ended buys nothing afterwards, a banned account is not served |
| Verification (`verification.service.js`, `vehicle.service.js`) | `Driver.verificationStatus`, `Vehicle.isVerified`, documents and their files | become a driver, add, edit, remove, upload, review | edits race reviews; files and rows are written apart. What is verified is what was reviewed |
| Ratings (`rating.service.js`) | `Rating`, `averageRating` | submitRating | the average is recomputed from a read. It heals with the next rating |
| Web client (`frontend/js/api.js`, `state.js`) | the sessions of a tab, in memory and in localStorage, the shared refresh | api(), login, logout, switching, reload | many calls meet one expiry. A session kept can be refreshed, every call is answered |
| Sockets (`sockets/`) | rooms | pushes of rides and positions, sync on connection | best effort, no state depends on a push; what is pushed must be meant for whom it reaches |
| Users and admin, saved locations, favourites | one row each | CRUD | little: single-row writes; bans are with sessions |
| Fares and routes, reports, analytics, HTTP layer, configuration, API docs | none that others depend on | reads | not modelled, see section 7 |

The components meet in three places: shared rows (`Driver.isAvailable` is
written by accept, complete, cancel, both sweeps and online/offline; payments
read a COMPLETED ride), calls (payment -> wallet -> notification) and callbacks
(Stripe webhooks, BullMQ jobs, the scheduler).

## 2. What is modelled

| Module | What it is |
|---|---|
| `RideLifecycle` | every handler of `S` that changes a ride, one action per await, and the sweep |
| `RideAssignment` | what matching promises, abstractly: a ride is posted, then taken by one driver or closed, once |
| `RideContract` | the lifecycle table of `README.md`, each endpoint in one step |
| `MCRideLifecycle`, `MCRideSerial` | bounds and what is checked of rides; the ride service one handler at a time |
| `RideOffers` | who is offered, shown and sent what of a ride; rejections |
| `StartCode` | the code that starts a ride and its counter of attempts |
| `WalletLedger` | the transactions of `wallet.service.js`, and a wallet used by anybody (`WalletSpec`) |
| `Payments`, `MCPayments` | payForRide, refundPayment and handleStripeEvent, one action per await, over the transactions of `WalletLedger`, with coupons and Stripe |
| `Coupons`, `Redemptions` | coupons as edited and quoted; the two counts of a coupon against concurrent payments |
| `Sessions`, `MCSessions` | accounts, sessions, links and bans, one action per query |
| `WebClient` | one tab: its sessions and the shared refresh of `api()` |
| `DriverPresence` | online, offline, positions, heartbeats and their sweep |
| `EmailDelivery` | notify, the email queue, its workers and their processes |
| `Vetting` | drivers, vehicles, documents and their reviews |
| `Ratings` | submitRating and the averages |
| `MCServices` | bounds for the six small services, one per behaviour |
| `RideLifecycleProofs`, `RideSerialProofs`, `PaymentsProofs` (with the theorems of `WalletLedger`), `SessionsProofs`, `WebClientProofs`, `DriverPresenceProofs`, `EmailDeliveryProofs`, `ServicesProofs` (over `MCServices`) | the theorems |

Where modules meet. `Payments` takes from `RideLifecycle` one fact: a ride that
may be paid for is COMPLETED, with its fare fixed, for good. That is so when
handlers do not overlap (`ImplementsContract`); a cancel that overtakes a
completion (section 5) is not carried over, and the rides of `Payments` are
completed rides with a `Fare`. From `Coupons` it takes that a discount is at
most the fare (`DiscountFits`, there for every value an administrator may
enter). `Redemptions` looks at the two counts of a coupon query by query and
forgets the money; `Payments` follows the money and takes both counts in one
look. `isOnline` and `isAvailable` are written together: where they decide who
gets a ride they are in `RideLifecycle`, where positions and heartbeats decide
over them in `DriverPresence`, which is also where "goOffline is what the
heartbeat sweep does" comes from. The verification of a driver is in `Vetting`,
the sessions a suspended driver loses in `Sessions`. `WebClient` takes refresh
and authenticate in one step each, as `Sessions` establishes them. `RideOffers`
takes the life of a ride in single steps.

### Rides

**State.** `ride[r]` is a row of `Ride`: status, passenger, driver, the set of
statuses whose timestamp column is set (`stamps`), and the age of the present
one in units of five minutes, the granularity at which the code compares
timestamps (5, 10, 15 minutes). `isOnline`, `isAvailable`, `driverRides` and
`passengerRides` are columns of `Driver` and `Passenger`; `logged` is
`RideStatusLog`; `pending` is `geo:rides:pending`. `call[c]` is a handler in
flight: which one, the next awaited operation, and the local variables it
still uses, which is what makes stale reads visible. `sweep` is a run of
`expireStaleRides`: what its queries returned and what it is at.

**Steps.** A handler begins with its first read and checks (`requestRide`,
`acceptRide`, `markArrived`, `startRide`, `completeRide`, `cancelRide`); a check
that fails throws, changes nothing, and is simply no step. Then each await that
reads or writes shared state is a step: `create`, `checkNoActiveRide`,
`checkStillRequested`, `tryAssignDriver` (the conditional update), `setUnavailable`,
`writeStatus` (the unconditional update of markArrived and startRide),
`commitCompletion` and `commitCancellation` (transactions, one step each),
`removePendingRide`, `record`, `addPendingRide`. Conflicts of acceptRide are
`rejectAccept`. The two reads of `getAssignedRideInStatus` are one step: the
driver's id does not change. The sweep's three queries are one step: they run in
parallel, and no row can be in two of the lists, since a status just entered is
not stale.

**Faults.** `Faults` names the processes that may fail: an "app" request ends at
any await (a rejected query or a dead instance), a "worker" run of the sweep
likewise (the job has one attempt; the scheduler starts the next), and a "redis"
command may be swallowed by `withRedisFallback`.

**Abstractions.** Drivers are approved and have a vehicle of each type; the
route, fare and reasons are data nothing here tells apart, and whether the start
code matches is left open (`StartCode` says when a call goes on). Requests of the
same user may overlap, as HTTP allows. One worker process is assumed, so one
sweep runs at a time.

### Offers and start codes

`RideOffers` has `booking`, `ready` (a driver who is online, available and
approved), the Redis sets `pendingSet` and `rejectedBy`, and the three reads in
flight: `request` (requestRide from its row on: publish, geosearch, the drivers'
rows, the pushes), `poll` (listNearby: search, rejections, rows) and `refusal`
(rejectRide). `told` is who was sent which start code. Every Redis call may fail
into its fallback and every request may end. Ghosts: `unfit`, `closed` and
`declined` hold who could not take a ride, which rides were over, and which had
been declined at some time since the read began, which is what the answers are
held against. Also modelled: getRide and the histories, ride:sync and the pushes
of a changed ride.

`StartCode` has the ride's stage, the ticks since arrival, the Redis counter with
its expiry (`Forever` between `incr` and `expire`, for good if the instance dies
there) and the attempts in flight. `guesses` and `named` are ghosts; `MaxStarts`
bounds the attempts.

### Wallets and payments

**State.** `balance` and `ledger` are `Wallet.balance` and `WalletTransaction`.
`payment`, `refunds` and `redemption` are the tables; `rideId` is unique, so a
ride names its payment. `call[c]` is a request in flight with its local
variables (`amount`, `coupon`, `alreadyRefunded` as `already`, the status Stripe
gave as `result`); `webhook[d]` is an event whose payment has been read and not
yet written. Stripe is external: `intent` (one per ride, by the idempotency
key, and one per top-up), `reversed` (its refunds, by their keys), `events`,
and `acked`, those answered with 200. `secret` is what clients may confirm.

**Steps.** `payForRide` is everything up to the branch on the method; then
`payCash`, `payFromWallet` (debit, ledger entry and payment: one transaction) or
`createIntent`, `insertPayment`, and `insertFails`, `cancelIntent` when the insert
throws; then `redeemCoupon`. `rejectPayment` is a transaction that rolls back.
Refunds are `refundPayment`, `sumRefunds`, and `refundToWallet` (one transaction)
or `refundCharge`, `recordRefund`. An event about a ride is `findPayment` (which
answers it at once if it does not apply) and `writeStatus`; one about a top-up
is `deliverTopUp`. Any event may be delivered any number of times, in any order,
to several instances at a time. `confirm` and `decline` are what clients make
Stripe do.

**Wallet transactions are single steps.** Each updates the wallet's row before it
writes anything else about the wallet, and Postgres holds that row until the
commit. Money is in cents. The columns are `Decimal(12, 2)` while
`adjustWalletSchema` takes any number, so that balance and entry are rounded
apart; `Cents` is that rounding, and amounts reach it in half cents.

**Faults.** "app": a request or a delivery ends at any await, or a response is
lost; "database": an insert is rejected; "stripe": the cancellation fails.

**Abstractions.** What a coupon takes off a fare is a constant of the two, at
most the fare (`computeDiscount`); expired and inactive coupons are those not
given. Amounts of payments, top-ups and refunds are whole cents. Stripe refuses
an amount of 0, a repeated key with other parameters, and a refund beyond the
charge; it may leave a refund pending. `AdjustmentsOf` only bounds the model.

### Coupons and their redemptions

`Coupons` keeps the fields of a coupon as they are edited, one schema for
creation and another for edits, and `computeDiscount` with its rounding to cents;
percentages are hundredths of a percent. `quoted` is the last answer. `Redemptions`
takes payForRide apart: the two counts, the payment, the redemption, each a step
of `checkout[p]`, any of which may be the last.

### Sessions

**State.** `account`, `row` with `owner`, and `link` are the tables of users,
refresh tokens and verification tokens; `age` is the time since an access token
was signed, which nobody stores; `marker` and `failures` are the Redis keys with
their time to live. `req[r]` is a request with what it has read. Ghosts: `ended`
and `cut`, the sessions and links, and the access tokens, that a finished request
promised to be over, and in a request `wasActive` (the account was active at some
time since it began), `seen`, and `late` (a refresh, reset or verification whose
token or link was in `ended` when it began).

**Steps.** One per awaited query: `authenticate`, `readLock`, `countFailure`,
`expireFailures`, `findUser`, `signFirst`, `createRefreshToken`,
`findRefreshTokenByHash`, `revokeRefreshToken` (an update by id, of the rotation and
of logout), `revokeAllUserRefreshTokens`,
`revokeAllUserAccessTokens`, `setActiveStatus`, `updatePasswordHash`, the link
steps, and so on; fourteen operations share them as the code does. `Abandon` ends
a request anywhere. Redis may fail where the code catches it. The cleanup job and
`Expire` take rows away.

**Abstractions.** A token is its number; hashes are equal when passwords are.
Time is in ticks of which an access token lives `Life`. Not here: emails (with
`EmailDelivery`), lastLoginAt, what a token carries besides its user.

### Web client

`sessions`/`stored` and `active`/`storedActive` are the state of a tab and its copy
in localStorage, `refreshInFlight` the promise all refreshes share, `fetch` the
calls in flight with the user they were made for and the token they carry. The
server's side is `live` (refresh tokens not revoked), `issued` and `oldest`.
JavaScript runs to the next await, so that `refreshed` lets every waiter go on in
one step. A retry whose own fetch throws gives the session up (`retryThrows`), as
the code's catch covers it; `openFile` has a copy of all this and shares the
refresh. `outside` is a ghost: users whose tokens changed without the tab hearing
of it (a ban, another device, a lost answer).

### Presence

`isOnline`, `lastKnown` and `age` are columns of `Driver`, `geo` and `heartbeat` the
Redis keys, `at` where the driver is. `ping[r]` is goOnline, goOffline or
updateLocation in flight (REST and the socket event run the same code), `sweep` a
run of `expireStaleHeartbeats`. `redisFails` takes the fallback of
`withRedisFallback`, `abandon` ends a request, a sweep may end between two drivers.
A way between two places is plausible after `Journey` ticks; a sample within three
seconds of the last has age 0 and is not checked, as in the code.

### Email

`status` is `Notification.status`; `caller` how far notify is; `job` BullMQ's job
with its attempts and stalls; `proc`, `run` and `failing` the worker processes, the
job each executes (with or without its lock) and the "failed" handlers under way,
which nobody awaits. BullMQ is external: at-least-once, `loseLock` and `die` put an
active job back, and after more than `MaxStalls` it fails, whatever attempts are
left. Ghosts: `sent`, `slips` (a sent email that could not be recorded, a lock that
was lost) and `lost` (rows whose caller failed before the job was queued or the
outcome written, or whose "failed" handler went down with its process). A job
failed for its stalls is not in `lost`: `StalledOut` names it.

### Vetting and ratings

`Vetting` has roles, profiles, vehicles with their identity and `isVerified`,
documents and their files; a request is a check and a later write. Ghosts:
`reviewed` (the identity at the last verification) and `raced` (vehicles verified
while an edit was in flight). `Ratings` represents an average by the set of ratings
it was taken over; `submit` is an insert, a read and a write. Its ghost `disturbed`
holds the users whose last recomputation met another one or never came.

## 3. The runs

| Run | Instance | Shows |
|---|---|---|
| `ride_race` | 1 ride, 2 drivers, 2 requests and the sweep in flight, Redis fails | `StagesInOrder`, `SweepIsGuarded`, `MatchableStaysListed`, `ImplementsAssignment`: what every interleaving preserves |
| `ride_serial` | 2 rides, 2 passengers, 2 drivers, one handler at a time, requests and sweeps abandoned anywhere | `ImplementsContract`, `OneActiveRideEach`, `UnavailableHasRide`, `CompletedOnce` |
| `ride_liveness` | 1 ride, 2 requests that may hang, a worker that may die | `NoOneStranded` |
| `ride_sweep_skip` | the same without requests failing, handlers shorter than five minutes | `SkippedIsUntouched` fails (section 5) |
| `payments` | 1 ride, 1 top-up, 1 coupon, 2 requests, 2 deliveries, everything fails | `WalletsSound`, `PaidOnce`, `CompletedIsCharged`, `RefundsAreCredited`, `CardRefundsWithinCharge`, `TopUpIsCharged` |
| `payments_liveness` | 1 request that may hang, 2 deliveries that may die | `ChargesAreBooked` |
| `refund_over` | 2 requests, nothing fails | `RefundsWithinPayment` fails (section 5) |
| `sessions` | 1 user, 2 passwords, 2 sessions, 2 links, 2 requests from one of eight groups of operations | `EndedIsRefused`, `OnlyActiveAreServed` |
| `web_client` | 2 users, 2 calls, 2 sessions or rotations each | `KeptSessionsWork`, `CallsSettle` |
| `presence` | 1 driver, 2 places, 1 toggle and 2 samples in flight | `SilentDriversLeave`, `PlaceIsLearned` |
| `email` | 1 email, 2 workers, 3 attempts, 1 stall | `SentOnce`, `OutcomeIsTrue`, `EmailsSettle` |
| `services` | six small services, one per behaviour | `VerifiedAsReviewed`, `DocumentsHaveFiles`, `AverageHeals`, `DiscountFits`, `OversellIsBounded`, `GuessesBounded`, `OffersAreDue`, `CodeStaysWithPassenger` |

Each passing run of a module also checks its types. `CHECK_DEADLOCK` is off
everywhere because the systems may really stop: rides, sessions, serials and
attempts are used up in a finite instance, and nobody is obliged to send
anything.

### Rides

The two specifications of rides are read together. `ride_serial` says that each
handler on its own is right, also when it is abandoned between two awaits: the
README's table is what the service does. `ride_race` says what is left when
handlers overlap: no stage is skipped however late a write; the sweep cancels
only what is still as it was listed, and old enough; a ride leaves the pending set
only when it cannot be matched any more; and matching implements `RideAssignment`.
What holds in the first and not in the second (`OneActiveRideEach`,
`UnavailableHasRide`, `CompletedOnce`, `ImplementsContract`) is lost to overlap
alone: two requests of a passenger, two accepts of a driver, two completions of a
ride, a write after a check that no longer holds.

**Bounds.** `MaxAge` = 3 units: no code tells ages of 15 minutes and more apart,
so it loses nothing. Completion totals are not capped: each increment uses up a
call that saw IN_PROGRESS. One ride is enough for `ride_race` because its
properties speak of one ride and a handler of another ride meets it only through
`isAvailable` and `findActiveByDriver`, which `ride_serial` exercises with two
rides; two requests are enough for every pair of handlers, the sweep is a third
process. A ride id is used once (ids are fresh cuids). `HandlersAreQuick`
(`ride_sweep_skip` only) keeps the trace realistic: nothing stays in flight for
five minutes. `Unlogged` is the view of `ride_serial`: no action reads the log
and none of its properties mentions it. The theorems of section 4 say that none
of these bounds matters to the safety properties.

**Fairness.** Time passes (`Tick`) and the scheduler starts the sweep
(`expire-stale-rides`, every 2 minutes). Within a run, each operation is
strongly fair where the worker may die: not every run dies before the same
operation. Strong fairness is needed because a run that dies disables the
operation; weak would let the worker die at the same place for ever, and then
the rides really would be stranded. Nothing is assumed of passengers, drivers or
requests in flight: `NoOneStranded` holds although a handler may hang for ever
between its check and its write.

### Payments

`WalletsSound` is `LedgerChains` (each entry takes the balance to the next, and
the last is the balance), `NeverOverdrawn` and `BookedOnce` (a success delivered
twice credits once). `PaidOnce`: a ride is paid for by one method, the one on
record, and the wallet's debit and the card's charge agree with it.
`CardRefundsWithinCharge`: however refunds race and are retried, Stripe gives back
no more than it charged, and what the database knows of is among it.

**Bounds.** One ride, because rides meet only in the balance, which adjustments
and top-ups exercise, and in the counts of a coupon, which `Redemptions` takes to
four rides. A fare of two cents admits two partial refunds, a coupon of one cent
makes the two requests ask Stripe for different amounts under one key. Two
requests are every pair of handlers; two deliveries overlap a success and a
decline. `MaxAdjustments` = 2 adjustments of 2.5 and -0.5 cents: enough to fund the
wallet, to race a debit against a payment and to show the rounding. The view
`Unacked` drops `acked`, which no action and no invariant reads; the liveness run
keeps it.

**Fairness.** Stripe delivers a success until it is answered with 200
(strongly fair as long as it is not in `acked`: an instance may be busy or dead
at one time and not for ever), a delivery writes unless it dies, and not every
delivery of an event dies. Nothing is assumed of requests, clients and declines.
`ChargesAreBooked` says that a charge not yet answered is booked at some time; a
decline that was read earlier may still overwrite it (section 5).

### Sessions and the web client

`EndedIsRefused` relates what finished requests promised to what any later one can
do. A refresh that begins after its session was logged out or rotated, or revoked by
a finished logoutAll, new password, ban, suspension or replay, gets no further than
revoking more; a reset or verification that begins after its link was used or
replaced reads the link and stops; and, but after a mere logout or a replay, the
access tokens of those sessions are refused as long as they would live. It holds
only of what begins afterwards. A refresh or reset that has read its row or link
before the end goes on, and a refresh leaves a new live session behind: that is in
the model, nothing excludes it, and section 5 holds it against the comments.
`OnlyActiveAreServed` looks at every signature: no account that was deactivated
when the request began, and not reactivated since, gets a token. It holds although
register, login and refresh check the account some queries before they sign.

**Bounds.** One account: no query looks at two. Two requests are every pair of
handlers within a group; the groups of `MCSessions` are the operations that write
the same rows (rotation with replay and both logouts; bans with each way to get a
session; each use of a link). Two sessions are enough for a rotation, or for a
session that is new while the old one is ended. `Life` = 1: a token is accepted or
it is not, and the marker has to cover exactly that. `Skew` = 0: the property is
about the life of a token, without the ten seconds of tolerance in which
`verifyAccessToken` still takes it and the marker is gone; the theorem holds for
every `Skew`.
`MaxFailures` = 1 locks after one wrong password. `Unaudited` drops the audit log,
which no action reads.

For the tab, two users are the smallest case in which the shared refresh serves
another user's call, and two serials allow a login and a rotation each. Fairness:
the refresh is answered, refused or times out, and every other request is too.

### Presence and email

`SilentDriversLeave`: a driver who is online is taken offline or has something in
flight, in the end; it needs the clock, the schedule and that not every sweep
loses Redis or its process at the same driver (strong fairness of `missHeartbeat`
and `forceOffline`), and nothing of the driver. `PlaceIsLearned`: a driver who stays
online in one place and goes on sending is found there, in both indexes, for good;
it needs besides that not every write of a position fails. Samples in flight from
before may still arrive, and plausibility may drop some. Two samples are two
devices, or one that overtakes itself; `Ttl` = 1 and `Journey` = 2 make a heartbeat
lapse before a long way is plausible.

`SentOnce` counts a second email only against a slip: BullMQ delivers at least
once and the processor's check of the row makes it as good as that can be.
`OutcomeIsTrue` holds the row against the job, and `EmailsSettle` needs that the
worker is started again, that a queue with a worker is served (strong fairness of
`take`, as a shutdown may come first) and that running code goes on. Both except
two kinds of rows that stay PENDING for ever: those in `lost`, and those of jobs
BullMQ failed for their stalls with attempts to spare (`StalledOut`), for which
nobody need have died; section 5 has what the code says of these. `Attempts` = 3
is the code's own value, one stall is BullMQ's default.

### Services

One person, vehicle and document with two requests for vetting (every pair of
edit, review, upload and removal) and two identities. Three rides between three
users for ratings, so that one user is rated in both roles. Fares of 199 and 1005
cents and values that are a fixed amount, a percentage that rounds, and a
percentage above 100. Four rides, three checkouts, a limit of 2 and one per user
for redemptions: the limit is passed and overtaken. Three concurrent attempts of
five at a start code, of which two are allowed, with a counter that outlives the
code by one tick, as 15 minutes do 10. One ride, two drivers of whom one is also
its passenger, one search and one refusal for offers.

## 4. What is proved

Each module of theorems speaks of any sets of rides, users, requests, workers or
sessions and any values of the other constants, from the named assumptions of its
module only. Each invariant was model-checked before it was proved. Together they
cover every invariant, every action property and every refinement that a passing
run checks; some state more than the runs do.

### Rides

| Theorem of `RideLifecycleProofs` | Statement |
|---|---|
| `Invariance`, `History`, `PoolInvariance` | `Spec => []IInv`, `[]HInv`, `[]QInv` |
| `TypeCorrectness` | `Spec => []TypeOK` |
| `DriverIsOnRecord` | `Spec => []DriverOnRecord`: status and driver column never disagree |
| `DriverIsFixed` | `Spec => DriverFixed`: concurrent accepts cannot both win |
| `NotReopened` | `Spec => NeverReopened`: a ride enters the pool once and is accepted from it |
| `MatchingIsCorrect` | `Spec => ImplementsAssignment` |
| `NoStageIsSkipped` | `Spec => []StagesInOrder` |
| `LogIsBacked` | `Spec => []LogFollowsRide`: the audit trail never runs ahead |
| `SweepsAreGuarded` | `Spec => SweepIsGuarded` |
| `MatchablesStayListed` | `Spec => MatchableStaysListed` |

The difficulty is the unconditional update: `markArrived`, `startRide`,
`completeRide` and `cancelRide` overwrite whatever the ride has become. No
invariant of the form "the status is still what the handler saw" holds. What
makes the rows consistent all the same is what a handler has seen and nobody can
undo, and the invariants say just that. `IInv` adds to `TypeOK` and
`DriverOnRecord` that the steps a call takes are those of its handler
(`CallShape`) and that the ride of a call that passed its check exists and has
that driver (`SeenHolds`): drivers are never replaced and ids never unused
(`Keeps`). `HInv` adds that the stage a call has checked, and the one it has
written, are stamped on its ride (`StampedBy`): stamps are never taken away.
`QInv` adds that a ride about to be delisted has left the pool for good, and that
what the sweep has listed as stale and not moved since is still stale. The proofs
have one lemma for what a step does to the rows (`RideStep`, `StampsStep`,
`AgedStep`), one for what it does to the calls (`CallsStep`, `CallsBacked`), and
combine them.

| Theorem of `RideSerialProofs` | Statement |
|---|---|
| `SerialInvariance` | `SerialSpec => []KInv` |
| `OneRideEach` | `SerialSpec => []OneActiveRideEach` |
| `NoDriverIsStuck` | `SerialSpec => []UnavailableHasRide` |
| `CompletionsAreCounted` | `SerialSpec => []CompletedOnce` |
| `ServiceKeepsContract` | `SerialSpec => ImplementsContract` |

Here the other kind of invariant does hold: `KInv` says that one handler is in
flight at most and that all it has checked still holds (`CallsKnow`), and the same
of the sweep (`SweepKnows`). Every step then has one of nine outcomes (`Outcomes`),
from which the rest follows without looking at handlers again: active rides share
no user (`RidesApart`), who is unavailable has a ride, and the totals count
(`RidesCounted`, with the cardinality theorems of the library).

### Wallets and payments

From `WalletAssumption` and `PaymentsAssumption` (types of the constants, a
discount is at most the fare, `Null` is no coupon and no reference, an intent is
not both a ride's and a top-up's):

| Theorem | Statement |
|---|---|
| `WalletsAreSound` | `WalletSpec => []WInv`: types, `NeverOverdrawn`, `LedgerChains`, `BookedOnce` |
| `BalancesAreSums` | `WalletSpec => []LedgersAddUp`: a balance is its ledger's credits less its debits |
| `PaymentsImplementWallets`, `PaidBalancesAreSums` | `Spec => WalletSpec`, and so `Spec => []LedgersAddUp` |
| `WalletsStaySound` | `Spec => []WalletsSound` |
| `PaymentsTypeCorrectness` | `Spec => []TypeOK` |
| `PaidAtMostOnce` | `Spec => []PaidOnce` |
| `CompletionNeedsCharge` | `Spec => []CompletedIsCharged` |
| `RefundsReachWallets` | `Spec => []RefundsAreCredited` |
| `CardRefundsFit` | `Spec => []CardRefundsWithinCharge` |
| `RedemptionIsDiscount` | `Spec => []RedeemedIsDiscounted` |
| `TopUpsAreCharged` | `Spec => []TopUpIsCharged` |
| `EventsHavePayments` | `Spec => []EventsFindPayment`: no event finds its payment missing, which the code would answer with 200 and lose |
| `AnsweredAreSettled` | `Spec => []AnsweredIsSettled`: a success that was answered with 200, and never comes again, has been applied |

A wallet's invariant is inductive as it stands: every transaction appends one
entry and sets the balance it records (`Books`), and the arithmetic of rounding
is in two lemmas. Payments inherit it, since each of their steps is a wallet
transaction or leaves wallets alone (`UsesWallets`).

The invariant of payments, `PInv`, adds what ties the parties together. A request
holds what nobody undoes (`CallHolds`): the intent of its ride with its amount
once Stripe has made it, the payment once it is inserted, a charged intent once
a card refund is on its way. A delivery in flight is one of Stripe's events about
a card payment (`DeliveriesHold`). And a client secret is out only after the
payment is on record with the amount of its intent, without a secret nobody
confirms, and without a confirmation there is no event (`StripeHolds`): from this
follow `EventsFindPayment` and the card half of `PaidOnce`. The lemma `Kept` says
what no step takes back (method and amount of a payment, the amount and the
success of an intent), `EntriesAfter` what an entry does to the ledger, and
`LedgerSteps` which steps enter what.

`LedgersAddUp` is the reconciliation that `schema.prisma`:503 promises ("a
denormalized cache maintained transactionally") for ledgers of any length. It is
exact but for adjustments: `adjustWalletSchema` takes fractions of a cent, balance
and entry are rounded apart, and each such debit may leave a cent between them
(`AdjustedDown`). Chaining (`LedgerChains`) alone does not give the sum.

`CardsHold`, for `CardRefundsFit`, relates three sums: what Stripe has given back
is within the charge, each row records a refund of Stripe's that no other row
records, and the rows and what is not recorded yet make up what was given back.
The second part is where retries and crashes come in: a row is inserted under the
refund's id, which is unique, by a request that has had Stripe make it
(`RecordHolds`).

`AnsweredIsSettled` is what must be so in every state for `ChargesAreBooked`: once
an event is answered nobody will deliver it again, so whatever is still to be done
about it must not depend on it. A payment it is about is completed or refunded, or
FAILED because a decline was read before it and written after (section 5).

Sums are the community modules' folds. The library's theorems about induction
take operators and cannot be used; the lemma `Counting` replaces them: a set that
has 0 and the successors of its members has every number, or else a pigeonhole
argument fails. `TotalSums` and `TotalOfMore` derive from it that a fold over a
finite set is a sum, and what one element more makes of it.

### Sessions, the web client, email and presence

| Theorem | Statement |
|---|---|
| `SessionsProofs`: `TypeCorrectness`, `EndedIsOver`, `ServedAreActive` | `Spec => []TypeOK`, `[]EndedIsRefused`, `OnlyActiveAreServed` |
| `WebClientProofs`: `TypeCorrectness`, `KeptSessionsKeepWorking` | `Spec => []TypeOK`, `[]KeptSessionsWork` |
| `EmailDeliveryProofs`: `TypeCorrectness`, `SentOnceOnly`, `OutcomesAreTrue` | `Spec => []TypeOK`, `[]SentOnce`, `[]OutcomeIsTrue` |
| `DriverPresenceProofs`: `TypeCorrectness`, `WhoeverIsFoundIsOnRecord` | `Spec => []TypeOK`, `[]ListedAreRecorded` |
| `EmailDeliveryProofs`: `NoEmailIsForgotten` | `Spec => []PendingInHands`: somebody will come back to every PENDING email, unless its caller failed, a handler died, or BullMQ gave the job up for its stalls |

The invariant of sessions, `SInv`, is about requests between two queries: each
takes the steps of its handler with what it was given (`Shaped`), and what it
remembers cannot be undone (`Remembers`): a row that exists stays with its owner,
one that is over stays over, a token it has chosen is known to nobody else
(`NewDiffer`). `EndedIsRefused` is its part about late requests: what is in `ended`
is over for good (`RowsOver`, `LinksOver`), so that a redeemer that presents it and
began afterwards meets a row or link that is over, whatever happened in between
(`LateRefused`). It says nothing of redeemers that had read theirs before, and could
not. Whoever is past the check of its account was active at some time
since it began (`Admitted`). The marker covers the tokens of `cut` (`CutOver`)
because it is set with the whole life of a token after the last of them was signed.

`WInv` of the web client says that memory and storage agree between any two
steps, on the active user too as long as there is a session, which is what a
reload counts on.

`EInv` of email is an account of who may still send. A worker that lost its lock
has cost a slip already, which pays for what it may send (`Unbacked`); the worker
that has the lock pays with the one email everybody is entitled to, taken once the
email is sent and not recorded, or the row is no longer PENDING (`Covered`).
`PendingInHands` is what must be so in every state for `EmailsSettle`: the hands
are the caller's, the queue's, those of the worker with the lock and of the
handler of a failure; `lost` holds what went with a process, and `StalledOut` is
said apart, for nobody need have died there. It needs that a worker completes a job
only after its row is settled (`CompletesSettled`).

`Inv` of presence says that a request writes its position to the row before it
writes it to the geo set, and that nobody takes a position back. So matching finds
nobody of whom Postgres knows no position, however Redis, requests and sweeps
fail; the converse holds only in the end (`PlaceIsLearned`).

### Services

| Theorem of `ServicesProofs` | Statement | Because |
|---|---|---|
| `VerifiedIsReviewed`, `FilesOutliveRows` | `VettingSpec => []VerifiedAsReviewed`, `[]DocumentsHaveFiles` | what requests rely on after their check holds, or a review raced the edit |
| `GuessesAreBounded` | `CodeSpec => []GuessesBounded` | attempts count before they compare, and a counter with an expiry outlives the code |
| `CodeTypes` | `CodeSpec => []CodeTypeOK` | who is about to count has started and counts once (cardinalities) |
| `DiscountsFit`, `CouponTypes` | `CouponSpec => []DiscountFits`, `[]CouponTypeOK` | `Min` with the fare comes after every rounding (a lemma) |
| `OffersStayDue`, `CodesStay` | `OfferSpec => []OffersAreDue`, `[]CodeStaysWithPassenger` | who became unfit is not ready, what is over stays over, a decline is in Redis unless it lapsed |
| `AveragesHeal` | `RatingSpec => []AverageHeals` | an undisturbed user has at most one request at their average, and it holds all ratings |
| `OversellingIsBounded` | `RedemptionSpec => []OversellIsBounded` | a redemption takes a request out of those past the count (cardinalities) |

The run checks these six specifications side by side (`MCSpec`). `ServicesCompose`
proves that a behaviour of the composition is one of each, so that what is proved
of one holds there too, and `ServicesTyped` (`MCSpec => []ServicesTypeOK`) is the
first thing that follows.

### Only model-checked

Everything that is to happen in the end, as the prover does not do fairness:
`NoOneStranded`, `ChargesAreBooked`, `CallsSettle`, `SilentDriversLeave`,
`PlaceIsLearned`, `EmailsSettle`. Of two of them the part that is a safety property
is proved (`AnsweredAreSettled`, `NoEmailIsForgotten`). And of course the two
promises that TLC refutes (section 5).

## 5. Where the code and its comments part

Two runs show a promise broken:

* `ride_sweep_skip`. The comment of `expireStaleRides` (`S`:414) says a ride that
  moved on since the query "is simply skipped". The transaction that carries the
  conditional cancel also frees the driver unconditionally (`S`:459, `S`:481), and
  the count is looked at afterwards: a driver who arrived in the meantime becomes
  available in the middle of the ride. An accept of another ride is then only
  stopped by `findActiveByDriver`.
* `refund_over`. `Y`:266 limits a refund to what is left of the payment. The sum is
  read outside the transaction (`Y`:261), and two refunds to a wallet overlap.

Others were seen while modelling. The models contain this behaviour and the
properties above hold with it; no run is spent on it.

Rides:

* `R`:70 says the job's cancel and a concurrent accept/cancel/arrive "can never
  both apply". markArrived reads the status (`S`:287) and updates by id (`S`:289),
  so it revives a ride the job cancelled in between.
* `S`:378 puts status and driver into one transaction so that no driver stays
  "permanently stuck". The driver is taken from the read before it: a cancel that
  read the ride unassigned and commits after an accept leaves the driver
  unavailable with no ride.
* dispatchRideOffer does not look at rejections, though `S`:133 says what remains
  is "all rejected already"; a crash between `sadd` and `expire` leaves a
  rejection without its hour.
* The comment at `S`:502 wants a client that missed a cancellation resynced on its
  reconnect; ride:sync sends active rides only (`sockets/index.js`:80).
* A cancel that read ARRIVED overwrites a ride started or completed since (`S`:382).

Payments:

* When the insert of a card payment fails, `Y`:142 cancels the intent because no
  local record points at it (`Y`:122). Two concurrent requests share the intent by
  its key, and the record of the other one does.
* `Y`:211 says a stale `failed` "can never downgrade an already-COMPLETED
  payment". The status is read at `Y`:219 and written without a condition at `Y`:221.
* The guard against redelivery "deliberately allows PENDING *or* FAILED" (`Y`:203);
  `Y`:213 allows REFUNDED too, and completes it again.
* The response of a card payment may be lost after its row is created (`Y`:110):
  the retry is a conflict and the secret is not handed out again. A crash between
  payment and redemption (`Y`:158) leaves a discount nobody redeemed.
* An edit of a coupon is not held against the cap of a percentage or the order of
  its dates as creation is (`coupon.validator.js`:6, `README.md`:229).

Sessions and the client:

* Logout, logoutAll, a new password and a ban do not stop a refresh in flight. It
  has read its row before (`token.service.js`:110), updates it by id without a
  condition (`token.repository.js`:17) and makes a live successor and an access
  token (`token.service.js`:123). So "nothing can mint a fresh access token
  afterward" (`auth.service.js`:170) and "force re-authentication everywhere"
  (`auth.service.js`:214) hold of what begins afterwards only: the successor's row
  stays live, and its access tokens are refused while the marker lives and not
  after (logout sets none). After a ban, refresh looks at the account, so the
  successor is of no use until the account is reactivated.
* Two rotations of one token that overlap both succeed, which is the "single request
  race" of `token.service.js`:101, and the one that comes second is not seen as the
  replay of `token.service.js`:104: both successors stay live. Two resets with one
  link that overlap both set their password.
* While the revocation marker lives, as long as an access token, the tokens of a new
  login are refused as well (`auth.middleware.js`:21), and it does not cover the
  clock tolerance of ten seconds (`token.service.js`:27).
* A crash between `incr` and `expire` leaves a login counter that never lapses
  (`auth.service.js`:118).
* `refreshInFlight` is not kept per user (`api.js`:38, 76): a call that was made for
  one user may be retried with another's token.
* When the retry of a call throws, for want of a network, the catch at `api.js`:79 is
  the one for a refresh that failed: the tab gives up a session that was just
  renewed and still works, as "Session expired".
* profile.js:59 takes the session that is active when the answer comes and saves its
  tokens under the user the answer is about: whoever switches while their profile is
  saved gives one user the other's tokens (not modelled).
* The rides view may show the payment of another ride when an answer is late
  (`views/rides.js`:87).

Others:

* `rating.service.js`:8 and `README.md`:238 say averages "can never drift". They do
  while ratings overlap, until the next one; and both roles of a user are averaged
  together.
* A job that stalls more often than BullMQ allows is failed whatever attempts it has
  left. `exhausted` (`email.processor.js`:64) compares attempts only, is false, and
  nobody comes back: the row stays PENDING for ever though no process need have
  died (two locks lost are enough), where `email.processor.js`:58 means to tell
  "will try again" from "actually gave up" and to "stop the user waiting on an email
  that's never coming". The models say `StalledOut` of such rows.
* An email that was SENT may become FAILED after a redelivery that cannot read the
  row. A notify that crashes, or whose job the queue refuses, leaves its row PENDING.
* An edit of a vehicle's type keeps its verification.
* A late updateLocation lists a driver again who has gone offline, until matching
  looks at the row; a sweep may take a driver offline who came back after it read
  the heartbeat.

## 6. Plan

Done: rides, offers and start codes; wallets, payments and coupons; sessions and
the web client; presence; email; vetting; ratings. What would come next:

1. The safety part of the other liveness properties: that an open ride is always
   pending or due for a sweep (`NoOneStranded`), that an online driver has a
   heartbeat, a request in flight or a sweep to come (`SilentDriversLeave`), that
   whoever waits for a refresh waits for one that is under way (`CallsSettle`).
2. An abstract account of sessions (a session is issued, rotated, ended; nothing
   else) that `Sessions` implements as `RideLifecycle` implements `RideAssignment`.
3. `RideLifecycle` over the geo sets of `RideOffers` in one specification, and two
   workers that sweep at once.
4. `Payments` with two rides of one wallet, if a view makes it small enough.
5. The socket of the web client: pushes that meet a view's own fetch.

## 7. Not modelled

Reads that change nothing (reports, analytics, metrics, lists of administrators);
fares and routes (floating point, a third party with a fallback; the fare is
given where it matters); saved locations and favourite drivers (rows written by
their owner alone, under a unique key); profile edits, marking a notification
read and lastLoginAt (writes of a column nobody depends on); the HTTP layer,
validation and rate limits (they decide which requests arrive; the modules let
any request arrive at any time); rooms and the handshake of sockets;
configuration; the OpenAPI documents; the views of the frontend but for login and
registration (they render what they fetch, and profile.js writes a session back,
see section 5). Several workers that run one sweep each at the same time are not
modelled. Of refunds, the audit entry and the email at the end are left out (the
email from there on is `EmailDelivery`), of maintenance the daily report.
