------------------------------- MODULE RideOffers -------------------------------
(***************************************************************************)
(* What drivers and passengers are shown of a ride: dispatchRideOffer,     *)
(* listNearby, rejectRide, getRide, the histories and getMyActiveRide of   *)
(* src/src/services/ride.service.js, with the sets that geo.service.js     *)
(* keeps in Redis for them and the pushes of src/src/sockets.              *)
(*                                                                         *)
(* A driver searches a geoset that is written after the Ride row and is    *)
(* left alone when Redis fails, so that everything found in it is checked  *)
(* against rows, one query at a time, while the rows go on changing.  Who  *)
(* changes them and how is in RideLifecycle: here a ride is requested,     *)
(* taken and over in single steps.  Who has a verified vehicle is in       *)
(* Vetting: here a query finds one or none.  All places are near each      *)
(* other.                                                                  *)
(***************************************************************************)
EXTENDS Naturals

CONSTANTS
    Bookings,       \* rides that are requested
    Takers,         \* drivers
    Polls,          \* listNearby requests that may be in flight at one time
    Refusals,       \* ... and rejectRide requests
    RequesterOf,    \* the passengers of the rides, who may be drivers as well
    Nobody          \* null

ASSUME PeopleAssumption == Nobody \notin Takers /\ Nobody \notin Bookings

VARIABLES
    booking,        \* Ride.status and driverId
    ready,          \* Driver: isOnline, isAvailable and verificationStatus APPROVED
    pendingSet,     \* Redis geo:rides:pending
    rejectedBy,     \* Redis ride:<id>:rejectedBy: drivers, and whether it lapses
    poll,           \* the requests in flight: listNearby
    refusal,        \* ... rejectRide
    request,        \* ... requestRide, from the row of the ride on
    told            \* who has been sent the otpCode of which ride

redisSets == <<pendingSet, rejectedBy>>
rows == <<booking, ready>>
offerVars == <<rows, redisSets, poll, refusal, request, told>>

Requesters == {RequesterOf[b] : b \in Bookings}
NoRow == [status |-> "NONE", driver |-> Nobody]
NoPoll == [pc |-> "done", driver |-> Nobody, near |-> {}, found |-> {},
           closed |-> {}, declined |-> {}]
NoRefusal == [pc |-> "done", driver |-> Nobody, booking |-> Nobody]
NotAsked == [pc |-> "done", near |-> {}, eligible |-> {}, unfit |-> {}]
NoRejection == [drivers |-> {}, lapses |-> FALSE]

OfferInit ==
    /\ booking = [b \in Bookings |-> NoRow]
    /\ ready = Takers
    /\ pendingSet = {}
    /\ rejectedBy = [b \in Bookings |-> NoRejection]
    /\ poll = [q \in Polls |-> NoPoll]
    /\ refusal = [q \in Refusals |-> NoRefusal]
    /\ request = [b \in Bookings |-> NotAsked]
    /\ told = {}

Open(b) == booking[b] = [status |-> "REQUESTED", driver |-> Nobody]

\* Who gets the code with a ride: sanitizeRide strips it from what a driver sees.
sanitizeRide(p, b, viewerRole) == IF viewerRole = "PASSENGER" THEN {<<p, b>>} ELSE {}

\* The role in which getRide shows a ride, to a party of it or an admin.
viewerUnlessDriver(p, b) == IF p = booking[b].driver THEN "DRIVER" ELSE "PASSENGER"
viewer(p, b) == IF p = RequesterOf[b] THEN "PASSENGER" ELSE "DRIVER"

\* An offer goes without the code, whoever gets it: even the passenger, who may be
\* a driver nearby.
sanitizeRideOffer(p, b) == {}

-----------------------------------------------------------------------------
(* A ride is requested and offered.                                        *)

requestRide(b) ==
    /\ booking[b] = NoRow
    /\ booking' = [booking EXCEPT ![b] = [status |-> "REQUESTED", driver |-> Nobody]]
    /\ request' = [request EXCEPT ![b].pc = "geoadd"]
    /\ UNCHANGED <<ready, redisSets, poll, refusal, told>>

\* geoadd, which Redis may fail.
addPendingRide(b) ==
    /\ request[b].pc = "geoadd"
    /\ pendingSet' \in {pendingSet, pendingSet \cup {b}}
    /\ request' = [request EXCEPT ![b].pc = "search"]
    /\ UNCHANGED <<rows, rejectedBy, poll, refusal, told>>

\* The geoset of who is online is behind the rows (DriverPresence): anybody may be
\* found in it, and nobody is when Redis fails.  Unfit are the drivers who could
\* not take the ride then and have not been able to since.
findNearbyOnlineDrivers(b) ==
    /\ request[b].pc = "search"
    /\ \E near \in SUBSET Takers :
          request' = [request EXCEPT ![b] = [pc |-> "look", near |-> near, eligible |-> {},
                                             unfit |-> Takers \ ready]]
    /\ UNCHANGED <<rows, redisSets, poll, refusal, told>>

eligible(d) == {d} \cap ready

\* Promise.all: the rows of the drivers are read in any order.
findByIdForDispatch(b, d) ==
    /\ request[b].pc = "look" /\ d \in request[b].near
    /\ \E suited \in SUBSET eligible(d) :
          request' = [request EXCEPT ![b].near = @ \ {d}, ![b].eligible = @ \cup suited]
    /\ UNCHANGED <<rows, redisSets, poll, refusal, told>>

\* ride:offer to each of them, and the answer to the passenger.
emitOffers(b) ==
    /\ request[b].pc = "look" /\ request[b].near = {}
    /\ request' = [request EXCEPT ![b] = NotAsked]
    /\ told' = told \cup {<<RequesterOf[b], b>>}
                     \cup UNION {sanitizeRideOffer(d, b) : d \in request[b].eligible}
    /\ UNCHANGED <<rows, redisSets, poll, refusal>>

\* The instance dies, or the database does not answer.
dropRequest(b) ==
    /\ request[b] # NotAsked
    /\ request' = [request EXCEPT ![b] = NotAsked]
    /\ UNCHANGED <<rows, redisSets, poll, refusal, told>>

-----------------------------------------------------------------------------
(* A driver looks for rides.                                               *)

\* What holds when a request begins: rides that are not to be had any more,
\* and rides this driver has turned down for as long as rejectedBy is kept.
listNearby(q, d) ==
    /\ poll[q] = NoPoll /\ d \in ready
    /\ poll' = [poll EXCEPT ![q] =
          [pc |-> "vehicles", driver |-> d, near |-> {}, found |-> {},
           closed |-> {b \in Bookings : booking[b].status \notin {"NONE", "REQUESTED"}},
           declined |-> {b \in Bookings : d \in rejectedBy[b].drivers}]]
    /\ UNCHANGED <<rows, redisSets, refusal, request, told>>

Answer(q) == poll' = [poll EXCEPT ![q] = NoPoll]

listActiveVerifiedByDriver(q) ==
    /\ poll[q].pc = "vehicles"
    /\ poll' = [poll EXCEPT ![q].pc = "search"] \/ Answer(q)
    /\ UNCHANGED <<rows, redisSets, refusal, request, told>>

\* [] when Redis fails.
findNearbyPendingRides(q) ==
    /\ poll[q].pc = "search"
    /\ \E near \in {{}, pendingSet} :
          IF near = {} THEN Answer(q)
                       ELSE poll' = [poll EXCEPT ![q].pc = "rows", ![q].near = near]
    /\ UNCHANGED <<rows, redisSets, refusal, request, told>>

candidatesAsListed(near) == near
candidates(near) == {b \in near : Open(b)}

findManyByIds(q) ==
    /\ poll[q].pc = "rows"
    /\ poll' = [poll EXCEPT ![q].pc = "rejected", ![q].near = candidates(@)]
    /\ UNCHANGED <<rows, redisSets, refusal, request, told>>

\* One after the other, in any order.  Not rejected when Redis fails: such an
\* answer is no longer measured against what was declined.
kept(d, b) == d \notin rejectedBy[b].drivers

isRejectedByDriver(q, b) ==
    LET p == poll[q] IN
    /\ p.pc = "rejected" /\ b \in p.near
    /\ \/ poll' = [poll EXCEPT ![q].near = @ \ {b},
             ![q].found = IF kept(p.driver, b) THEN @ \cup {b} ELSE @]
       \/ poll' = [poll EXCEPT ![q].near = @ \ {b}, ![q].found = @ \cup {b},
                               ![q].declined = @ \ {b}]
    /\ UNCHANGED <<rows, redisSets, refusal, request, told>>

answerNearby(q) ==
    /\ poll[q].pc = "rejected" /\ poll[q].near = {}
    /\ told' = told \cup UNION {sanitizeRideOffer(poll[q].driver, b) : b \in poll[q].found}
    /\ Answer(q)
    /\ UNCHANGED <<rows, redisSets, refusal, request>>

\* A driver turns a ride down, found here or offered, and whatever its status is.
rejectRide(q, d, b) ==
    /\ refusal[q] = NoRefusal /\ booking[b] # NoRow
    /\ refusal' = [refusal EXCEPT ![q] = [pc |-> "sadd", driver |-> d, booking |-> b]]
    /\ UNCHANGED <<rows, redisSets, poll, request, told>>

\* sadd and expire: two calls.  The expiry is that of all the drivers' together.
recordRejection(q) ==
    LET b == refusal[q].booking IN
    /\ refusal[q].pc = "sadd"
    /\ rejectedBy' = [rejectedBy EXCEPT ![b].drivers = @ \cup {refusal[q].driver}]
    /\ refusal' = [refusal EXCEPT ![q].pc = "expire"]
    /\ UNCHANGED <<rows, pendingSet, poll, request, told>>

expireRejections(q) ==
    LET b == refusal[q].booking IN
    /\ refusal[q].pc = "expire"
    /\ rejectedBy' = [rejectedBy EXCEPT ![b].lapses = (rejectedBy[b].drivers # {})]
    /\ refusal' = [refusal EXCEPT ![q] = NoRefusal]
    /\ UNCHANGED <<rows, pendingSet, poll, request, told>>

\* The instance dies, or Redis does not answer.
dropRefusal(q) ==
    /\ refusal[q] # NoRefusal
    /\ refusal' = [refusal EXCEPT ![q] = NoRefusal]
    /\ UNCHANGED <<rows, redisSets, poll, request, told>>

-----------------------------------------------------------------------------
(* What goes on meanwhile.                                                 *)

\* acceptRide, with the push of ride:accepted.
acceptRide(b, d) ==
    /\ Open(b) /\ d \in ready
    /\ booking' = [booking EXCEPT ![b] = [status |-> "ACCEPTED", driver |-> d]]
    /\ ready' = ready \ {d}
    /\ told' = told \cup sanitizeRide(RequesterOf[b], b, "PASSENGER")
                     \cup sanitizeRide(d, b, "DRIVER")
    /\ UNCHANGED <<redisSets, poll, refusal, request>>

Refit == request' = [b \in Bookings |-> [request[b] EXCEPT !.unfit = @ \ ready']]

\* Completed, cancelled or expired.
endRide(b) ==
    /\ booking[b].status \in {"REQUESTED", "ACCEPTED"}
    /\ booking' = [booking EXCEPT ![b].status = "OVER"]
    /\ ready' = ready \cup ({booking[b].driver} \ {Nobody})
    /\ UNCHANGED <<redisSets, poll, refusal, told>>
    /\ Refit

\* zrem, some time after a ride is taken or over: now, later or never.
removePendingRide(b) ==
    /\ b \in pendingSet /\ ~Open(b)
    /\ pendingSet' = pendingSet \ {b}
    /\ UNCHANGED <<rows, rejectedBy, poll, refusal, request, told>>

driverChanges(d) ==
    /\ ready' = IF d \in ready THEN ready \ {d} ELSE ready \cup {d}
    /\ Refit
    /\ UNCHANGED <<booking, redisSets, poll, refusal, told>>

\* The hour of REJECTION_TTL_SECONDS is over.
rejectionsLapse(b) ==
    /\ rejectedBy[b].lapses
    /\ rejectedBy' = [rejectedBy EXCEPT ![b] = NoRejection]
    /\ poll' = [q \in Polls |-> [poll[q] EXCEPT !.declined = @ \ {b}]]
    /\ UNCHANGED <<rows, pendingSet, refusal, request, told>>

getRide(p, b) ==
    /\ booking[b] # NoRow
    /\ told' = told \cup sanitizeRide(p, b, viewer(p, b))
    /\ UNCHANGED <<rows, redisSets, poll, refusal, request>>

listPassengerHistory(b) ==
    /\ booking[b] # NoRow
    /\ told' = told \cup sanitizeRide(RequesterOf[b], b, "PASSENGER")
    /\ UNCHANGED <<rows, redisSets, poll, refusal, request>>

listDriverHistory(d, b) ==
    /\ booking[b].driver = d
    /\ told' = told \cup sanitizeRide(d, b, "DRIVER")
    /\ UNCHANGED <<rows, redisSets, poll, refusal, request>>

\* getMyActiveRide, as a socket connects: first the rides of the passenger.
Active(b) == booking[b].status \in {"REQUESTED", "ACCEPTED"}

syncRide(p) ==
    LET asPassenger == {b \in Bookings : Active(b) /\ RequesterOf[b] = p}
        asDriver == {b \in Bookings : Active(b) /\ booking[b].driver = p}
    IN
    /\ \E b \in IF asPassenger # {} THEN asPassenger ELSE asDriver :
          told' = told \cup
              sanitizeRide(p, b, IF asPassenger # {} THEN "PASSENGER" ELSE "DRIVER")
    /\ UNCHANGED <<rows, redisSets, poll, refusal, request>>

OfferNext ==
    \/ \E b \in Bookings :
          \/ requestRide(b) \/ addPendingRide(b) \/ findNearbyOnlineDrivers(b)
          \/ (\E d \in Takers : findByIdForDispatch(b, d) \/ acceptRide(b, d))
          \/ emitOffers(b) \/ dropRequest(b) \/ endRide(b) \/ removePendingRide(b)
          \/ rejectionsLapse(b)
          \/ listPassengerHistory(b) \/ (\E d \in Takers : listDriverHistory(d, b))
          \/ \E p \in Takers \cup Requesters : getRide(p, b)
    \/ \E q \in Polls :
          \/ \E d \in Takers : listNearby(q, d)
          \/ listActiveVerifiedByDriver(q) \/ findNearbyPendingRides(q) \/ findManyByIds(q)
          \/ (\E b \in Bookings : isRejectedByDriver(q, b)) \/ answerNearby(q)
    \/ \E q \in Refusals :
          \/ \E d \in Takers, b \in Bookings : rejectRide(q, d, b)
          \/ recordRejection(q) \/ expireRejections(q) \/ dropRefusal(q)
    \/ \E d \in Takers : driverChanges(d)
    \/ \E p \in Takers \cup Requesters : syncRide(p)

OfferSpec == OfferInit /\ [][OfferNext]_offerVars

-----------------------------------------------------------------------------
(* Properties.                                                             *)

\* The types of the variables.
OfferTypeOK ==
    /\ booking \in [Bookings -> [status : {"NONE", "REQUESTED", "ACCEPTED", "OVER"},
                                 driver : Takers \cup {Nobody}]]
    /\ ready \subseteq Takers
    /\ pendingSet \subseteq Bookings
    /\ rejectedBy \in [Bookings -> [drivers : SUBSET Takers, lapses : BOOLEAN]]
    /\ poll \in [Polls -> [pc : {"done", "vehicles", "search", "rows", "rejected"},
                           driver : Takers \cup {Nobody}, near : SUBSET Bookings,
                           found : SUBSET Bookings, closed : SUBSET Bookings,
                           declined : SUBSET Bookings]]
    /\ refusal \in [Refusals -> [pc : {"done", "sadd", "expire"},
                                 driver : Takers \cup {Nobody},
                                 booking : Bookings \cup {Nobody}]]
    /\ request \in [Bookings -> [pc : {"done", "geoadd", "search", "look"},
                                 near : SUBSET Takers, eligible : SUBSET Takers,
                                 unfit : SUBSET Takers]]
    /\ told \subseteq (Takers \cup Requesters) \X Bookings

\* A driver who searches is not shown a ride that was taken or over before they
\* asked, whatever the geoset still holds (ride.service.js:221-224), nor one they
\* had turned down within the hour, unless Redis cannot tell
\* (geo.service.js:183-190); and no driver is pushed a new ride who could not
\* have taken it at any time since it was looked for (ride.service.js:156-162).
OffersAreDue ==
    /\ \A q \in Polls : poll[q].found \cap (poll[q].closed \cup poll[q].declined) = {}
    /\ \A b \in Bookings : request[b].eligible \cap request[b].unfit = {}

\* "The OTP exists so the driver has to hear it from the passenger in person"
\* (ride.service.js:40-42): in all that is pushed, answered and synchronised,
\* nobody is sent the code of a ride but its passenger: not the driver, who may
\* be one of several it was offered to, and not an admin who looks at the ride.
CodeStaysWithPassenger == \A m \in told : m[1] = RequesterOf[m[2]]
===============================================================================
