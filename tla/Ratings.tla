-------------------------------- MODULE Ratings --------------------------------
(***************************************************************************)
(* Ratings and the averages kept of them: src/src/services/                *)
(* rating.service.js over rating.repository.js and the averageRating       *)
(* columns of Driver and Passenger.                                        *)
(*                                                                         *)
(* submitRating inserts a rating, reads the average of all the ratings its *)
(* receiver has, in either role, and writes it to the column of the role   *)
(* that was rated: three steps, and the request may end between any two.   *)
(* An average is represented by the set of ratings it was taken over.      *)
(***************************************************************************)
EXTENDS FiniteSets

CONSTANTS
    Rides,         \* completed rides
    Riders,        \* users; each may be the passenger of one ride and drive another
    PassengerOf,   \* the users of a ride
    DriverOf,
    Raters,        \* submitRating requests that may be in flight at one time
    NoRating       \* null

Directions == {"PASSENGER_TO_DRIVER", "DRIVER_TO_PASSENGER"}

ASSUME PartiesAssumption ==
    /\ PassengerOf \in [Rides -> Riders] /\ DriverOf \in [Rides -> Riders]
    /\ \A r \in Rides : PassengerOf[r] # DriverOf[r]

VARIABLES
    rating,        \* the Rating table: a set of pairs of a ride and a direction
    average,       \* averageRating of a user by the direction that is averaged
    submit,        \* the requests in flight
    disturbed      \* users whose last recomputation met another one, or never came

ratingVars == <<rating, average, submit, disturbed>>

NoSubmit == [pc |-> "done", of |-> NoRating, counted |-> {}]

Receiver(g) == IF g[2] = "PASSENGER_TO_DRIVER" THEN DriverOf[g[1]] ELSE PassengerOf[g[1]]
Received(u) == {g \in rating : Receiver(g) = u}

RatingInit ==
    /\ rating = {}
    /\ average = [u \in Riders |-> [d \in Directions |-> {}]]
    /\ submit = [s \in Raters |-> NoSubmit]
    /\ disturbed = {}

\* Past the insert, and not yet at the end.
Recomputing(u) ==
    {s \in Raters : submit[s].pc \in {"average", "write"} /\ Receiver(submit[s].of) = u}

-----------------------------------------------------------------------------

\* The caller is the passenger or the driver, which decides the direction.
submitRating(s, r, direction) ==
    /\ submit[s] = NoSubmit
    /\ <<r, direction>> \notin rating
    /\ submit' = [submit EXCEPT ![s] = [pc |-> "insert", of |-> <<r, direction>>, counted |-> {}]]
    /\ UNCHANGED <<rating, average, disturbed>>

\* One rating per ride and direction: the second insert is a 409.
createRating(s) ==
    LET g == submit[s].of  u == Receiver(g) IN
    /\ submit[s].pc = "insert"
    /\ IF g \in rating
       THEN /\ submit' = [submit EXCEPT ![s] = NoSubmit]
            /\ UNCHANGED <<rating, disturbed>>
       ELSE /\ rating' = rating \cup {g}
            /\ submit' = [submit EXCEPT ![s].pc = "average"]
            /\ disturbed' = IF Recomputing(u) = {} THEN disturbed \ {u} ELSE disturbed \cup {u}
    /\ UNCHANGED average

countedBefore(s) == Received(Receiver(submit[s].of)) \ {submit[s].of}
counted(s) == Received(Receiver(submit[s].of))

averageForUser(s) ==
    /\ submit[s].pc = "average"
    /\ submit' = [submit EXCEPT ![s].pc = "write", ![s].counted = counted(s)]
    /\ UNCHANGED <<rating, average, disturbed>>

setAverageRating(s) ==
    LET g == submit[s].of IN
    /\ submit[s].pc = "write"
    /\ average' = [average EXCEPT ![Receiver(g)][g[2]] = submit[s].counted]
    /\ submit' = [submit EXCEPT ![s] = NoSubmit]
    /\ UNCHANGED <<rating, disturbed>>

\* The instance dies, or the database does not answer.
dropRating(s) ==
    /\ submit[s] # NoSubmit
    /\ disturbed' = IF submit[s].pc = "insert" THEN disturbed
                    ELSE disturbed \cup {Receiver(submit[s].of)}
    /\ submit' = [submit EXCEPT ![s] = NoSubmit]
    /\ UNCHANGED <<rating, average>>

RatingNext ==
    \E s \in Raters :
        \/ \E r \in Rides, d \in Directions : submitRating(s, r, d)
        \/ createRating(s) \/ averageForUser(s) \/ setAverageRating(s) \/ dropRating(s)

RatingSpec == RatingInit /\ [][RatingNext]_ratingVars

-----------------------------------------------------------------------------
(* Properties.                                                             *)

\* The types: an average is that of a set of ratings somebody has been given.
RatingTypeOK ==
    /\ rating \subseteq Rides \X Directions
    /\ average \in [Riders -> [Directions -> SUBSET (Rides \X Directions)]]
    /\ submit \in [Raters -> [pc : {"done", "insert", "average", "write"},
                              of : (Rides \X Directions) \cup {NoRating},
                              counted : SUBSET (Rides \X Directions)]]
    /\ disturbed \subseteq Riders

\* "Recomputes the ratee's cached averageRating from the Rating table ... rather
\* than incrementally adjusting a running average" (rating.service.js:8-14): an
\* average that was lost or overtaken is right again after the next rating that
\* is submitted on its own, and none is ever of a rating nobody gave.
AverageHeals ==
    \A u \in Riders :
        /\ \A d \in Directions : average[u][d] \subseteq Received(u)
        /\ u \notin disturbed /\ Recomputing(u) = {} /\ Received(u) # {}
              => \E d \in Directions : average[u][d] = Received(u)
===============================================================================
