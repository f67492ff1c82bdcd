------------------------------- MODULE StartCode -------------------------------
(***************************************************************************)
(* The code that starts a ride: startRide (src/src/services/               *)
(* ride.service.js) with the counter of attempts it keeps in Redis.        *)
(*                                                                         *)
(* Each attempt counts itself, gives the counter its expiry if it is the   *)
(* first, and compares: three steps, of several requests at once, and the  *)
(* instance may die between two.  What the ride goes through besides is in *)
(* RideLifecycle.  A tick divides the validity of a code and the window of *)
(* the counter.                                                            *)
(***************************************************************************)
EXTENDS Naturals

CONSTANTS
    Attempters,     \* startRide requests that may be in flight at one time
    MaxAttempts,    \* MAX_OTP_ATTEMPTS
    Window,         \* OTP_ATTEMPT_WINDOW_SECONDS, in ticks
    Validity,       \* OTP_VALIDITY_MINUTES_AFTER_ARRIVAL, in ticks
    MaxStarts       \* bound: attempts that are made

ASSUME WindowAssumption ==
    /\ MaxAttempts \in Nat \ {0} /\ Window \in Nat \ {0} /\ Validity \in Nat /\ MaxStarts \in Nat
    /\ Validity < Window

VARIABLES
    stage,          \* Ride.status
    sinceArrival,   \* ticks since arrivedAt, up to the first that is too late
    counter,        \* Redis ride:<id>:otpAttempts: its value, and ticks left or Forever
    attempt,        \* the requests in flight
    started,        \* attempts made so far
    guesses,        \* wrong codes that were compared
    named           \* whether the right one was

codeVars == <<stage, sinceArrival, counter, attempt, started, guesses, named>>

Forever == Window + 1
NoCounter == [value |-> 0, left |-> Forever]

CodeInit ==
    /\ stage = "ARRIVED"
    /\ sinceArrival = 0
    /\ counter = NoCounter
    /\ attempt = [a \in Attempters |-> "done"]
    /\ started = 0
    /\ guesses = 0
    /\ named = FALSE

-----------------------------------------------------------------------------

\* The checks of the status and of the age of the code.
startRide(a) ==
    /\ attempt[a] = "done" /\ started < MaxStarts
    /\ stage = "ARRIVED" /\ sinceArrival <= Validity
    /\ attempt' = [attempt EXCEPT ![a] = "incr"]
    /\ started' = started + 1
    /\ UNCHANGED <<stage, sinceArrival, counter, guesses, named>>

admitOneMore(n) == n <= MaxAttempts + 1
admit(n) == n <= MaxAttempts

incr(a) ==
    LET n == counter.value + 1 IN
    /\ attempt[a] = "incr"
    /\ counter' = [counter EXCEPT !.value = n]
    /\ attempt' = [attempt EXCEPT ![a] =
          IF n = 1 THEN "expire" ELSE IF admit(n) THEN "compare" ELSE "done"]
    /\ UNCHANGED <<stage, sinceArrival, started, guesses, named>>

expire(a) ==
    /\ attempt[a] = "expire"
    /\ counter' = IF counter.value = 0 THEN counter ELSE [counter EXCEPT !.left = Window]
    /\ attempt' = [attempt EXCEPT ![a] = "compare"]
    /\ UNCHANGED <<stage, sinceArrival, started, guesses, named>>

wrongCode(a) ==
    /\ attempt[a] = "compare"
    /\ guesses' = guesses + 1
    /\ attempt' = [attempt EXCEPT ![a] = "done"]
    /\ UNCHANGED <<stage, sinceArrival, counter, started, named>>

\* redis.del, and the update of the ride behind it.
rightCode(a) ==
    /\ attempt[a] = "compare"
    /\ counter' = NoCounter
    /\ attempt' = [attempt EXCEPT ![a] = "update"]
    /\ named' = TRUE
    /\ UNCHANGED <<stage, sinceArrival, started, guesses>>

updateStatus(a) ==
    /\ attempt[a] = "update"
    /\ stage' = "IN_PROGRESS"
    /\ attempt' = [attempt EXCEPT ![a] = "done"]
    /\ UNCHANGED <<sinceArrival, counter, started, guesses, named>>

\* The instance dies, or Redis or the database does not answer.
abandonAttempt(a) ==
    /\ attempt[a] # "done"
    /\ attempt' = [attempt EXCEPT ![a] = "done"]
    /\ UNCHANGED <<stage, sinceArrival, counter, started, guesses, named>>

minutesPass ==
    /\ sinceArrival' = IF sinceArrival <= Validity THEN sinceArrival + 1 ELSE sinceArrival
    /\ counter' = CASE counter.left = Forever -> counter
                    [] counter.left = 1 -> NoCounter
                    [] OTHER -> [counter EXCEPT !.left = @ - 1]
    /\ UNCHANGED <<stage, attempt, started, guesses, named>>

CodeNext ==
    \/ \E a \in Attempters :
          \/ startRide(a) \/ incr(a) \/ expire(a) \/ wrongCode(a) \/ rightCode(a)
          \/ updateStatus(a) \/ abandonAttempt(a)
    \/ minutesPass

CodeSpec == CodeInit /\ [][CodeNext]_codeVars

-----------------------------------------------------------------------------
(* Properties.                                                             *)

\* The types: no counter counts more than the attempts made.
CodeTypeOK ==
    /\ stage \in {"ARRIVED", "IN_PROGRESS"}
    /\ sinceArrival \in 0 .. Validity + 1
    /\ counter \in [value : 0 .. MaxStarts, left : 1 .. Forever]
    /\ attempt \in [Attempters -> {"done", "incr", "expire", "compare", "update"}]
    /\ started \in 0 .. MaxStarts /\ guesses \in 0 .. MaxStarts /\ named \in BOOLEAN

\* "The counter, not the code's entropy, is what makes this safe."
\* (ride.service.js:297): until somebody names the right code, no more than
\* MAX_OTP_ATTEMPTS wrong ones are compared in the life of a code, over all
\* requests, their interleavings and their crashes.
GuessesBounded == sinceArrival <= Validity /\ ~named => guesses <= MaxAttempts
===============================================================================
