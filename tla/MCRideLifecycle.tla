---------------------------- MODULE MCRideLifecycle ----------------------------
(***************************************************************************)
(* RideLifecycle for TLC: symmetry, bounds and what is checked only here.  *)
(***************************************************************************)
EXTENDS RideLifecycle, TLC

Symmetry == Permutations(Calls) \cup Permutations(Rides)
              \cup Permutations(Drivers) \cup Permutations(Passengers)

\* No action reads the log, so that two states that differ only there have
\* the same future: the view of a run whose properties do not mention it.
Unlogged == <<ride, dbVars, pending, call, sweep>>

Quiet == sweep.pc = "idle" /\ \A c \in Calls : call[c] = Idle

\* A driver who is online and not available has a ride that will free them.
UnavailableHasRide ==
    \A d \in Drivers : isOnline[d] /\ ~isAvailable[d] => findActiveByDriver(d) # {}

\* Bound: nothing is in flight for as long as five minutes.
HandlersAreQuick == (\E r \in Rides : ride'[r].age > ride[r].age) => Quiet

-----------------------------------------------------------------------------
(* What a comment of the code promises, and overlapping handlers break.    *)

\* "a ride that legitimately transitions between the query and the write [...]
\* is simply skipped" (ride.service.js:414): a ride the sweep passes over is
\* left alone, and so is its driver.
SkippedIsUntouched ==
    [][\A r \in Rides : sweep.seen[r] # "NONE" /\ sweep'.seen[r] = "NONE" /\ ride' = ride
          => isAvailable' = isAvailable]_vars

=============================================================================
