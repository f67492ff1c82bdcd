-------------------------- MODULE DriverPresenceProofs --------------------------
(***************************************************************************)
(* Theorems about DriverPresence, for any drivers, places and requests.    *)
(*                                                                         *)
(* What a request writes is where its driver was when it began; and the    *)
(* geoset is written only after the row, by the same request, so whoever   *)
(* matching finds has a position on record.                                *)
(***************************************************************************)
EXTENDS DriverPresence, TLAPS

PingRow == [driver : Drivers, pc : PingSteps, place : Places]

\* Requests past updateLastKnownLocation.
Located == {"geoadd", "firstGeoadd", "firstHeartbeat"}

ListedAreRecorded == \A d \in Drivers : geo[d] # Nowhere => lastKnown[d] # Nowhere

LocatedAreRecorded ==
    \A r \in Pings : ping[r].pc \in Located => lastKnown[ping[r].driver] # Nowhere

\* The rows and what Redis keeps.
Kept ==
    /\ at \in [Drivers -> Places]
    /\ isOnline \in [Drivers -> BOOLEAN]
    /\ lastKnown \in [Drivers -> Places \cup {Nowhere}]
    /\ age \in [Drivers -> 0 .. Journey]
    /\ geo \in [Drivers -> Places \cup {Nowhere}]
    /\ heartbeat \in [Drivers -> 0 .. Ttl]

Sweeping ==
    /\ sweep \in [pc : {"idle", "check", "expire", "unlist"}, driver : Drivers \cup {Nowhere},
                  left : SUBSET Drivers]
    /\ sweep.pc \in {"expire", "unlist"} => sweep.driver \in Drivers

Inv ==
    /\ Kept /\ Sweeping /\ ping \in [Pings -> PingRow \cup {NoPing}]
    /\ ListedAreRecorded /\ LocatedAreRecorded

LEMMA InvTypes == Inv => TypeOK
  BY DEF Inv, TypeOK, Kept, Sweeping, PingRow

-----------------------------------------------------------------------------
(* The requests.                                                           *)

LEMMA PingTypes ==
  ASSUME TypeOK, NEW r \in Pings
  PROVE  /\ ping[r] \in PingRow \/ ping[r] = NoPing
         /\ ping[r].pc = "done" <=> ping[r] = NoPing
         /\ ping[r].pc # "done" => ping[r].driver \in Drivers /\ ping[r].place \in Places
<1>1. ping[r] \in PingRow \/ ping[r] = NoPing
  BY DEF TypeOK, PingRow
<1>2. QED
  BY <1>1 DEF PingRow, PingSteps, NoPing

LEMMA Begins ==
  ASSUME TypeOK, NEW r \in Pings, NEW d \in Drivers, NEW pc \in PingSteps, Begin(r, d, pc)
  PROVE  /\ ping' \in [Pings -> PingRow \cup {NoPing}]
         /\ ping'[r].pc = pc /\ ping'[r].driver = d
         /\ \A s \in Pings \ {r} : ping'[s] = ping[s]
  BY DEF TypeOK, Begin, PingRow

LEMMA Goes ==
  ASSUME TypeOK, NEW r \in Pings, ping[r].pc # "done", NEW pc \in PingSteps \cup {"done"},
         Then(r, pc)
  PROVE  /\ ping' \in [Pings -> PingRow \cup {NoPing}]
         /\ ping'[r].pc = pc /\ (pc # "done" => ping'[r].driver = ping[r].driver)
         /\ \A s \in Pings \ {r} : ping'[s] = ping[s]
<1>1. ping[r] \in PingRow
  BY PingTypes
<1>2. ping \in [Pings -> PingRow \cup {NoPing}]
  BY DEF TypeOK, PingRow
<1>3. CASE pc = "done"
  BY <1>2, <1>3 DEF Then, NoPing
<1>4. CASE pc # "done"
  <2>1. ping' = [ping EXCEPT ![r] = [@ EXCEPT !.pc = pc]] /\ pc \in PingSteps
    BY <1>4 DEF Then, PingSteps
  <2>2. [ping[r] EXCEPT !.pc = pc] \in PingRow
    BY <1>1, <2>1 DEF PingRow
  <2>3. [ping[r] EXCEPT !.pc = pc].pc = pc /\ [ping[r] EXCEPT !.pc = pc].driver = ping[r].driver
    BY <1>1 DEF PingRow
  <2>4. QED
    BY <1>2, <2>1, <2>2, <2>3
<1>5. QED
  BY <1>3, <1>4

LEMMA Starts == Init => Inv
<1> SUFFICES ASSUME Init PROVE Inv
  OBVIOUS
<1>1. Kept
  BY TicksAssumption DEF Init, Kept
<1>2. Sweeping
  BY DEF Init, NoSweep, Sweeping
<1>3. QED
  BY <1>1, <1>2 DEF Inv, ListedAreRecorded, LocatedAreRecorded, Init, NoPing, Located

LEMMA PingStep ==
  ASSUME Inv, NEW r \in Pings, Step(r) \/ redisFails(r) \/ abandon(r)
  PROVE  Inv'
<1> USE DEF PingSteps
<1> DEFINE p == ping[r]  d == ping[r].driver
<1>0. TypeOK /\ Kept /\ Sweeping /\ ListedAreRecorded /\ LocatedAreRecorded
  BY InvTypes DEF Inv
<1>a. p.pc # "done" => d \in Drivers /\ p.place \in Places /\ p.place # Nowhere
  BY <1>0, PingTypes, NowhereAssumption
<1>1. CASE setOnlineStatus(r)
  <2>1. PICK pc \in {"firstLocation", "unlist"} : Then(r, pc)
    BY <1>1 DEF setOnlineStatus
  <2>2. p.pc # "done"
    BY <1>1 DEF setOnlineStatus
  <2>3. /\ ping' \in [Pings -> PingRow \cup {NoPing}] /\ ping'[r].pc = pc
        /\ \A s \in Pings \ {r} : ping'[s] = ping[s]
    BY <1>0, <2>1, <2>2, Goes
  <2>4. Kept' /\ Sweeping' /\ lastKnown' = lastKnown /\ geo' = geo
    BY <1>0, <1>1, <1>a, <2>2 DEF setOnlineStatus, Kept, Sweeping, cache
  <2>5. QED
    BY <1>0, <2>1, <2>3, <2>4 DEF Inv, ListedAreRecorded, LocatedAreRecorded, Located
<1>2. CASE updateLastKnownLocation(r)
  <2>1. PICK pc \in {"geoadd", "firstGeoadd"} : Then(r, pc)
    BY <1>2 DEF updateLastKnownLocation
  <2>2. p.pc # "done"
    BY <1>2 DEF updateLastKnownLocation
  <2>3. /\ ping' \in [Pings -> PingRow \cup {NoPing}] /\ ping'[r].driver = d
        /\ \A s \in Pings \ {r} : ping'[s] = ping[s]
    BY <1>0, <2>1, <2>2, Goes
  <2>4. /\ lastKnown' = [lastKnown EXCEPT ![d] = p.place] /\ geo' = geo
        /\ Kept' /\ Sweeping'
    BY <1>0, <1>2, <1>a, <2>2, TicksAssumption
       DEF updateLastKnownLocation, Kept, Sweeping, cache
  <2>5. \A e \in Drivers : lastKnown[e] # Nowhere \/ e = d => lastKnown'[e] # Nowhere
    BY <1>0, <1>a, <2>2, <2>4 DEF Kept
  <2>6. ListedAreRecorded'
    BY <1>0, <2>4, <2>5 DEF ListedAreRecorded
  <2>7. ASSUME NEW s \in Pings, ping'[s].pc \in Located
        PROVE  lastKnown'[ping'[s].driver] # Nowhere
    <3>1. CASE s = r
      BY <1>a, <2>2, <2>3, <2>5, <3>1
    <3>2. CASE s # r
      <4>1. ping'[s] = ping[s] /\ ping[s].pc # "done"
        BY <2>3, <2>7, <3>2 DEF Located
      <4>2. ping[s].driver \in Drivers
        BY <1>0, <4>1, PingTypes
      <4>3. QED
        BY <1>0, <2>5, <2>7, <4>1, <4>2 DEF LocatedAreRecorded
    <3>3. QED
      BY <3>1, <3>2
  <2>8. QED
    BY <2>3, <2>4, <2>6, <2>7 DEF Inv, ListedAreRecorded, LocatedAreRecorded
<1>3. CASE refreshHeartbeat(r)
  <2>1. /\ Then(r, afterHeartbeat(p.pc)) /\ p.pc # "done"
        /\ afterHeartbeat(p.pc) \in {"location", "done"}
    BY <1>3 DEF refreshHeartbeat, afterHeartbeat
  <2>2. /\ ping' \in [Pings -> PingRow \cup {NoPing}] /\ ping'[r].pc \notin Located
        /\ \A s \in Pings \ {r} : ping'[s] = ping[s]
    BY <1>0, <2>1, Goes DEF Located
  <2>3. Kept' /\ Sweeping' /\ lastKnown' = lastKnown /\ geo' = geo
    BY <1>0, <1>3, <1>a, <2>1, TicksAssumption
       DEF refreshHeartbeat, heartbeatTtl, dropped, row, Kept, Sweeping
  <2>4. QED
    BY <1>0, <2>2, <2>3 DEF Inv, ListedAreRecorded, LocatedAreRecorded
<1>4. CASE setDriverLocation(r)
  <2>1. /\ Then(r, afterGeoadd(p.pc)) /\ p.pc # "done" /\ p.pc \in Located
        /\ afterGeoadd(p.pc) \in {"firstHeartbeat", "done"}
    BY <1>4 DEF setDriverLocation, afterGeoadd, Located
  <2>2. /\ ping' \in [Pings -> PingRow \cup {NoPing}]
        /\ ping'[r].pc # "done" => ping'[r].driver = d
        /\ \A s \in Pings \ {r} : ping'[s] = ping[s]
    BY <1>0, <2>1, Goes
  <2>3. /\ Kept' /\ Sweeping' /\ lastKnown' = lastKnown
        /\ geo' = [geo EXCEPT ![d] = p.place]
    BY <1>0, <1>4, <1>a, <2>1 DEF setDriverLocation, row, Kept, Sweeping
  <2>4. lastKnown[d] # Nowhere
    BY <1>0, <2>1 DEF LocatedAreRecorded
  <2>5. ListedAreRecorded'
    BY <1>0, <2>3, <2>4 DEF ListedAreRecorded, Kept
  <2>6. QED
    BY <1>0, <2>1, <2>2, <2>3, <2>5 DEF Inv, ListedAreRecorded, LocatedAreRecorded, Located
<1>5. CASE removeDriverLocation(r)
  <2>1. Then(r, "clear") /\ p.pc # "done"
    BY <1>5 DEF removeDriverLocation
  <2>2. /\ ping' \in [Pings -> PingRow \cup {NoPing}] /\ ping'[r].pc \notin Located
        /\ \A s \in Pings \ {r} : ping'[s] = ping[s]
    BY <1>0, <2>1, Goes DEF Located
  <2>3. /\ Kept' /\ Sweeping' /\ lastKnown' = lastKnown
        /\ geo' = [geo EXCEPT ![d] = Nowhere]
    BY <1>0, <1>5, <1>a, <2>1 DEF removeDriverLocation, row, Kept, Sweeping
  <2>4. ListedAreRecorded'
    BY <1>0, <2>3 DEF ListedAreRecorded, Kept
  <2>5. QED
    BY <1>0, <2>2, <2>3, <2>4 DEF Inv, ListedAreRecorded, LocatedAreRecorded
<1>6. CASE clearHeartbeat(r)
  <2>1. Then(r, "done") /\ p.pc # "done"
    BY <1>6 DEF clearHeartbeat
  <2>2. /\ ping' \in [Pings -> PingRow \cup {NoPing}] /\ ping'[r].pc \notin Located
        /\ \A s \in Pings \ {r} : ping'[s] = ping[s]
    BY <1>0, <2>1, Goes DEF Located
  <2>3. Kept' /\ Sweeping' /\ lastKnown' = lastKnown /\ geo' = geo
    BY <1>0, <1>6, <1>a, <2>1, TicksAssumption DEF clearHeartbeat, row, Kept, Sweeping
  <2>4. QED
    BY <1>0, <2>2, <2>3 DEF Inv, ListedAreRecorded, LocatedAreRecorded
<1>7. CASE redisFails(r) \/ abandon(r)
  <2>1. PICK pc \in {"location", "firstHeartbeat", "clear", "done"} :
           Then(r, pc) /\ (pc = "firstHeartbeat" => p.pc \in Located)
    BY <1>7 DEF redisFails, abandon, afterHeartbeat, afterGeoadd, Located
  <2>2. p.pc # "done"
    BY <1>0, <1>7, PingTypes DEF redisFails, abandon
  <2>3. /\ ping' \in [Pings -> PingRow \cup {NoPing}] /\ ping'[r].pc = pc
        /\ pc # "done" => ping'[r].driver = d
        /\ \A s \in Pings \ {r} : ping'[s] = ping[s]
    BY <1>0, <2>1, <2>2, Goes
  <2>4. Kept' /\ Sweeping' /\ lastKnown' = lastKnown /\ geo' = geo
    BY <1>0, <1>7 DEF redisFails, abandon, row, cache, Kept, Sweeping
  <2>5. QED
    BY <1>0, <2>1, <2>3, <2>4 DEF Inv, ListedAreRecorded, LocatedAreRecorded, Located
<1>8. QED
  BY <1>1, <1>2, <1>3, <1>4, <1>5, <1>6, <1>7 DEF Step

LEMMA SweepStep ==
  ASSUME Inv, listOnlineIds \/ (\E d \in Drivers : Sweep(d)) \/ sweepEnds
  PROVE  Inv'
<1>0. Kept /\ Sweeping /\ ping \in [Pings -> PingRow \cup {NoPing}]
      /\ ListedAreRecorded /\ LocatedAreRecorded
  BY DEF Inv
<1>1. CASE listOnlineIds \/ sweepEnds
  <2>1. Sweeping'
    BY <1>1 DEF listOnlineIds, sweepEnds, NoSweep, Sweeping
  <2>2. UNCHANGED <<at, row, cache, ping>>
    BY <1>1 DEF listOnlineIds, sweepEnds
  <2>3. QED
    BY <1>0, <2>1, <2>2 DEF Inv, ListedAreRecorded, LocatedAreRecorded, row, cache, Kept
<1>2. ASSUME NEW d \in Drivers, spare(d) \/ missHeartbeat(d) PROVE Inv'
  <2>1. Sweeping'
    BY <1>0, <1>2 DEF spare, missHeartbeat, Sweeping
  <2>2. UNCHANGED <<at, row, cache, ping>>
    BY <1>2 DEF spare, missHeartbeat
  <2>3. QED
    BY <1>0, <2>1, <2>2 DEF Inv, ListedAreRecorded, LocatedAreRecorded, row, cache, Kept
<1>3. ASSUME NEW d \in Drivers, forceOffline(d) PROVE Inv'
  <2>1. Sweeping' /\ Kept'
    BY <1>0, <1>3 DEF forceOffline, Sweeping, Kept, cache
  <2>2. UNCHANGED <<lastKnown, geo, ping>>
    BY <1>3 DEF forceOffline, cache
  <2>3. QED
    BY <2>1, <2>2 DEF Inv, ListedAreRecorded, LocatedAreRecorded
<1>4. ASSUME NEW d \in Drivers, unlist(d) PROVE Inv'
  <2>1. Sweeping' /\ Kept'
    BY <1>0, <1>4 DEF unlist, Sweeping, Kept, row
  <2>2. UNCHANGED <<lastKnown, ping>> /\ \A e \in Drivers : geo'[e] # Nowhere => geo'[e] = geo[e]
    BY <1>0, <1>4 DEF unlist, row, Kept
  <2>3. QED
    BY <2>1, <2>2 DEF Inv, ListedAreRecorded, LocatedAreRecorded
<1>5. QED
  BY <1>1, <1>2, <1>3, <1>4 DEF Sweep

LEMMA Steps == Inv /\ [Next]_vars => Inv'
<1> SUFFICES ASSUME Inv, [Next]_vars PROVE Inv'
  OBVIOUS
<1>0. TypeOK /\ Kept /\ Sweeping /\ ping \in [Pings -> PingRow \cup {NoPing}]
      /\ ListedAreRecorded /\ LocatedAreRecorded
  BY InvTypes DEF Inv
<1>1. ASSUME NEW r \in Pings, NEW d \in Drivers,
             goOnline(r, d) \/ goOffline(r, d) \/ updateLocation(r, d)
      PROVE  Inv'
  <2>1. PICK pc \in PingSteps \ Located : Begin(r, d, pc)
    BY <1>1 DEF goOnline, goOffline, updateLocation, PingSteps, Located
  <2>2. /\ ping' \in [Pings -> PingRow \cup {NoPing}] /\ ping'[r].pc \notin Located
        /\ \A s \in Pings \ {r} : ping'[s] = ping[s]
    BY <1>0, <2>1, Begins
  <2>3. UNCHANGED <<at, row, cache, sweep>>
    BY <1>1 DEF goOnline, goOffline, updateLocation
  <2>4. Kept' /\ Sweeping' /\ lastKnown' = lastKnown /\ geo' = geo
    BY <1>0, <2>3 DEF row, cache, Kept, Sweeping
  <2>5. QED
    BY <2>2, <2>4 DEF Inv, ListedAreRecorded, LocatedAreRecorded
<1>2. CASE Tick
  <2>1. Kept' /\ Sweeping'
    BY <1>0, <1>2, TicksAssumption DEF Tick, lapse, Kept, Sweeping
  <2>2. UNCHANGED <<lastKnown, geo, ping>>
    BY <1>2 DEF Tick
  <2>3. QED
    BY <2>1, <2>2 DEF Inv, ListedAreRecorded, LocatedAreRecorded
<1>3. ASSUME NEW d \in Drivers, Move(d) PROVE Inv'
  <2>1. Kept' /\ Sweeping'
    BY <1>0, <1>3 DEF Move, row, cache, Kept, Sweeping
  <2>2. UNCHANGED <<lastKnown, geo, ping>>
    BY <1>3 DEF Move, row, cache
  <2>3. QED
    BY <2>1, <2>2 DEF Inv, ListedAreRecorded, LocatedAreRecorded
<1>4. CASE UNCHANGED vars
  BY <1>0, <1>4 DEF Inv, ListedAreRecorded, LocatedAreRecorded, vars, row, cache, Kept, Sweeping
<1>5. QED
  BY <1>1, <1>2, <1>3, <1>4, PingStep, SweepStep DEF Next, Pings

\* What the requests, the sweep and the two stores rely on.
THEOREM Invariance == Spec => []Inv
  BY Starts, Steps, PTL DEF Spec

\* A position is where some app has been, a heartbeat never outlives its expiry,
\* and the sweep is at one driver (driver.service.js, geo.service.js).
THEOREM TypeCorrectness == Spec => []TypeOK
  BY InvTypes, Invariance, PTL

\* Whoever matching can find in the geoset has a position in the database too,
\* whatever was lost, overtaken or swept: goOnline and updateLocation write the
\* row first (driver.service.js:43, 131), and nothing takes a position back.
THEOREM WhoeverIsFoundIsOnRecord == Spec => []ListedAreRecorded
<1>1. Inv => ListedAreRecorded
  BY DEF Inv
<1>2. QED
  BY <1>1, Invariance, PTL
===============================================================================
