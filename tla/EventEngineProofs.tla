------------------------- MODULE EventEngineProofs -------------------------
(***************************************************************************)
(* Type correctness of EventEngine, its inductive invariant, and what      *)
(* follows from it of acknowledgement, stale signals, crossings and the    *)
(* baselines of the delta rules.                                           *)
(***************************************************************************)
EXTENDS EventEngine, TLAPS, FiniteSetTheorems, FunctionTheorems, SequenceTheorems

(* A handler between two calls has a decoded update in its hands. *)
LEMMA StateTyped ==
  ASSUME TypeOK, hpc \notin {"idle", "ack"}
  PROVE  cur \in 1 .. sent /\ state \in FlightState
<1>. cur \in Updates
  BY DEF TypeOK
<1>. QED
  BY DEF TypeOK, Updates, state

(* What is taken off a sequence and what stays keep their type. *)
LEMMA HeadAndTail ==
  ASSUME NEW S, NEW s \in Seq(S), s # <<>>
  PROVE  Head(s) \in S /\ Tail(s) \in Seq(S)
  OBVIOUS

(* A function on 1 .. n is a sequence: what the geofence detector emits, one      *)
(* crossing for each zone crossed.                                                *)
LEMMA ListTyped ==
  ASSUME NEW S, NEW n \in Nat, NEW f \in [1 .. n -> S]
  PROVE  f \in Seq(S)
  OBVIOUS

(* The delta rules detect at most one event. *)
LEMMA DeltaTyped ==
  ASSUME state \in FlightState, NEW type \in {"altitude_delta", "speed_delta"},
         NEW previous, NEW current
  PROVE  DeltaEvents(type, previous, current) \in Seq(DetectedEvent)
<1>1. \A about \in {"notable", "warning"} : Event(type, about) \in DetectedEvent
  BY DEF Event, DetectedEvent, FlightState
<1>. QED
  BY <1>1 DEF DeltaEvents

(* An event on its way out changes what is told of one aircraft and zone. *)
LEMMA TellTyped ==
  ASSUME TypeOK, NEW e \in DetectedEvent, NEW v \in BOOLEAN \cup {None}, Tell(e, v)
  PROVE  told' \in [Aircraft -> Containment]
<1>. told \in [Aircraft -> Containment]
  BY DEF TypeOK
<1>1. CASE e.type \notin Crossings
  BY <1>1 DEF Tell
<1>2. CASE e.type \in Crossings
  <2>. DEFINE row == [told[e.aircraft] EXCEPT ![e.about] = v]
  <2>1. e.aircraft \in Aircraft
    BY DEF DetectedEvent
  <2>2. row \in Containment
    BY <2>1 DEF Containment
  <2>3. told' = [told EXCEPT ![e.aircraft] = row]
    BY <1>2 DEF Tell
  <2>. HIDE DEF row
  <2>. QED
    BY <2>1, <2>2, <2>3
<1>. QED
  BY <1>1, <1>2

(* Every step keeps the type invariant. *)
LEMMA TypeStep == TypeOK /\ [Next]_vars => TypeOK'
<1>. SUFFICES ASSUME TypeOK, [Next]_vars PROVE TypeOK'
  OBVIOUS
<1>. USE EventConstants DEF TypeOK, Instants, Containment, Updates
<1>1. CASE Tick
  BY <1>1, SMTT(60) DEF Tick,
         handlerVars, staleVars, speedVars, fenceVars, watchVars, detectors, sweepVars,
         refreshVars, storeVars, busVars, historyVars
<1>2. CASE createZone
  BY <1>2 DEF createZone, Edit, EditOnly,
         handlerVars, staleVars, speedVars, fenceVars, watchVars, detectors, sweepVars,
         refreshVars, storeVars, busVars, historyVars
<1>3. CASE deleteZone
  BY <1>3 DEF deleteZone, Edit, EditOnly,
         handlerVars, staleVars, speedVars, fenceVars, watchVars, detectors, sweepVars,
         refreshVars, storeVars, busVars, historyVars
<1>4. CASE createWatchlistEntry
  BY <1>4 DEF createWatchlistEntry, Edit, EditOnly,
         handlerVars, staleVars, speedVars, fenceVars, watchVars, detectors, sweepVars,
         refreshVars, storeVars, busVars, historyVars
<1>5. CASE deleteWatchlistEntry
  BY <1>5 DEF deleteWatchlistEntry, Edit, EditOnly,
         handlerVars, staleVars, speedVars, fenceVars, watchVars, detectors, sweepVars,
         refreshVars, storeVars, busVars, historyVars
<1>6. CASE Deliver
  BY <1>6 DEF Deliver,
         handlerVars, staleVars, speedVars, fenceVars, watchVars, detectors, sweepVars,
         refreshVars, storeVars, busVars, historyVars
<1>7. CASE Take
  BY <1>7, SMTT(60) DEF Take, TakeNext, FirstCall,
         handlerVars, staleVars, speedVars, fenceVars, watchVars, detectors, sweepVars,
         refreshVars, storeVars, busVars, historyVars
<1>8. CASE Sweep
  BY <1>8 DEF Sweep, Forget, SilentFor,
         handlerVars, staleVars, speedVars, fenceVars, watchVars, detectors, sweepVars,
         refreshVars, storeVars, busVars, historyVars
<1>9. CASE PublishStale
  BY <1>9 DEF PublishStale,
         handlerVars, staleVars, speedVars, fenceVars, watchVars, detectors, sweepVars,
         refreshVars, storeVars, busVars, historyVars
<1>10. CASE EvictSpeed
  BY <1>10 DEF EvictSpeed, Evicted, Without,
         handlerVars, staleVars, speedVars, fenceVars, watchVars, detectors, sweepVars,
         refreshVars, storeVars, busVars, historyVars
<1>11. CASE EvictGeofence
  BY <1>11 DEF EvictGeofence, Evicted, Without,
         handlerVars, staleVars, speedVars, fenceVars, watchVars, detectors, sweepVars,
         refreshVars, storeVars, busVars, historyVars
<1>12. CASE EvictWatchlist
  BY <1>12 DEF EvictWatchlist, Evicted, Without,
         handlerVars, staleVars, speedVars, fenceVars, watchVars, detectors, sweepVars,
         refreshVars, storeVars, busVars, historyVars
<1>13. CASE ReadZones
  BY <1>13 DEF ReadZones, Fault,
         handlerVars, staleVars, speedVars, fenceVars, watchVars, detectors, sweepVars,
         refreshVars, storeVars, busVars, historyVars
<1>14. CASE SetZones
  BY <1>14 DEF SetZones, Merged,
         handlerVars, staleVars, speedVars, fenceVars, watchVars, detectors, sweepVars,
         refreshVars, storeVars, busVars, historyVars
<1>15. CASE ReadEntries
  BY <1>15 DEF ReadEntries, Fault,
         handlerVars, staleVars, speedVars, fenceVars, watchVars, detectors, sweepVars,
         refreshVars, storeVars, busVars, historyVars
<1>16. CASE SetEntries
  BY <1>16 DEF SetEntries, Merged, ByAircraft,
         handlerVars, staleVars, speedVars, fenceVars, watchVars, detectors, sweepVars,
         refreshVars, storeVars, busVars, historyVars
<1>17. CASE Restart
  BY <1>17 DEF Restart, Fresh, Fault, ByAircraft,
         handlerVars, staleVars, speedVars, fenceVars, watchVars, detectors, sweepVars,
         refreshVars, storeVars, busVars, historyVars
<1>18. CASE ObserveStale
  <2>1. cur \in 1 .. sent /\ state \in FlightState
    BY <1>18, StateTyped DEF ObserveStale, At
  <2>. QED
    BY <1>18, <2>1 DEF ObserveStale, See, At, FlightState,
         handlerVars, staleVars, speedVars, fenceVars, watchVars, detectors, sweepVars,
         refreshVars, storeVars, busVars, historyVars
<1>19. CASE ObserveAltitude
  <2>1. cur \in 1 .. sent /\ state \in FlightState
    BY <1>19, StateTyped DEF ObserveAltitude, At
  <2>2. out' \in Seq(DetectedEvent)
    BY <1>19, <2>1, DeltaTyped DEF ObserveAltitude
  <2>3. lastAltitude' \in [Aircraft -> Int \cup {None}]
    BY <1>19, <2>1 DEF ObserveAltitude, Baseline, FlightState
  <2>. QED
    BY <1>19, <2>2, <2>3 DEF ObserveAltitude, At,
         handlerVars, staleVars, speedVars, fenceVars, watchVars, detectors, sweepVars,
         refreshVars, storeVars, busVars, historyVars
<1>20. CASE ObserveSpeed
  <2>1. cur \in 1 .. sent /\ state \in FlightState
    BY <1>20, StateTyped DEF ObserveSpeed, At
  <2>2. out' \in Seq(DetectedEvent)
    <3>1. CASE state.speed = Missing
      BY <1>20, <3>1 DEF ObserveSpeed
    <3>2. CASE state.speed # Missing
      <4>1. out' = DeltaEvents("speed_delta", lastSpeed[state.aircraft], state.speed)
        BY <1>20, <3>2 DEF ObserveSpeed
      <4>. QED
        BY <2>1, <4>1, DeltaTyped
    <3>. QED
      BY <3>1, <3>2
  <2>3. /\ lastSpeed' \in [Aircraft -> Int \cup {None}] /\ speedAt' \in [Aircraft -> Instants]
        /\ \A a \in Aircraft : lastSpeed'[a] = None <=> speedAt'[a] = None
    <3>1. CASE state.speed = Missing
      BY <1>20, <3>1 DEF ObserveSpeed, Baseline
    <3>2. CASE state.speed # Missing
      <4>1. /\ state.speed \in Int /\ state.seen \in Nat
            /\ lastSpeed' = [lastSpeed EXCEPT ![state.aircraft] = state.speed]
            /\ speedAt' = [speedAt EXCEPT ![state.aircraft] = state.seen]
        BY <1>20, <2>1, <3>2 DEF ObserveSpeed, Baseline, FlightState
      <4>2. /\ lastSpeed \in [Aircraft -> Int \cup {None}]
            /\ speedAt \in [Aircraft -> Nat \cup {None}]
            /\ \A a \in Aircraft : lastSpeed[a] = None <=> speedAt[a] = None
        OBVIOUS
      <4>3. lastSpeed' \in [Aircraft -> Int \cup {None}] /\ speedAt' \in [Aircraft -> Instants]
        BY <4>1, <4>2
      <4>4. ASSUME NEW a \in Aircraft PROVE lastSpeed'[a] = None <=> speedAt'[a] = None
        <5>1. CASE a = state.aircraft
          <6>1. lastSpeed'[a] = state.speed /\ speedAt'[a] = state.seen
            BY <4>1, <4>2, <5>1
          <6>. QED
            BY <4>1, <6>1
        <5>2. CASE a # state.aircraft
          BY <4>1, <4>2, <5>2
        <5>. QED
          BY <5>1, <5>2
      <4>. QED
        BY <4>3, <4>4
    <3>. QED
      BY <3>1, <3>2
  <2>. QED
    BY <1>20, <2>2, <2>3 DEF ObserveSpeed, At,
         handlerVars, staleVars, speedVars, fenceVars, watchVars, detectors, sweepVars,
         refreshVars, storeVars, busVars, historyVars
<1>21. CASE ObserveGeofence
  <2>1. cur \in 1 .. sent /\ state \in FlightState
    BY <1>21, StateTyped DEF ObserveGeofence, At
  <2>2. out' \in Seq(DetectedEvent)
    <3>. DEFINE crossed == {z \in zones : Crosses(state.aircraft, z)}
    <3>1. Cardinality(crossed) \in Nat
      BY FS_Subset, FS_CardinalityType
    <3>2. PICK order \in Bijection(1 .. Cardinality(crossed), crossed) :
            out' = [i \in 1 .. Cardinality(crossed) |-> Crossing(order[i])]
      BY <1>21 DEF ObserveGeofence
    <3>3. order \in [1 .. Cardinality(crossed) -> crossed]
      BY <3>2 DEF Bijection, Injection
    <3>4. \A z \in Zones : Crossing(z) \in DetectedEvent
      BY <2>1 DEF Crossing, Event, DetectedEvent, FlightState
    <3>. HIDE DEF crossed
    <3>5. \A i \in 1 .. Cardinality(crossed) : Crossing(order[i]) \in DetectedEvent
      BY <3>3, <3>4 DEF crossed
    <3>6. [i \in 1 .. Cardinality(crossed) |-> Crossing(order[i])]
            \in [1 .. Cardinality(crossed) -> DetectedEvent]
      <4>. HIDE DEF DetectedEvent
      <4>. QED
        BY ONLY <3>5, Zenon
    <3>7. out' \in [1 .. Cardinality(crossed) -> DetectedEvent]
      BY ONLY <3>2, <3>6
    <3>. QED
      BY <3>1, <3>7, ListTyped
  <2>3. inside' \in [Aircraft -> Containment] /\ told' \in [Aircraft -> Containment]
    BY <1>21, <2>1 DEF ObserveGeofence, FlightState
  <2>4. insideAt' \in [Aircraft -> Instants]
    BY <1>21, <2>1 DEF ObserveGeofence, FlightState
  <2>. QED
    BY <1>21, <2>2, <2>3, <2>4 DEF ObserveGeofence, At,
         handlerVars, staleVars, speedVars, fenceVars, watchVars, detectors, sweepVars,
         refreshVars, storeVars, busVars, historyVars
<1>22. CASE ObserveWatchlist
  <2>1. cur \in 1 .. sent /\ state \in FlightState
    BY <1>22, StateTyped DEF ObserveWatchlist, At
  <2>2. out' \in Seq(DetectedEvent)
    <3>1. CASE out' = out
      BY <3>1
    <3>2. CASE out' # out
      <4>1. /\ entries[state.aircraft] # None
            /\ out' = << Event("watchlist_match", entries[state.aircraft]) >>
        BY <1>22, <3>2 DEF ObserveWatchlist
      <4>2. entries[state.aircraft] \in Entries /\ state.aircraft \in Aircraft
        BY <2>1, <4>1 DEF FlightState
      <4>3. Event("watchlist_match", entries[state.aircraft]) \in DetectedEvent
        BY <4>2 DEF Event, DetectedEvent
      <4>. QED
        BY <4>1, <4>3
    <3>. QED
      BY <3>1, <3>2
  <2>3. \/ entries[state.aircraft] = None
        \/ entries[state.aircraft] \in Entries /\ state.aircraft \in Aircraft /\ state.seen \in Nat
    BY <2>1 DEF FlightState
  <2>4. /\ matchedAt' \in [Aircraft -> Instants]
        /\ matched' \subseteq {a \in Aircraft : matchedAt'[a] # None}
    <3>1. CASE entries[state.aircraft] = None
      BY <1>22, <3>1 DEF ObserveWatchlist
    <3>2. CASE entries[state.aircraft] # None
      <4>1. /\ state.aircraft \in Aircraft /\ state.seen \in Nat
            /\ matchedAt' = [matchedAt EXCEPT ![state.aircraft] = state.seen]
            /\ matched' \subseteq matched \cup {state.aircraft}
        BY <1>22, <2>3, <3>2 DEF ObserveWatchlist
      <4>2. state.seen # None
        BY <4>1
      <4>3. matchedAt' \in [Aircraft -> Instants]
        BY <4>1
      <4>4. \A a \in Aircraft :
              matchedAt'[a] = IF a = state.aircraft THEN state.seen ELSE matchedAt[a]
        BY <4>1
      <4>. QED
        BY <4>1, <4>2, <4>3, <4>4
    <3>. QED
      BY <3>1, <3>2
  <2>6. /\ UNCHANGED <<now, busVars, cur, staleVars, lastAltitude, speedVars, fenceVars, entries,
                       sweepVars, refreshVars, storeVars, faults, disordered, awaiting, told>>
        /\ hpc' = "ack" /\ handled' = handled \cup {cur} /\ cur # 0
    BY <1>22, <2>1 DEF ObserveWatchlist
  <2>. HIDE DEF Updates
  <2>. QED
    BY <2>1, <2>2, <2>4, <2>6
       DEF handlerVars, staleVars, speedVars, fenceVars, sweepVars, refreshVars, storeVars, busVars
<1>23. CASE Publish \/ PublishFailed
  <2>1. out # <<>> /\ out' = Tail(out) /\ faults' \in Nat
    BY <1>23 DEF Publish, PublishFailed, Fault
  <2>2. Head(out) \in DetectedEvent /\ out' \in Seq(DetectedEvent)
    BY <2>1, HeadAndTail
  <2>3. PICK v \in BOOLEAN \cup {None} : Tell(Head(out), v)
    BY <1>23 DEF Publish, PublishFailed
  <2>4. told' \in [Aircraft -> Containment]
    BY <2>2, <2>3, TellTyped
  <2>5. /\ UNCHANGED <<now, busVars, hpc, cur, detectors, sweepVars, refreshVars, storeVars>>
        /\ UNCHANGED <<handled, disordered, awaiting>>
    BY <1>23 DEF Publish, PublishFailed
  <2>. QED
    BY <2>1, <2>2, <2>4, <2>5 DEF
         handlerVars, staleVars, speedVars, fenceVars, watchVars, detectors, sweepVars,
         refreshVars, storeVars, busVars, historyVars
<1>24. CASE Ack
  <2>1. cur \in 1 .. sent
    BY <1>24 DEF Ack, At
  <2>2. acked' \subseteq 1 .. sent
    BY <1>24, <2>1 DEF Ack
  <2>3. faults' \in Nat
    BY <1>24 DEF Ack, Fault
  <2>. QED
    BY <1>24, <2>2, <2>3 DEF Ack, At,
         handlerVars, staleVars, speedVars, fenceVars, watchVars, detectors, sweepVars,
         refreshVars, storeVars, busVars, historyVars
<1>25. ASSUME NEW a \in Aircraft, PublishUpdate(a) PROVE TypeOK'
  <2>1. PICK u \in FlightState \cup {Garbled} : log' = Append(log, u)
    <3>1. PICK r \in Readings, t \in 0 .. now :
            log' = Append(log, IF r = Garbled THEN Garbled
                          ELSE [aircraft |-> a, seen |-> t, altitude |-> r.altitude,
                                speed |-> r.speed, within |-> r.within])
      BY <1>25 DEF PublishUpdate
    <3>2. r # Garbled => [aircraft |-> a, seen |-> t, altitude |-> r.altitude,
                          speed |-> r.speed, within |-> r.within] \in FlightState
      BY DEF FlightState
    <3>. QED
      BY <3>1, <3>2
  <2>2. /\ log' \in Seq(FlightState \cup {Garbled}) /\ Len(log') = Len(log) + 1
        /\ \A n \in DOMAIN log : n \in DOMAIN log' /\ log'[n] = log[n]
    BY <2>1
  <2>3. UNCHANGED <<now, sent, acked, buffer, handlerVars, detectors, sweepVars, refreshVars,
                    storeVars, faults, historyVars>>
    BY <1>25 DEF PublishUpdate
  <2>4. hpc' \notin {"idle", "ack"} => cur' \in Updates'
    BY <2>2, <2>3 DEF handlerVars
  <2>5. sent' \in 0 .. Len(log')
    BY <2>2, <2>3
  <2>. QED
    BY <2>2, <2>3, <2>4, <2>5 DEF
         handlerVars, staleVars, speedVars, fenceVars, watchVars, detectors, sweepVars,
         refreshVars, storeVars, busVars, historyVars
<1>26. ASSUME NEW n \in 1 .. sent, Redeliver(n) PROVE TypeOK'
  <2>1. faults' \in Nat /\ buffer' \in Seq(1 .. sent)
    BY <1>26 DEF Redeliver, Fault
  <2>. QED
    BY <1>26, <2>1 DEF Redeliver,
         handlerVars, staleVars, speedVars, fenceVars, watchVars, detectors, sweepVars,
         refreshVars, storeVars, busVars, historyVars
<1>27. CASE UNCHANGED vars
  BY <1>27 DEF vars,
         handlerVars, staleVars, speedVars, fenceVars, watchVars, detectors, sweepVars,
         refreshVars, storeVars, busVars, historyVars
<1>. QED
  BY <1>1, <1>2, <1>3, <1>4, <1>5, <1>6, <1>7, <1>8, <1>9, <1>10, <1>11, <1>12,
     <1>13, <1>14, <1>15, <1>16, <1>17, <1>18, <1>19, <1>20, <1>21, <1>22, <1>23, <1>24, <1>25,
     <1>26, <1>27
     DEF Next, User, Handler, Sweeper, Refresher

(* The type invariant, for any fleet, zones, watchlist and readings. *)
THEOREM TypeCorrect == Spec => []TypeOK
<1>1. Init => TypeOK
  <2>. SUFFICES ASSUME Init PROVE TypeOK
    OBVIOUS
  <2>1. entries \in [Aircraft -> Entries \cup {None}]
    BY EventConstants DEF Init, ByAircraft
  <2>2. /\ log \in Seq(FlightState \cup {Garbled}) /\ buffer \in Seq(1 .. sent)
        /\ out \in Seq(DetectedEvent) /\ sent \in 0 .. Len(log) /\ cur \in 0 .. sent
    BY DEF Init
  <2>3. inside \in [Aircraft -> Containment] /\ told \in [Aircraft -> Containment]
    BY DEF Init, Containment
  <2>4. \A a \in Aircraft : lastSpeed[a] = None <=> speedAt[a] = None
    BY DEF Init
  <2>. QED
    BY <2>1, <2>2, <2>3, <2>4, EventConstants DEF Init, TypeOK, Instants
<1>. QED
  BY <1>1, TypeStep, PTL DEF Spec

-----------------------------------------------------------------------------
(* What the steps that deal with neither do to the handler's progress, to  *)
(* the stale rule and to the geofence: nothing.                            *)
Aside ==
  \/ Tick \/ User \/ Deliver \/ Refresher \/ PublishStale \/ EvictSpeed \/ EvictWatchlist
  \/ (\E n \in 1 .. sent : Redeliver(n)) \/ UNCHANGED vars

LEMMA AsideUntouched ==
  ASSUME Aside
  PROVE  UNCHANGED <<log, acked, hpc, cur, out, handled, lastSeen, flagged, awaiting,
                     inside, told>>
<1>. USE DEF
         handlerVars, staleVars, speedVars, fenceVars, watchVars, detectors, sweepVars,
         refreshVars, storeVars, busVars, historyVars
<1>1. CASE User
  BY <1>1 DEF User, createZone, deleteZone, createWatchlistEntry, deleteWatchlistEntry, EditOnly
<1>2. CASE Refresher
  BY <1>2 DEF Refresher, ReadZones, SetZones, ReadEntries, SetEntries
<1>3. CASE PublishStale \/ EvictSpeed \/ EvictWatchlist
  BY <1>3 DEF PublishStale, EvictSpeed, EvictWatchlist
<1>. QED
  BY <1>1, <1>2, <1>3 DEF Aside, Tick, Deliver, Redeliver, vars

(* Whatever is acknowledged, or about to be, went through the detectors.   *)
LEMMA HandledStep == TypeOK /\ HandledInv /\ [Next]_vars => HandledInv'
<1>. SUFFICES ASSUME TypeOK, HandledInv, [Next]_vars PROVE HandledInv'
  OBVIOUS
<1>. USE DEF HandledInv, AckedIsHandled, Updates
<1>1. CASE Aside
  BY <1>1, AsideUntouched
<1>2. ASSUME NEW a \in Aircraft, PublishUpdate(a) PROVE HandledInv'
  <2>1. \A n \in 1 .. sent : n \in DOMAIN log' /\ log'[n] = log[n]
    <3>1. PICK u : log' = Append(log, u)
      BY <1>2 DEF PublishUpdate
    <3>. QED
      BY <3>1 DEF TypeOK
  <2>. QED
    BY <1>2, <2>1 DEF PublishUpdate, TypeOK, handlerVars, historyVars
<1>3. CASE Take
  BY <1>3 DEF Take, TakeNext, FirstCall, historyVars
<1>4. CASE ObserveStale \/ ObserveAltitude \/ ObserveSpeed \/ ObserveGeofence
  BY <1>4 DEF ObserveStale, ObserveAltitude, ObserveSpeed, ObserveGeofence, busVars, historyVars
<1>5. CASE ObserveWatchlist
  BY <1>5 DEF ObserveWatchlist, busVars
<1>6. CASE Publish \/ PublishFailed
  BY <1>6 DEF Publish, PublishFailed, busVars
<1>7. CASE Ack
  BY <1>7 DEF Ack, At, historyVars
<1>8. CASE Sweep \/ EvictGeofence
  BY <1>8 DEF Sweep, EvictGeofence, busVars, handlerVars
<1>9. CASE Restart
  BY <1>9 DEF Restart, Fresh
<1>. QED
  BY <1>1, <1>2, <1>3, <1>4, <1>5, <1>6, <1>7, <1>8, <1>9
     DEF Next, Handler, Sweeper, Aside

(* An aircraft that is tracked and not flagged was observed since its last *)
(* stale_signal: the sweep that publishes one flags it, and only an        *)
(* observation takes the flag, or a sweep that forgets the aircraft.       *)
LEMMA StaleStep == TypeOK /\ StaleInv /\ [Next]_vars => StaleInv'
<1>. SUFFICES ASSUME TypeOK, StaleInv, [Next]_vars PROVE StaleInv'
  OBVIOUS
<1>. USE DEF StaleInv
<1>1. CASE Aside
  BY <1>1, AsideUntouched
<1>2. ASSUME NEW a \in Aircraft, PublishUpdate(a) PROVE StaleInv'
  BY <1>2 DEF PublishUpdate, detectors, staleVars, historyVars
<1>3. CASE Take \/ Ack \/ Publish \/ PublishFailed
  BY <1>3 DEF Take, Ack, Publish, PublishFailed, detectors, staleVars, historyVars
<1>4. CASE ObserveStale
  BY <1>4 DEF ObserveStale, See, TypeOK
<1>5. CASE ObserveAltitude \/ ObserveSpeed \/ ObserveGeofence \/ ObserveWatchlist
  BY <1>5 DEF ObserveAltitude, ObserveSpeed, ObserveGeofence, ObserveWatchlist, staleVars,
              historyVars
<1>6. CASE Sweep
  BY <1>6 DEF Sweep, Forget, TypeOK
<1>7. CASE EvictGeofence
  BY <1>7 DEF EvictGeofence, staleVars
<1>8. CASE Restart
  BY <1>8 DEF Restart, Fresh
<1>. QED
  BY <1>1, <1>2, <1>3, <1>4, <1>5, <1>6, <1>7, <1>8 DEF Next, Handler, Sweeper, Aside

-----------------------------------------------------------------------------
(* A call that starts with nothing to publish and detects no crossing.     *)
LEMMA NoCrossing ==
  ASSUME FenceInv, out = <<>>, UNCHANGED <<inside, told>>,
         \A i \in DOMAIN out' : out'[i].type \notin Crossings
  PROVE  FenceInv'
BY DEF FenceInv, Crossed, EventsTellContainment, Pending

(* Nor is a delta event one. *)
LEMMA DeltaIsNoCrossing ==
  ASSUME NEW type \in {"altitude_delta", "speed_delta"}, NEW previous, NEW current,
         NEW i \in DOMAIN DeltaEvents(type, previous, current)
  PROVE  DeltaEvents(type, previous, current)[i].type \notin Crossings
BY DEF DeltaEvents, Event, Crossings

(* The detector's answer: one crossing for each zone whose side changed.   *)
LEMMA GeofenceStep == TypeOK /\ FenceInv /\ ObserveGeofence => FenceInv'
<1>. SUFFICES ASSUME TypeOK, FenceInv, ObserveGeofence PROVE FenceInv'
  OBVIOUS
<1>. DEFINE a       == state.aircraft
            crossed == {z \in zones : Crosses(a, z)}
            N       == Cardinality(crossed)
            seen(z) == IF z \in zones THEN z \in state.within ELSE inside[a][z]
<1>1. a \in Aircraft /\ zones \subseteq Zones /\ out = <<>>
  BY StateTyped DEF ObserveGeofence, At, TypeOK, FlightState
<1>2. PICK order \in Bijection(1 .. N, crossed) :
        out' = [i \in 1 .. N |-> Crossing(order[i])]
  BY DEF ObserveGeofence
<1>3. /\ inside' = [inside EXCEPT ![a] = [z \in Zones |-> seen(z)]]
      /\ told' = [told EXCEPT ![a] = [z \in Zones |->
                    IF inside[a][z] = None THEN seen(z) ELSE told[a][z]]]
  BY DEF ObserveGeofence
<1>4. inside \in [Aircraft -> [Zones -> BOOLEAN \cup {None}]]
  /\ told \in [Aircraft -> [Zones -> BOOLEAN \cup {None}]]
  BY DEF TypeOK, Containment
<1>5. /\ order \in [1 .. N -> crossed]
      /\ \A i, j \in 1 .. N : order[i] = order[j] => i = j
      /\ \A z \in crossed : \E i \in 1 .. N : order[i] = z
  BY <1>2 DEF Bijection, Injection, Surjection, IsInjective
<1>6. \A z : /\ Crossing(z).aircraft = a /\ Crossing(z).about = z
             /\ Crossing(z).type \in Crossings
             /\ Crossing(z).type = "geofence_enter" <=> z \in state.within
  BY DEF Crossing, Event, Crossings
<1>7. \A b \in Aircraft, z \in Zones : inside[b][z] # None /\ told[b][z] # None
                                         => told[b][z] = inside[b][z]
  BY <1>1 DEF FenceInv, EventsTellContainment, Pending
<1>. HIDE DEF N
<1>8. \A i \in DOMAIN out' : /\ i \in 1 .. N /\ order[i] \in crossed
                             /\ out'[i] = Crossing(order[i])
  BY <1>2, <1>5
<1>. HIDE DEF a
<1>9. \A z \in Zones : inside'[a][z] = seen(z)
      /\ told'[a][z] = IF inside[a][z] = None THEN seen(z) ELSE told[a][z]
  BY <1>1, <1>3, <1>4
<1>10. \A b \in Aircraft \ {a} : inside'[b] = inside[b] /\ told'[b] = told[b]
  BY <1>1, <1>3, <1>4
<1>11. \A i, j \in DOMAIN out' : out'[i].about = out'[j].about => i = j
  BY <1>5, <1>6, <1>8
<1>12. ASSUME NEW i \in DOMAIN out'
       PROVE  /\ out'[i].about \in Zones
              /\ inside'[out'[i].aircraft][out'[i].about]
                   \in {None, out'[i].type = "geofence_enter"}
  <2>1. order[i] \in zones /\ order[i] \in Zones /\ out'[i] = Crossing(order[i])
    BY <1>1, <1>8
  <2>2. inside'[a][order[i]] = (order[i] \in state.within)
    BY <1>9, <2>1
  <2>3. out'[i].aircraft = a /\ out'[i].about = order[i]
        /\ (out'[i].type = "geofence_enter") = (order[i] \in state.within)
    BY <1>6, <2>1
  <2>. QED
    BY <2>1, <2>2, <2>3
<1>13. ASSUME NEW b \in Aircraft, NEW z \in Zones, inside'[b][z] # None, told'[b][z] # None
       PROVE  told'[b][z] = inside'[b][z] <=> ~Pending(b, z)'
  <2>1. Pending(b, z)' <=> b = a /\ z \in crossed
    BY <1>2, <1>5, <1>6, <1>8 DEF Pending
  <2>2. CASE b # a
    BY <1>7, <1>10, <1>13, <2>1, <2>2
  <2>3. CASE b = a /\ z \notin crossed
    <3>1. z \in zones /\ inside[a][z] # None => inside[a][z] = (z \in state.within)
      BY <2>3 DEF Crosses
    <3>2. told'[a][z] = inside'[a][z]
      BY <1>1, <1>7, <1>9, <1>13, <2>3, <3>1
    <3>. QED
      BY <2>1, <2>3, <3>2
  <2>4. CASE b = a /\ z \in crossed
    <3>1. z \in zones /\ inside[a][z] # None /\ inside[a][z] # (z \in state.within)
      BY <2>4 DEF Crosses
    <3>2. told'[a][z] # inside'[a][z]
      BY <1>1, <1>7, <1>9, <1>13, <2>4, <3>1
    <3>. QED
      BY <2>1, <2>4, <3>2
  <2>. QED
    BY <2>2, <2>3, <2>4
<1>. QED
  BY <1>11, <1>12, <1>13 DEF FenceInv, Crossed, EventsTellContainment

(* One event leaves, and is told or lost. *)
LEMMA TellStep ==
  ASSUME TypeOK, FenceInv, out # <<>>, out' = Tail(out), UNCHANGED inside,
         Tell(Head(out), Head(out).type = "geofence_enter") \/ Tell(Head(out), None)
  PROVE  FenceInv'
<1>. DEFINE e == out[1]
<1>1. out \in Seq(DetectedEvent) /\ Len(out) \in Nat \ {0} /\ e = Head(out) /\ 1 \in DOMAIN out
  BY DEF TypeOK
<1>2. e \in DetectedEvent
  BY <1>1
<1>3. /\ \A i \in DOMAIN out' : i + 1 \in DOMAIN out /\ i + 1 # 1 /\ out'[i] = out[i + 1]
      /\ \A i \in DOMAIN out : i = 1 \/ (i - 1 \in DOMAIN out' /\ out[i] = out'[i - 1])
  BY <1>1
<1>4. /\ \A i, j \in DOMAIN out' :
           Crossed(i)' /\ Crossed(j)' /\ out'[i].aircraft = out'[j].aircraft
             /\ out'[i].about = out'[j].about => i = j
      /\ \A i \in DOMAIN out' : Crossed(i)' =>
           /\ out'[i].about \in Zones
           /\ inside'[out'[i].aircraft][out'[i].about] \in {None, out'[i].type = "geofence_enter"}
  <2>1. \A i \in DOMAIN out' : i \in Int
    BY <1>1
  <2>. QED
    BY <1>3, <2>1 DEF FenceInv, Crossed
<1>5. ASSUME NEW a \in Aircraft, NEW z \in Zones, inside'[a][z] # None, told'[a][z] # None
      PROVE  told'[a][z] = inside'[a][z] <=> ~Pending(a, z)'
  <2>1. CASE e.type \in Crossings /\ e.aircraft = a /\ e.about = z
    <3>1. told'[a][z] = (e.type = "geofence_enter")
      BY <1>1, <1>2, <1>5, <2>1 DEF Tell, TypeOK, Containment
    <3>2. inside'[a][z] = (e.type = "geofence_enter")
      BY <1>1, <1>5, <2>1 DEF FenceInv, Crossed
    <3>3. ~Pending(a, z)'
      BY <1>1, <1>3, <2>1 DEF FenceInv, Crossed, Pending
    <3>. QED
      BY <3>1, <3>2, <3>3
  <2>2. CASE ~(e.type \in Crossings /\ e.aircraft = a /\ e.about = z)
    <3>1. told'[a][z] = told[a][z]
      BY <1>1, <1>2, <2>2 DEF Tell, TypeOK, Containment
    <3>2. Pending(a, z)' <=> Pending(a, z)
      BY <1>1, <1>3, <2>2 DEF Pending
    <3>. QED
      BY <1>5, <3>1, <3>2 DEF FenceInv, EventsTellContainment
  <2>. QED
    BY <2>1, <2>2
<1>. QED
  BY <1>4, <1>5 DEF FenceInv, EventsTellContainment

(* The fence's invariant through every step. *)
LEMMA FenceStep == TypeOK /\ FenceInv /\ [Next]_vars => FenceInv'
<1>. SUFFICES ASSUME TypeOK, FenceInv, [Next]_vars PROVE FenceInv'
  OBVIOUS
<1>. DEFINE Frame == UNCHANGED <<out, inside, told>>
<1>1. CASE Frame
  BY <1>1 DEF FenceInv, Crossed, EventsTellContainment, Pending
<1>2. CASE Aside
  BY <1>1, <1>2, AsideUntouched
<1>3. ASSUME NEW a \in Aircraft, PublishUpdate(a) PROVE Frame
  BY <1>3 DEF PublishUpdate, handlerVars, detectors, fenceVars, historyVars
<1>4. CASE Take \/ Ack \/ ObserveStale \/ Sweep
  <2>1. Frame
    <3>1. CASE ObserveStale
      BY <3>1 DEF ObserveStale, fenceVars
    <3>2. CASE Sweep
      BY <3>2 DEF Sweep, handlerVars, fenceVars
    <3>. QED
      BY <1>4, <3>1, <3>2 DEF Take, Ack, detectors, fenceVars, historyVars
  <2>. QED
    BY <1>1, <2>1
<1>5. CASE ObserveAltitude
  BY <1>5, NoCrossing, DeltaIsNoCrossing DEF ObserveAltitude, At, fenceVars, historyVars
<1>6. CASE ObserveSpeed
  BY <1>6, NoCrossing, DeltaIsNoCrossing DEF ObserveSpeed, At, fenceVars, historyVars
<1>7. CASE ObserveWatchlist
  <2>1. out = <<>> /\ UNCHANGED <<inside, told>>
    BY <1>7 DEF ObserveWatchlist, At, fenceVars
  <2>2. \A i \in DOMAIN out' : out'[i].type \notin Crossings
    BY <1>7, <2>1 DEF ObserveWatchlist, Event, Crossings
  <2>. QED
    BY <2>1, <2>2, NoCrossing
<1>8. CASE ObserveGeofence
  BY <1>8, GeofenceStep
<1>9. CASE Publish \/ PublishFailed
  BY <1>9, TellStep DEF Publish, PublishFailed, detectors, fenceVars
<1>10. CASE EvictGeofence
  <2>1. out' = out
    BY <1>10 DEF EvictGeofence, handlerVars
  <2>2. ASSUME NEW a \in Aircraft
        PROVE  \/ inside'[a] = inside[a] /\ told'[a] = told[a]
               \/ inside'[a] = [z \in Zones |-> None] /\ told'[a] = [z \in Zones |-> None]
    BY <1>10 DEF EvictGeofence
  <2>3. \A i \in DOMAIN out : out[i].aircraft \in Aircraft
    <3>1. \A i \in DOMAIN out : out[i] \in DetectedEvent
      BY DEF TypeOK
    <3>. QED
      BY <3>1 DEF DetectedEvent
  <2>4. ASSUME NEW i \in DOMAIN out, Crossed(i)
        PROVE  /\ out[i].about \in Zones
               /\ inside'[out[i].aircraft][out[i].about] \in {None, out[i].type = "geofence_enter"}
    BY <2>2, <2>3, <2>4 DEF FenceInv
  <2>. QED
    BY <2>1, <2>2, <2>4 DEF FenceInv, Crossed, EventsTellContainment, Pending
<1>11. CASE Restart
  BY <1>11 DEF Restart, Fresh, FenceInv, Crossed, EventsTellContainment, Pending
<1>. QED
  BY <1>1, <1>2, <1>3, <1>4, <1>5, <1>6, <1>7, <1>8, <1>9, <1>10, <1>11
     DEF Next, Handler, Sweeper, Aside

-----------------------------------------------------------------------------
(* The engine keeps these in every state, for any fleet, zones, watchlist  *)
(* and readings, under redelivery, failures and restarts.                  *)
THEOREM EngineInvariant == Spec => []EngineInv
<1>1. Init => EngineInv
  BY DEF Init, EngineInv, HandledInv, AckedIsHandled, StaleInv, FenceInv, Crossed,
         EventsTellContainment, Pending
<1>2. TypeOK /\ EngineInv /\ [Next]_vars => EngineInv'
  BY HandledStep, StaleStep, FenceStep DEF EngineInv
<1>. QED
  BY <1>1, <1>2, TypeCorrect, PTL DEF Spec

(* An update is acknowledged only after all five detectors saw it.         *)
THEOREM NothingLostToCrashes == Spec => []AckedIsHandled
<1>1. EngineInv => AckedIsHandled
  BY DEF EngineInv, HandledInv
<1>. QED
  BY <1>1, EngineInvariant, PTL

(* What was published of the geofence tells where every aircraft is.       *)
THEOREM CrossingsTellContainment == Spec => []EventsTellContainment
<1>1. EngineInv => EventsTellContainment
  BY DEF EngineInv, FenceInv
<1>. QED
  BY <1>1, EngineInvariant, PTL

(* No stale_signal without an observation since the last one.              *)
THEOREM NoSecondStaleSignal == Spec => StaleNeedsSighting
<1>1. TypeOK /\ EngineInv /\ [Next]_vars => [\A a \in swept' \ swept : a \in awaiting]_vars
  <2>. SUFFICES ASSUME TypeOK, EngineInv, Next PROVE \A a \in swept' \ swept : a \in awaiting
    OBVIOUS
  <2>1. CASE Sweep
    BY <2>1 DEF Sweep, SilentFor, EngineInv, StaleInv
  <2>2. CASE ~Sweep
    <3>1. swept' \subseteq swept
      <4>1. CASE Handler \/ PublishFailed
        BY <4>1 DEF Handler, PublishFailed, Take, ObserveStale, ObserveAltitude, ObserveSpeed,
                    ObserveGeofence, ObserveWatchlist, Publish, Ack, sweepVars
      <4>2. CASE User \/ Refresher
        BY <4>2 DEF User, createZone, deleteZone, createWatchlistEntry, deleteWatchlistEntry,
                    EditOnly, Refresher, ReadZones, SetZones, ReadEntries, SetEntries, sweepVars
      <4>3. CASE Sweeper
        BY <2>2, <4>3 DEF Sweeper, PublishStale, EvictSpeed, EvictGeofence, EvictWatchlist
      <4>. QED
        BY <4>1, <4>2, <4>3 DEF Next, Tick, Deliver, Restart, Fresh, PublishUpdate, Redeliver,
                                sweepVars
    <3>. QED
      BY <3>1
  <2>. QED
    BY <2>1, <2>2
<1>. QED
  BY <1>1, EngineInvariant, TypeCorrect, PTL DEF Spec, StaleNeedsSighting

-----------------------------------------------------------------------------
(* Steps that neither take an update nor let a delta rule see one keep the *)
(* baselines; eviction only forgets a speed.                               *)
LEMMA BaselinesKept ==
  ASSUME BaselineInv, disordered' = disordered,
         UNCHANGED <<log, sent, cur, buffer, lastAltitude>>,
         \A a \in Aircraft : lastSpeed'[a] \in {None, lastSpeed[a]},
         hpc' \in {"stale", "altitude"} <=> hpc \in {"stale", "altitude"},
         hpc' = "speed" <=> hpc = "speed"
  PROVE  BaselineInv'
<1>1. \A a \in Aircraft :
        /\ AltitudesSeen(a)' = AltitudesSeen(a) /\ SpeedsSeen(a)' = SpeedsSeen(a)
        /\ \A v, ns, f : IsLatest(v, ns, f)' <=> IsLatest(v, ns, f)
  BY DEF AltitudesSeen, SpeedsSeen, ReadingsOf, About, Updates, Before, IsLatest
<1>2. InOrder' <=> InOrder
  BY DEF InOrder
<1>3. ASSUME ~disordered, NEW a \in Aircraft, lastSpeed'[a] # None
      PROVE  IsLatest(lastSpeed[a], SpeedsSeen(a), "speed")'
  <2>1. IsLatest(lastSpeed[a], SpeedsSeen(a), "speed") /\ lastSpeed'[a] = lastSpeed[a]
    BY <1>3 DEF BaselineInv
  <2>. QED
    BY <1>1, <2>1 DEF IsLatest
<1>4. ASSUME ~disordered, NEW a \in Aircraft
      PROVE  \/ lastAltitude'[a] = None /\ AltitudesSeen(a)' = {}
             \/ IsLatest(lastAltitude[a], AltitudesSeen(a), "altitude")'
  BY <1>1, <1>4 DEF BaselineInv, IsLatest
<1>. QED
  BY <1>2, <1>3, <1>4 DEF BaselineInv, IsLatest

(* What a delta rule does with the current update is what its baseline     *)
(* invariant asks for.                                                     *)
LEMMA ReadingObserved ==
  ASSUME TypeOK, cur \in Updates, NEW a \in Aircraft, NEW f \in {"altitude", "speed"}
  PROVE  /\ state.aircraft = a /\ state[f] # Missing
              => IsLatest(state[f], ReadingsOf(a, cur, f), f)
         /\ ~(state.aircraft = a /\ state[f] # Missing)
              => ReadingsOf(a, cur, f) = ReadingsOf(a, cur - 1, f)
<1>1. cur \in Nat /\ cur \in DOMAIN log /\ DOMAIN log \subseteq Nat
  BY DEF TypeOK, Updates
<1>2. \A n \in DOMAIN log : n <= cur <=> n = cur \/ n <= cur - 1
  BY <1>1
<1>3. CASE state.aircraft = a /\ state[f] # Missing
  BY <1>1, <1>3 DEF ReadingsOf, About, Updates, IsLatest, state
<1>4. CASE ~(state.aircraft = a /\ state[f] # Missing)
  BY <1>2, <1>4 DEF ReadingsOf, About, Updates, state
<1>. QED
  BY <1>3, <1>4

LEMMA BaselineStep == TypeOK /\ BaselineInv /\ [Next]_vars => BaselineInv'
<1>. SUFFICES ASSUME TypeOK, BaselineInv, [Next]_vars, ~disordered' PROVE BaselineInv'
  BY DEF BaselineInv
<1>. USE DEF
         handlerVars, staleVars, speedVars, fenceVars, watchVars, detectors, sweepVars,
         refreshVars, storeVars, busVars, historyVars
<1>1. CASE Tick \/ User \/ Refresher \/ PublishStale \/ EvictWatchlist \/ EvictGeofence
           \/ Sweep \/ Publish \/ PublishFailed \/ UNCHANGED vars
  <2>1. CASE User
    BY <2>1, BaselinesKept
       DEF User, createZone, deleteZone, createWatchlistEntry, deleteWatchlistEntry, EditOnly
  <2>2. CASE Refresher
    BY <2>2, BaselinesKept DEF Refresher, ReadZones, SetZones, ReadEntries, SetEntries
  <2>3. CASE PublishStale \/ EvictWatchlist \/ EvictGeofence \/ Sweep
    BY <2>3, BaselinesKept DEF PublishStale, EvictWatchlist, EvictGeofence, Sweep
  <2>4. CASE Tick \/ Publish \/ PublishFailed \/ UNCHANGED vars
    BY <2>4, BaselinesKept DEF Tick, Publish, PublishFailed, vars
  <2>. QED
    BY <1>1, <2>1, <2>2, <2>3, <2>4
<1>2. CASE ObserveStale \/ ObserveGeofence \/ ObserveWatchlist \/ Ack
  BY <1>2, BaselinesKept DEF ObserveStale, ObserveGeofence, ObserveWatchlist, Ack, At
<1>3. CASE EvictSpeed
  <2>1. \A a \in Aircraft : lastSpeed'[a] \in {None, lastSpeed[a]}
    BY <1>3 DEF EvictSpeed, Without
  <2>. QED
    BY <1>3, <2>1, BaselinesKept DEF EvictSpeed
<1>4. CASE Restart \/ \E n \in 1 .. sent : Redeliver(n)
  BY <1>4 DEF Restart, Redeliver
<1>5. CASE Deliver
  <2>0. ~disordered /\ InOrder
    BY <1>5 DEF Deliver, BaselineInv
  <2>1. /\ sent' = sent + 1 /\ buffer' = Append(buffer, sent + 1)
        /\ UNCHANGED <<log, cur, hpc, lastAltitude, lastSpeed, disordered>>
    BY <1>5 DEF Deliver
  <2>2. buffer \in Seq(Nat) /\ sent \in Nat /\ cur \in Nat
    BY DEF TypeOK
  <2>3. /\ Len(buffer') = Len(buffer) + 1 /\ Len(buffer) \in Nat
        /\ DOMAIN buffer' = DOMAIN buffer \cup {Len(buffer) + 1}
        /\ buffer'[Len(buffer) + 1] = sent + 1
        /\ \A i \in DOMAIN buffer : buffer'[i] = buffer[i]
    BY <2>1, <2>2
  <2>4. InOrder'
    BY <2>0, <2>1, <2>2, <2>3 DEF InOrder
  <2>5. \A a \in Aircraft :
          /\ AltitudesSeen(a)' = AltitudesSeen(a) /\ SpeedsSeen(a)' = SpeedsSeen(a)
          /\ \A v, ns, f : IsLatest(v, ns, f)' <=> IsLatest(v, ns, f)
    BY <2>1 DEF AltitudesSeen, SpeedsSeen, ReadingsOf, About, Updates, Before, IsLatest
  <2>. QED
    BY <2>0, <2>1, <2>4, <2>5 DEF BaselineInv, IsLatest
<1>6. ASSUME NEW b \in Aircraft, PublishUpdate(b) PROVE BaselineInv'
  <2>0. ~disordered
    BY <1>6 DEF PublishUpdate
  <2>1. PICK u : log' = Append(log, u)
    BY <1>6 DEF PublishUpdate
  <2>2. UNCHANGED <<sent, cur, buffer, hpc, lastAltitude, lastSpeed, disordered>>
    BY <1>6 DEF PublishUpdate
  <2>3. /\ DOMAIN log' = DOMAIN log \cup {Len(log) + 1} /\ Len(log) \in Nat
        /\ \A n \in DOMAIN log : log'[n] = log[n]
        /\ cur \in Nat /\ cur <= Len(log)
    BY <2>1 DEF TypeOK
  <2>4. ASSUME NEW a \in Aircraft, NEW upto \in Int, upto <= cur, NEW f
        PROVE  ReadingsOf(a, upto, f)' = ReadingsOf(a, upto, f)
    <3>1. \A n \in DOMAIN log' : n <= upto => n \in DOMAIN log
      BY <2>3, <2>4
    <3>. QED
      BY <2>3, <3>1 DEF ReadingsOf, About, Updates
  <2>5. /\ Before({"stale", "altitude"})' = Before({"stale", "altitude"})
        /\ Before({"stale", "altitude", "speed"})' = Before({"stale", "altitude", "speed"})
        /\ Before({"stale", "altitude"}) \in Int /\ Before({"stale", "altitude"}) <= cur
        /\ Before({"stale", "altitude", "speed"}) \in Int
        /\ Before({"stale", "altitude", "speed"}) <= cur
    BY <2>2, <2>3 DEF Before
  <2>6. \A a \in Aircraft :
          AltitudesSeen(a)' = AltitudesSeen(a) /\ SpeedsSeen(a)' = SpeedsSeen(a)
    BY <2>4, <2>5 DEF AltitudesSeen, SpeedsSeen
  <2>7. \A a \in Aircraft : AltitudesSeen(a) \subseteq DOMAIN log /\ SpeedsSeen(a) \subseteq DOMAIN log
    BY DEF AltitudesSeen, SpeedsSeen, ReadingsOf, About, Updates
  <2>8. ASSUME NEW v, NEW ns \in SUBSET DOMAIN log, NEW f, IsLatest(v, ns, f)
        PROVE  \E n \in ns : (\A m \in ns : m <= n) /\ v = log'[n][f]
    BY <2>3, <2>8 DEF IsLatest
  <2>9. InOrder'
    BY <2>0, <2>2 DEF BaselineInv, InOrder
  <2>10. ASSUME NEW a \in Aircraft
         PROVE  /\ \/ lastAltitude[a] = None /\ AltitudesSeen(a)' = {}
                   \/ IsLatest(lastAltitude[a], AltitudesSeen(a), "altitude")'
                /\ lastSpeed[a] = None \/ IsLatest(lastSpeed[a], SpeedsSeen(a), "speed")'
    <3>1. ASSUME IsLatest(lastAltitude[a], AltitudesSeen(a), "altitude")
          PROVE  IsLatest(lastAltitude[a], AltitudesSeen(a), "altitude")'
      <4>1. \E n \in AltitudesSeen(a) :
              (\A m \in AltitudesSeen(a) : m <= n) /\ lastAltitude[a] = log'[n]["altitude"]
        BY <2>7, <2>8, <3>1
      <4>. QED
        BY <2>2, <2>6, <4>1 DEF IsLatest
    <3>2. ASSUME IsLatest(lastSpeed[a], SpeedsSeen(a), "speed")
          PROVE  IsLatest(lastSpeed[a], SpeedsSeen(a), "speed")'
      <4>1. \E n \in SpeedsSeen(a) :
              (\A m \in SpeedsSeen(a) : m <= n) /\ lastSpeed[a] = log'[n]["speed"]
        BY <2>7, <2>8, <3>2
      <4>. QED
        BY <2>2, <2>6, <4>1 DEF IsLatest
    <3>3. \/ lastAltitude[a] = None /\ AltitudesSeen(a)' = {}
          \/ IsLatest(lastAltitude[a], AltitudesSeen(a), "altitude")'
      BY <2>0, <2>6, <3>1 DEF BaselineInv
    <3>4. lastSpeed[a] = None \/ IsLatest(lastSpeed[a], SpeedsSeen(a), "speed")'
      BY <2>0, <3>2 DEF BaselineInv
    <3>. QED
      BY <3>3, <3>4
  <2>. QED
    BY <2>2, <2>9, <2>10 DEF BaselineInv
<1>7. CASE Take
  <2>0. ~disordered /\ InOrder
    BY <1>7 DEF Take, BaselineInv
  <2>1. /\ hpc = "idle" /\ buffer # <<>> /\ buffer' = Tail(buffer) /\ cur' = Head(buffer)
        /\ hpc' = FirstCall(Head(buffer))
        /\ UNCHANGED <<log, sent, lastAltitude, lastSpeed, disordered>>
    BY <1>7 DEF Take, TakeNext
  <2>2. buffer \in Seq(1 .. sent) /\ sent \in Nat /\ cur \in Nat /\ sent <= Len(log)
        /\ Len(log) \in Nat /\ DOMAIN log = 1 .. Len(log)
    BY DEF TypeOK
  <2>3. /\ Len(buffer) \in Nat \ {0} /\ cur' = buffer[1] /\ 1 \in DOMAIN buffer
        /\ Len(buffer') = Len(buffer) - 1
        /\ \A i \in DOMAIN buffer' : i + 1 \in DOMAIN buffer /\ buffer'[i] = buffer[i + 1]
                                     /\ i \in Nat
    BY <2>1, <2>2
  <2>4. cur' = cur + 1
    BY <2>0, <2>3 DEF InOrder
  <2>5. InOrder'
    BY <2>0, <2>1, <2>2, <2>3, <2>4 DEF InOrder
  <2>6. cur' \in DOMAIN log
    BY <2>1, <2>2, <2>3
  <2>7. ASSUME NEW a \in Aircraft
        PROVE  AltitudesSeen(a)' = AltitudesSeen(a) /\ SpeedsSeen(a)' = SpeedsSeen(a)
    <3>1. CASE log[cur'] = Garbled
      <4>1. hpc' = "ack"
        BY <2>1, <3>1 DEF FirstCall
      <4>2. \A n \in Updates : n <= cur' <=> n <= cur
        BY <2>2, <2>4, <3>1 DEF Updates
      <4>. QED
        BY <2>1, <4>1, <4>2 DEF AltitudesSeen, SpeedsSeen, ReadingsOf, About, Updates, Before
    <3>2. CASE log[cur'] # Garbled
      <4>1. hpc' = "stale"
        BY <2>1, <3>2 DEF FirstCall
      <4>2. cur' - 1 = cur
        BY <2>2, <2>4
      <4>. QED
        BY <2>1, <4>1, <4>2 DEF AltitudesSeen, SpeedsSeen, ReadingsOf, About, Updates, Before
    <3>. QED
      BY <3>1, <3>2
  <2>8. \A v, ns, f : IsLatest(v, ns, f)' <=> IsLatest(v, ns, f)
    BY <2>1 DEF IsLatest
  <2>. QED
    BY <2>0, <2>1, <2>5, <2>7, <2>8 DEF BaselineInv, IsLatest
<1>8. CASE ObserveAltitude
  <2>0. ~disordered /\ InOrder
    BY <1>8 DEF ObserveAltitude, BaselineInv
  <2>1. /\ hpc = "altitude" /\ hpc' = "speed"
        /\ lastAltitude' = Baseline(lastAltitude, state.altitude)
        /\ UNCHANGED <<log, sent, cur, buffer, lastSpeed, disordered>>
    BY <1>8 DEF ObserveAltitude, At
  <2>2. cur \in Updates /\ DOMAIN lastAltitude = Aircraft
    BY <2>1 DEF TypeOK
  <2>3. InOrder'
    BY <2>0, <2>1 DEF InOrder
  <2>4. ASSUME NEW a \in Aircraft
        PROVE  /\ SpeedsSeen(a)' = SpeedsSeen(a)
               /\ AltitudesSeen(a) = ReadingsOf(a, cur - 1, "altitude")
               /\ AltitudesSeen(a)' = ReadingsOf(a, cur, "altitude")
    BY <2>1 DEF AltitudesSeen, SpeedsSeen, ReadingsOf, About, Updates, Before
  <2>5. ASSUME NEW a \in Aircraft
        PROVE  \/ lastAltitude'[a] = None /\ AltitudesSeen(a)' = {}
               \/ IsLatest(lastAltitude'[a], AltitudesSeen(a)', "altitude")
    <3>1. CASE state.aircraft = a /\ state.altitude # Missing
      <4>1. lastAltitude'[a] = state.altitude
        BY <2>1, <2>2, <3>1 DEF Baseline
      <4>. QED
        BY <2>2, <2>4, <3>1, <4>1, ReadingObserved
    <3>2. CASE ~(state.aircraft = a /\ state.altitude # Missing)
      <4>1. lastAltitude'[a] = lastAltitude[a]
        BY <2>1, <2>2, <3>2 DEF Baseline
      <4>2. AltitudesSeen(a)' = AltitudesSeen(a)
        BY <2>2, <2>4, <3>2, ReadingObserved
      <4>. QED
        BY <2>0, <4>1, <4>2 DEF BaselineInv
    <3>. QED
      BY <3>1, <3>2
  <2>6. \A v, ns, f : IsLatest(v, ns, f)' <=> IsLatest(v, ns, f)
    BY <2>1 DEF IsLatest
  <2>. QED
    BY <2>0, <2>1, <2>3, <2>4, <2>5, <2>6 DEF BaselineInv, IsLatest
<1>9. CASE ObserveSpeed
  <2>0. ~disordered /\ InOrder
    BY <1>9 DEF ObserveSpeed, BaselineInv
  <2>1. /\ hpc = "speed" /\ hpc' = "geofence"
        /\ lastSpeed' = Baseline(lastSpeed, state.speed)
        /\ UNCHANGED <<log, sent, cur, buffer, lastAltitude, disordered>>
    BY <1>9 DEF ObserveSpeed, At
  <2>2. cur \in Updates /\ DOMAIN lastSpeed = Aircraft
    BY <2>1 DEF TypeOK
  <2>3. InOrder'
    BY <2>0, <2>1 DEF InOrder
  <2>4. ASSUME NEW a \in Aircraft
        PROVE  /\ AltitudesSeen(a)' = AltitudesSeen(a)
               /\ SpeedsSeen(a) = ReadingsOf(a, cur - 1, "speed")
               /\ SpeedsSeen(a)' = ReadingsOf(a, cur, "speed")
    BY <2>1 DEF AltitudesSeen, SpeedsSeen, ReadingsOf, About, Updates, Before
  <2>5. ASSUME NEW a \in Aircraft, lastSpeed'[a] # None
        PROVE  IsLatest(lastSpeed'[a], SpeedsSeen(a)', "speed")
    <3>1. CASE state.aircraft = a /\ state.speed # Missing
      <4>1. lastSpeed'[a] = state.speed
        BY <2>1, <2>2, <3>1 DEF Baseline
      <4>. QED
        BY <2>2, <2>4, <3>1, <4>1, ReadingObserved
    <3>2. CASE ~(state.aircraft = a /\ state.speed # Missing)
      <4>1. lastSpeed'[a] = lastSpeed[a]
        BY <2>1, <2>2, <3>2 DEF Baseline
      <4>2. SpeedsSeen(a)' = SpeedsSeen(a)
        BY <2>2, <2>4, <3>2, ReadingObserved
      <4>. QED
        BY <2>0, <2>5, <4>1, <4>2 DEF BaselineInv
    <3>. QED
      BY <3>1, <3>2
  <2>6. \A v, ns, f : IsLatest(v, ns, f)' <=> IsLatest(v, ns, f)
    BY <2>1 DEF IsLatest
  <2>. QED
    BY <2>0, <2>1, <2>3, <2>4, <2>5, <2>6 DEF BaselineInv, IsLatest
<1>. QED
  BY <1>1, <1>2, <1>3, <1>4, <1>5, <1>6, <1>7, <1>8, <1>9 DEF Next, Handler, Sweeper

(* As long as updates arrive in order, a delta rule compares with the      *)
(* latest reading before: for any number of aircraft and updates, any loss *)
(* of acknowledgements and any eviction (AltitudeDeltaDetector.Observe,    *)
(* SpeedDeltaDetector.Observe and EvictBefore).                            *)
THEOREM BaselinesAreLatest == Spec => []DeltaBaselines
<1>1. Init => BaselineInv
  BY DEF Init, BaselineInv, InOrder, AltitudesSeen, ReadingsOf, About, Updates
<1>2. TypeOK /\ BaselineInv => DeltaBaselines
  <2>. SUFFICES ASSUME TypeOK, BaselineInv, ~disordered, NEW a \in Aircraft
                PROVE  /\ lastAltitude[a] =
                            LastReading(a, Before({"stale", "altitude"}), altitudeOf)
                       /\ lastSpeed[a] \in
                            {None, LastReading(a, Before({"stale", "altitude", "speed"}), speedOf)}
    BY DEF DeltaBaselines
  <2>1. ASSUME NEW ns \in SUBSET Nat, NEW n \in ns, \A m \in ns : m <= n
        PROVE  n = CHOOSE k \in ns : \A m \in ns : m <= k
    <3>1. \A k \in ns : (\A m \in ns : m <= k) => k = n
      BY <2>1
    <3>. QED
      BY <2>1, <3>1
  <2>2. AltitudesSeen(a) \in SUBSET Nat /\ SpeedsSeen(a) \in SUBSET Nat
    BY DEF TypeOK, AltitudesSeen, SpeedsSeen, ReadingsOf, About, Updates
  <2>3. LastReading(a, Before({"stale", "altitude"}), altitudeOf) =
          IF AltitudesSeen(a) = {} THEN None
          ELSE log[CHOOSE k \in AltitudesSeen(a) :
                     \A m \in AltitudesSeen(a) : m <= k].altitude
    BY DEF LastReading, altitudeOf, AltitudesSeen, ReadingsOf
  <2>4. LastReading(a, Before({"stale", "altitude", "speed"}), speedOf) =
          IF SpeedsSeen(a) = {} THEN None
          ELSE log[CHOOSE k \in SpeedsSeen(a) : \A m \in SpeedsSeen(a) : m <= k].speed
    BY DEF LastReading, speedOf, SpeedsSeen, ReadingsOf
  <2>5. ASSUME IsLatest(lastAltitude[a], AltitudesSeen(a), "altitude")
        PROVE  lastAltitude[a] = LastReading(a, Before({"stale", "altitude"}), altitudeOf)
    <3>1. PICK n \in AltitudesSeen(a) :
            (\A m \in AltitudesSeen(a) : m <= n) /\ lastAltitude[a] = log[n].altitude
      BY <2>5 DEF IsLatest
    <3>. QED
      BY <2>1, <2>2, <2>3, <3>1
  <2>6. lastAltitude[a] = LastReading(a, Before({"stale", "altitude"}), altitudeOf)
    <3>1. CASE lastAltitude[a] = None /\ AltitudesSeen(a) = {}
      BY <2>3, <3>1
    <3>. QED
      BY <2>5, <3>1 DEF BaselineInv
  <2>7. CASE IsLatest(lastSpeed[a], SpeedsSeen(a), "speed")
    <3>1. PICK n \in SpeedsSeen(a) :
            (\A m \in SpeedsSeen(a) : m <= n) /\ lastSpeed[a] = log[n].speed
      BY <2>7 DEF IsLatest
    <3>2. lastSpeed[a] = LastReading(a, Before({"stale", "altitude", "speed"}), speedOf)
      BY <2>1, <2>2, <2>4, <3>1
    <3>. QED
      BY <2>6, <3>2
  <2>8. CASE lastSpeed[a] = None
    BY <2>6, <2>8
  <2>. QED
    BY <2>7, <2>8 DEF BaselineInv
<1>. QED
  BY <1>1, <1>2, BaselineStep, TypeCorrect, PTL DEF Spec
=============================================================================
