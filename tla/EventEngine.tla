----------------------------- MODULE EventEngine -----------------------------
(***************************************************************************)
(* The event engine: a durable consumer of FLIGHTS_UPDATES that runs five  *)
(* detectors over every update and publishes what they detect, a sweep     *)
(* that looks for aircraft gone silent and forgets those long gone, and a  *)
(* refresh of the zones and watchlist entries kept in Postgres.            *)
(*                                                                         *)
(* cmd/eventengine/*.go; internal/natsutil/subscriber.go,                  *)
(* eventpublisher.go; internal/pgstore/zones.go, watchlist.go.             *)
(*                                                                         *)
(* The three goroutines interleave between any two detector calls, each of *)
(* which holds its detector's mutex.  JetStream redelivers what was not    *)
(* acknowledged, behind newer updates; publications, acknowledgements and  *)
(* reads may fail, and the engine may restart with nothing in memory.      *)
(***************************************************************************)
EXTENDS Integers, Sequences, FiniteSets, Functions

CONSTANTS
  Aircraft,
  Zones,         \* zone ids
  EnvZones,      \* those of GEOFENCE_ZONES_JSON
  Entries,       \* watchlist entry ids
  EnvEntries,    \* those of WATCHLIST_ENTRIES_JSON
  Watches,       \* the aircraft an entry is about
  Readings,      \* what updates say: altitude, speed, and the zones around
  Missing,       \* a nil altitude or speed
  None,          \* no entry in a detector's map
  Garbled,       \* an update that does not decode
  DeltaThreshold, WarningThreshold,
  Silence,            \* the stale threshold, in ticks
  evictAfterMultiple,
  Horizon,       \* bound: the last tick at which an aircraft is heard of
  MaxTime,       \* bound: the last tick
  MaxLag,        \* bound: how old a LastSeenUTC is when it is published
  MaxUpdates,    \* bound: the length of the stream
  MaxEdits,      \* bound: zones and entries created or deleted through the API
  MaxFaults      \* bound: failed calls, early redeliveries and restarts

ASSUME EventConstants ==
  /\ IsFiniteSet(Zones) /\ EnvZones \subseteq Zones /\ EnvEntries \subseteq Entries
  /\ Watches \in [Entries -> Aircraft]
  /\ None \notin Int /\ Missing \notin Int /\ None \notin Entries
  /\ Readings \ {Garbled} \subseteq
       [altitude : Int \cup {Missing}, speed : Int \cup {Missing}, within : SUBSET Zones]
  /\ Silence \in Nat \ {0} /\ evictAfterMultiple \in Nat \ {0}

VARIABLES
  now,
  log,             \* FLIGHTS_UPDATES
  sent, acked,     \* the durable consumer: last update sent, those acknowledged
  buffer,          \* updates the consumer's client holds
  hpc, cur, out,   \* the handler: its next call, its update, its unpublished events
  lastSeen, flagged,               \* StaleSignalDetector
  lastAltitude,                    \* AltitudeDeltaDetector
  lastSpeed, speedAt,              \* SpeedDeltaDetector
  zones, inside, insideAt,         \* GeofenceDetector
  entries, matched, matchedAt,     \* WatchlistDetector
  spc, swept, sweptAt,             \* the sweep: its next call, its events, its now
  rpc, found,                      \* the refresh: its next call, what it read
  zonesDB, entriesDB, created,     \* Postgres, and every id ever made
  edits, faults,
  handled,         \* history: updates all five detectors have seen
  disordered,      \* history: an update was sent again, or memory was lost
  awaiting,        \* history: aircraft observed since their last stale_signal
  told             \* history: containment by first sight and published crossings

busVars     == <<log, sent, acked, buffer>>
handlerVars == <<hpc, cur, out>>
staleVars   == <<lastSeen, flagged>>
speedVars   == <<lastSpeed, speedAt>>
fenceVars   == <<zones, inside, insideAt>>
watchVars   == <<entries, matched, matchedAt>>
detectors   == <<staleVars, lastAltitude, speedVars, fenceVars, watchVars>>
sweepVars   == <<spc, swept, sweptAt>>
refreshVars == <<rpc, found>>
storeVars   == <<zonesDB, entriesDB, created, edits>>
historyVars == <<handled, disordered, awaiting, told>>
vars == <<now, busVars, handlerVars, detectors, sweepVars, refreshVars, storeVars,
          faults, historyVars>>

EvictAfter == Silence * evictAfterMultiple

(* entriesByICAO24 keeps one entry per aircraft, whichever comes last.     *)
EntriesFor(a, es) == {e \in es : Watches[e] = a}
ByAircraft(es) ==
  {f \in [Aircraft -> es \cup {None}] :
     \A a \in Aircraft :
       IF EntriesFor(a, es) = {} THEN f[a] = None ELSE f[a] \in EntriesFor(a, es)}

(* What the process starts with, and loses when it stops. *)
Fresh ==
  /\ buffer' = <<>> /\ hpc' = "idle" /\ out' = <<>>
  /\ lastSeen' = [a \in Aircraft |-> None] /\ flagged' = {}
  /\ lastAltitude' = [a \in Aircraft |-> None]
  /\ lastSpeed' = [a \in Aircraft |-> None] /\ speedAt' = [a \in Aircraft |-> None]
  /\ zones' = EnvZones
  /\ inside' = [a \in Aircraft |-> [z \in Zones |-> None]]
  /\ insideAt' = [a \in Aircraft |-> None]
  /\ entries' \in ByAircraft(EnvEntries)
  /\ matched' = {} /\ matchedAt' = [a \in Aircraft |-> None]
  /\ spc' = "waiting" /\ swept' = {} /\ sweptAt' = 0
  /\ rpc' = "readZones" /\ found' = {}

Init ==
  /\ now = 0 /\ log = <<>> /\ sent = 0 /\ acked = {} /\ buffer = <<>>
  /\ hpc = "idle" /\ cur = 0 /\ out = <<>>
  /\ lastSeen = [a \in Aircraft |-> None] /\ flagged = {}
  /\ lastAltitude = [a \in Aircraft |-> None]
  /\ lastSpeed = [a \in Aircraft |-> None] /\ speedAt = [a \in Aircraft |-> None]
  /\ zones = EnvZones
  /\ inside = [a \in Aircraft |-> [z \in Zones |-> None]]
  /\ insideAt = [a \in Aircraft |-> None]
  /\ entries \in ByAircraft(EnvEntries)
  /\ matched = {} /\ matchedAt = [a \in Aircraft |-> None]
  /\ spc = "waiting" /\ swept = {} /\ sweptAt = 0
  /\ rpc = "readZones" /\ found = {}
  /\ zonesDB = {} /\ entriesDB = {} /\ created = EnvZones \cup EnvEntries
  /\ edits = 0 /\ faults = 0
  /\ handled = {} /\ disordered = FALSE /\ awaiting = {}
  /\ told = [a \in Aircraft |-> [z \in Zones |-> None]]

Fault == faults < MaxFaults /\ faults' = faults + 1

-----------------------------------------------------------------------------
(***************************************************************************)
(* Time, the normalizer, and the users who edit zones and watchlists.      *)
(***************************************************************************)

Tick ==
  /\ now < MaxTime
  /\ now' = now + 1
  /\ UNCHANGED <<busVars, handlerVars, detectors, sweepVars, refreshVars, storeVars,
                 faults, historyVars>>

(* The normalizer may publish a LastSeenUTC again, or an older one.        *)
PublishUpdate(a) ==
  /\ Len(log) < MaxUpdates /\ now <= Horizon
  /\ \E r \in Readings, t \in {t \in 0 .. now : now - t <= MaxLag} :
       log' = Append(log, IF r = Garbled THEN Garbled
                          ELSE [aircraft |-> a, seen |-> t, altitude |-> r.altitude,
                                speed |-> r.speed, within |-> r.within])
  /\ UNCHANGED <<now, sent, acked, buffer, handlerVars, detectors, sweepVars, refreshVars,
                 storeVars, faults, historyVars>>

(* The API's edits; ids are UUIDs and never come back.                     *)
Edit == edits < MaxEdits /\ edits' = edits + 1
EditOnly ==
  UNCHANGED <<now, busVars, handlerVars, detectors, sweepVars, refreshVars, faults, historyVars>>

createZone ==
  /\ Edit
  /\ \E z \in Zones \ created : zonesDB' = zonesDB \cup {z} /\ created' = created \cup {z}
  /\ UNCHANGED entriesDB /\ EditOnly

deleteZone ==
  /\ Edit
  /\ \E z \in zonesDB : zonesDB' = zonesDB \ {z}
  /\ UNCHANGED <<entriesDB, created>> /\ EditOnly

createWatchlistEntry ==
  /\ Edit
  /\ \E e \in Entries \ created : entriesDB' = entriesDB \cup {e} /\ created' = created \cup {e}
  /\ UNCHANGED zonesDB /\ EditOnly

deleteWatchlistEntry ==
  /\ Edit
  /\ \E e \in entriesDB : entriesDB' = entriesDB \ {e}
  /\ UNCHANGED <<zonesDB, created>> /\ EditOnly

-----------------------------------------------------------------------------
(***************************************************************************)
(* FlightStateSubscriber: the durable consumer and its callback.           *)
(***************************************************************************)

Deliver ==
  /\ sent < Len(log)
  /\ sent' = sent + 1
  /\ buffer' = Append(buffer, sent')
  /\ UNCHANGED <<now, log, acked, handlerVars, detectors, sweepVars, refreshVars,
                 storeVars, faults, historyVars>>

(* An update whose acknowledgement did not arrive is sent again: one the   *)
(* engine no longer has, or one it took too long over.                     *)
Held(n) == (\E i \in DOMAIN buffer : buffer[i] = n) \/ (hpc # "idle" /\ cur = n)
Redeliver(n) ==
  /\ n \in 1 .. sent /\ n \notin acked
  /\ IF Held(n) THEN Fault ELSE UNCHANGED faults
  /\ buffer' = Append(buffer, n)
  /\ disordered' = TRUE
  /\ UNCHANGED <<now, log, sent, acked, handlerVars, detectors, sweepVars, refreshVars,
                 storeVars, handled, awaiting, told>>

(* Mutant: acknowledged as soon as it is taken. *)
TakeAndAck(n) ==
  /\ buffer' = Tail(buffer)
  /\ cur' = n
  /\ acked' = acked \cup {n}

TakeNext(n) ==
  /\ buffer' = Tail(buffer)
  /\ cur' = n
  /\ UNCHANGED acked

(* Mutant: an update that does not decode is dropped. *)
FirstCallOrNone(n) == IF log[n] = Garbled THEN "idle" ELSE "stale"

(* An update that does not decode goes straight to its acknowledgement.    *)
FirstCall(n) == IF log[n] = Garbled THEN "ack" ELSE "stale"

Take ==
  /\ hpc = "idle" /\ buffer # <<>>
  /\ TakeNext(Head(buffer))
  /\ hpc' = FirstCall(Head(buffer))
  /\ UNCHANGED <<now, log, sent, out, detectors, sweepVars, refreshVars, storeVars, faults,
                 historyVars>>

At(stage) == hpc = stage /\ out = <<>>
state == log[cur]

(* Mutant: the flag of an earlier silence stays. *)
SeeKeepingFlag(a) ==
  /\ lastSeen' = [lastSeen EXCEPT ![a] = state.seen]
  /\ UNCHANGED flagged

(* StaleSignalDetector.Observe *)
See(a) ==
  /\ lastSeen' = [lastSeen EXCEPT ![a] = state.seen]
  /\ flagged' = flagged \ {a}

ObserveStale ==
  /\ At("stale")
  /\ hpc' = "altitude"
  /\ See(state.aircraft)
  /\ awaiting' = awaiting \cup {state.aircraft}
  /\ UNCHANGED <<now, busVars, cur, out, lastAltitude, speedVars, fenceVars, watchVars,
                 sweepVars, refreshVars, storeVars, faults, handled, disordered, told>>

(* The events of two consecutive readings. *)
Event(type, about) == [type |-> type, aircraft |-> state.aircraft, about |-> about]
Distance(x, y) == IF x > y THEN x - y ELSE y - x
DeltaEvents(type, previous, current) ==
  IF previous = None \/ Distance(current, previous) < DeltaThreshold THEN <<>>
  ELSE << Event(type, IF Distance(current, previous) >= WarningThreshold
                      THEN "warning" ELSE "notable") >>

(* Mutant: a reading that is missing resets the baseline. *)
BaselineOrNone(last, current) ==
  [last EXCEPT ![state.aircraft] = IF current = Missing THEN None ELSE current]

(* A reading that is missing neither triggers nor moves the baseline. *)
Baseline(last, current) ==
  [last EXCEPT ![state.aircraft] = IF current = Missing THEN @ ELSE current]

(* AltitudeDeltaDetector.Observe *)
ObserveAltitude ==
  /\ At("altitude")
  /\ hpc' = "speed"
  /\ lastAltitude' = Baseline(lastAltitude, state.altitude)
  /\ out' = IF state.altitude = Missing THEN <<>>
            ELSE DeltaEvents("altitude_delta", lastAltitude[state.aircraft], state.altitude)
  /\ UNCHANGED <<now, busVars, cur, staleVars, speedVars, fenceVars, watchVars, sweepVars,
                 refreshVars, storeVars, faults, historyVars>>

(* SpeedDeltaDetector.Observe *)
ObserveSpeed ==
  /\ At("speed")
  /\ hpc' = "geofence"
  /\ lastSpeed' = Baseline(lastSpeed, state.speed)
  /\ IF state.speed = Missing
     THEN out' = <<>> /\ UNCHANGED speedAt
     ELSE /\ out' = DeltaEvents("speed_delta", lastSpeed[state.aircraft], state.speed)
          /\ speedAt' = [speedAt EXCEPT ![state.aircraft] = state.seen]
  /\ UNCHANGED <<now, busVars, cur, staleVars, lastAltitude, fenceVars, watchVars, sweepVars,
                 refreshVars, storeVars, faults, historyVars>>

(* Mutant: an event for every update inside, crossing or not. *)
CrossesAlways(a, z) ==
  inside[a][z] # None /\ (z \in state.within \/ inside[a][z] # (z \in state.within))

(* A zone is crossed when the aircraft was seen on its other side before.  *)
Crosses(a, z) == inside[a][z] # None /\ inside[a][z] # (z \in state.within)

(* GeofenceDetector.Observe; the order of its events is that of d.zones.   *)
Crossings   == {"geofence_enter", "geofence_exit"}
Crossing(z) == Event(IF z \in state.within THEN "geofence_enter" ELSE "geofence_exit", z)
ObserveGeofence ==
  /\ At("geofence")
  /\ hpc' = "watchlist"
  /\ LET a       == state.aircraft
         crossed == {z \in zones : Crosses(a, z)}
         seen(z) == IF z \in zones THEN z \in state.within ELSE inside[a][z]
     IN /\ inside' = [inside EXCEPT ![a] = [z \in Zones |-> seen(z)]]
        /\ insideAt' = [insideAt EXCEPT ![a] = state.seen]
        /\ \E order \in Bijection(1 .. Cardinality(crossed), crossed) :
             out' = [i \in 1 .. Cardinality(crossed) |-> Crossing(order[i])]
        /\ told' = [told EXCEPT ![a] = [z \in Zones |->
             IF inside[a][z] = None THEN seen(z) ELSE told[a][z]]]
  /\ UNCHANGED <<now, busVars, cur, staleVars, lastAltitude, speedVars, zones, watchVars,
                 sweepVars, refreshVars, storeVars, faults, handled, disordered, awaiting>>

(* WatchlistDetector.Observe *)
ObserveWatchlist ==
  /\ At("watchlist")
  /\ hpc' = "ack"
  /\ handled' = handled \cup {cur}
  /\ LET a == state.aircraft IN
       IF entries[a] = None
       THEN UNCHANGED <<out, matched, matchedAt>>
       ELSE /\ matchedAt' = [matchedAt EXCEPT ![a] = state.seen]
            /\ IF a \in matched
               THEN UNCHANGED <<out, matched>>
               ELSE /\ matched' = matched \cup {a}
                    /\ out' = << Event("watchlist_match", entries[a]) >>
  /\ UNCHANGED <<now, busVars, cur, staleVars, lastAltitude, speedVars, fenceVars, entries,
                 sweepVars, refreshVars, storeVars, faults, disordered, awaiting, told>>

(* PublishEvent, one event at a time; a failure is logged, and may be only *)
(* that of the acknowledgement.                                            *)
Tell(e, value) ==
  told' = IF e.type \in Crossings
          THEN [told EXCEPT ![e.aircraft][e.about] = value] ELSE told
Publish ==
  /\ out # <<>>
  /\ out' = Tail(out)
  /\ Tell(Head(out), Head(out).type = "geofence_enter")
  /\ UNCHANGED <<now, busVars, hpc, cur, detectors, sweepVars, refreshVars, storeVars, faults,
                 handled, disordered, awaiting>>

PublishFailed ==
  /\ out # <<>>
  /\ Fault
  /\ out' = Tail(out)
  /\ Tell(Head(out), None)
  /\ UNCHANGED <<now, busVars, hpc, cur, detectors, sweepVars, refreshVars, storeVars,
                 handled, disordered, awaiting>>

(* The acknowledgement, which may get lost. *)
Ack ==
  /\ At("ack")
  /\ hpc' = "idle"
  /\ \/ acked' = acked \cup {cur} /\ UNCHANGED faults
     \/ Fault /\ UNCHANGED acked
  /\ UNCHANGED <<now, log, sent, buffer, cur, out, detectors, sweepVars, refreshVars,
                 storeVars, historyVars>>

-----------------------------------------------------------------------------
(***************************************************************************)
(* runStaleSweepLoop.                                                      *)
(***************************************************************************)

(* Mutants: the aircraft keeps its time, or its flag. *)
ForgetFlags(gone, new) == flagged' = (flagged \ gone) \cup new /\ UNCHANGED lastSeen
ForgetTimes(gone, new) ==
  /\ lastSeen' = [a \in Aircraft |-> IF a \in gone THEN None ELSE lastSeen[a]]
  /\ flagged' = flagged \cup new

Forget(gone, new) ==
  /\ lastSeen' = [a \in Aircraft |-> IF a \in gone THEN None ELSE lastSeen[a]]
  /\ flagged' = (flagged \ gone) \cup new

(* StaleSignalDetector.Sweep *)
SilentFor(a, ticks) == lastSeen[a] # None /\ now - lastSeen[a] > ticks
Sweep ==
  /\ spc = "waiting"
  /\ swept' = {a \in Aircraft \ flagged : SilentFor(a, Silence)}
  /\ spc' = IF swept' = {} THEN "evictSpeed" ELSE "publishing"
  /\ Forget({a \in flagged : SilentFor(a, EvictAfter)}, swept')
  /\ sweptAt' = now
  /\ awaiting' = awaiting \ swept'
  /\ UNCHANGED <<now, busVars, handlerVars, lastAltitude, speedVars, fenceVars, watchVars,
                 refreshVars, storeVars, faults, handled, disordered, told>>

(* The events are published one by one, or logged. *)
PublishStale ==
  /\ spc = "publishing"
  /\ \E a \in swept : swept' = swept \ {a}
  /\ spc' = IF swept' = {} THEN "evictSpeed" ELSE "publishing"
  /\ UNCHANGED <<now, busVars, handlerVars, detectors, sweptAt, refreshVars, storeVars,
                 faults, historyVars>>

(* Mutant: only the aircraft the stale rule still tracks. *)
EvictedTracked(lastObservedAt) ==
  {a \in Aircraft : /\ lastObservedAt[a] # None /\ lastObservedAt[a] < sweptAt - EvictAfter
                    /\ lastSeen[a] # None}

(* EvictBefore: the aircraft last observed before the cutoff.              *)
Evicted(lastObservedAt) ==
  {a \in Aircraft : lastObservedAt[a] # None /\ lastObservedAt[a] < sweptAt - EvictAfter}
Without(f, gone) == [a \in Aircraft |-> IF a \in gone THEN None ELSE f[a]]

EvictSpeed ==
  /\ spc = "evictSpeed"
  /\ spc' = "evictGeofence"
  /\ lastSpeed' = Without(lastSpeed, Evicted(speedAt))
  /\ speedAt' = Without(speedAt, Evicted(speedAt))
  /\ UNCHANGED <<now, busVars, handlerVars, staleVars, lastAltitude, fenceVars, watchVars,
                 swept, sweptAt, refreshVars, storeVars, faults, historyVars>>

EvictGeofence ==
  /\ spc = "evictGeofence"
  /\ spc' = "evictWatchlist"
  /\ insideAt' = Without(insideAt, Evicted(insideAt))
  /\ LET clean(f) == [a \in Aircraft |->
           IF a \in Evicted(insideAt) THEN [z \in Zones |-> None] ELSE f[a]]
     IN inside' = clean(inside) /\ told' = clean(told)
  /\ UNCHANGED <<now, busVars, handlerVars, staleVars, lastAltitude, speedVars, zones,
                 watchVars, swept, sweptAt, refreshVars, storeVars, faults, handled,
                 disordered, awaiting>>

EvictWatchlist ==
  /\ spc = "evictWatchlist"
  /\ spc' = "waiting" /\ sweptAt' = 0
  /\ matched' = matched \ Evicted(matchedAt)
  /\ matchedAt' = Without(matchedAt, Evicted(matchedAt))
  /\ UNCHANGED <<now, busVars, handlerVars, staleVars, lastAltitude, speedVars, fenceVars,
                 entries, swept, refreshVars, storeVars, faults, historyVars>>

-----------------------------------------------------------------------------
(***************************************************************************)
(* refreshZonesWatchlist, over and over.  A read that fails leaves the     *)
(* zones or the entries as they are.                                       *)
(***************************************************************************)

ReadZones ==
  /\ rpc = "readZones"
  /\ \/ rpc' = "setZones" /\ found' = zonesDB /\ UNCHANGED faults
     \/ rpc' = "readEntries" /\ Fault /\ UNCHANGED found
  /\ UNCHANGED <<now, busVars, handlerVars, detectors, sweepVars, storeVars, historyVars>>

(* Mutant: what the environment configures is lost. *)
MergedRead(env, read) == read

(* mergeZones and mergeWatchlistEntries, by id. *)
Merged(env, read) == env \cup read

SetZones ==
  /\ rpc = "setZones"
  /\ rpc' = "readEntries"
  /\ zones' = Merged(EnvZones, found)
  /\ found' = {}
  /\ UNCHANGED <<now, busVars, handlerVars, staleVars, lastAltitude, speedVars, inside,
                 insideAt, watchVars, sweepVars, storeVars, faults, historyVars>>

ReadEntries ==
  /\ rpc = "readEntries"
  /\ \/ rpc' = "setEntries" /\ found' = entriesDB /\ UNCHANGED faults
     \/ rpc' = "readZones" /\ Fault /\ UNCHANGED found
  /\ UNCHANGED <<now, busVars, handlerVars, detectors, sweepVars, storeVars, historyVars>>

SetEntries ==
  /\ rpc = "setEntries"
  /\ rpc' = "readZones"
  /\ entries' \in ByAircraft(Merged(EnvEntries, found))
  /\ found' = {}
  /\ UNCHANGED <<now, busVars, handlerVars, staleVars, lastAltitude, speedVars, fenceVars,
                 matched, matchedAt, sweepVars, storeVars, faults, historyVars>>

(* The engine dies and starts over. *)
Restart ==
  /\ Fault
  /\ Fresh
  /\ disordered' = TRUE
  /\ awaiting' = {}
  /\ told' = [a \in Aircraft |-> [z \in Zones |-> None]]
  /\ UNCHANGED <<now, log, sent, acked, cur, storeVars, handled>>

-----------------------------------------------------------------------------
Handler ==
  \/ Take \/ ObserveStale \/ ObserveAltitude \/ ObserveSpeed \/ ObserveGeofence
  \/ ObserveWatchlist \/ Publish \/ Ack
Sweeper   == Sweep \/ PublishStale \/ EvictSpeed \/ EvictGeofence \/ EvictWatchlist
User      == createZone \/ deleteZone \/ createWatchlistEntry \/ deleteWatchlistEntry
Refresher == ReadZones \/ SetZones \/ ReadEntries \/ SetEntries

Next ==
  \/ Tick \/ User \/ Deliver \/ Handler \/ PublishFailed \/ Sweeper \/ Refresher \/ Restart
  \/ \E a \in Aircraft : PublishUpdate(a)
  \/ \E n \in 1 .. sent : Redeliver(n)

Spec == Init /\ [][Next]_vars

(* The server delivers, and delivers again what nobody acknowledged; the   *)
(* callback, the two tickers and the clock keep going.                     *)
FairSpec ==
  /\ Spec
  /\ WF_vars(Tick) /\ WF_vars(Deliver)
  /\ WF_vars(\E n \in 1 .. sent : ~Held(n) /\ Redeliver(n))
  /\ WF_vars(Handler) /\ WF_vars(Sweeper) /\ WF_vars(Refresher)

-----------------------------------------------------------------------------
(***************************************************************************)
(* Properties.                                                             *)
(***************************************************************************)

Updates == {n \in DOMAIN log : log[n] # Garbled}
About(a) == {n \in Updates : log[n].aircraft = a}
Instants == Nat \cup {None}
FlightState == [aircraft : Aircraft, seen : Nat, altitude : Int \cup {Missing},
                speed : Int \cup {Missing}, within : SUBSET Zones]
DetectedEvent ==
  [type : {"altitude_delta", "speed_delta", "geofence_enter", "geofence_exit", "watchlist_match"},
   aircraft : Aircraft, about : Zones \cup Entries \cup {"notable", "warning"}]
Containment == [Zones -> BOOLEAN \cup {None}]

TypeOK ==
  /\ now \in Nat /\ edits \in Nat /\ faults \in Nat
  /\ log \in Seq(FlightState \cup {Garbled}) /\ buffer \in Seq(1 .. sent)
  /\ sent \in 0 .. Len(log) /\ acked \subseteq 1 .. sent /\ handled \subseteq 1 .. sent
  /\ hpc \in {"idle", "stale", "altitude", "speed", "geofence", "watchlist", "ack"}
  /\ cur \in 0 .. sent /\ (hpc = "ack" => cur # 0)
  /\ hpc \notin {"idle", "ack"} => cur \in Updates
  /\ out \in Seq(DetectedEvent)
  /\ lastSeen \in [Aircraft -> Instants]
  /\ flagged \subseteq {a \in Aircraft : lastSeen[a] # None}
  /\ lastAltitude \in [Aircraft -> Int \cup {None}]
  /\ lastSpeed \in [Aircraft -> Int \cup {None}] /\ speedAt \in [Aircraft -> Instants]
  /\ \A a \in Aircraft : lastSpeed[a] = None <=> speedAt[a] = None
  /\ zones \subseteq Zones /\ inside \in [Aircraft -> Containment]
  /\ insideAt \in [Aircraft -> Instants] /\ matchedAt \in [Aircraft -> Instants]
  /\ entries \in [Aircraft -> Entries \cup {None}]
  /\ matched \subseteq {a \in Aircraft : matchedAt[a] # None}
  /\ spc \in {"waiting", "publishing", "evictSpeed", "evictGeofence", "evictWatchlist"}
  /\ swept \subseteq Aircraft /\ sweptAt \in Nat
  /\ rpc \in {"readZones", "setZones", "readEntries", "setEntries"}
  /\ found \subseteq IF rpc = "setZones" THEN Zones ELSE Entries
  /\ zonesDB \subseteq Zones /\ entriesDB \subseteq Entries
  /\ disordered \in BOOLEAN /\ awaiting \subseteq Aircraft
  /\ told \in [Aircraft -> Containment]

(* The crossings published of an aircraft and a zone, added to where it    *)
(* was first seen, tell where it was last observed, one crossing being on  *)
(* its way otherwise: none is missing and none is published twice.  Until  *)
(* a publication fails, or the aircraft is forgotten, and from the next    *)
(* crossing on.                                                            *)
Pending(a, z) ==
  \E i \in DOMAIN out : out[i].type \in Crossings /\ out[i].aircraft = a /\ out[i].about = z
EventsTellContainment ==
  \A a \in Aircraft, z \in Zones :
    inside[a][z] # None /\ told[a][z] # None
      => (told[a][z] = inside[a][z] <=> ~Pending(a, z))

(* Between two stale_signals for an aircraft it was observed, whatever was *)
(* flagged, evicted and observed again in between.                         *)
StaleNeedsSighting == [][\A a \in swept' \ swept : a \in awaiting]_vars

(* An update is acknowledged when all five detectors have seen it: none is *)
(* lost to the engine by a crash.                                          *)
AckedIsHandled == \A n \in acked \cap Updates : n \in handled

(* As long as updates arrive in order, what a delta rule compares with is  *)
(* the latest reading before; the sweep may have forgotten a speed, never  *)
(* put an older one in its place.                                          *)
Before(stages) == IF hpc \in stages THEN cur - 1 ELSE cur
LastReading(a, upto, field(_)) ==
  LET ns == {n \in About(a) : n <= upto /\ field(log[n]) # Missing}
  IN IF ns = {} THEN None ELSE field(log[CHOOSE n \in ns : \A m \in ns : m <= n])
altitudeOf(update) == update.altitude
speedOf(update) == update.speed
DeltaBaselines ==
  disordered \/ \A a \in Aircraft :
    /\ lastAltitude[a] = LastReading(a, Before({"stale", "altitude"}), altitudeOf)
    /\ lastSpeed[a] \in {None, LastReading(a, Before({"stale", "altitude", "speed"}), speedOf)}

(* Every update is handled and acknowledged in the end. *)
EventuallyHandled == <>[](acked = DOMAIN log)

(* An aircraft that falls silent is flagged, unless the engine restarts    *)
(* and forgets it ever saw it.                                             *)
EventuallyFlagged == \A a \in Aircraft : a \in awaiting ~> a \notin awaiting

(* Nothing is kept of an aircraft that stays silent, its altitude apart.   *)
EventuallyForgotten ==
  \A a \in Aircraft : <>[]( /\ lastSeen[a] = None /\ a \notin flagged
                             /\ lastSpeed[a] = None /\ insideAt[a] = None
                             /\ inside[a] = [z \in Zones |-> None]
                             /\ a \notin matched /\ matchedAt[a] = None )

(* What users create or delete takes effect. *)
EventuallyEffective ==
  <>[]( /\ zones = EnvZones \cup zonesDB
        /\ entries \in ByAircraft(EnvEntries \cup entriesDB) )

-----------------------------------------------------------------------------
(***************************************************************************)
(* The inductive invariant, on top of TypeOK, behind AckedIsHandled,       *)
(* StaleNeedsSighting, EventsTellContainment and DeltaBaselines.           *)
(***************************************************************************)

HandledInv ==
  /\ AckedIsHandled
  /\ hpc = "ack" /\ cur \in Updates => cur \in handled
StaleInv == \A a \in Aircraft \ flagged : lastSeen[a] # None => a \in awaiting

(* What is on its way about a zone is where the aircraft now is, and that  *)
(* is news to whoever was told.                                            *)
Crossed(i) == i \in DOMAIN out /\ out[i].type \in Crossings
FenceInv ==
  /\ \A i, j \in DOMAIN out :
       Crossed(i) /\ Crossed(j) /\ out[i].aircraft = out[j].aircraft
         /\ out[i].about = out[j].about => i = j
  /\ \A i \in DOMAIN out : Crossed(i) =>
       /\ out[i].about \in Zones
       /\ inside[out[i].aircraft][out[i].about] \in {None, out[i].type = "geofence_enter"}
  /\ EventsTellContainment
EngineInv == HandledInv /\ StaleInv /\ FenceInv

(* As long as nothing was sent again the buffer holds the updates after    *)
(* the current one, in order; and a baseline is the reading of the latest  *)
(* update that carries one, among those its detector has seen.             *)
InOrder == cur + Len(buffer) = sent /\ \A i \in DOMAIN buffer : buffer[i] = cur + i
ReadingsOf(a, upto, field) == {n \in About(a) : n <= upto /\ log[n][field] # Missing}
IsLatest(value, ns, field) ==
  \E n \in ns : (\A m \in ns : m <= n) /\ value = log[n][field]
AltitudesSeen(a) == ReadingsOf(a, Before({"stale", "altitude"}), "altitude")
SpeedsSeen(a)    == ReadingsOf(a, Before({"stale", "altitude", "speed"}), "speed")
BaselineInv ==
  disordered \/
    /\ InOrder
    /\ \A a \in Aircraft :
         /\ \/ lastAltitude[a] = None /\ AltitudesSeen(a) = {}
            \/ IsLatest(lastAltitude[a], AltitudesSeen(a), "altitude")
         /\ lastSpeed[a] = None \/ IsLatest(lastSpeed[a], SpeedsSeen(a), "speed")
=============================================================================
