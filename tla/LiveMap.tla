------------------------------ MODULE LiveMap ------------------------------
(***************************************************************************)
(* The live map of one browser tab: a store of flights fed by the          *)
(* WebSocket and, after a resume that failed, replaced by what GET         *)
(* /flights reads from Redis.                                              *)
(*                                                                         *)
(* web/src/map/MapView.tsx, store/useFlightStore.ts, api/flights.ts;       *)
(* cmd/apigateway/flights.go; internal/redisutil/flightstate.go.           *)
(*                                                                         *)
(* The live path is module OrderedFeed, which WSGateway implements.  The   *)
(* normalizer writes a state to Redis before it publishes it, and goes on  *)
(* doing so between the two and between the reads of one query.  The user  *)
(* clicks at any moment.                                                   *)
(*                                                                         *)
(* The bounds of the map move with a drag or an easing; the tab subscribes *)
(* with those the map comes to rest with, while a reload is for the bounds *)
(* of the moment the resume failed.                                        *)
(***************************************************************************)
EXTENDS Naturals, Sequences, FiniteSets

CONSTANTS
  Aircraft, Cells,
  Viewports,      \* the sets of cells the map may show
  Tab, None,
  MaxVersion,     \* bound: states written per aircraft
  MaxLog,         \* bound: messages published, those of failed calls included
  MaxMoves,       \* bound: movements of the map
  MaxReloads      \* bound: failed resumes

VARIABLES
  hot,            \* flight:{icao24} and flights:geo
  version,        \* the states of each aircraft written so far
  due,            \* aircraft whose latest state is not published yet
  log, asked, recv,      \* the feed
  bounds,                \* map.getBounds(); {} when clampBBox makes null of them
  moving, loaded, moves, \* between movestart and moveend; the load event; movements
  view,                  \* the bounds last subscribed with, {} before the socket is opened
  reloads, made,         \* GET /flights under way, and made
  current,               \* the one reloadAbort may abort, 0 once aborted
  flights, selected,     \* useFlightStore
  frame,                 \* the aircraft drawn, which a click may pick
  fromREST,       \* history: aircraft whose state came with a snapshot
  pickedLate      \* history: the selected aircraft had gone when it was clicked

feedVars == <<log, asked, recv>>
moveVars == <<bounds, moving, loaded, moves>>
mapVars  == <<moveVars, view, current>>
storeVars == <<flights, selected, frame, fromREST, pickedLate>>
vars == <<hot, version, due, feedVars, mapVars, reloads, made, storeVars>>

(* What decodeFlightState makes of a hash; the version tells the states of *)
(* an aircraft apart, in the order they were written.                      *)
States == [icao24 : Aircraft, cell : Cells, version : 1 .. MaxVersion]
Box(v) == {s \in States : s.cell \in v}

ASSUME NoneAssumption      == None \notin Aircraft \cup States
ASSUME ViewportsAssumption == Viewports \subseteq SUBSET Cells /\ {} \notin Viewports
ASSUME VersionsAssumption  == MaxVersion \in Nat

Feed == INSTANCE OrderedFeed WITH
          Clients <- {Tab}, Payloads <- States, Viewports <- {Box(v) : v \in Viewports}

Init ==
  /\ hot = [a \in Aircraft |-> None] /\ version = [a \in Aircraft |-> 0] /\ due = {}
  /\ Feed!Init
  /\ bounds \in Viewports \cup {{}} /\ moving = FALSE /\ loaded = FALSE /\ moves = 0
  /\ view = {} /\ reloads = {} /\ made = 0 /\ current = 0
  /\ flights = [a \in Aircraft |-> None] /\ selected = None /\ frame = {}
  /\ fromREST = {} /\ pickedLate = FALSE

Inside(box) == {a \in Aircraft : hot[a] # None /\ hot[a].cell \in box}

-----------------------------------------------------------------------------
(* The normalizer and Redis.  A request remembers who stays hot and inside *)
(* its box from its start.                                                 *)

Watch == reloads' = {[r EXCEPT !.steady = @ \cap Inside(r.box)'] : r \in reloads}

WriteState(a) ==
  /\ version[a] < MaxVersion
  /\ version' = [version EXCEPT ![a] = @ + 1]
  /\ \E cell \in Cells :
       hot' = [hot EXCEPT ![a] = [icao24 |-> a, cell |-> cell, version |-> version'[a]]]
  /\ due' = due \cup {a}
  /\ Watch
  /\ UNCHANGED <<feedVars, mapVars, made, storeVars>>

Publish(a) ==
  /\ a \in due /\ due' = due \ {a} /\ Len(log) < MaxLog
  /\ Feed!Publish(hot[a])
  /\ UNCHANGED <<hot, version, mapVars, reloads, made, storeVars>>

(* The message is on the stream, and the normalizer does not know: the     *)
(* next cycle publishes the state once more.                               *)
PublishFailed(a) ==
  /\ a \in due /\ Len(log) < MaxLog
  /\ Feed!Publish(hot[a])
  /\ UNCHANGED <<hot, version, due, mapVars, reloads, made, storeVars>>

(* The hash's TTL, long after its publication was done or has failed for   *)
(* good; the geo set keeps the member until it is pruned.                  *)
Expire(a) ==
  /\ hot[a] # None
  /\ hot' = [hot EXCEPT ![a] = None] /\ due' = due \ {a}
  /\ Watch
  /\ UNCHANGED <<version, feedVars, mapVars, made, storeVars>>

-----------------------------------------------------------------------------
(* GET /flights. *)

Step(r, changed) == reloads' = (reloads \ {r}) \cup {changed}

(* bboxCandidates: a circle around the box, or the whole geo set. *)
bboxCandidates(r) ==
  /\ r.pc = "lookup"
  /\ \E found \in SUBSET Aircraft :
       Inside(r.box) \subseteq found /\ Step(r, [r EXCEPT !.pc = "read", !.todo = found])

(* Mutant: what the index found is not checked against the box. *)
ContainsAny(r, s) == TRUE

Contains(r, s) == s.cell \in r.box

(* QueryFlightsByBBox: one read at a time; redis.Nil is skipped. *)
ReadFlightState(r) ==
  /\ r.pc = "read"
  /\ \E a \in r.todo :
       Step(r, [r EXCEPT !.todo = @ \ {a},
                         !.states = IF hot[a] # None /\ Contains(r, hot[a])
                                    THEN @ \cup {hot[a]} ELSE @])

(* listFlights: the list, or 500 once a call has failed. *)
Respond(r) ==
  \/ r.pc = "read" /\ r.todo = {} /\ Step(r, [r EXCEPT !.pc = "ok"])
  \/ r.pc \in {"lookup", "read"} /\ Step(r, [r EXCEPT !.pc = "failed"])

ServeReload ==
  /\ \E r \in reloads : bboxCandidates(r) \/ ReadFlightState(r) \/ Respond(r)
  /\ UNCHANGED <<hot, version, due, feedVars, mapVars, made, storeVars>>

-----------------------------------------------------------------------------
(* The store. *)

Tracked(fs) == {a \in Aircraft : fs[a] # None}

(* Mutant: a replaced store keeps the selection. *)
SelectionKept(fs) == selected

SelectionAmong(fs) == IF selected \in Tracked(fs) THEN selected ELSE None

upsertFlight(s) ==
  /\ flights' = [flights EXCEPT ![s.icao24] = s]
  /\ fromREST' = fromREST \ {s.icao24}
  /\ UNCHANGED <<selected, frame, pickedLate>>

setFlights(states) ==
  /\ flights' = [a \in Aircraft |->
       IF \E s \in states : s.icao24 = a THEN CHOOSE s \in states : s.icao24 = a ELSE None]
  /\ selected' = SelectionAmong(flights')
  /\ fromREST' = Tracked(flights')
  /\ UNCHANGED <<frame, pickedLate>>

retainWithinBBox(v) ==
  /\ flights' = [a \in Aircraft |->
       IF flights[a] # None /\ flights[a].cell \in v THEN flights[a] ELSE None]
  /\ selected' = SelectionAmong(flights')
  /\ fromREST' = fromREST \cap Tracked(flights')
  /\ UNCHANGED <<frame, pickedLate>>

-----------------------------------------------------------------------------
(* MapView. *)

(* Mutant: a new viewport leaves the reload of the previous one alone. *)
AbortNothing == UNCHANGED current

AbortReload == current' = 0

(* Without a box, nothing; the first call opens the socket, later ones     *)
(* tell it the new viewport.                                               *)
resubscribe ==
  \/ bounds = {} /\ UNCHANGED <<view, current, feedVars, storeVars>>
  \/ /\ bounds # {}
     /\ view' = bounds /\ Feed!Ask(Tab, Box(bounds))
     /\ IF view = {} THEN UNCHANGED storeVars ELSE retainWithinBBox(bounds)
     /\ AbortReload

(* A drag, a zoom or an easing; no handler runs before it has ended. *)
Move ==
  /\ moves < MaxMoves /\ moves' = moves + 1 /\ moving' = TRUE
  /\ bounds' \in Viewports \cup {{}}
  /\ UNCHANGED <<hot, version, due, feedVars, loaded, view, current, reloads, made, storeVars>>

MoveEnd ==
  /\ moving /\ moving' = FALSE /\ resubscribe
  /\ UNCHANGED <<hot, version, due, bounds, loaded, moves, reloads, made>>

(* The style may be loaded in the middle of an easing, or after it. *)
Load ==
  /\ ~loaded /\ loaded' = TRUE /\ resubscribe
  /\ UNCHANGED <<hot, version, due, bounds, moving, moves, reloads, made>>

OnFlightUpdate ==
  /\ \E s \in DOMAIN log : Feed!Hand(Tab, s) /\ upsertFlight(log[s])
  /\ UNCHANGED <<hot, version, due, mapVars, reloads, made>>

(* reloadFromREST, on the socket's resume_failed: for the bounds of now,   *)
(* which those of a moving map are only for a moment.                      *)
OnResumeFailed ==
  /\ view # {} /\ bounds # {} /\ made < MaxReloads
  /\ made' = made + 1 /\ current' = made'
  /\ reloads' = reloads \cup
       {[id |-> made', pc |-> "lookup", box |-> bounds, todo |-> {}, states |-> {},
         steady |-> Inside(bounds), floor |-> version]}
  /\ UNCHANGED <<hot, version, due, feedVars, moveVars, view, storeVars>>

Arrived(r) == r \in reloads /\ r.pc \in {"ok", "failed"}

Land(r) ==
  /\ Arrived(r) /\ reloads' = reloads \ {r}
  /\ IF r.id = current /\ r.pc = "ok" THEN setFlights(r.states) ELSE UNCHANGED storeVars
  /\ UNCHANGED <<hot, version, due, feedVars, mapVars, made>>

(* The render loop draws what the store tracks. *)
Draw ==
  /\ frame # Tracked(flights) /\ frame' = Tracked(flights)
  /\ UNCHANGED <<hot, version, due, feedVars, mapVars, reloads, made, flights, selected,
                 fromREST, pickedLate>>

(* handleAircraftClick: on an aircraft of the frame, or on the empty map. *)
Click ==
  /\ \E a \in frame \cup {None} :
       selected' = a /\ pickedLate' = (a # None /\ flights[a] = None)
  /\ UNCHANGED <<hot, version, due, feedVars, mapVars, reloads, made, flights, frame,
                 fromREST>>

Next ==
  \/ \E a \in Aircraft : WriteState(a) \/ Publish(a) \/ PublishFailed(a) \/ Expire(a)
  \/ ServeReload
  \/ Move \/ MoveEnd \/ Load \/ OnFlightUpdate \/ OnResumeFailed \/ Draw \/ Click
  \/ \E r \in reloads : Land(r)

Spec == Init /\ [][Next]_vars

-----------------------------------------------------------------------------
(* The feed alone never takes an aircraft back to an earlier state: only a *)
(* snapshot does that, by landing after newer updates, or the first update *)
(* after it, by having been on its way longer than the snapshot.           *)
BackOnlyAroundReload ==
  [][\A a \in Aircraft :
       flights[a] # None /\ flights'[a] # None /\ flights'[a].version < flights[a].version
       => recv' = recv \/ a \in fromREST]_vars

(* A snapshot that replaces the store is the one asked for last.  While    *)
(* the map rests, with bounds that make a box, it is for those bounds, and *)
(* they are the ones subscribed with; a reload made in the middle of a     *)
(* movement is for the bounds of that moment, and may land before the map  *)
(* comes to rest elsewhere.  Every aircraft of the snapshot is inside its  *)
(* box, and every aircraft that was hot and inside from the request to the *)
(* answer is in it, with a state no older than the request, whatever was   *)
(* written, expired or moved between the reads.                            *)
ReloadServesTheView ==
  [][\A r \in reloads :
       r \notin reloads' /\ Land(r) /\ flights' # flights
       => /\ r.id = made
          /\ ~moving /\ bounds # {} => r.box = bounds /\ view = bounds
          /\ \A a \in Tracked(flights') : flights'[a].cell \in r.box
          /\ \A a \in r.steady : flights'[a] # None /\ flights'[a].version >= r.floor[a]]_vars

(* The drawer is never stuck on an aircraft the map no longer tracks:      *)
(* through movements and snapshots the selection is of a tracked aircraft, *)
(* unless it was clicked in a frame drawn before the aircraft went.        *)
SelectionIsTracked ==
  selected # None /\ ~pickedLate => flights[selected] # None

-----------------------------------------------------------------------------
(***************************************************************************)
(* The inductive invariant behind them.                                    *)
(***************************************************************************)

Requests ==
  [id : Nat \ {0}, pc : {"lookup", "read", "ok", "failed"}, box : Viewports,
   todo : SUBSET Aircraft, states : SUBSET States, steady : SUBSET Aircraft,
   floor : [Aircraft -> Nat]]

FeedTypeOK ==
  /\ log \in Seq(States)
  /\ asked \in [{Tab} -> SUBSET {Box(v) : v \in Viewports}] /\ recv \in [{Tab} -> Seq(Nat)]
StateTypeOK ==
  /\ hot \in [Aircraft -> States \cup {None}] /\ version \in [Aircraft -> Nat]
  /\ due \subseteq Aircraft
MapTypeOK ==
  /\ bounds \in Viewports \cup {{}} /\ moving \in BOOLEAN /\ view \in Viewports \cup {{}}
  /\ reloads \subseteq Requests /\ made \in Nat /\ current \in {0, made}
  /\ flights \in [Aircraft -> States \cup {None}] /\ selected \in Aircraft \cup {None}
  /\ frame \subseteq Aircraft /\ fromREST \subseteq Aircraft
TypeOK == FeedTypeOK /\ StateTypeOK /\ MapTypeOK

(* What Redis holds of an aircraft is the last state written, and is there *)
(* while it is due.                                                        *)
HotIsLast ==
  \A a \in Aircraft :
    /\ a \in due => hot[a] # None
    /\ hot[a] # None => hot[a].icao24 = a /\ hot[a].version = version[a]

(* The stream tells the states of an aircraft in the order they were       *)
(* written.                                                                *)
LogInOrder ==
  \A i \in DOMAIN log :
    /\ log[i].version <= version[log[i].icao24]
    /\ \A j \in DOMAIN log :
         i <= j /\ log[i].icao24 = log[j].icao24 => log[i].version <= log[j].version

(* What the store holds and no snapshot brought, the feed did.             *)
StoreIsFed ==
  /\ \A k \in DOMAIN recv[Tab] : recv[Tab][k] \in DOMAIN log
  /\ \A a \in Aircraft : flights[a] # None =>
       /\ flights[a].icao24 = a
       /\ a \notin fromREST =>
            \E k \in DOMAIN recv[Tab] : flights[a] = log[recv[Tab][k]]

(* What a reload has read is inside its box and no older than its start;   *)
(* who stayed hot and inside is read or still to be read; and the one that *)
(* is not aborted is for the bounds the map rests with.  No socket, no      *)
(* reload.                                                                 *)
ReadSoFar(r) ==
  /\ \A s \in r.states : s.cell \in r.box /\ r.floor[s.icao24] <= s.version
  /\ \A a \in Aircraft : r.floor[a] <= version[a]
  /\ r.steady \subseteq Inside(r.box)
  /\ r.pc \in {"read", "ok"} =>
       \A a \in r.steady : a \in r.todo \/ \E s \in r.states : s.icao24 = a
  /\ r.pc = "ok" => r.todo = {}
  /\ r.id <= made /\ view # {}
  /\ r.id = current => r.box = bounds \/ moving \/ bounds = {}
ReloadsReadOn == \A r \in reloads : ReadSoFar(r)

(* The map rests with the bounds it has subscribed with. *)
ViewFollows == view # {} /\ ~moving /\ bounds # {} => view = bounds

MapInv ==
  /\ TypeOK /\ HotIsLast /\ LogInOrder /\ StoreIsFed /\ ReloadsReadOn /\ ViewFollows
  /\ SelectionIsTracked
=============================================================================
