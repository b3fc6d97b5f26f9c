# Sky Radar in TLA+

Specifications of the Sky Radar pipeline, checked with TLC and, where a result matters
for every size of the system, proved with TLAPS. Paths below are relative to `src/`.

Check a module with `tlc -config WSGatewayCore.cfg MCWSGateway`, a proof with
`tlapm WSGatewayProofs.tla`. `PROJECT.json` lists every run, the source lines behind
every definition, the hazards with the properties that cover them, and for every
property a mutant of the model that breaks it.

## 1. The system

Three adapters poll public ADS-B feeds and write raw reports to Redis. The normalizer
merges them per aircraft every 15 s into the hot state (Redis) and a stream of updates
(JetStream). The event engine, the Postgres writer and the API gateway read the stream;
the gateway serves REST and WebSocket to the browser map.

```
 adapters --raw:{provider}:{icao24}--> Redis --SCAN/MGET--> normalizer
                                         ^                     | flight:{icao24}, flights:geo
                                         +---------------------+
                                                               | FLIGHTS_UPDATES (30 min)
            +--------------------------------------------------+-------------+
            v                                v                               v
       event engine                    Postgres writer                  API gateway
            | EVENTS_DETECTED               ^   |                    live tail -> hub
            +-------------------------------+   v                            | WebSocket
                                             Postgres <--- REST ---  ...     v
                                                                        browser map
```

### Inventory

| Component | State | Operations | Talks to | What makes it correct |
|---|---|---|---|---|
| Adapters (`cmd/adapter-*`, `internal/sourceadapter`) | backoff counter, cached OAuth token | poll, retry, write | provider HTTP, Redis raw entries | one entry per provider and aircraft, newest wins; delays bounded; no expired token |
| Raw state (`internal/redisutil/rawstate.go`) | `raw:{provider}:{icao24}` with TTL | write, scan | adapters, normalizer | a scan never invents a report |
| Normalizer (`cmd/normalizer`) | `lastPublished`, the cycle | scan, merge, persist, publish, prune | Redis, JetStream | stream, hot state and dedup map agree after any failure; no redundant messages; the merge does not depend on order |
| Hot state (`internal/redisutil/flightstate.go`) | `flight:{icao24}` with TTL, `flights:geo` | write, read, box query, prune | normalizer, REST | the index covers every hash it accepted the position of; a vanished aircraft leaves it |
| Update stream (`internal/natsutil`) | FLIGHTS_UPDATES, 30 minutes | publish, live tail, resume reader, replay reader, durable consumers | everyone | sequences are dense and ordered |
| WebSocket gateway (`cmd/apigateway/ws_*.go`) | hub, one bounded buffer and one viewport per client, high-water mark | handshake, resume replay, drain, viewport updates | stream, browser | nothing twice, nothing out of order, nothing lost unnoticed, nothing outside the viewport |
| FlightSocket (`web/src/api/ws.ts`) | `lastSeq`, viewport, status | connect, handle messages, reconnect, pan, close | gateway | the resume point only advances |
| Live map (`web/src/store`, `MapView.tsx`) | flights by aircraft, pending reload | upsert, snapshot, retain, select, stale sweep | FlightSocket, REST | a state goes back to an older one only around a reload; once the map rests, a reload that lands is for what it shows; what is selected is tracked |
| Event engine (`cmd/eventengine`) | baselines of five detectors, zones, watchlist | observe, sweep, evict, refresh | stream, Postgres, EVENTS_DETECTED | one event per real transition |
| Durable consumers (`internal/natsutil/*subscriber.go`) | delivery counts | ack, nak, term | streams | at least once, up to the give-up limit |
| Postgres writer (`cmd/pgstorewriter`, `internal/pgstorewriter`) | `lastSeen` per aircraft | gate, insert, roll back, evict | stream, Postgres | at most one sample per interval, events exactly once |
| Postgres store (`internal/pgstore`) | tables, migrations | migrate, insert, query | several services | each migration applied once |
| REST (`cmd/apigateway`) | none of its own | flights, zones, watchlist, events, replay | Redis, Postgres, stream | replay joins history and stream in the order of time |
| Auth and rate limit (`auth.go`, `ratelimit.go`) | token buckets in Redis | consume, refill, expire | REST | requests in a window are bounded |
| Replay player (`web/src/replay`, `useReplayStore.ts`) | window, scrub head | load, scrub, play, exit | REST | the head stays inside the window |
| Automation (`automation`) | a Temporal workflow | next task, PR, review, CI, merge | GitHub | merge only after approval, on a list of checks that all passed |

Geometry, icon classification, telemetry, health, deployment, load generators and map
rendering keep no protocol state; `PROJECT.json` says so for each.

### Where it is hard

* *Interleaving*: a client is registered with the hub before the head of the stream is
  read, so live updates, replay and acknowledgement overlap; a pan may arrive during the
  handshake; a cycle's writes and publishes run 128 at a time; the eviction loops of two
  services run between a reservation and the call it is for; users pan, click and leave
  replay while answers are on their way.
* *Retention*: the stream forgets messages between a check and the fetch that relied on it,
  and the live tail itself may be overtaken. The replay joins two stores that both move.
* *Partial failure*: each Redis, NATS or Postgres call may fail with or without having taken
  effect, and so may an activity of the pipeline. A transaction of Redis may do a part of what it holds.
* *Foreign views*: GitHub shows a pull request's head, its checks and its reviews later than they
  come about, and checks one by one.
* *Redelivery*: what was not acknowledged comes again, behind newer messages.
* *Bounds*: 64 updates per client buffer, 20000 messages per resume, 10 deliveries per event.
* *Time*: keys and tokens expire between two calls of one operation; three clocks are compared
  (provider, stream, wall); the freshness tie window is not transitive.
* *Crash and restart*: the dedup map, the hub, the live tail, the detectors' baselines and the
  sampling gate are in memory only.

## 2. The plan

In order of importance. All of it is done but for the last item.

1. `WSGateway`: stream, hub, gateway handler, FlightSocket.
2. `Precedence`, `PickWinner`: the merge rule and the loop that computes it.
3. `Normalizer` (extends `Precedence`): the merge cycle.
4. `EventEngine`: the durable consumer of the updates, five detectors, sweep, refresh.
5. `OrderedFeed`: what a browser tab is promised, implemented by `WSGateway`.
6. `PgWriter`: the sampling gate and the events' consumer, with redelivery and restarts.
7. `Replay` (extends `PgWriter`): REST replay over what the writer stored and the stream
   still holds, and the player in the browser.
8. `LiveMap` (uses `OrderedFeed`): the browser's store, pans and REST reloads over Redis.
9. `SourceAdapter`: poll loop, backoff, token, raw entries.
10. `TaskPipeline`: the development workflow.
11. Proofs: types and delivery of the gateway, the refinement of the feed, and that no update goes
    missing; the loop of `pickWinner`; the merge cycle's agreement of hot state, index, dedup map
    and stream, and the bound on its regress; the event engine's types, acknowledgement, stale
    signals, crossings and baselines; the sampling gate and the events' consumer; the replay
    player, and the samples of a replay; the live map, its selection and its reloads; the token's
    margin and the backoff's limits; the development workflow.
12. Left: an abstract last-value register per aircraft for the normalizer, as what `LiveMap` takes its
    hot state and stream to be; the token bucket of the rate limiter.

How the modules depend on each other: `Normalizer` and `PickWinner` extend `Precedence`;
`Replay` extends `PgWriter`, whose steps are its environment; `WSGateway` and `LiveMap` both
instantiate `OrderedFeed`, the first as what it implements, the second as what it is fed by.
`RECURSIVE` operators are kept out of all of them, since proofs need them without.

## 3. The modules

### WSGateway

The stream is the sequence `log` of everything published and `first`, the oldest message
retained; `tail` is how far the gateway's live tail has got. A position is abstracted to a
map cell and a bounding box to a set of cells. One connection is the handler's progress
`pc`, the `wsClient` (`bbox`, `send`), the locals of `handshake` and `replayResume` (`head`,
`todo`, `delivered`), and two FIFO channels, `down` and `up`. The client is FlightSocket's
`lastSeq`, `view` and `status`.

| Code | Actions |
|---|---|
| `PublishFlightState`, `MaxAge` | `Publish`, `AgeOut` |
| live tail and `hub.broadcast` | `Broadcast` |
| `handshake` | `Register`, `ReadHead`, `Acknowledge` |
| `replayResume` and the resume reader | `ResumeNothing`, `ResumeRefused`, `OpenReader`, `FetchBacklog`, `Replay`, `ReplayDone` |
| `serve`, `readViewportUpdates` | `Drain`, `SetBBox` |
| `FlightSocket` | `Connect`, `OnSubscribed`, `OnFlightUpdate`, `OnResumeFailed`, `UpdateBBox`, `Close` |
| any error, network, restart | `Drop`, `Restart` |

The steps of the handshake are separate because publishing, ageing and broadcasting go on
between them: the retention check (`OpenReader`) and the fetch are two requests. A fetch may
return any prefix of what is available, which covers the timeout. A drop ends both sides at
once; in the code the gateway may notice later, but the old `wsClient` is reachable from no
new connection, so what it still receives is never seen.

`recv`, `base`, `asked`, `overflow`, `skipped` and `aged` are history variables. They record what
the client was handed and why an update could be missing, and no action reads them.

### OrderedFeed

The abstract specification of the live path: a log, the viewports each client has subscribed
with, and the sequences handed to it. `Hand` passes on an update inside a viewport asked for
and newer than all before. It does not promise every update: that is what
`GapsAreAccountedFor` is about. `WSGateway!ImplementsFeed` states the refinement, with `log`,
`asked` and `recv` for the abstract variables; every step of hub, replay and wire stutters, and
`OnFlightUpdate` is `Hand`.

### Precedence, PickWinner

`Precedence` is the rule `Merge` documents, over the *set* of reports: near-ties of the newest
report, then position quality, recency, provider name. `PickWinner` is the two loops of
`pickWinner` over a *list*, one report per step.

### Normalizer

Time passes in ticks at any point of a cycle; raw entries and hashes expire with it. `Scan`
(SCAN) and `FetchAndMerge` (MGET and `MergeAll`) are two steps, `Persist` and `Publish` two per
aircraft, interleaved over the aircraft, and so are `FindExpired` and `RemoveExpired`. Each
call has a failing variant, in which its effect took place or not, and `Restart` may come
anywhere. The write is one MULTI/EXEC, which does not roll back: where GEOADD refuses the position, the
hash is written without an index entry (`StoreUnindexed`), and `indexed` in the hash tells, as history. A raw
entry may be unparseable. `copies`, `peak` and `partial` are history variables.

A report's `LastSeenUTC` is the tick it was polled at, and it expires by that tick; in the code
it may be a little older. `shouldPublish` is evaluated when the state is written and not when
the cycle starts: `lastPublished` does not change in between.

### EventEngine

Three goroutines interleave: the handler of the durable consumer, the sweep, and the refresh of
zones and watchlist entries. A detector call holds that detector's mutex and is one step; so
is each publication. What a publication may interleave with is the next event of the same call
(`out`), hence the handler's next call waits until `out` is empty (`At`).

| Code | Actions |
|---|---|
| `FlightStateSubscriber` | `Deliver`, `Redeliver`, `Take`, `Ack` |
| the detectors' `Observe`, in the handler's order | `ObserveStale`, `ObserveAltitude`, `ObserveSpeed`, `ObserveGeofence`, `ObserveWatchlist` |
| `PublishEvent` | `Publish`, `PublishFailed` |
| `runStaleSweepLoop` | `Sweep`, `PublishStale`, `EvictSpeed`, `EvictGeofence`, `EvictWatchlist` |
| `refreshZonesWatchlist` | `ReadZones`, `SetZones`, `ReadEntries`, `SetEntries` |
| the REST handlers of zones and watchlist | `createZone`, `deleteZone`, `createWatchlistEntry`, `deleteWatchlistEntry` |
| process, clock, normalizer | `Restart`, `Tick`, `PublishUpdate` |

A position is the set of zones around it. `LastSeenUTC` is the tick of publication or up to
`MaxLag` older, repeated or going backwards, as the normalizer may publish it. JetStream sends an
unacknowledged update again behind newer ones, when the engine has lost it or took too long
over it (`Held`); the latter counts as a fault. A failed publication may have reached the
stream, so from then on nothing is claimed of what subscribers were told (`told` is `None`) until the
next crossing. `sweptAt` is the sweep's `now`, which its evictions use after it has passed. Several
entries for one aircraft leave one of them in the map, whichever comes last in the iteration
of a Go map (`ByAircraft`). `handled`, `disordered`, `awaiting`, `told`, `announced` and `matchSeen`
are history variables.

### PgWriter

Two consumers in one process. `hpc` is how far the handler of FLIGHTS_UPDATES is with the update
at the head of `inbox`, `last` the entry its reservation replaced.

| Code | Actions |
|---|---|
| `FlightStateSubscriber` | `Deliver`, `Ack` |
| `HistoryWriter.Observe` | `Skip`, `Reserve`, `Insert`, `InsertFails` (with `RollBack`) |
| `runEvictionLoop` | `EvictBefore` |
| `EventSubscriber.Run`, `EventWriter` | `DeliverEvent`, `HandleEvent`, `HandleEventFails`, `AckEvent` |
| clock, normalizer, event engine, process | `Tick`, `PublishUpdate`, `PublishEvent`, `Restart` |

`Reserve` and `Insert` are two steps because the eviction loop takes the mutex in between. A failed
insert may have been committed, an acknowledgement may be lost, and `Restart` empties
`lastSeen`. A row of `history` carries, besides its key, which life of the process wrote it, whether the
writer was told so (`sure`) and whether it was handled so late that the entry before it may
have been evicted (`late`): these are history, and the table does not hold them.

### Replay

Extends `PgWriter`: its actions are the environment of the replay. `CollectHistory`, `OpenReader` and each
`Fetch` are steps of the gateway's handler, between which updates are published, stored and
expire. `Fetch` takes `remaining` down by what it decoded, as the code does, so that messages that
do not decode keep it above zero, and may return short. The browser is `StartReplay`, `Land`,
`Scrub`, `togglePlay` and `exit`; an answer that was aborted changes nothing. `computeFlightsAtTime`
is `Frame`. The bounding box, which drops samples without reordering them, is left out. The history query
orders by time only, so that rows of one instant come in any order: `CollectHistory` picks one. The
stream is read by position up to the last message there was when the backlog was counted.
`WindowsAssumption` and `ReplayConstants` name what the proofs assume of windows, row limit and batches. The invariants
at the end are those of the proofs, `SamplesInv` and `BacklogInv` among them.

### LiveMap

The live path is `OrderedFeed`; Redis is `hot`, written by `WriteState` before the state is published
and emptied by `Expire`, which may come before a publication that keeps failing has succeeded. `PublishFailed` is one whose
acknowledgement was lost: the message is on the stream, and the next cycle publishes the state
again. A reload is a record that goes through `bboxCandidates` (GEOSEARCH), one
`ReadFlightState` per candidate, `Respond` and `Land`. `bounds` is what `map.getBounds()` says, which `Move` changes
at any moment; `view` is what the tab has subscribed with. `Load` and `MoveEnd` run `resubscribe`, the whole
handler: nothing without a box, else the abort, the new viewport, and `retainWithinBBox` in the store. A reload
(`OnResumeFailed`) is for the bounds of the moment, in the middle of a movement too. `Draw` and `Click` are
apart, since a click picks from the frame drawn before. `fromREST` and `pickedLate` are history
variables; so are `steady` and `floor` of a reload. `MapInv`, at the end of the module, is the inductive invariant of the proofs.

### SourceAdapter

One adapter, with a token or without (`auth`). Requests and waits take time, everything else none
(`Due`); times are kept as what is left of them, by two clocks for the token: `tokenExpiry` the
adapter's, `valid` the provider's, which started when the token was issued. The ticker keeps one
tick that nobody waits for and drops others. `Throttled` is any 429 or 5xx and goes through `BackOff`;
`Refused` is any other failure and ends the poll; `Revoke` is the provider's. `Delay` doubles from the base up to
the maximum, and is the maximum where the doubling overflows. `PollIsBounded` is stated by a theorem only.

### TaskPipeline

`wf` is the activity the Temporal workflow is at. An activity may fail after it took effect and be retried or
end the run (`Attempt`), or fail without effect (`ActivityFails`); the starter may run the workflow again. On
disk are the markers, at GitHub the branches' heads, pull requests, lists of checks, and per pull request
one sequence of reviews and comments. `FetchReviewStatus` is `ListReviews`, then `AskForApproval` or `Decide`, which read
the comments later. The bot reviews commits in order and maybe late, or answers with a comment
that fires no webhook; webhooks may be lost. Tasks are the prompts in the natural order of their names, as numbers
(`LastTaskAssumption`), and `TasksInOrder`, stated by a theorem only, is about that order.

| Code | Actions |
|---|---|
| `GetNextTask`, `MarkComplete` | of the same names |
| `RunClaude`, `AddressFeedback`, `ContinueWork` | `RunClaude`, `AddressReview` and `AddressChecks`, `ContinueWork` |
| `CreatePR`, `MergePR` | of the same names |
| the wait for a signal or the timer | `WakeBySignal`, `WakeByTimer` |
| `FetchReviewStatus`, and what the workflow does with it | `ListReviews`, `AskForApproval`, `Decide` |
| `WaitForChecks` | `WaitForChecks`, once it finds nothing pending |
| activities and runs that fail, the starter | `Attempt`, `ActivityFails`, `StartAgain` |
| GitHub and the bot (external) | `BotReviews`, `BotApproves`, `HeadShown`, `ChecksStart`, `ChecksEnd` |

`ci` is what `gh pr checks` lists: each of `Checks` may be absent, pending, passed or failed, and `of` is the
commit whose checks they are. A pushed head is listed when GitHub's pull request has caught up with the branch
(`HeadShown`), and its checks register one at a time (`ChecksStart`), after others have ended too. `WaitForChecks`
goes on with what it finds: `green` records the list, and `merged` the head that `MergePR` then merges, as history;
so does `addressed` for the reviews that a pushed commit has addressed.

## 4. The runs

| Run | Shows | Bounds |
|---|---|---|
| `ws_core` | `TypeOK`, `NoDuplicateDelivery`, `GapsAreAccountedFor`, `ResumePointAdvances`, `EventuallyCaughtUp` | 4 messages, buffer 2, backlog 2, one viewport |
| `ws_viewports` | `ViewportsAgree`, and that the gateway implements `OrderedFeed` (`ImplementsFeed`), with pans and undecodable messages | 2 messages, 2 cells, 2 viewports, 1 pan in flight, buffer 1 |
| `pick_winner` | `ReturnsWinner` | all lists of up to 3 reports, 3 providers, 3 instants, 3 qualities, window 1 |
| `normalizer_core` | `TypeOK`, `GeoCoversHot`, `DedupTracksStream`, `NoRedundantPublish`, `PublishedWasPersisted`, `RegressBounded`, `EventuallyPublished`, `EventuallyPruned` | 1 aircraft, 2 providers, one of which may garble, 2 qualities, 4 instants, window 1, raw entries for 3 and hashes for 1 tick, 1 fault, which may be a refused index entry |
| `event_core` | `TypeOK`, `EventsTellContainment`, `AckedIsHandled`, `DeltaBaselines`, `StaleNeedsSighting` | 1 aircraft, 1 zone, 2 updates up to 1 tick late, 2 levels or none, 4 instants, 1 fault |
| `event_live` | `EventuallyHandled`, `EventuallyFlagged`, `EventuallyForgotten`, `EventuallyEffective` | 1 update, possibly undecodable, 1 zone, 2 entries, 2 edits, 3 instants, 1 fault |
| `pg_writer` | `OneRowPerInterval`, `SkipsOnlyAfterRow`, `EventsSettle` | 1 aircraft, 1 event, 2 updates, 6 instants, interval 2, eviction after 4, 2 deliveries per event, 2 lives, 1 fault |
| `replay` | `FrameIsLatest`, `StreamPartComplete`, `PlayerShowsWhatWasAsked`, `LoadingEnds` | 2 updates up to 1 tick late, one possibly undecodable, 3 instants, retention 1, window 2, batches of 1, 2 requests |
| `live_map` | `SelectionIsTracked`, `BackOnlyAroundReload`, `ReloadServesTheView` | 1 aircraft with 2 states, 2 cells, 2 viewports or a degenerate box, 1 movement, 2 messages, 2 reloads; symmetric in the cells |
| `task_pipeline` | `MergedWasReviewedAndListedGreen`, `FeedbackTakenUpOnce`, `PipelineFinishes` | 2 tasks, 2 checks, 2 waiting signals, 3 troubles of any kind: empty sessions, reviews with changes, all-clears, red checks, lists of an earlier head, failed activities, further runs |
| `source_adapter` | `TokenOutlivesRequest`, `DataComesBack` | 3 faults, 3 attempts, requests of 1 tick, tokens of 5 with a margin of 3, polls every 3 |
| `ws_drop_recoverable` | a comment of the hub is wrong (below) | 3 messages, buffer 1 |

Why the bounds suffice. Connections meet only in the hub, which never blocks on one of them,
so one client shows everything a connection can go through; the theorems hold for any number.
Four messages let a buffer of 2 overflow, a gap exceed the backlog of 2, and a replay reach
past the head, all in one behaviour. Aircraft meet only in the normalizer's barrier and its
dedup map, hence one aircraft in the run and any number in the theorems. Raw entries that
live for three ticks let a better report fall out of the window of one tick while it is still in
Redis; four instants let it expire. Three reports are the least for which near-tie is not transitive. The detectors and the sampling gate keep a row per
aircraft (and zone) and never compare two, so one of each shows what a row goes through. Two
updates, one of which may come again behind the other, are the least that brings an old state
back, and a silence of one tick with eviction after two lets an aircraft be flagged, evicted and
observed again within four instants. The stream's retention of 30 minutes lies beyond that
horizon: updates do not age out in `EventEngine`; they do in `PgWriter` and `Replay`. In `replay`, a
retention of 1 within a window of 2 puts the cutoff inside the window, and batches of 1
make every message a fetch of its own. In `live_map`, two reloads are the least of which one can be stale, and
two states of an aircraft the least that can be taken back. A movement between two viewports is enough for a
reload to be asked for in the middle of it and to land before it ends, or to be aborted by its end. In `task_pipeline`, three
troubles let two reviews that request changes be late, a red check be fixed and the list of the commit
before be taken for the fix's, or a session push twice; two checks let one register after the other has
passed; and two tasks show that nothing of the first is taken for the second's.
In `source_adapter`, three faults exhaust the attempts of one poll.

The bounds that are not the program's own are the constants marked "bound" in the modules: `MaxSeq`,
`MaxPans`, `MaxTime`, `Garblers`, `MaxFaults`, `Horizon`, `MaxLag`, `MaxUpdates`, `MaxEdits`, `MaxGarbled`, `MaxLives`, `MaxCalls`,
`MaxVersion`, `MaxLog`, `MaxMoves`, `MaxReloads`, `MaxSignals`, `MaxTroubles`. Deadlock is checked in `source_adapter`, whose adapter never
stops. Elsewhere every bound may be reached and the system then really stops.

### Fairness

`WSGateway!FairSpec` assumes that the live tail, the handler goroutines, the browser's event
loop and its reconnect timer keep running (weak fairness on each): goroutines and timers that
are enabled are scheduled, and `serve`'s `select` picks a waiting buffer. Nothing is assumed of
the network, the normalizer or the user, so `EventuallyCaughtUp` is conditional on a connection
that stays up. `Normalizer!FairSpec` assumes that the ticker keeps the loop going. `EventEngine!FairSpec`
assumes the same of the consumer's callback, the two tickers and the clock, and that JetStream
delivers, and redelivers what nobody holds: that is what an explicit-ack consumer without a
delivery limit does. `PgWriter!Fairness` assumes as much of the events' consumer, whose limit is part of the
model. `Replay!ReplayFairness` assumes that a handler's calls return within their timeouts and the browser's
fetch with them, `SourceAdapter!FairSpec` that a request is answered or times out and that time passes,
`TaskPipeline!FairSpec` that Temporal runs the workflow and fires its timer, that GitHub's pull request catches up with its branch, that the
bot gets to its head and answers when asked, and that check runs start and end; of webhooks nothing is assumed. Failures
need no fairness: a behaviour has finitely many.

### Where the code and its comments part

`ws_drop_recoverable` ends in a violation, and shows it: an update dropped on a full buffer is not
recovered by resuming (`cmd/apigateway/ws_hub.go:34` says it is), since the client's resume point moves past it with the
next update it does get.

The models follow the code in these as well, and the properties are stated so as to hold of it:

* A resume whose fetch came back short, or whose messages aged out after the retention check, is
  acknowledged without `resume_failed`, which `cmd/apigateway/ws_protocol.go:56` would have the client rely on. These two, the
  drops above and a live tail overtaken by retention are the causes that `GapsAreAccountedFor` excuses;
  the property says there is no other.
* `cmd/normalizer/main.go:213` takes equal `LastSeenUTC` for an unchanged state, but type, category, military flag
  and sources come from all reports, and a change of these alone is not published.
* `docs/architecture/data-model.md:73` promises a `watchlist_match` at the first observation after an entry is added. `matched`
  is kept by aircraft: an entry created again, or by a second user, for an aircraft still in view matches nothing.
* `cmd/apigateway/replay.go:119` calls the two portions of a replay disjoint. Rows carry `LastSeenUTC`, stream
  samples their publish time: an update seen before the cutoff and published after it may be in both. The order of time survives (`FrameIsLatest`).
* `automation/workflow/pipeline.go:74` wants a session that committed nothing to be resumed "instead of failing the whole
  pipeline"; `automation/worker/main.go` registers every activity but that one, `ContinueWork`. No attempt of it can run, and after
  fourteen hours it fails the workflow (`ContinueWork` in the model).
* A run that fails between merging and marking leaves a task that the next run takes up, finds merged,
  and waits on for ever: `OnMergedPR`, the exception of `PipelineFinishes`.
* `Retry` gives up on the last attempt at once, whatever `Retry-After` asked, and the next poll, one
  interval later, does not know of it. The attempt counter outlives a failed poll.
* OpenSky's raw entries live for 60 s and are polled every 30 s: one failed poll and a slow one let
  an aircraft go in between. `DataComesBack` promises no more than its return.
* On an empty stream the ack's sequence, 0, is left out of the JSON (`Acknowledge`), and the client has
  no baseline to resume from.
* The event engine and the writer's eviction compare the wall clock with what was handled. One that lags behind the
  stream announces aircraft as silent whose updates are still waiting; the other opens the sampling
  gate early, which `OneRowPerInterval` excepts (`late`).
* A pan aborts the reload after a failed resume, and nothing starts it again: the map shows
  what the feed brings from then on.
* A reload is for `map.getBounds()` of the moment the resume failed (`web/src/map/MapView.tsx:271`), which a drag or the easing to
  the visitor's location (`:261`) moves on; the abort comes with moveend (`:292`). Its answer may land before that and fill the store for
  bounds that are neither those subscribed with nor those the map comes to rest with, and `retainWithinBBox` then only takes
  away. So `ReloadServesTheView` speaks of the bounds shown while the map rests, and of the box asked for otherwise.
* `WriteFlightState` (`internal/redisutil/flightstate.go:61`) is one transaction, but a command refused in it does not undo the others: where
  GEOADD refuses a latitude beyond 85.05 degrees, the hash is written, the index has no entry or an older one, the cycle
  counts a failure and publishes nothing, and so in every cycle after it. `GeoCoversHot` excepts such a hash (`indexed`).
* `automation/workflow/pipeline.go:133` says "Poll until every check is green". `WaitForChecks` (`automation/activities/github.go:274`) goes on as soon as no check
  *listed* is pending, and is content if none listed has failed or was cancelled. Between the end of `backend` and the
  registration of `container-build`, which needs it (`.github/workflows/ci.yml:69`), the list is not complete; right after a fix is pushed it may still be
  that of the commit before. Either way a head may be merged whose own checks have not all run. `MergedWasReviewedAndListedGreen`
  says what is left: the list the workflow went on with had something in it, all of it passed, and was of the approved commit or a
  later one. Nor is a fix of red checks reviewed again.
* `automation/activities/github.go:118` has the head check keep "the same already-fixed feedback" from a second `AddressFeedback`. It does, for a new
  activity (`FeedbackTakenUpOnce`); but an activity runs at least once, with unbounded attempts (`automation/workflow/pipeline.go:37`): an attempt that pushed
  and then failed is followed by another with the same feedback, which may push again. The same goes for the feedback of checks.

## 5. The proofs

All from the named assumptions on the constants in the modules, and from nothing else. Where an
inductive invariant is needed it is defined at the end of the component's own module, as a
conjunction of named parts. TLC found each of them to hold, under the configuration of the component's run, before it was
proved.

* `WSGatewayProofs!TypeCorrect`: `Spec => []TypeOK`, one step per action. The conjunct that carries
  weight is that a handler that is resuming has a sequence to resume from.
* `WSGatewayProofs!DeliveryCorrect`, `NoDuplicates`, `ResumePointOnlyAdvances`. That `recv` increases is
  not inductive: one must know of everything still on its way that it is ahead of what the
  client has handled. `DeliveryInv` says so for each place an update can be: on the wire
  (`InOrder`, `WireAhead`), in the replay (`ReplayAhead`), and, through the high-water mark, in the
  buffer (`HighWaterAhead`, since `Drain` sends only what is above the mark). `ResumeAhead` carries the
  client's point over a reconnection, where `Quiet` says nothing of the old connection is left.
  `WithinStream` bounds all of it by the log, so that the head snapshot is ahead. The proof goes
  action by action over one client; `OthersUntouched` is the lemma for the clients an action leaves
  alone, `Frame` the one for the actions on the stream.
* `PickWinnerProofs`: `LoopInvariant`, then `PickWinnerCorrect` and `PickWinnerIgnoresOrder`. The invariant is that
  `maxTime` is the newest report and `best` an unbeaten candidate among those looked at. A new
  candidate that beats `best` beats whatever `best` was unbeaten by, as `Beats` is transitive.
  With one report per provider `Beats` is total, so that the winner is unique.
* `NormalizerProofs`: `HotIsIndexed`, `DedupIsHonest`, `PublishesOnce`, `WritesBeforePublishing`, all from
  `CycleInvariant`. During a cycle some aircraft are recorded in the map of
  the last cycle and some already in the next one's: `Confirmed` picks the one that speaks for it, `DedupInv` says the stream ends on
  it, and that a state waiting to be published is one `Confirmed` does not cover, hence never a
  second copy. `GeoCoversHot` leaves out the hashes that GEOADD refused to index; `HotInv` adds to it that what pruning is about to remove is still absent
  from the hot state, which holds because the loop writes and prunes in turn. These need
  nothing of the merge rule, so they hold for any. `RegressIsBounded` does: the winner is a near-tie
  of the newest report. `NoRegressInv` adds that the newest report still in Redis is as late as anything published of the
  aircraft: expiry takes the oldest entries first, and a poll only overwrites an entry by a newer one. When that
  report cannot be parsed the aircraft is in `partial`, which the property excepts.
  `WinnerExists` is what `TypeCorrect` needs of `Merge`: a set of reports always has a winner, found as
  the first provider among the freshest of the best.
* `EventEngineProofs`: `TypeCorrect`, `EngineInvariant`, and from it `NothingLostToCrashes`,
  `CrossingsTellContainment`, `NoSecondStaleSignal` and `BaselinesAreLatest`. `AckedIsHandled` is inductive once it says of the
  handler about to acknowledge that its update is handled. `StaleInv` is what makes the second stale
  signal impossible: an aircraft that is tracked and not flagged was observed since its last
  one, for the sweep that evicts the flag evicts the time with it. `FenceInv` adds to
  `EventsTellContainment` that at most one crossing per aircraft and zone is on its way and that it
  says where the aircraft now is, since the handler publishes all events of a call before the
  next call. `GeofenceStep` and `TellStep` are the two steps that carry it. `BaselineInv` ties the two baselines to the log:
  in order of arrival the handler is at the newest update delivered, so that a detector that has not
  run yet knows the reading before it (`Before`), and one that has run knows this one.
* `WSGatewayProofs!FeedCorrect`, `NoPanIsLost`, `ImplementsOrderedFeed`. `AllFeedInv` says where the updates of a client may be, and
  that each is inside a viewport it asked for: `Filtered` for what the hub filters by and the pans on their
  way, `Filled` for buffer, replay and wire, `Emptied` for a closed connection. With `NoDuplicateDelivery`'s
  invariant it makes `OnFlightUpdate` a step of the abstract feed; `Publish`, and each way to
  subscribe, maps to its namesake, every other action to a stutter (`ServeIsAside`).
* `WSGatewayProofs!GatewayKeepsPromise`: what `OrderedFeed` promises (`Promise`) is proved of its own steps, and holds of the
  gateway and the browser's socket because they take no others. It says of the whole history of a tab what no
  single connection knows.
* `WSGatewayProofs!NoUpdateGoesMissing`. The property speaks of the resume point only; `AllGapInv` says of every update a
  client is due where it is. From where the connection's gapless part begins (`Starts`) up to the
  head snapshot, or what the hub has passed on since, it is accounted for, on the wire, or still to be
  replayed (`Promised`); after the head and up to the tail it was passed on, is in the buffer, or is
  accounted for (`Buffered`), because the client is in the hub before the head is read. `Ordered` is the order of the
  messages on the wire, without which an ack could move the resume point past an update behind
  it. `Resumed` is the property itself.
* `PgWriterProofs`: `TypeCorrect`, `SamplingCorrect`, `SamplesAreApart`, `SkippedForARow`, `EventsAreDurable`. `OneRowPerInterval` is about rows, and says
  nothing of the entry that is to keep the next one away. `SamplingInv` adds that every row that counts is
  remembered: by the entry, or while an insert is under way by the entry it replaced (`Remembered`), unless it
  is so old that eviction may have taken it; that a reservation is still there or was evicted (`Reserved`), so that
  `RollBack` restores the right entry; and that entries are times of rows (`Backed`).
* `PgWriterProofs!PlayerIsCurrent`, about `Replay`, with the writer as its environment (`WriterRunsOn`). `ReplayInv`: only a player in
  replay mode has a request that may land (`call`), it is the last one made, and its window ends after
  it starts, which the gateway insists on (`WindowsAssumption`). Without that, playback of an empty window would begin at
  its end.
* `PgWriterProofs!SamplesAscend`, `FramesAreLatest`. `SamplesInv` follows the samples from the two stores to the player: the stream is in
  the order of its publish times; what the history gave lies at or before the instant the stream is read from
  (`StreamFrom`), and every sample a fetch has added is of a message before the reader's position (`Behind`). So what comes
  next is never earlier than what is there, and a sequence to which only later samples are appended ascends. Rows that an
  `ORDER BY` returns are described as any sequence that has every row of a set once and ascends, so that no induction over sorting is needed.
* `PgWriterProofs!StreamPartIsComplete`. `BacklogInv`: below the reader's position every update wanted has been collected, and `remaining` is no less
  than the number of messages still there between the position and the last one counted (`Backlog`). Expiry shrinks the second, a fetch
  takes no more off the first than off the second, and so `remaining` at zero leaves nothing to collect.
* `LiveMapProofs`: `DrawerFollowsTheMap`, `FeedNeverGoesBack`, `ReloadIsCurrent`, all from `MapCorrect`; `MapUsesTheFeed` shows that the map takes only
  `OrderedFeed`'s steps, so that what `WSGateway` implements is what it relies on. `MapInv`: what is hot is the
  last state written (`HotIsLast`) and the log has each aircraft's states in order (`LogInOrder`), hence an update handed
  on later is newer; an aircraft not in `fromREST` shows a state the feed handed over (`StoreIsFed`); and a reload has
  read, or will still read, every aircraft that stayed hot and inside, nothing it read is older than
  its start, and the one that may be aborted is for the bounds the map rests with, if it rests (`ReadSoFar`), which are
  the ones subscribed with (`ViewFollows`).
* `SourceAdapterProofs`: `TokensOutliveRequests`. A cached token has at least the margin left beyond its expiry, less the time
  its own answer took, and a token in use more than what is left of the request's timeout (`TokenInv`). It needs twice
  the timeout to be less than the margin and than the token's life (`TokenAssumption`): 10 s, 30 s and 30 min in the code.
* `SourceAdapterProofs!PollsAreBounded`. A poll backs off only with an attempt left (`PollInv`), so that `attempt` stays below the limit; the delay
  is at most `Max`, however far the counter of failures has got, since what overflows is capped as well.
* `TaskPipelineProofs`: `PipelineCorrect`, and from it `MergedIsReviewedAndListedGreen` and `FeedbackIsTakenUpOnce`. `PipelineInv` knows of every branch that its head
  is its last commit (`HeadIsLast`), that the list of checks is of one of its commits (`ListIsOfBranch`), and that verdicts are about commits the pull
  request was known by (`VerdictsAreOnCommits`); of the workflow, that past the review loop a commit not later than the list's was approved and only fixes of
  red checks came after (`ApprovedBut`), and that what it went on with is a list of that kind (`GreenAt`); and that whatever was addressed is about a
  commit behind the head (`AddressedInv`), which is why the head's reviews alone are read. `TasksAreInOrder` rests on `OrderInv`: a task that
  has been begun has all before it marked, and what is marked is merged.

### Only model-checked

Liveness, which is beyond the prover under fairness: `EventuallyCaughtUp`, `EventuallyPublished`, `EventuallyPruned`,
`EventuallyHandled`, `EventuallyFlagged`, `EventuallyForgotten`, `EventuallyEffective`, `EventsSettle`, `LoadingEnds`,
`PipelineFinishes`, `DataComesBack`. Every safety property of a passing run is stated by a theorem.

## 6. What is not modelled

* The token bucket and the bearer token (`auth.go`, `ratelimit.go`): floating-point arithmetic in one atomic Lua script.
* `Migrate`: one transaction under an advisory lock of Postgres.
* Payload formats and unit conversions of the providers: a report parses or it does not.
* Floating-point geometry: a viewport is a set of cells, a position the set of zones around it, and no box crosses
  the antimeridian.
* In the browser: the timer that marks flights stale, which changes no set of flights; replay mode, in
  which clicks select nothing; interpolation and drawing.
* In the replay: the bounding box, validation of the request, `pause`, which nothing calls.
* The delays of reconnection and redelivery: any delay is possible.
* Which positions GEOADD refuses: any write may be refused (`StoreUnindexed`), at most `MaxFaults` of them in a run. A position it
  always refuses, beyond 85.05 degrees of latitude, fails in every cycle and is never published: `EventuallyPublished`
  holds because failures end, and says nothing of an aircraft that stays there. `LiveMap` leaves it out too, whose boxes are of
  a Web Mercator map, which ends at that latitude.
* Of a pull request's checks, that one is cancelled (a failure to the code), skipped (not one), or run again.
* A second normalizer: the deployment runs one, and pruning relies on it.
* Validation, sessions and read-only handlers of the REST API, icon classification, telemetry, health, deployment and
  load generators keep no protocol state; `PROJECT.json` says so for each.
