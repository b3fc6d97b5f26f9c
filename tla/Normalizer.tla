----------------------------- MODULE Normalizer -----------------------------
(***************************************************************************)
(* The normalizer's merge cycle against Redis and JetStream: scan the raw  *)
(* reports the adapters wrote, merge them per aircraft, write each merged  *)
(* state to the hot state and then publish it unless it is unchanged, and  *)
(* prune the geo index.                                                    *)
(*                                                                         *)
(* cmd/normalizer/main.go, merge.go; internal/redisutil/rawstate.go,       *)
(* flightstate.go; internal/natsutil/publisher.go.                         *)
(*                                                                         *)
(* Time advances in ticks, at any point of a cycle; Redis keys expire with *)
(* it.  Every call to Redis or NATS may fail, and a write or a publish     *)
(* that failed may have taken effect all the same, a write also in part.   *)
(* The normalizer may restart at any point; Redis and the stream keep what *)
(* they hold.                                                              *)
(***************************************************************************)
EXTENDS Precedence

CONSTANTS
  Aircraft,  \* icao24 addresses
  Shapes,    \* what the adapters report: quality and type metadata
  Absent,    \* no such key in Redis, or no message on the stream
  Never,     \* no entry in lastPublished
  RawTTL,    \* raw-state-ttl, in ticks
  HotTTL,    \* flightStateTTL, in ticks
  Garblers,  \* bound: the providers whose payloads may fail to parse
  MaxTime,   \* bound: the last tick
  MaxFaults  \* bound: failed calls and restarts in a behaviour

ASSUME ShapesAssumption ==
  Shapes \subseteq [quality : 0 .. 2, type : Types \cup {Unknown},
                    category : Categories \cup {Unknown}, military : BOOLEAN]
ASSUME NeverAssumption  == Never \notin Nat
ASSUME TimesAssumption  ==
  RawTTL \in Nat \ {0} /\ HotTTL \in Nat \ {0} /\ MaxTime \in Nat /\ MaxFaults \in Nat

VARIABLES
  now,
  raw,           \* the live raw:{provider}:{icao24} entries of an aircraft
  hot,           \* its flight:{icao24} hash; history: whether that write was indexed
  geo,           \* flights:geo
  stream,        \* the last FlightState of an aircraft on FLIGHTS_UPDATES
  pc,            \* where runMergeLoop is in its cycle
  keys,          \* the keys SCAN returned
  batch,         \* this cycle's states
  stage,         \* how far each state's persistAndPublish has got
  lastPublished,
  next,          \* the lastPublished of the next cycle, being built
  expired,       \* the geo members EXISTS found without a hash
  faults,
  copies,        \* history: messages in a row with this LastSeenUTC and no excuse
  peak,          \* history: the latest LastSeenUTC ever published
  partial        \* history: aircraft with a report this cycle could not parse

redisVars   == <<raw, hot, geo>>
cycleVars   == <<pc, keys, batch, stage, lastPublished, next, expired>>
historyVars == <<copies, peak, partial>>
vars == <<now, redisVars, stream, cycleVars, faults, historyVars>>

(* A raw entry: a report, and whether its payload parses (to the aircraft  *)
(* its key names).  What parseOpenSkyStateVector and parseReadsbAircraft    *)
(* make of the fields is left out, but for whether they refuse them.       *)
Entry == [report : Report, parses : BOOLEAN]
Parsed(entries) == {e.report : e \in {x \in entries : x.parses}}
Key(a, e) == <<a, e.report.provider>>

Init ==
  /\ now = 0
  /\ raw = [a \in Aircraft |-> {}]
  /\ hot = [a \in Aircraft |-> Absent]
  /\ geo = {}
  /\ stream = [a \in Aircraft |-> Absent]
  /\ pc = "idle"
  /\ keys = {}
  /\ batch = [a \in Aircraft |-> Absent]
  /\ stage = [a \in Aircraft |-> "done"]
  /\ lastPublished = [a \in Aircraft |-> Never]
  /\ next = [a \in Aircraft |-> Never]
  /\ expired = {}
  /\ faults = 0
  /\ copies = [a \in Aircraft |-> 0]
  /\ peak = [a \in Aircraft |-> 0]
  /\ partial = {}

-----------------------------------------------------------------------------
(***************************************************************************)
(* Time, and the adapters.                                                 *)
(***************************************************************************)

(* Keys expire a TTL after they were last written. *)
Tick ==
  /\ now < MaxTime
  /\ now' = now + 1
  /\ raw' = [a \in Aircraft |-> {e \in raw[a] : now' - e.report.seen < RawTTL}]
  /\ hot' = [a \in Aircraft |->
       IF hot[a] # Absent /\ now' - hot[a].written >= HotTTL THEN Absent ELSE hot[a]]
  /\ UNCHANGED <<geo, stream, cycleVars, faults, historyVars>>

(* What a garbled entry was meant to say is all the same. *)
AnyShape == CHOOSE s \in Shapes : TRUE

(* WriteRawState: provider p polls a report of a and overwrites its entry. *)
(* It polls at most once per tick.                                         *)
WriteRaw(a, p) ==
  /\ \A e \in raw[a] : e.report.provider = p => e.report.seen < now
  /\ \E s \in Shapes, parses \in BOOLEAN :
       LET entry == [report |-> [provider |-> p, seen |-> now, quality |-> s.quality,
                                 type |-> s.type, category |-> s.category,
                                 military |-> s.military],
                     parses |-> parses]
       IN /\ parses \/ (p \in Garblers /\ s = AnyShape)
          /\ raw' = [raw EXCEPT ![a] = {e \in @ : e.report.provider # p} \cup {entry}]
  /\ UNCHANGED <<now, hot, geo, stream, cycleVars, faults, historyVars>>

-----------------------------------------------------------------------------
(***************************************************************************)
(* One cycle of runMergeLoop.                                              *)
(***************************************************************************)

Fault == faults < MaxFaults /\ faults' = faults + 1

(* ScanRawStates: SCAN collects the keys. *)
Scan ==
  /\ pc = "idle"
  /\ pc' = "scanned"
  /\ keys' = UNION {{Key(a, e) : e \in raw[a]} : a \in Aircraft}
  /\ UNCHANGED <<now, redisVars, stream, batch, stage, lastPublished, next, expired,
                 faults, historyVars>>

(* ScanRawStates: MGET fetches what is still there, and MergeAll merges    *)
(* the entries that parse, aircraft by aircraft.                           *)
Fetched(a) == {e \in raw[a] : Key(a, e) \in keys}
FetchAndMerge ==
  /\ pc = "scanned"
  /\ pc' = "merging"
  /\ batch' = [a \in Aircraft |->
       IF Parsed(Fetched(a)) = {} THEN Absent ELSE Merge(Parsed(Fetched(a)))]
  /\ stage' = [a \in Aircraft |-> IF batch'[a] = Absent THEN "done" ELSE "write"]
  /\ next' = [a \in Aircraft |-> Never]
  /\ keys' = {}
  /\ copies' = [a \in Aircraft |-> IF batch'[a] = Absent THEN 0 ELSE copies[a]]
  /\ partial' = {a \in Aircraft : \E e \in Fetched(a) : ~e.parses}
  /\ UNCHANGED <<now, redisVars, stream, lastPublished, expired, faults, peak>>

(* A failed scan skips to the pruning and keeps lastPublished. *)
ScanFailed ==
  /\ pc \in {"idle", "scanned"}
  /\ Fault
  /\ pc' = "pruning"
  /\ keys' = {}
  /\ UNCHANGED <<now, redisVars, stream, batch, stage, lastPublished, next, expired,
                 historyVars>>

(* Mutant: no dedup. *)
shouldPublishAlways(a) == TRUE

shouldPublish(a) == lastPublished[a] # batch[a].seen

Hash(a, indexed) == [state |-> batch[a], written |-> now, indexed |-> indexed]

(* Mutant: a live hash is not overwritten. *)
StoreHotOnce(a) ==
  /\ hot' = [hot EXCEPT ![a] = IF @ = Absent THEN Hash(a, TRUE) ELSE @]
  /\ geo' = geo \cup {a}

(* WriteFlightState: HSET, EXPIRE and GEOADD in one MULTI/EXEC. *)
StoreHot(a) ==
  /\ hot' = [hot EXCEPT ![a] = Hash(a, TRUE)]
  /\ geo' = geo \cup {a}

(* It does not roll back: GEOADD refuses a latitude beyond 85.05 degrees,  *)
(* and the hash is written all the same.                                   *)
StoreUnindexed(a) ==
  /\ hot' = [hot EXCEPT ![a] = Hash(a, FALSE)]
  /\ UNCHANGED geo

(* persistAndPublish, once the state is known to be published: it goes     *)
(* into the dedup map of the next cycle.                                   *)
Confirm(a) ==
  /\ stage' = [stage EXCEPT ![a] = "done"]
  /\ next' = [next EXCEPT ![a] = batch[a].seen]

(* Mutant: a failed call is taken for a success. *)
GiveUpConfirmed(a) ==
  /\ Fault
  /\ stage' = [stage EXCEPT ![a] = "done"]
  /\ next' = [next EXCEPT ![a] = batch[a].seen]

(* persistAndPublish gives up on a; the next cycle will try again. *)
GiveUp(a) ==
  /\ Fault
  /\ stage' = [stage EXCEPT ![a] = "done"]
  /\ UNCHANGED next

Persist(a) ==
  /\ pc = "merging" /\ stage[a] = "write"
  /\ StoreHot(a)
  /\ IF shouldPublish(a)
     THEN stage' = [stage EXCEPT ![a] = "publish"] /\ UNCHANGED next
     ELSE Confirm(a)
  /\ UNCHANGED <<now, raw, stream, pc, keys, batch, lastPublished, expired, faults,
                 historyVars>>

PersistFailed(a) ==
  /\ pc = "merging" /\ stage[a] = "write"
  /\ StoreHot(a) \/ StoreUnindexed(a) \/ UNCHANGED <<hot, geo>>
  /\ GiveUp(a)
  /\ copies' = [copies EXCEPT ![a] = 0]
  /\ UNCHANGED <<now, raw, stream, pc, keys, batch, lastPublished, expired, peak,
                 partial>>

(* PublishFlightState: the message is on the stream. *)
Later(t, u) == IF t > u THEN t ELSE u
AddToStream(a) ==
  /\ stream' = [stream EXCEPT ![a] = batch[a]]
  /\ peak' = [peak EXCEPT ![a] = Later(@, batch[a].seen)]

Publish(a) ==
  /\ pc = "merging" /\ stage[a] = "publish"
  /\ AddToStream(a)
  /\ Confirm(a)
  /\ copies' = [copies EXCEPT ![a] =
       IF stream[a] # Absent /\ stream[a].seen = batch[a].seen THEN @ + 1 ELSE 1]
  /\ UNCHANGED <<now, redisVars, pc, keys, batch, lastPublished, expired, faults,
                 partial>>

PublishFailed(a) ==
  /\ pc = "merging" /\ stage[a] = "publish"
  /\ AddToStream(a) \/ UNCHANGED <<stream, peak>>
  /\ GiveUp(a)
  /\ copies' = [copies EXCEPT ![a] = 0]
  /\ UNCHANGED <<now, redisVars, pc, keys, batch, lastPublished, expired, partial>>

(* wg.Wait: every state has been dealt with. *)
CycleDone ==
  /\ pc = "merging"
  /\ \A a \in Aircraft : stage[a] = "done"
  /\ pc' = "pruning"
  /\ lastPublished' = next
  /\ batch' = [a \in Aircraft |-> Absent]
  /\ next' = [a \in Aircraft |-> Never]
  /\ partial' = {}
  /\ UNCHANGED <<now, redisVars, stream, keys, stage, expired, faults, copies, peak>>

(* Mutants: the raw reports checked instead of the hash, every aircraft    *)
(* instead of the members, or only the aircraft of the last cycle.         *)
RawExpired     == {a \in geo : raw[a] = {}}
AllExpired     == {a \in Aircraft : hot[a] = Absent}
TrackedExpired == {a \in geo : hot[a] = Absent /\ lastPublished[a] # Never}

HashExpired == {a \in geo : hot[a] = Absent}

(* PruneExpiredGeoMembers: ZRANGE and EXISTS, then ZREM.  Nobody but this  *)
(* loop writes the geo index, so its members do not change in between.     *)
FindExpired ==
  /\ pc = "pruning"
  /\ pc' = "removing"
  /\ expired' = HashExpired
  /\ UNCHANGED <<now, redisVars, stream, keys, batch, stage, lastPublished, next,
                 faults, historyVars>>

RemoveExpired ==
  /\ pc = "removing"
  /\ pc' = "idle"
  /\ geo' = geo \ expired
  /\ expired' = {}
  /\ UNCHANGED <<now, raw, hot, stream, keys, batch, stage, lastPublished, next,
                 faults, historyVars>>

PruneFailed ==
  /\ pc \in {"pruning", "removing"}
  /\ Fault
  /\ pc' = "idle"
  /\ geo' \in IF pc = "removing" THEN {geo, geo \ expired} ELSE {geo}
  /\ expired' = {}
  /\ UNCHANGED <<now, raw, hot, stream, keys, batch, stage, lastPublished, next,
                 historyVars>>

(* The process dies and starts over, with nothing in memory. *)
Restart ==
  /\ Fault
  /\ pc' = "idle"
  /\ keys' = {} /\ expired' = {} /\ partial' = {}
  /\ batch' = [a \in Aircraft |-> Absent]
  /\ stage' = [a \in Aircraft |-> "done"]
  /\ lastPublished' = [a \in Aircraft |-> Never]
  /\ next' = [a \in Aircraft |-> Never]
  /\ copies' = [a \in Aircraft |-> 0]
  /\ UNCHANGED <<now, redisVars, stream, peak>>

-----------------------------------------------------------------------------
Step ==
  \/ Scan \/ FetchAndMerge \/ CycleDone \/ FindExpired \/ RemoveExpired
  \/ \E a \in Aircraft : Persist(a) \/ Publish(a)

Failure ==
  \/ ScanFailed \/ PruneFailed \/ Restart
  \/ \E a \in Aircraft : PersistFailed(a) \/ PublishFailed(a)

Next ==
  \/ Tick \/ Step \/ Failure
  \/ \E a \in Aircraft, p \in Providers : WriteRaw(a, p)

Spec == Init /\ [][Next]_vars

(* The ticker keeps the loop going, and a call that does not fail returns. *)
FairSpec == Spec /\ WF_vars(Step)

-----------------------------------------------------------------------------
(***************************************************************************)
(* Properties.                                                             *)
(***************************************************************************)

State == [seen : Nat, provider : Providers, quality : 0 .. 2,
          type : Types \cup {Unknown}, category : Categories \cup {Unknown},
          military : BOOLEAN, sources : SUBSET Providers]

TypeOK ==
  /\ now \in Nat /\ faults \in Nat
  /\ raw \in [Aircraft -> SUBSET Entry]
  /\ hot \in [Aircraft -> [state : State, written : Nat, indexed : BOOLEAN] \cup {Absent}]
  /\ geo \subseteq Aircraft /\ expired \subseteq geo /\ partial \subseteq Aircraft
  /\ stream \in [Aircraft -> State \cup {Absent}]
  /\ batch \in [Aircraft -> State \cup {Absent}]
  /\ pc \in {"idle", "scanned", "merging", "pruning", "removing"}
  /\ keys \subseteq Aircraft \X Providers
  /\ stage \in [Aircraft -> {"write", "publish", "done"}]
  /\ lastPublished \in [Aircraft -> Nat \cup {Never}]
  /\ next \in [Aircraft -> Nat \cup {Never}]
  /\ copies \in [Aircraft -> Nat] /\ peak \in [Aircraft -> Nat]

(* An aircraft in the hot state is in the geo index, so a viewport query   *)
(* finds it: pruning never removes an aircraft that has come back.  The    *)
(* exception is a hash whose write was refused by GEOADD: its position is  *)
(* not indexed, and the write has failed.                                  *)
GeoCoversHot == \A a \in Aircraft : hot[a] # Absent /\ hot[a].indexed => a \in geo

(* What the dedup map says is published is what the stream last carried:   *)
(* no failure or restart leaves an update marked as published that the     *)
(* stream never got.                                                       *)
DedupTracksStream ==
  \A a \in Aircraft :
    LET known == IF pc = "merging" THEN next[a] ELSE lastPublished[a] IN
    known # Never => stream[a] # Absent /\ stream[a].seen = known

(* An aircraft whose reports were not refreshed is not published again,    *)
(* unless its write or publish failed, it was away, or the normalizer      *)
(* restarted in between.                                                   *)
NoRedundantPublish == \A a \in Aircraft : copies[a] <= 1

(* What is published was written to the hot state first, and is what a     *)
(* REST read returns until it expires.                                     *)
PublishedWasPersisted ==
  [][\A a \in Aircraft : stream'[a] # stream[a] /\ hot[a] # Absent
                           => hot[a].state = stream'[a]]_vars

(* A published LastSeenUTC may fall behind one published before, when a    *)
(* better position wins a near-tie, but never by more than the tie window; *)
(* except in a cycle that could not parse a newer report.                  *)
RegressBounded ==
  [][\A a \in Aircraft \ partial : stream'[a] # stream[a]
       => peak[a] - stream'[a].seen <= Window]_vars

(* Once the reports of an aircraft stay as they are, the stream ends on    *)
(* the LastSeenUTC they merge to, whatever failed on the way.              *)
EventuallyPublished ==
  \A a \in Aircraft :
    <>[](Parsed(raw[a]) = {} \/ ( /\ stream[a] # Absent
                                  /\ stream[a].seen = Merge(Parsed(raw[a])).seen))

(* A member of the geo index without a hash does not stay: it is pruned,   *)
(* or the aircraft comes back.                                             *)
EventuallyPruned ==
  \A a \in Aircraft : []<>(a \in geo => hot[a] # Absent)

-----------------------------------------------------------------------------
(***************************************************************************)
(* The inductive invariant behind GeoCoversHot, DedupTracksStream,         *)
(* NoRedundantPublish and PublishedWasPersisted.                           *)
(***************************************************************************)

(* What is known to be published of an aircraft: its entry of the new      *)
(* dedup map once the cycle is done with it, and of the old one until then. *)
Confirmed(a) ==
  IF pc = "merging" /\ stage[a] = "done" THEN next[a] ELSE lastPublished[a]
OnStream(a, seen) == stream[a] # Absent /\ stream[a].seen = seen

DedupInv(a) ==
  /\ Confirmed(a) # Never => OnStream(a, Confirmed(a))
  /\ stage[a] # "done" => pc = "merging" /\ next[a] = Never /\ batch[a] # Absent
  /\ stage[a] = "publish" => lastPublished[a] # batch[a].seen
  /\ copies[a] \in {0, 1}
  /\ copies[a] = 1 => OnStream(a, Confirmed(a))
HotInv(a) ==
  /\ hot[a] # Absent /\ hot[a].indexed => a \in geo
  /\ pc = "removing" /\ a \in expired => hot[a] = Absent
  /\ stage[a] = "publish" /\ hot[a] # Absent => hot[a].state = batch[a]
DomainsOK ==
  /\ DOMAIN hot = Aircraft /\ DOMAIN stream = Aircraft /\ DOMAIN batch = Aircraft
  /\ DOMAIN stage = Aircraft /\ DOMAIN lastPublished = Aircraft
  /\ DOMAIN next = Aircraft /\ DOMAIN copies = Aircraft
CycleInv == DomainsOK /\ \A a \in Aircraft : DedupInv(a) /\ HotInv(a)

(***************************************************************************)
(* The inductive invariant behind RegressBounded.  Expiry removes the      *)
(* oldest entries first and a poll overwrites an entry by a newer one, so  *)
(* for each report of an aircraft still in Redis there is one that is as   *)
(* late as anything published of it.                                       *)
(***************************************************************************)
Fresh(entries, t) == \A e \in entries : \E f \in entries : f.report.seen >= t
RegressInv(a) ==
  /\ peak[a] <= now /\ \A e \in raw[a] : e.report.seen <= now
  /\ Fresh(raw[a], peak[a])
  /\ pc = "scanned" => Fresh(Fetched(a), peak[a])
  /\ stage[a] # "done" =>
       /\ pc = "merging" /\ batch[a] # Absent
       /\ batch[a].seen <= now /\ Fresh(raw[a], batch[a].seen)
       /\ a \notin partial => peak[a] <= batch[a].seen + Window
NoRegressInv == \A a \in Aircraft : RegressInv(a)
=============================================================================
