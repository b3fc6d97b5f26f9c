--------------------------- MODULE NormalizerProofs ---------------------------
(***************************************************************************)
(* The hot state, the geo index, the dedup map and the stream agree, every *)
(* set of reports has a winner, and what is published never falls back     *)
(* further than the tie window: for every fleet, every set of providers    *)
(* and any number of failures and restarts.                                *)
(***************************************************************************)
EXTENDS Normalizer, WellFoundedInduction, TLAPS

LEMMA CycleInit == Init => CycleInv
  BY DEF Init, CycleInv, DomainsOK, DedupInv, HotInv, Confirmed

(* Steps that leave an aircraft's part of the state alone keep its part of *)
(* the invariant; expiry only empties its hash.                            *)
LEMMA Untouched ==
  ASSUME NEW b, DedupInv(b), HotInv(b),
         stream'[b] = stream[b], stage'[b] = stage[b], next'[b] = next[b],
         lastPublished'[b] = lastPublished[b], copies'[b] = copies[b],
         batch'[b] = batch[b],
         hot'[b] \in {hot[b], Absent},
         pc = "merging" <=> pc' = "merging",
         pc' = "removing" => pc = "removing" /\ expired' = expired,
         b \in geo => b \in geo'
  PROVE  DedupInv(b)' /\ HotInv(b)'
<1>1. Confirmed(b)' = Confirmed(b)
  BY DEF Confirmed, DedupInv
<1>2. DedupInv(b)'
  BY <1>1 DEF DedupInv, OnStream
<1>3. HotInv(b)'
  BY DEF HotInv
<1>. QED
  BY <1>2, <1>3

LEMMA CycleStep == CycleInv /\ [Next]_vars => CycleInv'
<1>. SUFFICES ASSUME CycleInv, [Next]_vars PROVE CycleInv'
  OBVIOUS
<1>0. DomainsOK /\ \A b \in Aircraft : DedupInv(b) /\ HotInv(b)
  BY DEF CycleInv
<1>1. CASE Tick \/ UNCHANGED vars \/ \E a \in Aircraft, p \in Providers : WriteRaw(a, p)
  <2>1. /\ UNCHANGED <<geo, stream, pc, batch, stage, lastPublished, next, expired, copies>>
        /\ DOMAIN hot' = Aircraft
        /\ \A b \in Aircraft : hot'[b] \in {hot[b], Absent}
    BY <1>0, <1>1 DEF DomainsOK, Tick, WriteRaw, vars, redisVars, cycleVars, historyVars
  <2>2. ASSUME NEW b \in Aircraft PROVE DedupInv(b)' /\ HotInv(b)'
    BY <1>0, <2>1, Untouched
  <2>3. DomainsOK'
    BY <1>0, <2>1 DEF DomainsOK
  <2>. QED
    BY <2>2, <2>3 DEF CycleInv
<1>2. CASE Scan \/ ScanFailed
  <2>1. /\ UNCHANGED <<hot, geo, stream, batch, stage, lastPublished, next, expired, copies>>
        /\ pc # "merging" /\ pc' \in {"scanned", "pruning"}
    BY <1>2 DEF Scan, ScanFailed, redisVars, historyVars
  <2>2. ASSUME NEW b \in Aircraft PROVE DedupInv(b)' /\ HotInv(b)'
    BY <1>0, <2>1, Untouched
  <2>3. DomainsOK'
    BY <1>0, <2>1 DEF DomainsOK
  <2>. QED
    BY <2>2, <2>3 DEF CycleInv
<1>3. CASE FetchAndMerge
  <2>1. /\ pc = "scanned" /\ pc' = "merging"
        /\ UNCHANGED <<hot, geo, stream, lastPublished, expired>>
    BY <1>3 DEF FetchAndMerge, redisVars
  <2>2. ASSUME NEW b \in Aircraft PROVE DedupInv(b)' /\ HotInv(b)'
    <3>1. /\ stage'[b] = IF batch'[b] = Absent THEN "done" ELSE "write"
          /\ next'[b] = Never
          /\ copies'[b] = IF batch'[b] = Absent THEN 0 ELSE copies[b]
      BY <1>3 DEF FetchAndMerge
    <3>2. Confirmed(b) = lastPublished[b]
      BY <2>1 DEF Confirmed
    <3>3. Confirmed(b)' = IF batch'[b] = Absent THEN Never ELSE lastPublished[b]
      BY <2>1, <3>1 DEF Confirmed
    <3>4. DedupInv(b)'
      BY <1>0, <2>1, <3>1, <3>2, <3>3 DEF DedupInv, OnStream
    <3>5. HotInv(b)'
      BY <1>0, <2>1, <3>1 DEF HotInv
    <3>. QED
      BY <3>4, <3>5
  <2>3. DomainsOK'
    BY <1>0, <1>3, <2>1 DEF DomainsOK, FetchAndMerge
  <2>. QED
    BY <2>2, <2>3 DEF CycleInv
<1>4. ASSUME NEW a \in Aircraft,
             Persist(a) \/ PersistFailed(a) \/ Publish(a) \/ PublishFailed(a)
      PROVE  CycleInv'
  <2>1. /\ pc = "merging" /\ pc' = "merging"
        /\ UNCHANGED <<batch, lastPublished, expired>>
        /\ geo \subseteq geo'
    BY <1>4 DEF Persist, PersistFailed, Publish, PublishFailed, StoreHot,
         StoreUnindexed, Hash, redisVars
  <2>2. DomainsOK'
    BY <1>0, <1>4, <2>1 DEF DomainsOK, Persist, PersistFailed, Publish, PublishFailed,
         StoreHot, StoreUnindexed, Hash, AddToStream, Confirm, GiveUp, redisVars, historyVars
  <2>3. ASSUME NEW b \in Aircraft, b # a PROVE DedupInv(b)' /\ HotInv(b)'
    <3>1. /\ stream'[b] = stream[b] /\ stage'[b] = stage[b] /\ next'[b] = next[b]
          /\ copies'[b] = copies[b] /\ hot'[b] = hot[b]
      BY <1>0, <1>4, <2>3 DEF DomainsOK, Persist, PersistFailed, Publish, PublishFailed,
           StoreHot, StoreUnindexed, Hash, AddToStream, Confirm, GiveUp, redisVars, historyVars
    <3>. QED
      BY <1>0, <2>1, <3>1, Untouched
  <2>4. DedupInv(a)' /\ HotInv(a)'
    <3>1. CASE Persist(a)
      <4>1. /\ stage[a] = "write" /\ UNCHANGED <<stream, copies>>
            /\ hot'[a] = Hash(a, TRUE) /\ hot'[a].state = batch[a] /\ a \in geo'
        BY <1>0, <3>1 DEF DomainsOK, Persist, StoreHot, Hash, historyVars
      <4>2. HotInv(a)'
        BY <2>1, <4>1 DEF HotInv
      <4>3. Confirmed(a) = lastPublished[a]
        BY <4>1 DEF Confirmed
      <4>4. CASE shouldPublish(a)
        <5>1. stage'[a] = "publish" /\ next'[a] = next[a]
          BY <1>0, <3>1, <4>4 DEF DomainsOK, Persist
        <5>2. Confirmed(a)' = lastPublished[a]
          BY <2>1, <5>1 DEF Confirmed
        <5>. QED
          BY <1>0, <2>1, <4>1, <4>2, <4>3, <4>4, <5>1, <5>2 DEF DedupInv, OnStream, shouldPublish
      <4>5. CASE ~shouldPublish(a)
        <5>1. stage'[a] = "done" /\ next'[a] = batch[a].seen
          BY <1>0, <3>1, <4>5 DEF DomainsOK, Persist, Confirm
        <5>2. lastPublished[a] = batch[a].seen
          BY <4>5 DEF shouldPublish
        <5>3. Confirmed(a)' = lastPublished[a]
          BY <2>1, <5>1, <5>2 DEF Confirmed
        <5>. QED
          BY <1>0, <2>1, <4>1, <4>2, <4>3, <5>1, <5>3 DEF DedupInv, OnStream
      <4>. QED
        BY <4>4, <4>5
    <3>2. CASE PersistFailed(a)
      <4>1. /\ stage[a] = "write" /\ stage'[a] = "done" /\ UNCHANGED <<stream, next>>
            /\ copies'[a] = 0
            /\ hot'[a] = hot[a] \/ a \in geo' \/ hot'[a].indexed = FALSE
        BY <1>0, <3>2 DEF DomainsOK, PersistFailed, StoreHot, StoreUnindexed, Hash, GiveUp
      <4>2. Confirmed(a)' = Never
        BY <1>0, <2>1, <4>1 DEF Confirmed, DedupInv
      <4>. QED
        BY <1>0, <2>1, <4>1, <4>2 DEF DedupInv, HotInv
    <3>3. CASE Publish(a)
      <4>1. /\ stage[a] = "publish" /\ stage'[a] = "done" /\ UNCHANGED <<hot, geo>>
            /\ stream'[a] = batch[a] /\ next'[a] = batch[a].seen
            /\ copies'[a] = IF stream[a] # Absent /\ stream[a].seen = batch[a].seen
                            THEN copies[a] + 1 ELSE 1
        BY <1>0, <3>3 DEF DomainsOK, Publish, AddToStream, Confirm, redisVars
      <4>2. batch[a] # Absent
        BY <1>0, <4>1 DEF DedupInv
      <4>3. Confirmed(a) = lastPublished[a] /\ Confirmed(a)' = batch[a].seen
        BY <2>1, <4>1 DEF Confirmed
      <4>4. stream[a] # Absent /\ stream[a].seen = batch[a].seen => copies[a] = 0
        BY <1>0, <4>1, <4>3 DEF DedupInv, OnStream
      <4>5. copies'[a] = 1
        BY <4>1, <4>4
      <4>6. DedupInv(a)'
        BY <4>1, <4>2, <4>3, <4>5 DEF DedupInv, OnStream
      <4>7. HotInv(a)'
        BY <1>0, <2>1, <4>1 DEF HotInv
      <4>. QED
        BY <4>6, <4>7
    <3>4. CASE PublishFailed(a)
      <4>1. /\ stage[a] = "publish" /\ stage'[a] = "done" /\ UNCHANGED <<hot, geo, next>>
            /\ copies'[a] = 0
        BY <1>0, <3>4 DEF DomainsOK, PublishFailed, GiveUp, redisVars
      <4>2. Confirmed(a)' = Never
        BY <1>0, <2>1, <4>1 DEF Confirmed, DedupInv
      <4>. QED
        BY <1>0, <2>1, <4>1, <4>2 DEF DedupInv, HotInv
    <3>. QED
      BY <1>4, <3>1, <3>2, <3>3, <3>4
  <2>. QED
    BY <2>2, <2>3, <2>4 DEF CycleInv
<1>5. CASE CycleDone
  <2>1. /\ pc = "merging" /\ pc' = "pruning"
        /\ \A b \in Aircraft : stage[b] = "done"
        /\ lastPublished' = next
        /\ UNCHANGED <<hot, geo, stream, stage, expired, copies>>
    BY <1>5 DEF CycleDone, redisVars
  <2>2. ASSUME NEW b \in Aircraft PROVE DedupInv(b)' /\ HotInv(b)'
    <3>1. Confirmed(b)' = Confirmed(b)
      BY <2>1 DEF Confirmed
    <3>. QED
      BY <1>0, <2>1, <3>1 DEF DedupInv, OnStream, HotInv
  <2>3. DomainsOK'
    BY <1>0, <1>5, <2>1 DEF DomainsOK, CycleDone
  <2>. QED
    BY <2>2, <2>3 DEF CycleInv
<1>6. CASE FindExpired \/ RemoveExpired \/ PruneFailed
  <2>1. /\ pc # "merging" /\ pc' \in {"removing", "idle"}
        /\ UNCHANGED <<hot, stream, batch, stage, lastPublished, next, copies>>
    BY <1>6 DEF FindExpired, RemoveExpired, PruneFailed, redisVars, historyVars
  <2>2. /\ geo' = geo \/ (pc = "removing" /\ geo' = geo \ expired)
        /\ pc' = "removing" => expired' = HashExpired
    BY <1>6 DEF FindExpired, RemoveExpired, PruneFailed, redisVars
  <2>3. ASSUME NEW b \in Aircraft PROVE DedupInv(b)' /\ HotInv(b)'
    <3>1. Confirmed(b)' = Confirmed(b)
      BY <2>1 DEF Confirmed
    <3>2. DedupInv(b)'
      BY <1>0, <2>1, <3>1 DEF DedupInv, OnStream
    <3>3. HotInv(b)'
      BY <1>0, <2>1, <2>2 DEF HotInv, HashExpired
    <3>. QED
      BY <3>2, <3>3
  <2>4. DomainsOK'
    BY <1>0, <2>1 DEF DomainsOK
  <2>. QED
    BY <2>3, <2>4 DEF CycleInv
<1>7. CASE Restart
  <2>1. /\ pc' = "idle" /\ UNCHANGED <<hot, geo, stream>>
        /\ \A b \in Aircraft : /\ stage'[b] = "done" /\ copies'[b] = 0
                                /\ lastPublished'[b] = Never
    BY <1>7 DEF Restart, redisVars
  <2>2. ASSUME NEW b \in Aircraft PROVE DedupInv(b)' /\ HotInv(b)'
    <3>1. Confirmed(b)' = Never
      BY <2>1 DEF Confirmed
    <3>. QED
      BY <1>0, <2>1, <3>1 DEF DedupInv, HotInv
  <2>3. DomainsOK'
    BY <1>0, <1>7, <2>1 DEF DomainsOK, Restart
  <2>. QED
    BY <2>2, <2>3 DEF CycleInv
<1>. QED
  BY <1>1, <1>2, <1>3, <1>4, <1>5, <1>6, <1>7 DEF Next, Step, Failure

-----------------------------------------------------------------------------
(* The inductive invariant holds in every reachable state. *)
THEOREM CycleInvariant == Spec => []CycleInv
  BY CycleInit, CycleStep, PTL DEF Spec

(* An aircraft whose hash was last written with its index entry is in the  *)
(* geo index, for every fleet and through every failed call, expiry and    *)
(* restart (PruneExpiredGeoMembers).  A hash that GEOADD refused to index, *)
(* while MULTI/EXEC kept the HSET, is outside of it.                       *)
THEOREM HotIsIndexed == Spec => []GeoCoversHot
<1>1. CycleInv => GeoCoversHot
  BY DEF CycleInv, HotInv, GeoCoversHot
<1>. QED
  BY <1>1, CycleInvariant, PTL

(* The dedup map never claims a publication the stream did not get         *)
(* (persistAndPublish, runMergeLoop's lastPublished).                      *)
THEOREM DedupIsHonest == Spec => []DedupTracksStream
<1>1. CycleInv => DedupTracksStream
  <2>. SUFFICES ASSUME CycleInv, NEW a \in Aircraft,
                       (IF pc = "merging" THEN next[a] ELSE lastPublished[a]) # Never
                PROVE  OnStream(a, IF pc = "merging" THEN next[a] ELSE lastPublished[a])
    BY DEF DedupTracksStream, OnStream
  <2>1. DedupInv(a)
    BY DEF CycleInv
  <2>2. Confirmed(a) = IF pc = "merging" THEN next[a] ELSE lastPublished[a]
    BY <2>1 DEF Confirmed, DedupInv
  <2>. QED
    BY <2>1, <2>2 DEF DedupInv
<1>. QED
  BY <1>1, CycleInvariant, PTL

(* An update is published once, unless a failure, an absence or a restart  *)
(* excuses another copy (shouldPublish).                                   *)
THEOREM PublishesOnce == Spec => []NoRedundantPublish
<1>1. CycleInv => NoRedundantPublish
  BY DEF CycleInv, DedupInv, NoRedundantPublish
<1>. QED
  BY <1>1, CycleInvariant, PTL

(* A step that puts a state on the stream finds it in the hot state, or    *)
(* expired (persistAndPublish writes before it publishes).                 *)
THEOREM WritesBeforePublishing == Spec => PublishedWasPersisted
<1>. DEFINE Persisted == \A a \in Aircraft :
                           stream'[a] # stream[a] /\ hot[a] # Absent
                             => hot[a].state = stream'[a]
<1>1. CycleInv /\ [Next]_vars => [Persisted]_vars
  <2>. SUFFICES ASSUME CycleInv, [Next]_vars, NEW a \in Aircraft,
                       stream'[a] # stream[a], hot[a] # Absent
                PROVE  hot[a].state = stream'[a]
    OBVIOUS
  <2>1. PICK b \in Aircraft : Publish(b) \/ PublishFailed(b)
    BY DEF Next, Step, Failure, Tick, Scan, FetchAndMerge, CycleDone, FindExpired,
           RemoveExpired, Persist, ScanFailed, PruneFailed, Restart, PersistFailed,
           WriteRaw, vars, historyVars
  <2>2. stage[b] = "publish" /\ stream' = [stream EXCEPT ![b] = batch[b]]
    BY <2>1 DEF Publish, PublishFailed, AddToStream
  <2>3. DOMAIN stream = Aircraft /\ HotInv(a)
    BY DEF CycleInv, DomainsOK
  <2>4. b = a /\ stream'[a] = batch[a]
    BY <2>2, <2>3
  <2>. QED
    BY <2>2, <2>3, <2>4 DEF HotInv
<1>. QED
  BY <1>1, CycleInvariant, PTL DEF Spec, PublishedWasPersisted

-----------------------------------------------------------------------------
(* A nonempty set of naturals has a least element. *)
LEMMA LeastOf ==
  ASSUME NEW T \in SUBSET Nat, T # {}
  PROVE  \E x \in T : \A y \in T : x <= y
<1>1. \E x \in T : \A y \in T : ~ (<<y, x>> \in OpToRel(<, Nat))
  BY WFMin, NatLessThanWellFounded, Zenon
<1>2. PICK x \in T : \A y \in T : ~ (<<y, x>> \in OpToRel(<, Nat))
  BY <1>1
<1>3. ASSUME NEW y \in T PROVE x <= y
  <2>1. ~(y < x)
    BY <1>2 DEF OpToRel
  <2>. QED
    BY <2>1
<1>. QED
  BY <1>3

(* A nonempty set of naturals with a bound has a greatest element. *)
LEMMA GreatestOf ==
  ASSUME NEW T \in SUBSET Nat, T # {}, NEW n \in Nat, \A t \in T : t <= n
  PROVE  \E x \in T : \A y \in T : y <= x
<1>. DEFINE Bounds == {k \in Nat : \A t \in T : t <= k}
<1>1. PICK k \in Bounds : \A j \in Bounds : k <= j
  <2>1. Bounds \in SUBSET Nat /\ Bounds # {}
    OBVIOUS
  <2>. HIDE DEF Bounds
  <2>. QED
    BY <2>1, LeastOf
<1>2. k \in Nat /\ \A t \in T : t \in Nat /\ t <= k
  BY <1>1
<1>3. CASE k \in T
  BY <1>2, <1>3
<1>4. CASE k \notin T
  <2>1. \A t \in T : t <= k - 1
    BY <1>2, <1>4
  <2>2. k - 1 \in Nat
    <3>1. PICK t \in T : t \in Nat /\ t <= k - 1
      BY <1>2, <2>1
    <3>. QED
      BY <1>2, <3>1
  <2>3. k - 1 \in Bounds
    BY <2>1, <2>2
  <2>. HIDE DEF Bounds
  <2>4. k <= k - 1
    BY <1>1, <2>3
  <2>. QED
    BY <1>2, <2>4
<1>. QED
  BY <1>3, <1>4

(* The newest report of a bounded set exists, and Newest is it. *)
LEMMA NewestExists ==
  ASSUME NEW R \in SUBSET Report, R # {}, NEW n \in Nat, \A r \in R : r.seen <= n
  PROVE  IsNewest(Newest(R), R) /\ Newest(R) \in Nat
<1>. DEFINE T == {r.seen : r \in R}
<1>1. T \in SUBSET Nat /\ T # {} /\ \A t \in T : t <= n
  BY DEF Report
<1>2. PICK t \in T : \A u \in T : u <= t
  <2>. HIDE DEF T
  <2>. QED
    BY <1>1, GreatestOf
<1>3. IsNewest(t, R)
  BY <1>2 DEF IsNewest
<1>4. Newest(R) \in T /\ IsNewest(Newest(R), R)
  BY <1>3 DEF Newest
<1>. QED
  BY <1>1, <1>4

(* Every nonempty set of reports has a winner: the freshest of the near-   *)
(* ties of the best position, and of these the first provider's.           *)
THEOREM WinnerExists ==
  ASSUME NEW R \in SUBSET Report, R # {}, NEW n \in Nat, \A r \in R : r.seen <= n
  PROVE  IsWinner(Winner(R), R)
<1>1. IsNewest(Newest(R), R) /\ Newest(R) \in Nat
  BY NewestExists
<1>2. ASSUME NEW r \in R PROVE r.seen \in Nat /\ r.quality \in Nat /\ r.provider \in Nat
  <2>1. r \in Report
    OBVIOUS
  <2>2. r.seen \in Nat /\ r.quality \in 0 .. 2 /\ r.provider \in Providers
    BY <2>1 DEF Report
  <2>3. r.quality \in Nat
    BY ONLY <2>2, SMT
  <2>4. r.provider \in Nat
    BY ONLY <2>2, ProvidersAssumption
  <2>. QED
    BY <2>2, <2>3, <2>4
<1>. DEFINE Ties    == {r \in R : NearTie(r, Newest(R))}
            Best(q) == {r \in Ties : r.quality = q}
<1>3. Ties # {}
  <2>1. PICK r \in R : r.seen = Newest(R)
    BY <1>1 DEF IsNewest
  <2>2. NearTie(r, Newest(R))
    BY <1>1, <2>1, WindowAssumption DEF NearTie
  <2>. QED
    BY <2>2
<1>4. PICK q \in Nat : Best(q) # {} /\ \A r \in Ties : q <= r.quality
  <2>. DEFINE Q == {r.quality : r \in Ties}
  <2>1. Q \in SUBSET Nat /\ Q # {}
    BY <1>2, <1>3
  <2>2. PICK q \in Q : \A p \in Q : q <= p
    <3>. HIDE DEF Q
    <3>. QED
      BY <2>1, LeastOf
  <2>. QED
    BY <2>1, <2>2
<1>5. PICK t \in Nat : /\ \E r \in Best(q) : r.seen = t
                       /\ \A r \in Best(q) : r.seen <= t
  <2>. DEFINE T == {r.seen : r \in Best(q)}
  <2>1. T \in SUBSET Nat /\ T # {} /\ \A u \in T : u <= n
    BY <1>2, <1>4
  <2>2. PICK t \in T : \A u \in T : u <= t
    <3>. HIDE DEF T
    <3>. QED
      BY <2>1, GreatestOf
  <2>. QED
    BY <2>1, <2>2
<1>6. PICK w \in Best(q) : /\ w.seen = t
                          /\ \A r \in Best(q) : r.seen = t => w.provider <= r.provider
  <2>. DEFINE P == {r.provider : r \in {x \in Best(q) : x.seen = t}}
  <2>1. P \in SUBSET Nat /\ P # {}
    BY <1>2, <1>5
  <2>2. PICK p \in P : \A o \in P : p <= o
    <3>. HIDE DEF P
    <3>. QED
      BY <2>1, LeastOf
  <2>. QED
    BY <2>1, <2>2
<1>7. ASSUME NEW r \in R, NearTie(r, Newest(R)) PROVE ~Beats(r, w)
  <2>1. r \in Ties /\ w \in R /\ w.quality = q /\ w.seen = t
    BY <1>6, <1>7
  <2>2. ~(r.quality < w.quality)
    BY <1>2, <1>4, <2>1
  <2>3. CASE r.quality = w.quality
    <3>1. r \in Best(q)
      BY <2>1, <2>3
    <3>2. r.seen <= w.seen /\ (r.seen = w.seen => w.provider <= r.provider)
      BY <1>5, <1>6, <2>1, <3>1
    <3>. QED
      BY <1>2, <2>1, <2>2, <3>2 DEF Beats
  <2>. QED
    BY <2>2, <2>3 DEF Beats
<1>8. IsWinner(w, R) /\ w \in R
  BY <1>6, <1>7 DEF IsWinner
<1>. QED
  BY <1>8 DEF Winner

(* So the merge of a nonempty set of reports is a FlightState, of a report *)
(* near the newest.                                                        *)
LEMMA MergeIsState ==
  ASSUME NEW R \in SUBSET Report, R # {}, NEW n \in Nat, \A r \in R : r.seen <= n
  PROVE  /\ Merge(R) \in State
         /\ \E r \in R : Merge(R).seen = r.seen
         /\ \A r \in R : r.seen <= Merge(R).seen + Window
<1>. DEFINE w == Winner(R)
<1>1. IsWinner(w, R) /\ w \in Report
  <2>1. IsWinner(w, R)
    BY WinnerExists
  <2>. QED
    BY <2>1 DEF IsWinner
<1>2. ASSUME NEW f \in {"type", "category"}
      PROVE  FirstKnown(R, f) = w[f] \/ \E r \in R : FirstKnown(R, f) = r[f]
  <2>. DEFINE known == {r \in R : r[f] # Unknown}
  <2>1. CASE known = {}
    BY <2>1 DEF FirstKnown
  <2>2. CASE known # {}
    <3>1. known \in SUBSET Report /\ (\A r \in known : r.seen <= n)
      OBVIOUS
    <3>2. IsWinner(Winner(known), known)
      <4>. HIDE DEF known
      <4>. QED
        BY <2>2, <3>1, WinnerExists
    <3>3. Winner(known) \in R
      BY <3>2 DEF IsWinner
    <3>. QED
      BY <3>3 DEF FirstKnown
  <2>. QED
    BY <2>1, <2>2
<1>3. FirstKnown(R, "type") \in Types \cup {Unknown}
  BY <1>1, <1>2 DEF Report
<1>4. FirstKnown(R, "category") \in Categories \cup {Unknown}
  BY <1>1, <1>2 DEF Report
<1>5. anyMilitary(R) \in BOOLEAN /\ sourceList(R) \in SUBSET Providers
  BY DEF anyMilitary, sourceList, Report
<1>6. w.seen \in Nat /\ w.provider \in Providers /\ w.quality \in 0 .. 2 /\ w \in R
  BY <1>1 DEF Report, IsWinner
<1>7. Merge(R) \in State /\ Merge(R).seen = w.seen
  <2>. HIDE DEF w
  <2>1. Merge(R) = [seen |-> w.seen, provider |-> w.provider, quality |-> w.quality,
                    type |-> FirstKnown(R, "type"), category |-> FirstKnown(R, "category"),
                    military |-> anyMilitary(R), sources |-> sourceList(R)]
    BY DEF Merge, w
  <2>. QED
    BY <1>3, <1>4, <1>5, <1>6, <2>1 DEF State
<1>8. \A r \in R : r.seen <= w.seen + Window
  <2>1. Newest(R) \in Nat /\ \A r \in R : r.seen <= Newest(R) /\ r.seen \in Nat
    BY NewestExists DEF IsNewest, Report
  <2>2. Newest(R) - w.seen <= Window
    BY <1>1 DEF IsWinner, NearTie
  <2>3. Newest(R) <= w.seen + Window
    BY <1>6, <2>1, <2>2, WindowAssumption
  <2>. QED
    BY <1>6, <2>1, <2>3, WindowAssumption
<1>. QED
  BY <1>6, <1>7, <1>8

-----------------------------------------------------------------------------
(* What FetchAndMerge computes of an aircraft with a report that parses.   *)
LEMMA FetchedMerge ==
  ASSUME TypeOK, NoRegressInv, NEW a \in Aircraft, Parsed(Fetched(a)) # {}
  PROVE  /\ Merge(Parsed(Fetched(a))) \in State
         /\ \E e \in raw[a] : e.report.seen = Merge(Parsed(Fetched(a))).seen
         /\ \A e \in Fetched(a) :
              e.parses => e.report.seen <= Merge(Parsed(Fetched(a))).seen + Window
<1>1. /\ now \in Nat /\ \A e \in raw[a] : e.report.seen <= now /\ e.report \in Report
      /\ Fetched(a) \subseteq raw[a]
  <2>1. \A e \in raw[a] : e \in Entry
    BY DEF TypeOK
  <2>2. now \in Nat /\ \A e \in raw[a] : e.report.seen <= now
    BY DEF TypeOK, NoRegressInv, RegressInv
  <2>3. \A e \in raw[a] : e.report \in Report
    BY <2>1 DEF Entry
  <2>4. Fetched(a) \subseteq raw[a]
    BY DEF Fetched
  <2>. QED
    BY <2>2, <2>3, <2>4
<1>. DEFINE R == Parsed(Fetched(a))
<1>2. R \in SUBSET Report /\ R # {} /\ \A r \in R : r.seen <= now
  BY <1>1 DEF Parsed
<1>3. \A r \in R : \E e \in raw[a] : e.report = r
  BY <1>1 DEF Parsed
<1>4. \A e \in Fetched(a) : e.parses => e.report \in R
  BY DEF Parsed
<1>. HIDE DEF R
<1>5. /\ Merge(R) \in State /\ \E r \in R : Merge(R).seen = r.seen
      /\ \A r \in R : r.seen <= Merge(R).seen + Window
  BY <1>1, <1>2, MergeIsState
<1>6. /\ Merge(R) \in State
      /\ \E e \in raw[a] : e.report.seen = Merge(R).seen
      /\ \A e \in Fetched(a) : e.parses => e.report.seen <= Merge(R).seen + Window
  BY <1>3, <1>4, <1>5
<1>. QED
  BY <1>6 DEF R

LEMMA TypeInit == Init => TypeOK
  BY DEF Init, TypeOK

LEMMA TypeStep == TypeOK /\ CycleInv /\ NoRegressInv /\ [Next]_vars => TypeOK'
<1>. SUFFICES ASSUME TypeOK, CycleInv, NoRegressInv, [Next]_vars PROVE TypeOK'
  OBVIOUS
<1>. USE DEF TypeOK
<1>1. CASE UNCHANGED vars
  BY <1>1 DEF vars, redisVars, cycleVars, historyVars
<1>2. CASE Tick
  <2>1. now' \in Nat
    BY <1>2 DEF Tick
  <2>2. raw' \in [Aircraft -> SUBSET Entry]
    BY <1>2 DEF Tick
  <2>3. hot' \in [Aircraft -> [state : State, written : Nat, indexed : BOOLEAN] \cup {Absent}]
    BY <1>2 DEF Tick
  <2>. QED
    BY <1>2, <2>1, <2>2, <2>3 DEF Tick, cycleVars, historyVars
<1>3. ASSUME NEW a \in Aircraft, NEW p \in Providers, WriteRaw(a, p) PROVE TypeOK'
  <2>1. PICK s \in Shapes, parses \in BOOLEAN :
          raw' = [raw EXCEPT ![a] = {e \in @ : e.report.provider # p} \cup
                    {[report |-> [provider |-> p, seen |-> now, quality |-> s.quality,
                                  type |-> s.type, category |-> s.category,
                                  military |-> s.military],
                      parses |-> parses]}]
    BY <1>3 DEF WriteRaw
  <2>2. s \in [quality : 0 .. 2, type : Types \cup {Unknown},
               category : Categories \cup {Unknown}, military : BOOLEAN]
    BY ShapesAssumption
  <2>3. [provider |-> p, seen |-> now, quality |-> s.quality, type |-> s.type,
         category |-> s.category, military |-> s.military] \in Report
    BY <2>2 DEF Report
  <2>4. raw' \in [Aircraft -> SUBSET Entry]
    BY <2>1, <2>3 DEF Entry
  <2>. QED
    BY <1>3, <2>4 DEF WriteRaw, cycleVars, historyVars
<1>4. CASE Scan
  <2>1. keys' \subseteq Aircraft \X Providers
    <3>1. ASSUME NEW a \in Aircraft, NEW e \in raw[a] PROVE Key(a, e) \in Aircraft \X Providers
      BY <3>1 DEF Key, Entry, Report
    <3>. QED
      BY <1>4, <3>1 DEF Scan
  <2>. QED
    BY <1>4, <2>1 DEF Scan, redisVars, historyVars
<1>5. CASE FetchAndMerge
  <2>1. batch' \in [Aircraft -> State \cup {Absent}]
    <3>1. \A a \in Aircraft :
            Parsed(Fetched(a)) # {} => Merge(Parsed(Fetched(a))) \in State
      BY FetchedMerge
    <3>. QED
      BY <1>5, <3>1 DEF FetchAndMerge
  <2>2. stage' \in [Aircraft -> {"write", "publish", "done"}]
    BY <1>5 DEF FetchAndMerge
  <2>3. copies' \in [Aircraft -> Nat] /\ next' \in [Aircraft -> Nat \cup {Never}]
    BY <1>5 DEF FetchAndMerge
  <2>. QED
    BY <1>5, <2>1, <2>2, <2>3 DEF FetchAndMerge, redisVars
<1>6. ASSUME NEW a \in Aircraft,
             Persist(a) \/ PersistFailed(a) \/ Publish(a) \/ PublishFailed(a)
      PROVE  TypeOK'
  <2>1. batch[a] \in State /\ batch[a].seen \in Nat
    <3>1. batch[a] # Absent
      BY <1>6 DEF CycleInv, DedupInv, Persist, PersistFailed, Publish, PublishFailed
    <3>. QED
      BY <3>1 DEF State
  <2>2. next' \in [Aircraft -> Nat \cup {Never}]
    BY <1>6, <2>1 DEF Persist, PersistFailed, Publish, PublishFailed, Confirm, GiveUp
  <2>3. stage' \in [Aircraft -> {"write", "publish", "done"}]
    BY <1>6 DEF Persist, PersistFailed, Publish, PublishFailed, Confirm, GiveUp
  <2>4. /\ hot' \in [Aircraft -> [state : State, written : Nat, indexed : BOOLEAN] \cup {Absent}]
        /\ geo' \subseteq Aircraft /\ expired' \subseteq geo'
    <3>. DEFINE Hashes == [state : State, written : Nat, indexed : BOOLEAN]
    <3>1. Hash(a, TRUE) \in Hashes /\ Hash(a, FALSE) \in Hashes
      BY <2>1 DEF Hash
    <3>2. hot \in [Aircraft -> Hashes \cup {Absent}]
      OBVIOUS
    <3>. HIDE DEF Hashes
    <3>3. hot' \in [Aircraft -> Hashes \cup {Absent}]
      <4>1. \/ hot' = [hot EXCEPT ![a] = Hash(a, TRUE)]
            \/ hot' = [hot EXCEPT ![a] = Hash(a, FALSE)]
            \/ UNCHANGED hot
        BY <1>6, Zenon DEF Persist, PersistFailed, Publish, PublishFailed, StoreHot,
             StoreUnindexed, redisVars
      <4>2. ASSUME NEW h \in Hashes, hot' = [hot EXCEPT ![a] = h]
            PROVE  hot' \in [Aircraft -> Hashes \cup {Absent}]
        BY <3>2, <4>2
      <4>. QED
        BY <3>1, <3>2, <4>1, <4>2, Zenon
    <3>4. geo' \subseteq Aircraft /\ expired' \subseteq geo'
      BY <1>6 DEF Persist, PersistFailed, Publish, PublishFailed, StoreHot, StoreUnindexed,
           redisVars
    <3>. QED
      BY <3>3, <3>4 DEF Hashes
  <2>5. stream' \in [Aircraft -> State \cup {Absent}] /\ peak' \in [Aircraft -> Nat]
    BY <1>6, <2>1 DEF Persist, PersistFailed, Publish, PublishFailed, AddToStream, Later,
         historyVars
  <2>6. copies' \in [Aircraft -> Nat]
    BY <1>6 DEF Persist, PersistFailed, Publish, PublishFailed, historyVars
  <2>7. faults' \in Nat
    BY <1>6 DEF Persist, PersistFailed, Publish, PublishFailed, GiveUp, Fault
  <2>8. UNCHANGED <<now, raw, pc, keys, batch, lastPublished, partial>>
    BY <1>6 DEF Persist, PersistFailed, Publish, PublishFailed, redisVars, historyVars
  <2>. QED
    BY <2>2, <2>3, <2>4, <2>5, <2>6, <2>7, <2>8
<1>7. CASE CycleDone
  BY <1>7 DEF CycleDone, redisVars
<1>8. CASE ScanFailed
  BY <1>8 DEF ScanFailed, Fault, redisVars, historyVars
<1>9. CASE FindExpired \/ RemoveExpired \/ PruneFailed
  BY <1>9 DEF FindExpired, RemoveExpired, PruneFailed, HashExpired, Fault, redisVars,
       historyVars
<1>10. CASE Restart
  BY <1>10 DEF Restart, Fault, redisVars
<1>. QED
  BY <1>1, <1>2, <1>3, <1>4, <1>5, <1>6, <1>7, <1>8, <1>9, <1>10 DEF Next, Step, Failure

-----------------------------------------------------------------------------
LEMMA RegressInit == Init => NoRegressInv
  BY DEF Init, NoRegressInv, RegressInv, Fresh, Fetched

LEMMA RegressStep == TypeOK /\ NoRegressInv /\ [Next]_vars => NoRegressInv'
<1>. SUFFICES ASSUME TypeOK, NoRegressInv, [Next]_vars, NEW b \in Aircraft
              PROVE  RegressInv(b)'
  BY DEF NoRegressInv
<1>0. /\ RegressInv(b) /\ now \in Nat /\ peak[b] \in Nat
      /\ \A e \in raw[b] : e.report.seen \in Nat /\ e.report.provider \in Providers
      /\ batch[b] # Absent => batch[b].seen \in Nat
  BY DEF NoRegressInv, TypeOK, Entry, Report, State
<1>1. CASE UNCHANGED vars
  BY <1>0, <1>1 DEF RegressInv, Fresh, Fetched, vars, redisVars, cycleVars, historyVars
<1>2. CASE Tick
  <2>1. /\ now' = now + 1
        /\ raw'[b] = {e \in raw[b] : now' - e.report.seen < RawTTL}
        /\ UNCHANGED <<pc, keys, batch, stage, peak, partial>>
    BY <1>2 DEF Tick, cycleVars, historyVars, TypeOK
  <2>2. \A e, f \in raw[b] : e \in raw'[b] /\ f.report.seen > e.report.seen => f \in raw'[b]
    <3>. SUFFICES ASSUME NEW e \in raw[b], NEW f \in raw[b], e \in raw'[b],
                         f.report.seen > e.report.seen
                  PROVE  now' - f.report.seen < RawTTL
      BY <2>1
    <3>. QED
      BY <1>0, <2>1, TimesAssumption
  <2>3. ASSUME NEW t \in Nat, Fresh(raw[b], t) PROVE Fresh(raw'[b], t)
    <3>1. ASSUME NEW e \in raw'[b] PROVE \E f \in raw'[b] : f.report.seen >= t
      <4>1. PICK f \in raw[b] : f.report.seen >= t
        BY <2>1, <2>3, <3>1 DEF Fresh
      <4>2. e \in raw[b] /\ e.report.seen \in Nat /\ f.report.seen \in Nat
        BY <1>0, <2>1, <3>1
      <4>3. CASE f.report.seen > e.report.seen
        BY <2>2, <3>1, <4>1, <4>2, <4>3
      <4>4. CASE ~(f.report.seen > e.report.seen)
        BY <3>1, <4>1, <4>2, <4>4
      <4>. QED
        BY <4>3, <4>4
    <3>. QED
      BY <3>1 DEF Fresh
  <2>4. pc = "scanned" => Fresh(Fetched(b)', peak[b])
    <3>. SUFFICES ASSUME pc = "scanned", NEW e \in Fetched(b)'
                  PROVE  \E f \in Fetched(b)' : f.report.seen >= peak[b]
      BY DEF Fresh
    <3>1. /\ Fetched(b) = {x \in raw[b] : Key(b, x) \in keys}
          /\ Fetched(b)' = {x \in raw'[b] : Key(b, x) \in keys}
      BY <2>1 DEF Fetched, Key
    <3>2. e \in Fetched(b) /\ e \in raw[b] /\ e \in raw'[b]
      BY <2>1, <3>1
    <3>3. PICK f \in Fetched(b) : f.report.seen >= peak[b]
      BY <1>0, <3>2 DEF RegressInv, Fresh
    <3>4. f \in raw[b] /\ e.report.seen \in Nat /\ f.report.seen \in Nat
      BY <1>0, <3>1, <3>2
    <3>5. CASE f.report.seen > e.report.seen
      BY <2>2, <3>1, <3>2, <3>3, <3>4, <3>5
    <3>6. CASE ~(f.report.seen > e.report.seen)
      BY <1>0, <3>3, <3>4, <3>6
    <3>. QED
      BY <3>5, <3>6
  <2>5. peak'[b] <= now' /\ \A e \in raw'[b] : e.report.seen <= now'
    BY <1>0, <2>1 DEF RegressInv
  <2>6. stage[b] # "done" => batch[b].seen <= now' /\ Fresh(raw'[b], batch[b].seen)
    BY <1>0, <2>1, <2>3 DEF RegressInv
  <2>7. Fresh(raw'[b], peak[b])
    BY <1>0, <2>3 DEF RegressInv
  <2>. QED
    BY <1>0, <2>1, <2>4, <2>5, <2>6, <2>7 DEF RegressInv
<1>3. ASSUME NEW a \in Aircraft, NEW p \in Providers, WriteRaw(a, p) PROVE RegressInv(b)'
  <2>0. UNCHANGED <<now, pc, keys, batch, stage, peak, partial>>
    BY <1>3 DEF WriteRaw, cycleVars, historyVars
  <2>1. CASE a # b
    <3>1. raw'[b] = raw[b]
      BY <1>3, <2>1 DEF WriteRaw, TypeOK
    <3>2. Fetched(b)' = Fetched(b)
      BY <2>0, <3>1 DEF Fetched, Key
    <3>. QED
      BY <1>0, <2>0, <3>1, <3>2 DEF RegressInv
  <2>2. CASE a = b
    <3>1. PICK entry : /\ entry.report.seen = now /\ entry.report.provider = p
                       /\ raw'[b] = {e \in raw[b] : e.report.provider # p} \cup {entry}
      <4>1. PICK s \in Shapes, parses \in BOOLEAN :
              raw' = [raw EXCEPT ![a] = {e \in @ : e.report.provider # p} \cup
                        {[report |-> [provider |-> p, seen |-> now, quality |-> s.quality,
                                      type |-> s.type, category |-> s.category,
                                      military |-> s.military],
                          parses |-> parses]}]
        BY <1>3 DEF WriteRaw
      <4>. DEFINE entry == [report |-> [provider |-> p, seen |-> now, quality |-> s.quality,
                                        type |-> s.type, category |-> s.category,
                                        military |-> s.military],
                            parses |-> parses]
      <4>2. entry.report.seen = now /\ entry.report.provider = p
        OBVIOUS
      <4>3. raw'[b] = {e \in raw[b] : e.report.provider # p} \cup {entry}
        BY <2>2, <4>1 DEF TypeOK
      <4>. HIDE DEF entry
      <4>. QED
        BY <4>2, <4>3
    <3>2. \A t \in Nat : t <= now => Fresh(raw'[b], t)
      BY <1>0, <3>1 DEF Fresh
    <3>3. pc = "scanned" => Fresh(Fetched(b)', peak[b])
      <4>. SUFFICES ASSUME pc = "scanned", NEW e \in Fetched(b)'
                    PROVE  \E f \in Fetched(b)' : f.report.seen >= peak[b]
        BY DEF Fresh
      <4>1. /\ Fetched(b) = {x \in raw[b] : <<b, x.report.provider>> \in keys}
            /\ Fetched(b)' = {x \in raw'[b] : <<b, x.report.provider>> \in keys}
        BY <2>0 DEF Fetched, Key
      <4>2. CASE <<b, p>> \in keys
        BY <1>0, <3>1, <4>1, <4>2 DEF RegressInv
      <4>3. CASE <<b, p>> \notin keys
        <5>1. Fetched(b)' = Fetched(b)
          BY <3>1, <4>1, <4>3
        <5>. QED
          BY <1>0, <5>1 DEF RegressInv, Fresh
      <4>. QED
        BY <4>2, <4>3
    <3>4. \A e \in raw'[b] : e.report.seen <= now
      BY <1>0, <3>1 DEF RegressInv
    <3>5. Fresh(raw'[b], peak[b]) /\ (stage[b] # "done" => Fresh(raw'[b], batch[b].seen))
      BY <1>0, <3>2 DEF RegressInv
    <3>. QED
      BY <1>0, <2>0, <3>3, <3>4, <3>5 DEF RegressInv
  <2>. QED
    BY <2>1, <2>2
<1>4. CASE Scan
  <2>1. /\ pc = "idle" /\ pc' = "scanned"
        /\ UNCHANGED <<now, raw, batch, stage, peak, partial>>
    BY <1>4 DEF Scan, redisVars, historyVars
  <2>2. Fetched(b)' = raw[b]
    BY <1>4, <2>1 DEF Scan, Fetched, Key
  <2>. QED
    BY <1>0, <2>1, <2>2 DEF RegressInv
<1>5. CASE FetchAndMerge
  <2>1. /\ pc = "scanned" /\ pc' = "merging" /\ UNCHANGED <<now, raw, peak>>
        /\ batch'[b] = IF Parsed(Fetched(b)) = {} THEN Absent
                       ELSE Merge(Parsed(Fetched(b)))
        /\ stage'[b] = IF batch'[b] = Absent THEN "done" ELSE "write"
        /\ b \notin partial' => \A e \in Fetched(b) : e.parses
    BY <1>5 DEF FetchAndMerge, redisVars
  <2>2. CASE batch'[b] = Absent
    BY <1>0, <2>1, <2>2 DEF RegressInv
  <2>3. CASE batch'[b] # Absent
    <3>1. /\ batch'[b].seen \in Nat
          /\ \E e \in raw[b] : e.report.seen = batch'[b].seen
          /\ \A e \in Fetched(b) : e.parses => e.report.seen <= batch'[b].seen + Window
      BY <2>1, <2>3, FetchedMerge DEF State
    <3>2. batch'[b].seen <= now /\ Fresh(raw[b], batch'[b].seen)
      BY <1>0, <3>1 DEF RegressInv, Fresh
    <3>3. ASSUME b \notin partial' PROVE peak[b] <= batch'[b].seen + Window
      <4>1. Fetched(b) # {}
        BY <2>1, <2>3 DEF Parsed
      <4>2. PICK f \in Fetched(b) : f.report.seen >= peak[b]
        BY <1>0, <2>1, <4>1 DEF RegressInv, Fresh
      <4>3. f.report.seen <= batch'[b].seen + Window /\ f.report.seen \in Nat
        BY <1>0, <2>1, <3>1, <3>3 DEF Fetched
      <4>. QED
        BY <1>0, <3>1, <4>2, <4>3, WindowAssumption
    <3>. QED
      BY <1>0, <2>1, <2>3, <3>2, <3>3 DEF RegressInv
  <2>. QED
    BY <2>2, <2>3
<1>6. ASSUME NEW a \in Aircraft,
             Persist(a) \/ PersistFailed(a) \/ Publish(a) \/ PublishFailed(a)
      PROVE  RegressInv(b)'
  <2>1. /\ pc = "merging" /\ pc' = "merging" /\ stage[a] # "done"
        /\ UNCHANGED <<now, raw, batch, partial>>
    BY <1>6 DEF Persist, PersistFailed, Publish, PublishFailed, redisVars, historyVars
  <2>2. CASE a # b
    <3>1. stage'[b] = stage[b] /\ peak'[b] = peak[b]
      BY <1>6, <2>2 DEF TypeOK, Persist, PersistFailed, Publish, PublishFailed, Confirm,
           GiveUp, AddToStream, historyVars
    <3>. QED
      BY <1>0, <2>1, <3>1 DEF RegressInv
  <2>3. CASE a = b
    <3>1. peak'[b] = peak[b] \/ (stage'[b] = "done" /\ peak'[b] = Later(peak[b], batch[b].seen))
      BY <1>6, <2>3 DEF TypeOK, Persist, PersistFailed, Publish, PublishFailed, Confirm,
           GiveUp, AddToStream, historyVars
    <3>2. CASE peak'[b] = peak[b]
      BY <1>0, <2>1, <2>3, <3>2 DEF RegressInv
    <3>3. CASE stage'[b] = "done" /\ peak'[b] = Later(peak[b], batch[b].seen)
      <4>1. peak'[b] \in {peak[b], batch[b].seen}
        BY <3>3 DEF Later
      <4>. QED
        BY <1>0, <2>1, <2>3, <3>3, <4>1 DEF RegressInv
    <3>. QED
      BY <3>1, <3>2, <3>3
  <2>. QED
    BY <2>2, <2>3
<1>7. CASE CycleDone
  <2>1. /\ pc' = "pruning" /\ stage'[b] = "done" /\ UNCHANGED <<now, raw, peak>>
    BY <1>7 DEF CycleDone, redisVars
  <2>. QED
    BY <1>0, <2>1 DEF RegressInv
<1>8. CASE Restart
  <2>1. /\ pc' = "idle" /\ stage'[b] = "done" /\ UNCHANGED <<now, raw, peak>>
    BY <1>8 DEF Restart, redisVars
  <2>. QED
    BY <1>0, <2>1 DEF RegressInv
<1>9. CASE ScanFailed \/ FindExpired \/ RemoveExpired \/ PruneFailed
  <2>1. /\ pc # "merging" /\ pc' # "scanned"
        /\ UNCHANGED <<now, raw, batch, stage, peak, partial>>
    BY <1>9 DEF ScanFailed, FindExpired, RemoveExpired, PruneFailed, redisVars, historyVars
  <2>. QED
    BY <1>0, <2>1 DEF RegressInv
<1>. QED
  BY <1>1, <1>2, <1>3, <1>4, <1>5, <1>6, <1>7, <1>8, <1>9 DEF Next, Step, Failure

(* The inductive invariant holds in every reachable state. *)
THEOREM RegressInvariant == Spec => [](TypeOK /\ NoRegressInv)
  BY TypeInit, TypeStep, RegressInit, RegressStep, CycleInvariant, PTL DEF Spec

(* The normalizer's state is well typed: in particular a merge always has  *)
(* a winner, so what is stored and published is a FlightState.             *)
THEOREM TypeCorrect == Spec => []TypeOK
  BY RegressInvariant, PTL

(* For every tie window, raw TTL and fleet, an update is never published   *)
(* more than the tie window behind an earlier one of its aircraft, unless  *)
(* a report of the cycle did not parse (MergeAll, pickWinner).             *)
THEOREM RegressIsBounded == Spec => RegressBounded
<1>. DEFINE Bounded == \A a \in Aircraft \ partial : stream'[a] # stream[a]
                         => peak[a] - stream'[a].seen <= Window
<1>1. TypeOK /\ NoRegressInv /\ [Next]_vars => [Bounded]_vars
  <2>. SUFFICES ASSUME TypeOK, NoRegressInv, [Next]_vars, NEW a \in Aircraft, a \notin partial,
                       stream'[a] # stream[a]
                PROVE  peak[a] - stream'[a].seen <= Window
    OBVIOUS
  <2>1. PICK b \in Aircraft : Publish(b) \/ PublishFailed(b)
    BY DEF Next, Step, Failure, Tick, Scan, FetchAndMerge, CycleDone, FindExpired,
           RemoveExpired, Persist, ScanFailed, PruneFailed, Restart, PersistFailed,
           WriteRaw, vars, historyVars
  <2>2. stage[b] = "publish" /\ (stream' = [stream EXCEPT ![b] = batch[b]] \/ stream' = stream)
    BY <2>1 DEF Publish, PublishFailed, AddToStream
  <2>3. b = a /\ stream'[a] = batch[a]
    BY <2>2 DEF TypeOK
  <2>4. peak[a] <= batch[a].seen + Window /\ batch[a] # Absent
    BY <2>2, <2>3 DEF NoRegressInv, RegressInv
  <2>5. peak[a] \in Nat /\ batch[a].seen \in Nat
    BY <2>4 DEF TypeOK, State
  <2>. QED
    BY <2>3, <2>4, <2>5, WindowAssumption
<1>. QED
  BY <1>1, RegressInvariant, PTL DEF Spec, RegressBounded
=============================================================================
