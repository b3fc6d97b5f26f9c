------------------------------- MODULE Replay -------------------------------
(***************************************************************************)
(* Replay: GET /replay answers from flight_history up to the retention     *)
(* cutoff and from FLIGHTS_UPDATES after it, and the browser plays the     *)
(* window it was sent.                                                     *)
(*                                                                         *)
(* cmd/apigateway/replay.go; internal/natsutil/flighttail.go;              *)
(* internal/pgstore/flighthistory.go; web/src/store/useReplayStore.ts,     *)
(* replay/*, map/MapView.tsx.                                              *)
(*                                                                         *)
(* The Postgres writer of module PgWriter, the normalizer and the clock    *)
(* run on between the query, the opening of the stream reader and each of  *)
(* its fetches; the user may leave and come back while an answer is on its *)
(* way.                                                                    *)
(***************************************************************************)
EXTENDS PgWriter

CONSTANTS
  Windows,       \* lengths asked for: REPLAY_WINDOW_MS, or an API client's
  MaxRows,       \* QueryFlightHistoryMaxRows
  FetchBatch,    \* replayJetStreamFetchBatch
  MaxCalls       \* bound: requests

ASSUME WindowsAssumption == Windows \subseteq Nat \ {0}   \* "to must be after from"
ASSUME ReplayConstants == MaxRows \in Nat /\ FetchBatch \in Nat

VARIABLES
  req,           \* the gateway's handler of the latest request
  call,          \* the request replayAbortRef may abort, 0 once aborted
  calls,         \* requests made
  answers,       \* answers on their way to the browser
  player         \* useReplayStore

replayVars == <<req, call, calls, answers, player>>
replaySpecVars == <<vars, replayVars>>

None == [call |-> 0, samples |-> <<>>, start |-> 0, end |-> 0, scrub |-> 0]

Exited ==
  [isActive |-> FALSE, isLoading |-> FALSE, isPlaying |-> FALSE, window |-> None]

NoRequest ==
  [pc |-> "idle", from |-> 0, to |-> 0, cutoff |-> 0, samples |-> <<>>, pos |-> 1,
   remaining |-> 0, upto |-> 0, cut |-> FALSE]

ReplayInit ==
  /\ Init
  /\ req = NoRequest /\ call = 0 /\ calls = 0 /\ answers = {} /\ player = Exited

-----------------------------------------------------------------------------
(* The gateway.  A sample carries the observation it stands for. *)

LowerOf(s, t) == IF s < t THEN s ELSE t
HigherOf(s, t) == IF s < t THEN t ELSE s

Answer(ok, samples, cut) ==
  /\ answers' = answers \cup
       {[call |-> calls, ok |-> ok, samples |-> samples, from |-> req.from, to |-> req.to]}
  /\ req' = [req EXCEPT !.pc = "answered", !.samples = samples, !.cut = cut]

(* ORDER BY recorded_at LIMIT MaxRows: rows of the same time come in any  *)
(* order, and of those at the limit any are left out.                      *)
QueryFlightHistoryRange(from, to) ==
  LET rows == {r \in history : r.recordedAt \in from .. to}
      n == LowerOf(Cardinality(rows), MaxRows)
  IN  {s \in [1 .. n -> rows] :
         /\ \A i, j \in 1 .. n : i < j => s[i] # s[j] /\ s[i].recordedAt <= s[j].recordedAt
         /\ \A r \in rows, i \in 1 .. n :
              s[i].recordedAt <= r.recordedAt \/ \E j \in 1 .. n : s[j] = r}

RowSamples(rows) ==
  [i \in DOMAIN rows |-> [icao24 |-> rows[i].icao24, at |-> rows[i].recordedAt,
                          seen |-> rows[i].recordedAt]]

(* Mutant: the history is asked for up to the end of the window. *)
HistoryToEnd(cutoff) == req.to

HistoryTo(cutoff) == LowerOf(req.to, cutoff)

(* The older part of the window, if any. *)
CollectHistory ==
  /\ req.pc = "history"
  /\ LET cutoff == now - Retention IN
     \E rows \in IF req.from < cutoff
                 THEN QueryFlightHistoryRange(req.from, HistoryTo(cutoff)) ELSE {<<>>} :
       req' = [req EXCEPT !.pc = "open", !.cutoff = cutoff, !.samples = RowSamples(rows)]
  /\ UNCHANGED <<vars, call, calls, answers, player>>

StreamFrom == HigherOf(req.from, req.cutoff)

(* Mutant: delivery starts after the start time. *)
PendingAfter(pos) == {i \in pos .. Len(stream) : Kept(i) /\ stream[i].at > StreamFrom}

(* What an ordered consumer still has to deliver from a position on. *)
Pending(pos) == {i \in pos .. Len(stream) : Kept(i) /\ stream[i].at >= StreamFrom}

(* NewFlightStateReplayReader and PendingCount. *)
OpenReader ==
  /\ req.pc = "open"
  /\ IF StreamFrom < req.to /\ Pending(1) # {}
     THEN /\ req' = [req EXCEPT !.pc = "fetch", !.pos = 1, !.upto = Len(stream),
                                !.remaining = Cardinality(Pending(1))]
          /\ UNCHANGED answers
     ELSE Answer(TRUE, req.samples, FALSE)
  /\ UNCHANGED <<vars, call, calls, player>>

(* Those of a batch before the first past `to`. *)
Taken(decoded) ==
  {i \in decoded : \A j \in decoded : stream[j].at > req.to => i < j}

InOrder(S) ==
  LET n == Cardinality(S) IN
  {s \in [1 .. n -> S] : \A j, k \in 1 .. n : j < k => s[j] < s[k]}

UpdateSamples(s) ==
  [j \in DOMAIN s |-> [icao24 |-> stream[s[j]].icao24, at |-> stream[s[j]].at,
                       seen |-> stream[s[j]].seen]]

(* Mutant: only an exhausted backlog ends the loop. *)
NothingDecodedNever(decoded) == FALSE

NothingDecoded(decoded) == decoded = {}

(* FetchBacklog gives what was decoded of a batch, and only that is taken  *)
(* off `remaining`.  A slow broker may send less than is asked for.        *)
Fetch ==
  /\ req.pc = "fetch"
  /\ \E end \in {req.pos - 1} \cup Pending(req.pos) :
       LET batch == {i \in Pending(req.pos) : i <= end}
           decoded == {i \in batch : stream[i].decodes}
           left == req.remaining - Cardinality(decoded)
           pastTo == \E i \in decoded : stream[i].at > req.to
       IN  /\ Cardinality(batch) <= LowerOf(FetchBatch, req.remaining)
           /\ \E s \in InOrder(Taken(decoded)) :
                LET samples == req.samples \o UpdateSamples(s) IN
                IF NothingDecoded(decoded) \/ pastTo \/ left = 0
                THEN Answer(TRUE, samples, NothingDecoded(decoded))
                ELSE /\ req' = [req EXCEPT !.samples = samples, !.remaining = left,
                                          !.pos = end + 1]
                     /\ UNCHANGED answers
  /\ UNCHANGED <<vars, call, calls, player>>

(* Postgres or the broker does not answer: 500. *)
CollectFails ==
  /\ req.pc \in {"history", "open", "fetch"}
  /\ Answer(FALSE, <<>>, FALSE)
  /\ UNCHANGED <<vars, call, calls, player>>

Collect == CollectHistory \/ OpenReader \/ Fetch

-----------------------------------------------------------------------------
(* The browser. *)

HasWindow == player.window # None

(* The button is there in live mode only. *)
StartReplay ==
  /\ ~player.isActive /\ calls < MaxCalls
  /\ calls' = calls + 1 /\ call' = calls'
  /\ player' = [player EXCEPT !.isActive = TRUE, !.isLoading = TRUE]
  /\ \E w \in Windows :
       req' = [NoRequest EXCEPT !.pc = "history", !.from = now - w, !.to = now]
  /\ UNCHANGED <<vars, answers>>

(* Mutant: leaving replay does not abort the request. *)
Unaborted(r) == r.call = calls /\ r.call # 0

Current(r) == r.call = call

(* loadWindow, setError, or nothing when the request was aborted. *)
Land(r) ==
  /\ r \in answers /\ answers' = answers \ {r}
  /\ player' =
       IF ~Current(r) THEN player
       ELSE IF r.ok
       THEN [player EXCEPT !.isLoading = FALSE, !.isPlaying = FALSE,
               !.window = [call |-> r.call, samples |-> r.samples, start |-> r.from,
                           end |-> r.to, scrub |-> r.from]]
       ELSE [player EXCEPT !.isLoading = FALSE]
  /\ UNCHANGED <<vars, req, call, calls>>

Clamped(ms) == LowerOf(HigherOf(ms, player.window.start), player.window.end)

setScrub(ms) ==
  player' = [player EXCEPT !.window.scrub = Clamped(ms),
                           !.isPlaying = @ /\ Clamped(ms) < player.window.end]

(* A dragged slider, or the timer of ReplayScrubber. *)
Scrub ==
  /\ player.isActive /\ HasWindow
  /\ \/ \E ms \in player.window.start .. player.window.end : setScrub(ms)
     \/ player.isPlaying /\ setScrub(player.window.scrub + 1)
  /\ UNCHANGED <<vars, req, call, calls, answers>>

togglePlay ==
  /\ player.isActive /\ HasWindow
  /\ player' =
       IF ~player.isPlaying /\ player.window.scrub >= player.window.end
       THEN [player EXCEPT !.isPlaying = TRUE, !.window.scrub = player.window.start]
       ELSE [player EXCEPT !.isPlaying = ~@]
  /\ UNCHANGED <<vars, req, call, calls, answers>>

(* The effect on isReplayActive aborts the request before anything lands;  *)
(* the gateway's handler is cancelled with it.                             *)
exit ==
  /\ player.isActive
  /\ player' = Exited /\ call' = 0 /\ req' = NoRequest
  /\ UNCHANGED <<vars, calls, answers>>

Browser ==
  \/ StartReplay \/ Scrub \/ togglePlay \/ exit
  \/ \E r \in answers : Land(r)

(* computeFlightsAtTime: the scan stops at the first sample past the head. *)
Frame(a) ==
  LET samples == player.window.samples
      past == {i \in DOMAIN samples : samples[i].at > player.window.scrub}
      scanned == {i \in DOMAIN samples : \A j \in past : i < j}
      mine == {i \in scanned : samples[i].icao24 = a}
  IN  IF mine = {} THEN 0 ELSE CHOOSE i \in mine : \A j \in mine : j <= i

ReplayNext ==
  \/ Next /\ UNCHANGED replayVars
  \/ Collect \/ CollectFails
  \/ Browser

ReplaySpec == ReplayInit /\ [][ReplayNext]_replaySpecVars

(* The handler's calls return within their timeouts, and so does the       *)
(* browser's fetch.                                                        *)
ReplayFairness ==
  /\ WF_replaySpecVars(Collect)
  /\ WF_replaySpecVars(\E r \in answers : Land(r))

FairReplaySpec == ReplaySpec /\ ReplayFairness

-----------------------------------------------------------------------------
(* "appending Postgres's (older) results before JetStream's (newer) ones   *)
(* is already a correctly time-ordered result": whatever is written,       *)
(* published or expired between the two reads, so computeFlightsAtTime     *)
(* may stop at the first sample past the head: what it shows of an         *)
(* aircraft is the last of its samples the head has reached.               *)
FrameIsLatest ==
  \A a \in Aircraft, i \in DOMAIN player.window.samples :
    LET s == player.window.samples[i] IN
    s.icao24 = a /\ s.at <= player.window.scrub => i <= Frame(a)

Wanted(i) == Kept(i) /\ stream[i].decodes /\ stream[i].at \in StreamFrom .. req.to

Collected(i) ==
  \E k \in DOMAIN req.samples :
    req.samples[k].at = stream[i].at /\ req.samples[k].seen = stream[i].seen

(* The stream's part of an answer misses nothing it is meant to hold: an   *)
(* update in the window, published before the backlog was counted and      *)
(* still kept, is among the samples, unless a batch came back empty, or    *)
(* without one update that decodes.                                        *)
StreamPartComplete ==
  req.pc = "answered" /\ req.upto > 0 /\ ~req.cut /\ (\E r \in answers : r.ok /\ r.call = calls)
  => \A i \in 1 .. req.upto : Wanted(i) => Collected(i)

(* A window is shown in replay mode only, and is the one asked for last:   *)
(* a slow answer never lands after the user left or asked again.  The head *)
(* is inside it, and playback never runs past its end.                     *)
PlayerShowsWhatWasAsked ==
  HasWindow =>
    /\ player.isActive /\ player.window.call = calls
    /\ player.window.scrub \in player.window.start .. player.window.end
    /\ player.isPlaying => player.window.scrub < player.window.end

(* The request in the gateway, the answers on their way and the window     *)
(* shown are all of a time that ends after it starts, and only the request *)
(* of a player in replay mode can be aborted or land.                      *)
InOrderOfTime(r) == r.from \in Int /\ r.to \in Int /\ r.from < r.to

(* The records have the fields they start with. *)
RequestShape ==
  req = [pc |-> req.pc, from |-> req.from, to |-> req.to, cutoff |-> req.cutoff,
         samples |-> req.samples, pos |-> req.pos, remaining |-> req.remaining,
         upto |-> req.upto, cut |-> req.cut]
PlayerShape ==
  player = [isActive |-> player.isActive, isLoading |-> player.isLoading,
            isPlaying |-> player.isPlaying, window |-> player.window]
WindowShape ==
  LET w == player.window IN
  w = [call |-> w.call, samples |-> w.samples, start |-> w.start, end |-> w.end,
       scrub |-> w.scrub]

RequestInv ==
  /\ RequestShape
  /\ req.pc # "idle" => InOrderOfTime(req) /\ player.isActive
  /\ \A r \in answers : InOrderOfTime(r) /\ r.call \in 1 .. calls

PlayerInv ==
  /\ PlayerShape
  /\ player.isActive \in BOOLEAN /\ player.isPlaying \in BOOLEAN
  /\ HasWindow =>
       /\ WindowShape
       /\ player.window.start \in Int /\ player.window.end \in Int
       /\ player.window.start < player.window.end
  /\ calls \in Nat
  /\ IF player.isActive THEN call = calls /\ calls # 0 ELSE call = 0
  /\ PlayerShowsWhatWasAsked

ReplayInv == RequestInv /\ PlayerInv

(* The invariant behind FrameIsLatest: the stream is in order of time, and *)
(* what was collected is in order and not ahead of what is still to come.  *)
Samples == [icao24 : Aircraft, at : Nat, seen : Nat]

Ascending(s) ==
  s \in Seq(Samples) /\ \A i, j \in DOMAIN s : i <= j => s[i].at <= s[j].at

StreamAscends ==
  \A i, j \in DOMAIN stream : i <= j => stream[i].at <= stream[j].at /\ stream[j].at <= now

Behind(sample) ==
  \/ sample.at <= StreamFrom
  \/ \E j \in 1 .. req.pos - 1 : sample.at = stream[j].at

RequestInOrder ==
  /\ Ascending(req.samples)
  /\ req.pos \in Nat \ {0} /\ req.pos - 1 <= Len(stream)
  /\ req.cutoff \in Int
  /\ req.pc = "open" => \A k \in DOMAIN req.samples : req.samples[k].at <= StreamFrom
  /\ req.pc = "fetch" => \A k \in DOMAIN req.samples : Behind(req.samples[k])

SamplesInv ==
  /\ IsFiniteSet(history) /\ StreamAscends
  /\ RequestInOrder
  /\ \A r \in answers : Ascending(r.samples)
  /\ Ascending(player.window.samples)

(* And the one behind StreamPartComplete: what is to be in the answer has  *)
(* been collected up to the reader's position, and `remaining` still       *)
(* covers what comes after it of the backlog that was counted.             *)
Backlog == {i \in Pending(req.pos) : i <= req.upto}

BacklogInv ==
  /\ req.upto \in Nat /\ req.upto <= Len(stream)
  /\ req.pc \in {"history", "open"} => req.upto = 0
  /\ req.pc \in {"history", "open", "fetch"} => \A r \in answers : r.call # calls
  /\ req.pc = "fetch" =>
       /\ req.remaining \in Nat /\ Cardinality(Backlog) <= req.remaining
       /\ \A i \in 1 .. req.upto : i < req.pos /\ Wanted(i) => Collected(i)
  /\ StreamPartComplete

(* Loading ends: the chunk loop stops even when `remaining` never reaches  *)
(* zero, as it does when updates do not decode.                            *)
LoadingEnds == player.isLoading ~> ~player.isLoading
=============================================================================
