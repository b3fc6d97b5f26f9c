------------------------------ MODULE PgWriter ------------------------------
(***************************************************************************)
(* The Postgres writer: one process with two durable consumers.  The one   *)
(* of FLIGHTS_UPDATES keeps a sample of each aircraft per Interval in      *)
(* flight_history; the one of EVENTS_DETECTED stores every event.          *)
(*                                                                         *)
(* cmd/pgstorewriter/main.go; internal/pgstorewriter/*.go;                 *)
(* internal/pgstore/flighthistory.go, events.go;                           *)
(* internal/natsutil/subscriber.go, eventsubscriber.go.                    *)
(*                                                                         *)
(* The eviction loop runs between a reservation and the insert it is for.  *)
(* An insert may fail before or after Postgres commits it, an              *)
(* acknowledgement may be lost, and the process may restart: lastSeen is   *)
(* then empty, and JetStream sends again what was not acknowledged.        *)
(***************************************************************************)
EXTENDS Integers, Sequences, FiniteSets

CONSTANTS
  Aircraft, Events,
  Interval,            \* HISTORY_DOWNSAMPLE_INTERVAL_SECONDS, in ticks
  evictAfterMultiple,
  Retention,           \* how long both streams keep a message, in ticks
  eventMaxDeliver,
  MaxTime,             \* bound: the last tick
  MaxLag,              \* bound: how old a LastSeenUTC is when it is published
  MaxUpdates,          \* bound: the length of FLIGHTS_UPDATES
  MaxGarbled,          \* bound: updates that do not decode
  MaxLives,            \* bound: lives of the process
  MaxFaults            \* bound: failed inserts and acknowledgements

ASSUME PgWriterConstants ==
  /\ Interval \in Nat \ {0} /\ evictAfterMultiple \in Nat \ {0}
  /\ Retention \in Nat /\ eventMaxDeliver \in Nat \ {0}

VARIABLES
  now,
  stream,       \* FLIGHTS_UPDATES
  next, redo,   \* the consumer: first message never sent, those to be sent again
  inbox,        \* messages the consumer's client holds
  hpc, last,    \* the handler: its next call, the entry it replaced
  lastSeen,     \* HistoryWriter.lastSeen
  history,      \* the table flight_history
  event,        \* EVENTS_DETECTED: where each event is, and its deliveries
  eventRows,    \* the table events
  life, faults

flightVars == <<next, redo, inbox, hpc, last, lastSeen>>
eventVars  == <<event, eventRows>>
vars == <<now, stream, flightVars, history, eventVars, life, faults>>

Never == -1     \* no entry in lastSeen

EvictAfter == Interval * evictAfterMultiple

(* A row of flight_history.  Its key is what the table holds; which life   *)
(* wrote it, whether the writer was told so and whether the update was     *)
(* late, so that its predecessor may have been evicted, are history.       *)
Row(u, sure) ==
  [icao24 |-> u.icao24, recordedAt |-> u.seen, life |-> life, sure |-> sure,
   late |-> now - u.seen > EvictAfter - Interval]

Init ==
  /\ now = 0 /\ stream = <<>> /\ next = 1 /\ redo = {} /\ inbox = <<>>
  /\ hpc = "idle" /\ last = Never /\ lastSeen = [a \in Aircraft |-> Never]
  /\ history = {} /\ eventRows = {}
  /\ event = [e \in Events |-> [at |-> "unpublished", tries |-> 0, born |-> 0]]
  /\ life = 1 /\ faults = 0

Fault == faults < MaxFaults /\ faults' = faults + 1

-----------------------------------------------------------------------------
(* The environment: time, the normalizer, the event engine. *)

Tick ==
  /\ now < MaxTime
  /\ now' = now + 1
  /\ UNCHANGED <<stream, flightVars, history, eventVars, life, faults>>

Garbled == {i \in DOMAIN stream : ~stream[i].decodes}

PublishUpdate(a) ==
  /\ Len(stream) < MaxUpdates
  /\ \E t \in {t \in 0 .. now : now - t <= MaxLag}, ok \in BOOLEAN :
       /\ ok \/ Cardinality(Garbled) < MaxGarbled
       /\ stream' = Append(stream, [icao24 |-> a, seen |-> t, at |-> now, decodes |-> ok])
  /\ UNCHANGED <<now, flightVars, history, eventVars, life, faults>>

PublishEvent(e) ==
  /\ event[e].at = "unpublished"
  /\ event' = [event EXCEPT ![e].at = "waiting", ![e].born = now]
  /\ UNCHANGED <<now, stream, flightVars, history, eventRows, life, faults>>

Kept(i) == now - stream[i].at <= Retention

-----------------------------------------------------------------------------
(* The consumer of FLIGHTS_UPDATES and HistoryWriter. *)

(* An unacknowledged update comes again, behind newer ones. *)
Deliver ==
  \E i \in DOMAIN stream :
    /\ Kept(i)
    /\ \/ /\ i >= next /\ \A j \in next .. i - 1 : ~Kept(j)
          /\ next' = i + 1 /\ UNCHANGED redo
       \/ i \in redo /\ redo' = redo \ {i} /\ UNCHANGED next
    /\ inbox' = Append(inbox, i)
    /\ UNCHANGED <<now, stream, hpc, last, lastSeen, history, eventVars, life, faults>>

state == stream[Head(inbox)]

(* Mutant: an update older than the last sample is not skipped. *)
SkippedForward ==
  \/ ~state.decodes
  \/ /\ lastSeen[state.icao24] # Never
     /\ state.seen - lastSeen[state.icao24] \in 0 .. Interval - 1

(* Within the interval of the sample before, or not an update at all. *)
Skipped ==
  \/ ~state.decodes
  \/ lastSeen[state.icao24] # Never /\ state.seen - lastSeen[state.icao24] < Interval

Skip ==
  /\ hpc = "idle" /\ inbox # <<>> /\ Skipped
  /\ hpc' = "ack"
  /\ UNCHANGED <<now, stream, next, redo, inbox, last, lastSeen, history, eventVars,
                 life, faults>>

Reserve ==
  /\ hpc = "idle" /\ inbox # <<>> /\ ~Skipped
  /\ last' = lastSeen[state.icao24]
  /\ lastSeen' = [lastSeen EXCEPT ![state.icao24] = state.seen]
  /\ hpc' = "insert"
  /\ UNCHANGED <<now, stream, next, redo, inbox, history, eventVars, life, faults>>

(* ON CONFLICT (icao24, recorded_at) DO NOTHING. *)
InsertFlightHistory(sure) ==
  IF \E r \in history : r.icao24 = state.icao24 /\ r.recordedAt = state.seen
  THEN history ELSE history \cup {Row(state, sure)}

Insert ==
  /\ hpc = "insert"
  /\ history' = InsertFlightHistory(TRUE)
  /\ hpc' = "ack"
  /\ UNCHANGED <<now, stream, next, redo, inbox, last, lastSeen, eventVars, life, faults>>

(* Mutant: a failed insert keeps its reservation. *)
KeepReservation == lastSeen

RollBack ==
  IF lastSeen[state.icao24] = state.seen
  THEN [lastSeen EXCEPT ![state.icao24] = last] ELSE lastSeen

(* The error is logged; the update is acknowledged all the same. *)
InsertFails ==
  /\ hpc = "insert" /\ Fault
  /\ history' \in {history, InsertFlightHistory(FALSE)}
  /\ lastSeen' = RollBack
  /\ hpc' = "ack"
  /\ UNCHANGED <<now, stream, next, redo, inbox, last, eventVars, life>>

Ack ==
  /\ hpc = "ack"
  /\ inbox' = Tail(inbox) /\ hpc' = "idle" /\ last' = Never
  /\ \/ UNCHANGED <<redo, faults>>
     \/ Fault /\ redo' = redo \cup {Head(inbox)}
  /\ UNCHANGED <<now, stream, next, lastSeen, history, eventVars, life>>

(* Mutant: entries are forgotten before evictAfter is over. *)
ForgottenEarly(a) == lastSeen[a] <= now - Interval

Forgotten(a) == lastSeen[a] < now - EvictAfter

(* runEvictionLoop: EvictBefore(now - evictAfter), with the wall clock. *)
EvictBefore ==
  /\ \E a \in Aircraft : lastSeen[a] # Never /\ Forgotten(a)
  /\ lastSeen' = [a \in Aircraft |-> IF Forgotten(a) THEN Never ELSE lastSeen[a]]
  /\ UNCHANGED <<now, stream, next, redo, inbox, hpc, last, history, eventVars, life, faults>>

-----------------------------------------------------------------------------
(* EventSubscriber and EventWriter. *)

Move(e, where) == event' = [event EXCEPT ![e].at = where]

Unexpired(e) == now - event[e].born <= Retention

(* MaxDeliver of the durable consumer. *)
Deliverable(e) == event[e].tries < eventMaxDeliver

DeliverEvent(e) ==
  /\ event[e].at = "waiting" /\ Unexpired(e) /\ Deliverable(e)
  /\ event' = [event EXCEPT ![e].at = "client", ![e].tries = @ + 1]
  /\ UNCHANGED <<now, stream, flightVars, history, eventRows, life, faults>>

(* ON CONFLICT (id) DO NOTHING. *)
HandleEvent(e) ==
  /\ event[e].at = "client"
  /\ eventRows' = eventRows \cup {e}
  /\ Move(e, "handled")
  /\ UNCHANGED <<now, stream, flightVars, history, life, faults>>

(* Mutant: a failed event is acknowledged. *)
RefusedAcked(e) == IF event[e].tries >= eventMaxDeliver THEN "given up" ELSE "handled"

Refused(e) == IF event[e].tries >= eventMaxDeliver THEN "given up" ELSE "waiting"

(* NakWithDelay, or Term after the last attempt. *)
HandleEventFails(e) ==
  /\ event[e].at = "client" /\ Fault
  /\ eventRows' \in {eventRows, eventRows \cup {e}}
  /\ Move(e, Refused(e))
  /\ UNCHANGED <<now, stream, flightVars, history, life>>

AckEvent(e) ==
  /\ event[e].at = "handled"
  /\ \/ Move(e, "acked") /\ UNCHANGED faults
     \/ Fault /\ Move(e, "waiting")
  /\ UNCHANGED <<now, stream, flightVars, history, eventRows, life>>

-----------------------------------------------------------------------------
(* Everything in memory is lost, and what was in hand is sent again. *)
Restart ==
  /\ life < MaxLives /\ life' = life + 1
  /\ redo' = redo \cup {inbox[i] : i \in DOMAIN inbox}
  /\ inbox' = <<>> /\ hpc' = "idle" /\ last' = Never
  /\ lastSeen' = [a \in Aircraft |-> Never]
  /\ event' = [e \in Events |->
                 IF event[e].at \in {"client", "handled"}
                 THEN [event[e] EXCEPT !.at = "waiting"] ELSE event[e]]
  /\ UNCHANGED <<now, stream, next, history, eventRows, faults>>

HistoryStep == Skip \/ Reserve \/ Insert \/ InsertFails \/ Ack

EventStep(e) == DeliverEvent(e) \/ HandleEvent(e) \/ HandleEventFails(e) \/ AckEvent(e)

Next ==
  \/ Tick \/ Deliver \/ HistoryStep \/ EvictBefore \/ Restart
  \/ \E a \in Aircraft : PublishUpdate(a)
  \/ \E e \in Events : PublishEvent(e) \/ EventStep(e)

Spec == Init /\ [][Next]_vars

(* The broker sends what waits, and the callback returns: Postgres answers *)
(* or the call fails.                                                      *)
Fairness == \A e \in Events : WF_vars(EventStep(e))

FairSpec == Spec /\ Fairness

-----------------------------------------------------------------------------
Updates == [icao24 : Aircraft, seen : Nat, at : Nat, decodes : BOOLEAN]
Places == {"unpublished", "waiting", "client", "handled", "acked", "given up"}

Rows == [icao24 : Aircraft, recordedAt : Nat, life : Nat \ {0}, sure : BOOLEAN,
         late : BOOLEAN]

(* Every variable has its type, and a handler at work has an update at     *)
(* hand.                                                                   *)
StreamTypeOK ==
  /\ now \in Nat /\ life \in Nat \ {0} /\ faults \in Nat
  /\ stream \in Seq(Updates)
  /\ next \in Nat \ {0} /\ next - 1 <= Len(stream)
ConsumerTypeOK ==
  /\ redo \subseteq 1 .. next - 1
  /\ inbox \in Seq(Nat) /\ \A i \in DOMAIN inbox : inbox[i] \in 1 .. next - 1
WriterTypeOK ==
  /\ hpc \in {"idle", "insert", "ack"} /\ (hpc # "idle" => inbox # <<>>)
  /\ last \in Nat \cup {Never} /\ lastSeen \in [Aircraft -> Nat \cup {Never}]
TablesTypeOK == history \subseteq Rows /\ eventRows \subseteq Events
EventTypeOK ==
  event \in [Events -> [at : Places, tries : 0 .. eventMaxDeliver, born : Nat]]
TypeOK ==
  StreamTypeOK /\ ConsumerTypeOK /\ WriterTypeOK /\ TablesTypeOK /\ EventTypeOK

(* HistoryWriter "writing at most one row per aircraft per Interval": two  *)
(* rows closer than that were written by two lives of the process, or one  *)
(* of them by an insert that reported a failure, or one was handled so     *)
(* late that its predecessor had been evicted by the wall clock.           *)
OneRowPerInterval ==
  \A r, s \in history :
    /\ r.icao24 = s.icao24 /\ r.life = s.life /\ r.sure /\ s.sure /\ ~r.late /\ ~s.late
    /\ r.recordedAt < s.recordedAt
    => s.recordedAt - r.recordedAt >= Interval

(* Updates are skipped on account of stored samples only: unless an insert *)
(* for the aircraft is under way, its lastSeen entry has a row.  A failed  *)
(* insert whose reservation stayed would silence the aircraft for nothing. *)
SkipsOnlyAfterRow ==
  \A a \in Aircraft :
    lastSeen[a] # Never /\ ~(hpc = "insert" /\ state.icao24 = a)
    => \E r \in history : r.icao24 = a /\ r.recordedAt = lastSeen[a]

(* An event leaves the stream for good only once stored, or after the last *)
(* of its deliveries: acknowledged is stored, given up is tried out.       *)
EventsDurable ==
  \A e \in Events :
    /\ event[e].at = "acked" => e \in eventRows
    /\ event[e].at = "given up" => event[e].tries = eventMaxDeliver

Settled(e) ==
  \/ event[e].at = "acked" /\ e \in eventRows
  \/ event[e].at = "given up" /\ event[e].tries = eventMaxDeliver
  \/ event[e].at = "waiting" /\ (event[e].tries = eventMaxDeliver \/ ~Unexpired(e))

(* Every published event is stored and acknowledged, or given up after the *)
(* last of its deliveries, or no longer sent: none is acknowledged for     *)
(* nothing, and none stays with a consumer that refuses it in silence.     *)
EventsSettle == \A e \in Events : event[e].at # "unpublished" ~> Settled(e)

-----------------------------------------------------------------------------
(* The inductive invariant behind OneRowPerInterval and SkipsOnlyAfterRow: *)
(* the entry of an aircraft, or the one its update in hand replaced, is    *)
(* not older than any row it counts for, unless eviction took it; and it   *)
(* is the time of a row.                                                   *)

Counted(r) == r.life = life /\ r.sure /\ ~r.late
Old(t) == t + EvictAfter < now
Inserting(a) == hpc = "insert" /\ state.icao24 = a

Remembered(r) ==
  \/ Old(r.recordedAt)
  \/ ~Inserting(r.icao24) /\ r.recordedAt <= lastSeen[r.icao24]
  \/ Inserting(r.icao24) /\ r.recordedAt <= last /\ r.recordedAt + Interval <= state.seen

HasRow(a, t) == t # Never => \E r \in history : r.icao24 = a /\ r.recordedAt = t

Reserved ==
  hpc = "insert" =>
    \/ lastSeen[state.icao24] = state.seen
    \/ lastSeen[state.icao24] = Never /\ Old(state.seen)

Backed(a) == HasRow(a, IF Inserting(a) THEN last ELSE lastSeen[a])

SamplingInv ==
  /\ \A r \in history : r.life <= life /\ (Counted(r) => Remembered(r))
  /\ Reserved
  /\ \A a \in Aircraft : Backed(a)
  /\ OneRowPerInterval

(* What is acknowledged, or about to be, is stored. *)
EventInv ==
  \A e \in Events :
    /\ event[e].at \in {"handled", "acked"} => e \in eventRows
    /\ event[e].at = "given up" => event[e].tries = eventMaxDeliver
=============================================================================
