--------------------------- MODULE PgWriterProofs ---------------------------
(***************************************************************************)
(* Theorems about PgWriter, for any fleet and events, every interval,      *)
(* retention and number of deliveries, and any bounds, and about the       *)
(* request, the answers and the player of Replay, whose environment        *)
(* PgWriter is.                                                            *)
(***************************************************************************)
EXTENDS Replay, FiniteSetTheorems, WellFoundedInduction, TLAPS

USE PgWriterConstants DEF Never

LEMMA TypeInit == Init => TypeOK
  BY DEF Init, TypeOK, StreamTypeOK, ConsumerTypeOK, WriterTypeOK, TablesTypeOK, EventTypeOK,
    Places, Updates, Rows

LEMMA Widen ==
  ASSUME NEW m \in Nat, NEW n \in Nat, m <= n
  PROVE  1 .. m - 1 \subseteq 1 .. n - 1
  OBVIOUS

(* A handler at work has an update of the stream in hand. *)
LEMMA InHand ==
  ASSUME TypeOK, inbox # <<>>
  PROVE  /\ Head(inbox) \in 1 .. next - 1 /\ Head(inbox) \in DOMAIN stream
         /\ state \in Updates
<1>1. Head(inbox) = inbox[1] /\ 1 \in DOMAIN inbox
  BY DEF TypeOK, ConsumerTypeOK
<1>2. Head(inbox) \in 1 .. next - 1
  BY <1>1 DEF TypeOK, ConsumerTypeOK
<1>3. Head(inbox) \in DOMAIN stream
  BY <1>2 DEF TypeOK, StreamTypeOK
<1>. QED
  BY <1>2, <1>3 DEF TypeOK, StreamTypeOK, state

LEMMA RowType ==
  ASSUME TypeOK, inbox # <<>>, NEW sure \in BOOLEAN
  PROVE  /\ Row(state, sure) \in Rows
         /\ Row(state, sure).icao24 = state.icao24
         /\ Row(state, sure).recordedAt = state.seen /\ Row(state, sure).life = life
         /\ Row(state, sure).sure = sure
         /\ Row(state, sure).late = (now - state.seen > EvictAfter - Interval)
  BY InHand DEF TypeOK, StreamTypeOK, Row, Rows, Updates

LEMMA InsertType ==
  ASSUME TypeOK, inbox # <<>>, NEW sure \in BOOLEAN
  PROVE  InsertFlightHistory(sure) \subseteq Rows
  BY RowType DEF InsertFlightHistory, TypeOK, TablesTypeOK

LEMMA TypeStep == TypeOK /\ [Next]_vars => TypeOK'
<1>. SUFFICES ASSUME TypeOK, [Next]_vars PROVE TypeOK'
  OBVIOUS
<1>. USE DEF TypeOK
<1>1. CASE Tick
  BY <1>1 DEF Tick, StreamTypeOK, ConsumerTypeOK, WriterTypeOK, TablesTypeOK, EventTypeOK,
    flightVars, eventVars
<1>2. ASSUME NEW a \in Aircraft, PublishUpdate(a) PROVE TypeOK'
  <2>1. StreamTypeOK'
    BY <1>2 DEF PublishUpdate, StreamTypeOK, Updates, flightVars
  <2>. QED
    BY <1>2, <2>1 DEF PublishUpdate, ConsumerTypeOK, WriterTypeOK, TablesTypeOK, EventTypeOK,
      flightVars, eventVars
<1>3. ASSUME NEW e \in Events, PublishEvent(e) PROVE TypeOK'
  <2>1. EventTypeOK'
    BY <1>3 DEF PublishEvent, EventTypeOK, StreamTypeOK, Places
  <2>. QED
    BY <1>3, <2>1 DEF PublishEvent, StreamTypeOK, ConsumerTypeOK, WriterTypeOK, TablesTypeOK,
      flightVars
<1>4. CASE Deliver
  <2>. PICK i \in DOMAIN stream :
         /\ \/ i >= next /\ next' = i + 1 /\ UNCHANGED redo
            \/ i \in redo /\ redo' = redo \ {i} /\ UNCHANGED next
         /\ inbox' = Append(inbox, i)
    BY <1>4 DEF Deliver
  <2>1. i \in 1 .. Len(stream) /\ i \in Nat
    BY DEF StreamTypeOK
  <2>2. StreamTypeOK' /\ next <= next' /\ i \in 1 .. next' - 1
    BY <1>4, <2>1 DEF Deliver, StreamTypeOK, ConsumerTypeOK
  <2>5. next \in Nat /\ next' \in Nat /\ next <= next'
    BY <2>2 DEF StreamTypeOK
  <2>6. \A k \in 1 .. next - 1 : k \in 1 .. next' - 1
    BY <2>5, Widen
  <2>3. redo' \subseteq 1 .. next' - 1
    BY <2>2, <2>6 DEF ConsumerTypeOK
  <2>7. inbox' \in Seq(Nat)
    BY <2>1 DEF ConsumerTypeOK
  <2>8. \A j \in DOMAIN inbox' : inbox'[j] = i \/ (j \in DOMAIN inbox /\ inbox'[j] = inbox[j])
    BY <2>1 DEF ConsumerTypeOK
  <2>4. inbox' \in Seq(Nat) /\ \A j \in DOMAIN inbox' : inbox'[j] \in 1 .. next' - 1
    BY <2>2, <2>6, <2>7, <2>8 DEF ConsumerTypeOK
  <2>9. inbox' # <<>>
    BY <2>1 DEF ConsumerTypeOK
  <2>. QED
    BY <1>4, <2>2, <2>3, <2>4, <2>9 DEF Deliver, ConsumerTypeOK, WriterTypeOK, TablesTypeOK,
      EventTypeOK, eventVars
<1>5. CASE Skip
  BY <1>5 DEF Skip, StreamTypeOK, ConsumerTypeOK, WriterTypeOK, TablesTypeOK, EventTypeOK,
    eventVars
<1>6. CASE Reserve
  <2>1. state \in Updates
    BY <1>6, InHand DEF Reserve
  <2>2. WriterTypeOK'
    BY <1>6, <2>1 DEF Reserve, WriterTypeOK, Updates
  <2>. QED
    BY <1>6, <2>2 DEF Reserve, StreamTypeOK, ConsumerTypeOK, TablesTypeOK, EventTypeOK,
      eventVars
<1>7. CASE Insert
  <2>1. history' \subseteq Rows
    BY <1>7, InsertType DEF Insert, WriterTypeOK
  <2>. QED
    BY <1>7, <2>1 DEF Insert, StreamTypeOK, ConsumerTypeOK, WriterTypeOK, TablesTypeOK,
      EventTypeOK, eventVars
<1>8. CASE InsertFails
  <2>1. history' \subseteq Rows
    BY <1>8, InsertType DEF InsertFails, WriterTypeOK, TablesTypeOK
  <2>2. lastSeen' \in [Aircraft -> Nat \cup {Never}]
    BY <1>8 DEF InsertFails, RollBack, WriterTypeOK
  <2>3. faults' \in Nat
    BY <1>8 DEF InsertFails, Fault, StreamTypeOK
  <2>. QED
    BY <1>8, <2>1, <2>2, <2>3 DEF InsertFails, StreamTypeOK, ConsumerTypeOK, WriterTypeOK,
      TablesTypeOK, EventTypeOK, eventVars
<1>9. CASE Ack
  <2>1. inbox # <<>> /\ Head(inbox) \in 1 .. next - 1
    BY <1>9, InHand DEF Ack, WriterTypeOK
  <2>2. inbox' \in Seq(Nat) /\ \A i \in DOMAIN inbox' : inbox'[i] \in 1 .. next - 1
    BY <1>9, <2>1 DEF Ack, ConsumerTypeOK
  <2>4. redo' \subseteq 1 .. next - 1
    BY <1>9, <2>1 DEF Ack, ConsumerTypeOK
  <2>5. faults' \in Nat
    BY <1>9 DEF Ack, StreamTypeOK, Fault
  <2>3. redo' \subseteq 1 .. next - 1 /\ faults' \in Nat
    BY <2>4, <2>5
  <2>. QED
    BY <1>9, <2>2, <2>3 DEF Ack, StreamTypeOK, ConsumerTypeOK, WriterTypeOK, TablesTypeOK,
      EventTypeOK, eventVars
<1>10. CASE EvictBefore
  BY <1>10 DEF EvictBefore, StreamTypeOK, ConsumerTypeOK, WriterTypeOK, TablesTypeOK,
    EventTypeOK, eventVars
<1>11. CASE Restart
  <2>1. ConsumerTypeOK'
    BY <1>11 DEF Restart, ConsumerTypeOK
  <2>2. EventTypeOK'
    BY <1>11 DEF Restart, EventTypeOK, Places
  <2>. QED
    BY <1>11, <2>1, <2>2 DEF Restart, StreamTypeOK, WriterTypeOK, TablesTypeOK
<1>12. ASSUME NEW e \in Events, EventStep(e) PROVE TypeOK'
  <2>1. CASE DeliverEvent(e)
    <3>2. event[e] \in [at : Places, tries : 0 .. eventMaxDeliver, born : Nat]
      BY DEF EventTypeOK
    <3>3. event[e].tries + 1 \in 0 .. eventMaxDeliver
      BY <2>1, <3>2 DEF DeliverEvent, Deliverable
    <3>4. [event[e] EXCEPT !.at = "client", !.tries = event[e].tries + 1]
            \in [at : Places, tries : 0 .. eventMaxDeliver, born : Nat]
      BY <3>2, <3>3 DEF Places
    <3>1. EventTypeOK'
      BY <2>1, <3>4 DEF DeliverEvent, EventTypeOK
    <3>. QED
      BY <2>1, <3>1 DEF DeliverEvent, StreamTypeOK, ConsumerTypeOK, WriterTypeOK, TablesTypeOK,
        flightVars
  <2>2. CASE HandleEvent(e)
    <3>1. EventTypeOK'
      BY <2>2 DEF HandleEvent, Move, EventTypeOK, Places
    <3>. QED
      BY <2>2, <3>1 DEF HandleEvent, StreamTypeOK, ConsumerTypeOK, WriterTypeOK, TablesTypeOK,
        flightVars
  <2>3. CASE HandleEventFails(e)
    <3>1. EventTypeOK'
      BY <2>3 DEF HandleEventFails, Move, Refused, EventTypeOK, Places
    <3>2. eventRows' \subseteq Events /\ faults' \in Nat
      BY <2>3 DEF HandleEventFails, Fault, TablesTypeOK, StreamTypeOK
    <3>. QED
      BY <2>3, <3>1, <3>2 DEF HandleEventFails, StreamTypeOK, ConsumerTypeOK, WriterTypeOK,
        TablesTypeOK, flightVars
  <2>4. CASE AckEvent(e)
    <3>1. EventTypeOK'
      BY <2>4 DEF AckEvent, Move, EventTypeOK, Places
    <3>2. faults' \in Nat
      BY <2>4 DEF AckEvent, Fault, StreamTypeOK
    <3>. QED
      BY <2>4, <3>1, <3>2 DEF AckEvent, StreamTypeOK, ConsumerTypeOK, WriterTypeOK,
        TablesTypeOK, flightVars
  <2>. QED
    BY <1>12, <2>1, <2>2, <2>3, <2>4 DEF EventStep
<1>13. CASE UNCHANGED vars
  BY <1>13 DEF vars, StreamTypeOK, ConsumerTypeOK, WriterTypeOK, TablesTypeOK, EventTypeOK,
    flightVars, eventVars
<1>. QED
  BY <1>1, <1>2, <1>3, <1>4, <1>5, <1>6, <1>7, <1>8, <1>9, <1>10, <1>11, <1>12, <1>13
  DEF Next, HistoryStep

(* Every reachable state is well typed: a handler at work has an update of *)
(* the stream, and no event is delivered more than eventMaxDeliver times.  *)
THEOREM TypeCorrect == Spec => []TypeOK
  BY TypeInit, TypeStep, PTL DEF Spec

-----------------------------------------------------------------------------
LEMMA EvictAfterType == EvictAfter \in Int /\ EvictAfter' = EvictAfter
  BY DEF EvictAfter

(* The update in hand stays the same while messages come in. *)
LEMMA SameInHand ==
  ASSUME TypeOK, inbox # <<>>,
         \/ inbox' = inbox
         \/ \E i \in Nat : inbox' = Append(inbox, i),
         \/ stream' = stream
         \/ \E u \in Updates : stream' = Append(stream, u)
  PROVE  state' = state
<1>1. Head(inbox') = Head(inbox)
  BY DEF TypeOK, ConsumerTypeOK
<1>2. Head(inbox) \in DOMAIN stream
  BY InHand
<1>3. stream'[Head(inbox)] = stream[Head(inbox)]
  BY <1>2 DEF TypeOK, StreamTypeOK
<1>. QED
  BY <1>1, <1>3 DEF state

LEMMA OldStays ==
  ASSUME TypeOK, TypeOK', now <= now'
  PROVE  \A t \in Int : Old(t) => Old(t)'
<1>1. now \in Int /\ now' \in Int
  BY DEF TypeOK, StreamTypeOK
<1>2. EvictAfter \in Int /\ EvictAfter' = EvictAfter
  BY EvictAfterType
<1>3. ASSUME NEW t \in Int, Old(t) PROVE Old(t)'
  <2>1. t + EvictAfter < now
    BY <1>3 DEF Old
  <2>2. t + EvictAfter < now'
    BY <1>1, <1>2, <2>1
  <2>. QED
    BY <1>2, <2>2 DEF Old
<1>. QED
  BY <1>3

(* A step that leaves the table and the entries alone, and neither begins  *)
(* nor ends an insert: only time may have passed.                          *)
LEMMA SamplingFrame ==
  ASSUME TypeOK, TypeOK', SamplingInv,
         now <= now', life' = life, history' = history, lastSeen' = lastSeen,
         hpc = "insert" <=> hpc' = "insert",
         hpc = "insert" => state' = state /\ last' = last
  PROVE  SamplingInv'
<1>1. \A t \in Int : Old(t) => Old(t)'
  BY OldStays
<1>2. \A a : Inserting(a)' <=> Inserting(a)
  BY DEF Inserting
<1>3. \A r \in history : r.recordedAt \in Nat /\ (Counted(r)' <=> Counted(r))
  BY DEF Counted, TypeOK, TablesTypeOK, Rows
<1>4. \A r \in history : Remembered(r) => Remembered(r)'
  BY <1>1, <1>2, <1>3 DEF Remembered, Inserting
<1>5. Reserved'
  <2>1. CASE hpc = "insert"
    <3>1. state.seen \in Int
      BY <2>1, InHand DEF TypeOK, WriterTypeOK, Updates
    <3>. QED
      BY <1>1, <2>1, <3>1 DEF SamplingInv, Reserved
  <2>2. CASE hpc # "insert"
    BY <2>2 DEF Reserved
  <2>. QED
    BY <2>1, <2>2
<1>6. \A a \in Aircraft : Backed(a)'
  BY <1>2 DEF SamplingInv, Backed, HasRow, Inserting
<1>. QED
  BY <1>3, <1>4, <1>5, <1>6 DEF SamplingInv, OneRowPerInterval

(* A new row, if it counts at all, keeps its distance from every other one *)
(* that does.                                                              *)
LEMMA SamplingInsert ==
  ASSUME TypeOK, TypeOK', SamplingInv, Insert
  PROVE  SamplingInv'
<1>. DEFINE a == state.icao24
            x == Row(state, TRUE)
<1>1. hpc = "insert" /\ inbox # <<>> /\ state \in Updates
  BY InHand DEF Insert, TypeOK, WriterTypeOK
<1>2. a \in Aircraft /\ state.seen \in Nat /\ now \in Nat /\ lastSeen[a] \in Int /\ last \in Int
  BY <1>1 DEF Updates, TypeOK, StreamTypeOK, WriterTypeOK
<1>3. \A b : ~Inserting(b)' /\ (Inserting(b) <=> b = a)
  BY <1>1 DEF Inserting, Insert
<1>4. \A t : Old(t)' <=> Old(t)
  BY EvictAfterType DEF Old, Insert
<1>5. \A r \in history : r.recordedAt \in Nat /\ r.life \in Nat /\ r.icao24 \in Aircraft
  BY DEF TypeOK, TablesTypeOK, Rows
<1>6. x.icao24 = a /\ x.recordedAt = state.seen /\ x.life = life /\ x.sure
      /\ (x.late <=> now - state.seen > EvictAfter - Interval)
  BY <1>1, RowType
<1>7. history \subseteq history' /\ history' \subseteq history \cup {x}
  BY DEF Insert, InsertFlightHistory
<1>8. \E r \in history' : r.icao24 = a /\ r.recordedAt = state.seen
  BY <1>6 DEF Insert, InsertFlightHistory
<1>. HIDE DEF x
<1>9. \A r : Counted(r)' <=> Counted(r)
  BY DEF Counted, Insert
<1>10. lastSeen[a] = state.seen \/ (lastSeen[a] = Never /\ Old(state.seen))
  BY <1>1 DEF SamplingInv, Reserved
<1>11. \A r \in history : r.icao24 = a /\ Counted(r) =>
         Old(r.recordedAt) \/ r.recordedAt + Interval <= state.seen
  BY <1>3 DEF SamplingInv, Remembered
<1>12. \A r \in history' : r.life <= life' /\ (Counted(r)' => Remembered(r)')
  <2>. SUFFICES ASSUME NEW r \in history'
                PROVE  r.life <= life' /\ (Counted(r)' => Remembered(r)')
    OBVIOUS
  <2>1. CASE r \in history /\ r.icao24 # a
    BY <1>3, <1>4, <1>9, <2>1 DEF SamplingInv, Remembered, Insert
  <2>2. CASE r \in history /\ r.icao24 = a
    <3>1. Counted(r) => Old(r.recordedAt) \/ r.recordedAt <= lastSeen[a]
      BY <1>2, <1>5, <1>10, <1>11, <2>2, EvictAfterType DEF Old
    <3>. QED
      BY <1>3, <1>4, <1>9, <2>2, <3>1 DEF SamplingInv, Remembered, Insert
  <2>3. CASE r = x
    BY <1>2, <1>3, <1>4, <1>6, <1>10, <2>3 DEF Remembered, Insert, TypeOK, StreamTypeOK
  <2>. QED
    BY <1>7, <2>1, <2>2, <2>3
<1>13. Reserved'
  BY DEF Reserved, Insert
<1>14. ASSUME NEW b \in Aircraft PROVE Backed(b)'
  <2>1. CASE b = a
    BY <1>3, <1>8, <1>10, <2>1 DEF Backed, HasRow, Insert
  <2>2. CASE b # a
    BY <1>3, <1>7, <2>2 DEF SamplingInv, Backed, HasRow, Insert
  <2>. QED
    BY <2>1, <2>2
<1>15. OneRowPerInterval'
  <2>. SUFFICES ASSUME NEW r \in history', NEW s \in history',
                       r.icao24 = s.icao24, r.life = s.life, r.sure, s.sure, ~r.late, ~s.late,
                       r.recordedAt < s.recordedAt
                PROVE  s.recordedAt - r.recordedAt >= Interval
    BY DEF OneRowPerInterval
  <2>1. CASE r \in history /\ s \in history
    BY <2>1 DEF SamplingInv, OneRowPerInterval
  <2>2. CASE r \in history /\ s = x
    <3>1. Counted(r)
      BY <1>6, <2>2 DEF Counted
    <3>2. Old(r.recordedAt) \/ r.recordedAt + Interval <= state.seen
      BY <1>6, <1>11, <2>2, <3>1
    <3>. QED
      BY <1>2, <1>5, <1>6, <2>2, <3>2, EvictAfterType DEF Old
  <2>3. CASE r = x /\ s \in history
    <3>1. Counted(s)
      BY <1>6, <2>3 DEF Counted
    <3>2. Old(s.recordedAt) \/ s.recordedAt + Interval <= state.seen
      BY <1>6, <1>11, <2>3, <3>1
    <3>. QED
      BY <1>2, <1>5, <1>6, <2>3, <3>2, EvictAfterType DEF Old
  <2>4. CASE r = x /\ s = x
    BY <1>2, <1>6, <2>4
  <2>. QED
    BY <1>7, <2>1, <2>2, <2>3, <2>4
<1>. QED
  BY <1>12, <1>13, <1>14, <1>15 DEF SamplingInv
(* A reservation takes over what the entry it replaces counted for. *)
LEMMA SamplingReserve ==
  ASSUME TypeOK, TypeOK', SamplingInv, Reserve
  PROVE  SamplingInv'
<1>. DEFINE a == state.icao24
<1>1. hpc = "idle" /\ hpc' = "insert" /\ state \in Updates /\ state' = state
  BY InHand DEF Reserve, state
<1>2. a \in Aircraft /\ state.seen \in Nat /\ lastSeen[a] \in Int
  BY <1>1 DEF Updates, TypeOK, WriterTypeOK
<1>3. last' = lastSeen[a] /\ lastSeen'[a] = state.seen
      /\ \A b \in Aircraft : b # a => lastSeen'[b] = lastSeen[b]
  BY <1>2 DEF Reserve, TypeOK, WriterTypeOK
<1>4. \A b : ~Inserting(b) /\ (Inserting(b)' <=> b = a)
  BY <1>1 DEF Inserting
<1>5. lastSeen[a] = Never \/ state.seen - lastSeen[a] >= Interval
  BY <1>2 DEF Reserve, Skipped
<1>6. \A r \in history : r.recordedAt \in Nat /\ r.icao24 \in Aircraft
  BY DEF TypeOK, TablesTypeOK, Rows
<1>7. \A r : (Counted(r)' <=> Counted(r)) /\ (Old(r.recordedAt)' <=> Old(r.recordedAt))
  BY EvictAfterType DEF Counted, Old, Reserve
<1>8. ASSUME NEW r \in history, Counted(r) PROVE Remembered(r)'
  <2>1. Old(r.recordedAt) \/ r.recordedAt <= lastSeen[r.icao24]
    BY <1>4, <1>8 DEF SamplingInv, Remembered
  <2>2. CASE r.icao24 = a
    <3>. SUFFICES ASSUME r.recordedAt <= lastSeen[a] PROVE Remembered(r)'
      BY <1>7, <2>1, <2>2 DEF Remembered
    <3>1. r.recordedAt + Interval <= state.seen
      BY <1>2, <1>5, <1>6
    <3>. QED
      BY <1>1, <1>3, <1>4, <2>2, <3>1 DEF Remembered
  <2>3. CASE r.icao24 # a
    BY <1>3, <1>4, <1>6, <1>7, <2>1, <2>3 DEF Remembered
  <2>. QED
    BY <2>2, <2>3
<1>9. \A r \in history' : r.life <= life' /\ (Counted(r)' => Remembered(r)')
  BY <1>7, <1>8 DEF SamplingInv, Reserve
<1>10. Reserved'
  BY <1>1, <1>3 DEF Reserved
<1>11. \A b \in Aircraft : Backed(b)'
  BY <1>3, <1>4 DEF SamplingInv, Backed, HasRow, Reserve
<1>12. OneRowPerInterval'
  BY DEF SamplingInv, OneRowPerInterval, Reserve
<1>. QED
  BY <1>9, <1>10, <1>11, <1>12 DEF SamplingInv

(* A failed insert gives the entry back, unless eviction took it: then all *)
(* that it counted for is old.  A row that was stored does not count.      *)
LEMMA SamplingInsertFails ==
  ASSUME TypeOK, TypeOK', SamplingInv, InsertFails
  PROVE  SamplingInv'
<1>. DEFINE a == state.icao24
            x == Row(state, FALSE)
<1>1. hpc = "insert" /\ hpc' = "ack" /\ inbox # <<>> /\ state \in Updates
  BY InHand DEF InsertFails, TypeOK, WriterTypeOK
<1>2. a \in Aircraft /\ state.seen \in Nat /\ now \in Nat /\ lastSeen[a] \in Int /\ last \in Int
  BY <1>1 DEF Updates, TypeOK, StreamTypeOK, WriterTypeOK
<1>3. \A b : ~Inserting(b)' /\ (Inserting(b) <=> b = a)
  BY <1>1 DEF Inserting
<1>4. \A b \in Aircraft : b # a => lastSeen'[b] = lastSeen[b]
  BY <1>2 DEF InsertFails, RollBack, TypeOK, WriterTypeOK
<1>5. \/ lastSeen'[a] = last
      \/ lastSeen'[a] = Never /\ Old(state.seen)
  BY <1>1, <1>2 DEF InsertFails, RollBack, SamplingInv, Reserved, TypeOK, WriterTypeOK
<1>6. \A r \in history : r.recordedAt \in Nat /\ r.icao24 \in Aircraft
  BY DEF TypeOK, TablesTypeOK, Rows
<1>7. \A r : (Counted(r)' <=> Counted(r)) /\ (Old(r.recordedAt)' <=> Old(r.recordedAt))
  BY EvictAfterType DEF Counted, Old, InsertFails
<1>8. ~x.sure /\ x.life = life
  BY <1>1, RowType
<1>9. history \subseteq history' /\ history' \subseteq history \cup {x}
  BY DEF InsertFails, InsertFlightHistory
<1>. HIDE DEF x
<1>10. ASSUME NEW r \in history, Counted(r) PROVE Remembered(r)'
  <2>1. CASE r.icao24 = a
    <3>1. Old(r.recordedAt) \/ (r.recordedAt <= last /\ r.recordedAt + Interval <= state.seen)
      BY <1>3, <1>10, <2>1 DEF SamplingInv, Remembered
    <3>2. Old(state.seen) /\ r.recordedAt + Interval <= state.seen => Old(r.recordedAt)
      BY <1>2, <1>6, EvictAfterType DEF Old
    <3>3. Old(r.recordedAt) \/ r.recordedAt <= lastSeen'[a]
      BY <1>5, <3>1, <3>2
    <3>. QED
      BY <1>3, <1>7, <2>1, <3>3 DEF Remembered
  <2>2. CASE r.icao24 # a
    BY <1>3, <1>4, <1>6, <1>7, <1>10, <2>2 DEF SamplingInv, Remembered
  <2>. QED
    BY <2>1, <2>2
<1>11. \A r \in history' : r.life <= life' /\ (Counted(r)' => Remembered(r)')
  <2>1. ~Counted(x) /\ x.life <= life
    BY <1>8 DEF Counted, TypeOK, StreamTypeOK
  <2>2. life' = life
    BY DEF InsertFails
  <2>. QED
    BY <1>7, <1>9, <1>10, <2>1, <2>2 DEF SamplingInv
<1>12. Reserved'
  BY <1>1 DEF Reserved
<1>13. ASSUME NEW b \in Aircraft PROVE Backed(b)'
  BY <1>3, <1>4, <1>5, <1>9 DEF SamplingInv, Backed, HasRow
<1>14. OneRowPerInterval'
  BY <1>8, <1>9 DEF SamplingInv, OneRowPerInterval
<1>. QED
  BY <1>11, <1>12, <1>13, <1>14 DEF SamplingInv

(* What eviction forgets is so old that every row it counted for is. *)
LEMMA SamplingEvict ==
  ASSUME TypeOK, TypeOK', SamplingInv, EvictBefore
  PROVE  SamplingInv'
<1>1. \A b : Inserting(b)' <=> Inserting(b)
  BY DEF Inserting, EvictBefore, state
<1>2. \A t : Old(t)' <=> Old(t)
  BY EvictAfterType DEF Old, EvictBefore
<1>3. \A r : Counted(r)' <=> Counted(r)
  BY DEF Counted, EvictBefore
<1>4. \A r \in history : r.recordedAt \in Nat /\ r.icao24 \in Aircraft
  BY DEF TypeOK, TablesTypeOK, Rows
<1>5. now \in Nat /\ \A b \in Aircraft : lastSeen[b] \in Int
  BY DEF TypeOK, StreamTypeOK, WriterTypeOK
<1>6. \A b \in Aircraft : \/ lastSeen'[b] = lastSeen[b]
                          \/ lastSeen'[b] = Never /\ Old(lastSeen[b])
  BY <1>5, EvictAfterType DEF EvictBefore, Forgotten, Old
<1>7. state' = state /\ last' = last /\ history' = history /\ life' = life /\ hpc' = hpc
  BY DEF EvictBefore, state
<1>8. ASSUME NEW r \in history, Counted(r) PROVE Remembered(r)'
  <2>1. Remembered(r)
    BY <1>8 DEF SamplingInv
  <2>2. r.recordedAt <= lastSeen[r.icao24] /\ Old(lastSeen[r.icao24]) => Old(r.recordedAt)
    BY <1>4, <1>5, EvictAfterType DEF Old
  <2>. QED
    BY <1>1, <1>2, <1>4, <1>6, <1>7, <2>1, <2>2 DEF Remembered
<1>9. \A r \in history' : r.life <= life' /\ (Counted(r)' => Remembered(r)')
  BY <1>3, <1>7, <1>8 DEF SamplingInv
<1>10. Reserved'
  <2>1. hpc = "insert" => state.icao24 \in Aircraft
    BY InHand DEF TypeOK, WriterTypeOK, Updates
  <2>. QED
    BY <1>2, <1>6, <1>7, <2>1 DEF SamplingInv, Reserved
<1>11. ASSUME NEW b \in Aircraft PROVE Backed(b)'
  BY <1>1, <1>6, <1>7 DEF SamplingInv, Backed, HasRow
<1>12. OneRowPerInterval'
  BY <1>7 DEF SamplingInv, OneRowPerInterval
<1>. QED
  BY <1>9, <1>10, <1>11, <1>12 DEF SamplingInv

(* No row of an earlier life counts any more. *)
LEMMA SamplingRestart ==
  ASSUME TypeOK, TypeOK', SamplingInv, Restart
  PROVE  SamplingInv'
<1>1. life \in Nat /\ life' = life + 1 /\ history' = history /\ hpc' = "idle"
  BY DEF Restart, TypeOK, StreamTypeOK
<1>2. \A r \in history : r.life \in Nat /\ r.life <= life
  BY DEF SamplingInv, TypeOK, TablesTypeOK, Rows
<1>3. \A r \in history : r.life <= life' /\ ~Counted(r)'
  BY <1>1, <1>2 DEF Counted
<1>4. \A b \in Aircraft : Backed(b)'
  BY <1>1 DEF Backed, HasRow, Inserting, Restart
<1>. QED
  BY <1>1, <1>3, <1>4 DEF SamplingInv, Reserved, OneRowPerInterval

LEMMA SamplingStep == TypeOK /\ TypeOK' /\ SamplingInv /\ [Next]_vars => SamplingInv'
<1>. SUFFICES ASSUME TypeOK, TypeOK', SamplingInv, [Next]_vars PROVE SamplingInv'
  OBVIOUS
<1>. USE DEF flightVars, eventVars
<1>0. now \in Nat /\ now <= now
  BY DEF TypeOK, StreamTypeOK
<1>1. CASE Tick
  BY <1>0, <1>1, SamplingFrame DEF Tick, state
<1>2. ASSUME NEW a \in Aircraft, PublishUpdate(a) PROVE SamplingInv'
  <2>1. \E u \in Updates : stream' = Append(stream, u)
    BY <1>0, <1>2 DEF PublishUpdate, Updates
  <2>2. hpc = "insert" => state' = state
    BY <1>2, <2>1, SameInHand DEF PublishUpdate, TypeOK, WriterTypeOK
  <2>. QED
    BY <1>0, <1>2, <2>2, SamplingFrame DEF PublishUpdate
<1>3. ASSUME NEW e \in Events, PublishEvent(e) PROVE SamplingInv'
  BY <1>0, <1>3, SamplingFrame DEF PublishEvent, state
<1>4. CASE Deliver
  <2>1. \E i \in Nat : inbox' = Append(inbox, i)
    BY <1>4 DEF Deliver, TypeOK, StreamTypeOK
  <2>2. hpc = "insert" => state' = state
    BY <1>4, <2>1, SameInHand DEF Deliver, TypeOK, WriterTypeOK
  <2>. QED
    BY <1>0, <1>4, <2>2, SamplingFrame DEF Deliver
<1>5. CASE Skip
  BY <1>0, <1>5, SamplingFrame DEF Skip
<1>6. CASE Reserve
  BY <1>6, SamplingReserve
<1>7. CASE Insert
  BY <1>7, SamplingInsert
<1>8. CASE InsertFails
  BY <1>8, SamplingInsertFails
<1>9. CASE Ack
  BY <1>0, <1>9, SamplingFrame DEF Ack
<1>10. CASE EvictBefore
  BY <1>10, SamplingEvict
<1>11. CASE Restart
  BY <1>11, SamplingRestart
<1>12. ASSUME NEW e \in Events, EventStep(e) PROVE SamplingInv'
  <2>1. /\ now' = now /\ life' = life /\ history' = history
        /\ UNCHANGED flightVars /\ stream' = stream
    BY <1>12 DEF EventStep, DeliverEvent, HandleEvent, HandleEventFails, AckEvent
  <2>. QED
    BY <1>0, <2>1, SamplingFrame DEF state
<1>13. CASE UNCHANGED vars
  BY <1>0, <1>13, SamplingFrame DEF vars, state
<1>. QED
  BY <1>1, <1>2, <1>3, <1>4, <1>5, <1>6, <1>7, <1>8, <1>9, <1>10, <1>11, <1>12, <1>13
  DEF Next, HistoryStep

LEMMA SamplingInit == Init => SamplingInv
  BY DEF Init, SamplingInv, Reserved, Backed, HasRow, Inserting, OneRowPerInterval

THEOREM SamplingCorrect == Spec => []SamplingInv
  BY TypeInit, TypeStep, SamplingInit, SamplingStep, PTL DEF Spec

(* HistoryWriter stores at most one sample of an aircraft per Interval, as *)
(* long as the process lives, the inserts report success and the updates   *)
(* are handled within evictAfter - Interval of their sighting.             *)
THEOREM SamplesAreApart == Spec => []OneRowPerInterval
<1>1. SamplingInv => OneRowPerInterval
  BY DEF SamplingInv
<1>. QED
  BY <1>1, SamplingCorrect, PTL

(* An update is skipped on account of a row only: every entry of lastSeen, *)
(* except the one an insert under way has reserved, is the time of a row.  *)
THEOREM SkippedForARow == Spec => []SkipsOnlyAfterRow
<1>1. SamplingInv => SkipsOnlyAfterRow
  BY DEF SamplingInv, Backed, HasRow, Inserting, SkipsOnlyAfterRow
<1>. QED
  BY <1>1, SamplingCorrect, PTL

-----------------------------------------------------------------------------
LEMMA LastTry ==
  \A m \in Nat : \A n \in 0 .. m : n >= m => n = m
  OBVIOUS

LEMMA EventStepInv == TypeOK /\ EventInv /\ [Next]_vars => EventInv'
<1>. SUFFICES ASSUME TypeOK, EventInv, [Next]_vars PROVE EventInv'
  OBVIOUS
<1>. USE DEF EventInv, TypeOK, EventTypeOK
<1>1. ASSUME NEW e \in Events, PublishEvent(e) PROVE EventInv'
  BY <1>1 DEF PublishEvent
<1>2. ASSUME NEW e \in Events, EventStep(e) PROVE EventInv'
  <2>1. CASE DeliverEvent(e)
    BY <2>1 DEF DeliverEvent
  <2>2. CASE HandleEvent(e)
    BY <2>2 DEF HandleEvent, Move
  <2>3. CASE HandleEventFails(e)
    <3>1. eventRows \subseteq eventRows'
      BY <2>3 DEF HandleEventFails
    <3>2. event[e].tries \in 0 .. eventMaxDeliver
      OBVIOUS
    <3>3. event' = [event EXCEPT ![e].at = Refused(e)]
      BY <2>3 DEF HandleEventFails, Move
    <3>4. Refused(e) = "waiting" \/ (Refused(e) = "given up" /\ event[e].tries = eventMaxDeliver)
      BY <3>2, LastTry DEF Refused
    <3>. QED
      BY <3>1, <3>3, <3>4
  <2>4. CASE AckEvent(e)
    BY <2>4 DEF AckEvent, Move
  <2>. QED
    BY <1>2, <2>1, <2>2, <2>3, <2>4 DEF EventStep
<1>3. CASE Restart
  BY <1>3 DEF Restart
<1>4. CASE UNCHANGED eventVars
  BY <1>4 DEF eventVars
<1>. QED
  BY <1>1, <1>2, <1>3, <1>4 DEF Next, HistoryStep, Tick, Deliver, PublishUpdate, Skip, Reserve,
    Insert, InsertFails, Ack, EvictBefore, vars

(* An acknowledged event is stored, and one that is given up has had all   *)
(* of its deliveries.                                                      *)
THEOREM EventsAreDurable == Spec => []EventsDurable
<1>1. Init => EventInv
  <2>. SUFFICES ASSUME Init, NEW e \in Events
                PROVE  event[e].at = "unpublished"
    BY DEF EventInv
  <2>. QED
    BY DEF Init
<1>2. EventInv => EventsDurable
  BY DEF EventInv, EventsDurable
<1>. QED
  BY <1>1, <1>2, TypeInit, TypeStep, EventStepInv, PTL DEF Spec

-----------------------------------------------------------------------------
(* Replay.  The writer and the stream are its environment: of them only    *)
(* the clock matters to the player.                                        *)
LEMMA WriterRunsOn == ReplaySpec => Spec
<1>1. ReplayInit => Init
  BY DEF ReplayInit
<1>2. [ReplayNext]_replaySpecVars => [Next]_vars
  BY DEF ReplayNext, replaySpecVars, vars, Collect, CollectHistory, OpenReader, Fetch,
    CollectFails, Browser, StartReplay, Land, Scrub, togglePlay, exit
<1>. QED
  BY <1>1, <1>2, PTL DEF ReplaySpec, Spec

LEMMA AnswerStep ==
  ASSUME ReplayInv, req.pc \in {"history", "open", "fetch"},
         NEW ok, NEW samples, NEW cut, Answer(ok, samples, cut),
         UNCHANGED <<call, calls, player>>
  PROVE  ReplayInv'
<1>1. InOrderOfTime(req) /\ player.isActive /\ calls \in 1 .. calls
  BY DEF ReplayInv, RequestInv, PlayerInv
<1>2. PlayerInv'
  BY DEF ReplayInv, PlayerInv, PlayerShowsWhatWasAsked, HasWindow, PlayerShape, WindowShape
<1>3. RequestShape' /\ req'.from = req.from /\ req'.to = req.to
  BY DEF Answer, ReplayInv, RequestInv, RequestShape
<1>4. \A r \in answers' : InOrderOfTime(r) /\ r.call \in 1 .. calls
  BY <1>1 DEF Answer, ReplayInv, RequestInv, InOrderOfTime
<1>. QED
  BY <1>1, <1>2, <1>3, <1>4 DEF ReplayInv, RequestInv, InOrderOfTime

LEMMA GatewayStep ==
  ASSUME ReplayInv, Collect \/ CollectFails
  PROVE  ReplayInv'
<1>1. ASSUME UNCHANGED call, UNCHANGED calls, UNCHANGED player, UNCHANGED answers,
             req.pc # "idle",
             RequestShape', req'.from = req.from, req'.to = req.to
      PROVE  ReplayInv'
  <2>1. PlayerInv'
    BY <1>1 DEF ReplayInv, PlayerInv, PlayerShowsWhatWasAsked, HasWindow, PlayerShape, WindowShape
  <2>. QED
    BY <1>1, <2>1 DEF ReplayInv, RequestInv, InOrderOfTime
<1>2. /\ req.pc \in {"history", "open", "fetch"} /\ req.pc # "idle"
      /\ UNCHANGED call /\ UNCHANGED calls /\ UNCHANGED player
  BY DEF Collect, CollectHistory, OpenReader, Fetch, CollectFails
<1>3. RequestShape
  BY DEF ReplayInv, RequestInv, RequestShape
<1>4. CASE \E ok, samples, cut : Answer(ok, samples, cut)
  BY <1>2, <1>4, AnswerStep
<1>5. CASE CollectHistory
  <2>1. PICK cutoff, samples :
          req' = [req EXCEPT !.pc = "open", !.cutoff = cutoff, !.samples = samples]
    BY <1>5 DEF CollectHistory
  <2>2. RequestShape' /\ req'.from = req.from /\ req'.to = req.to
    BY <1>3, <2>1 DEF RequestShape
  <2>3. UNCHANGED answers
    BY <1>5 DEF CollectHistory
  <2>. QED
    BY <1>1, <1>2, <2>2, <2>3
<1>6. CASE OpenReader
  <2>1. ASSUME UNCHANGED answers, NEW n, NEW m,
               req' = [req EXCEPT !.pc = "fetch", !.pos = 1, !.upto = n, !.remaining = m]
        PROVE  ReplayInv'
    <3>1. RequestShape' /\ req'.from = req.from /\ req'.to = req.to
      BY <1>3, <2>1 DEF RequestShape
    <3>. QED
      BY <1>1, <1>2, <2>1, <3>1
  <2>2. \/ \E ok, samples, cut : Answer(ok, samples, cut)
        \/ /\ UNCHANGED answers
           /\ \E n, m :
                req' = [req EXCEPT !.pc = "fetch", !.pos = 1, !.upto = n, !.remaining = m]
    BY <1>6 DEF OpenReader
  <2>. QED
    BY <1>4, <2>1, <2>2
<1>7. CASE Fetch
  <2>1. ASSUME UNCHANGED answers, NEW samples, NEW left, NEW pos,
               req' = [req EXCEPT !.samples = samples, !.remaining = left, !.pos = pos]
        PROVE  ReplayInv'
    <3>1. RequestShape' /\ req'.from = req.from /\ req'.to = req.to
      BY <1>3, <2>1 DEF RequestShape
    <3>. QED
      BY <1>1, <1>2, <2>1, <3>1
  <2>2. \/ \E ok, samples, cut : Answer(ok, samples, cut)
        \/ /\ UNCHANGED answers
           /\ \E samples, left, pos :
                req' = [req EXCEPT !.samples = samples, !.remaining = left, !.pos = pos]
    BY <1>7, ZenonT(60) DEF Fetch
  <2>. QED
    BY <1>4, <2>1, <2>2
<1>8. CASE CollectFails
  BY <1>4, <1>8 DEF CollectFails
<1>. QED
  BY <1>5, <1>6, <1>7, <1>8 DEF Collect

(* The gateway keeps its request while the player does not ask or leave. *)
LEMMA RequestKept ==
  ASSUME ReplayInv, UNCHANGED req, UNCHANGED calls, answers' \subseteq answers,
         player'.isActive = player.isActive
  PROVE  RequestInv'
  BY DEF ReplayInv, RequestInv, RequestShape, InOrderOfTime

LEMMA PlayerStarts ==
  ASSUME ReplayInv, now \in Int, StartReplay
  PROVE  ReplayInv'
<1>. USE DEF ReplayInv
<1>1. player.window = None /\ calls' = calls + 1 /\ call' = calls + 1
  BY DEF StartReplay, PlayerInv, PlayerShowsWhatWasAsked, HasWindow
<1>2. PlayerShape' /\ player'.isActive = TRUE /\ player'.window = None
      /\ player'.isPlaying = player.isPlaying
  BY <1>1 DEF StartReplay, PlayerInv, PlayerShape
<1>3. PlayerInv'
  <2>1. calls \in Nat /\ player.isPlaying \in BOOLEAN
    BY DEF PlayerInv
  <2>2. calls' \in Nat /\ calls' # 0 /\ call' = calls'
    BY <1>1, <2>1
  <2>. QED
    BY <1>2, <2>1, <2>2 DEF PlayerInv, PlayerShowsWhatWasAsked, HasWindow
<1>4. PICK w \in Windows :
        req' = [NoRequest EXCEPT !.pc = "history", !.from = now - w, !.to = now]
  BY DEF StartReplay
<1>5. RequestShape' /\ InOrderOfTime(req')
  <2>1. req' = [pc |-> "history", from |-> now - w, to |-> now, cutoff |-> 0,
                samples |-> <<>>, pos |-> 1, remaining |-> 0, upto |-> 0, cut |-> FALSE]
    BY <1>4, Zenon DEF NoRequest
  <2>2. now - w \in Int /\ now - w < now
    BY WindowsAssumption
  <2>. QED
    BY <2>1, <2>2 DEF RequestShape, InOrderOfTime
<1>6. \A r \in answers : r.call \in 1 .. calls => r.call \in 1 .. calls'
  BY <1>1 DEF PlayerInv
<1>7. UNCHANGED answers
  BY DEF StartReplay
<1>. QED
  BY <1>2, <1>3, <1>5, <1>6, <1>7 DEF RequestInv, InOrderOfTime

LEMMA PlayerLoads ==
  ASSUME ReplayInv, NEW r \in answers, Land(r)
  PROVE  ReplayInv'
<1>. USE DEF ReplayInv
<1>1. answers' \subseteq answers /\ UNCHANGED req /\ UNCHANGED calls /\ UNCHANGED call
  BY DEF Land
<1>2. player.isActive' = player.isActive
  BY DEF Land, PlayerInv, PlayerShape
<1>3. CASE ~Current(r)
  <2>1. UNCHANGED player
    BY <1>3 DEF Land
  <2>. QED
    BY <1>1, <1>2, <2>1, RequestKept
      DEF PlayerInv, PlayerShape, WindowShape, HasWindow, PlayerShowsWhatWasAsked
<1>4. CASE Current(r) /\ ~r.ok
  <2>1. /\ PlayerShape' /\ player'.window = player.window
        /\ player'.isPlaying = player.isPlaying
    BY <1>4 DEF Land, PlayerInv, PlayerShape
  <2>. QED
    BY <1>1, <1>2, <2>1, RequestKept
      DEF PlayerInv, WindowShape, HasWindow, PlayerShowsWhatWasAsked
<1>5. CASE Current(r) /\ r.ok
  <2>1. /\ PlayerShape' /\ player'.isPlaying = FALSE
        /\ player'.window = [call |-> r.call, samples |-> r.samples, start |-> r.from,
                             end |-> r.to, scrub |-> r.from]
    BY <1>5 DEF Land, PlayerInv, PlayerShape
  <2>2. InOrderOfTime(r) /\ r.call \in 1 .. calls /\ r.call = call
    BY <1>5 DEF RequestInv, Current
  <2>3. player.isActive /\ r.call = calls
    BY <2>2 DEF PlayerInv
  <2>4. /\ WindowShape' /\ player'.window.call = r.call /\ player'.window.start = r.from
        /\ player'.window.end = r.to /\ player'.window.scrub = r.from
    BY <2>1 DEF WindowShape
  <2>5. r.from \in r.from .. r.to
    BY <2>2 DEF InOrderOfTime
  <2>6. calls \in Nat /\ call = calls /\ calls # 0
    BY <2>3 DEF PlayerInv
  <2>. QED
    BY <1>1, <1>2, <2>1, <2>2, <2>3, <2>4, <2>5, <2>6, RequestKept
      DEF PlayerInv, HasWindow, PlayerShowsWhatWasAsked, InOrderOfTime
<1>. QED
  BY <1>3, <1>4, <1>5

LEMMA ScrubClamped ==
  ASSUME ReplayInv, HasWindow, NEW ms \in Int
  PROVE  Clamped(ms) \in player.window.start .. player.window.end
  BY DEF ReplayInv, PlayerInv, PlayerShowsWhatWasAsked, Clamped, LowerOf, HigherOf

LEMMA PlayerScrubs ==
  ASSUME ReplayInv, HasWindow, player.isActive, NEW ms \in Int, setScrub(ms),
         UNCHANGED <<vars, req, call, calls, answers>>
  PROVE  ReplayInv'
<1>. USE DEF ReplayInv
<1>. DEFINE w == player.window
<1>1. /\ Clamped(ms) \in w.start .. w.end
      /\ PlayerShape /\ WindowShape
  BY ScrubClamped DEF PlayerInv
<1>. HIDE DEF ReplayInv
<1>2. /\ PlayerShape' /\ player'.isActive = player.isActive
      /\ player'.window = [w EXCEPT !.scrub = Clamped(ms)]
      /\ player'.isPlaying = (player.isPlaying /\ Clamped(ms) < w.end)
  BY <1>1 DEF setScrub, PlayerShape
<1>3. /\ WindowShape' /\ player'.window.call = w.call /\ player'.window.start = w.start
      /\ player'.window.end = w.end /\ player'.window.scrub = Clamped(ms)
  BY <1>1, <1>2 DEF WindowShape
<1>4. PlayerShowsWhatWasAsked'
  BY <1>1, <1>2, <1>3 DEF ReplayInv, PlayerInv, HasWindow, PlayerShowsWhatWasAsked
<1>5. PlayerInv'
  BY <1>2, <1>3, <1>4 DEF ReplayInv, PlayerInv
<1>. QED
  BY <1>2, <1>5, RequestKept DEF ReplayInv

LEMMA PlayerToggles ==
  ASSUME ReplayInv, togglePlay
  PROVE  ReplayInv'
<1>. DEFINE w == player.window
<1>1. /\ HasWindow /\ player.isActive /\ PlayerShape /\ WindowShape /\ player.isPlaying \in BOOLEAN
      /\ UNCHANGED req /\ UNCHANGED calls /\ UNCHANGED call /\ UNCHANGED answers
  BY DEF togglePlay, ReplayInv, PlayerInv, PlayerShowsWhatWasAsked
<1>2. w.scrub \in w.start .. w.end /\ w.start \in Int /\ w.end \in Int /\ w.start < w.end
  BY <1>1 DEF ReplayInv, PlayerInv, PlayerShowsWhatWasAsked
<1>3. ASSUME PlayerShape', player'.isActive = player.isActive, WindowShape',
             player'.window.call = w.call, player'.window.start = w.start,
             player'.window.end = w.end, player'.window.scrub \in w.start .. w.end,
             player'.isPlaying \in BOOLEAN,
             player'.isPlaying => player'.window.scrub < w.end
      PROVE  ReplayInv'
  <2>1. PlayerInv'
    BY <1>1, <1>2, <1>3 DEF ReplayInv, PlayerInv, HasWindow, PlayerShowsWhatWasAsked
  <2>. QED
    BY <1>1, <1>3, <2>1, RequestKept DEF ReplayInv
<1>4. CASE ~player.isPlaying /\ w.scrub >= w.end
  <2>1. player' = [player EXCEPT !.isPlaying = TRUE, !.window.scrub = w.start]
    BY <1>4 DEF togglePlay
  <2>2. /\ PlayerShape' /\ player'.isActive = player.isActive
        /\ player'.isPlaying = TRUE /\ player'.window = [w EXCEPT !.scrub = w.start]
    BY <1>1, <2>1 DEF PlayerShape
  <2>3. /\ WindowShape' /\ player'.window.call = w.call /\ player'.window.start = w.start
        /\ player'.window.end = w.end /\ player'.window.scrub = w.start
    BY <1>1, <2>2 DEF WindowShape
  <2>4. w.start \in w.start .. w.end /\ w.start < w.end
    BY <1>2
  <2>. QED
    BY <1>3, <2>2, <2>3, <2>4
<1>5. CASE ~(~player.isPlaying /\ w.scrub >= w.end)
  <2>1. player' = [player EXCEPT !.isPlaying = ~@]
    BY <1>5 DEF togglePlay
  <2>2. /\ PlayerShape' /\ player'.isActive = player.isActive /\ player'.window = w
        /\ player'.isPlaying = ~player.isPlaying
    BY <1>1, <2>1 DEF PlayerShape
  <2>3. ~player.isPlaying => w.scrub < w.end
    BY <1>2, <1>5
  <2>4. WindowShape'
    BY <1>1, <2>2 DEF WindowShape
  <2>. QED
    BY <1>1, <1>2, <1>3, <2>2, <2>3, <2>4
<1>. QED
  BY <1>4, <1>5

LEMMA PlayerLeaves ==
  ASSUME ReplayInv, exit
  PROVE  ReplayInv'
  BY DEF exit, Exited, NoRequest, ReplayInv, RequestInv, PlayerInv, RequestShape, PlayerShape,
    HasWindow, PlayerShowsWhatWasAsked

LEMMA ReplayStep == ReplayInv /\ TypeOK /\ [ReplayNext]_replaySpecVars => ReplayInv'
<1>. SUFFICES ASSUME ReplayInv, TypeOK, [ReplayNext]_replaySpecVars PROVE ReplayInv'
  OBVIOUS
<1>1. CASE UNCHANGED replayVars
  BY <1>1, RequestKept DEF replayVars, ReplayInv, PlayerInv, PlayerShape, WindowShape,
    HasWindow, PlayerShowsWhatWasAsked
<1>2. CASE Collect \/ CollectFails
  BY <1>2, GatewayStep
<1>3. CASE StartReplay
  BY <1>3, PlayerStarts DEF TypeOK, StreamTypeOK
<1>4. CASE Scrub
  <2>1. player.window.start \in Int /\ player.window.scrub \in Int
    BY <1>4 DEF Scrub, ReplayInv, PlayerInv, PlayerShowsWhatWasAsked
  <2>2. PICK ms \in Int : setScrub(ms)
    BY <1>4, <2>1 DEF Scrub
  <2>. QED
    BY <1>4, <2>2, PlayerScrubs DEF Scrub
<1>5. CASE togglePlay
  BY <1>5, PlayerToggles
<1>6. CASE exit
  BY <1>6, PlayerLeaves
<1>7. CASE \E r \in answers : Land(r)
  BY <1>7, PlayerLoads
<1>. QED
  BY <1>1, <1>2, <1>3, <1>4, <1>5, <1>6, <1>7 DEF ReplayNext, Browser, replaySpecVars, replayVars

(* The inductive invariant of the request, its answers and the player.     *)
THEOREM ReplayCorrect == ReplaySpec => []ReplayInv
<1>1. ReplayInit => ReplayInv
  BY DEF ReplayInit, Exited, NoRequest, None, ReplayInv, RequestInv, PlayerInv, RequestShape,
    PlayerShape, HasWindow, PlayerShowsWhatWasAsked
<1>. QED
  BY <1>1, ReplayStep, WriterRunsOn, TypeCorrect, PTL DEF ReplaySpec

(* The player of useReplayStore shows the window asked for last, and only  *)
(* in replay mode; its head stays inside it: however answers, the user and *)
(* the timer interleave, for any window and any number of requests.        *)
THEOREM PlayerIsCurrent == ReplaySpec => []PlayerShowsWhatWasAsked
<1>1. ReplayInv => PlayerShowsWhatWasAsked
  BY DEF ReplayInv, PlayerInv
<1>. QED
  BY <1>1, ReplayCorrect, PTL

-----------------------------------------------------------------------------
-----------------------------------------------------------------------------
(* What the writer's steps do to the table and to the stream: rows are     *)
(* added one by one, and an update is published after those of its time.   *)
LEMMA InsertFinite ==
  ASSUME IsFiniteSet(history), NEW sure
  PROVE  IsFiniteSet(InsertFlightHistory(sure))
  BY FS_AddElement DEF InsertFlightHistory

LEMMA StreamGrows ==
  ASSUME TypeOK, [Next]_vars, IsFiniteSet(history), StreamAscends
  PROVE  /\ IsFiniteSet(history') /\ StreamAscends'
         /\ now' \in Nat /\ now <= now' /\ Len(stream) <= Len(stream')
         /\ \A i \in DOMAIN stream : i \in DOMAIN stream' /\ stream'[i] = stream[i]
<1>0. /\ now \in Nat /\ stream \in Seq(Updates) /\ Len(stream) \in Nat
      /\ DOMAIN stream = 1 .. Len(stream)
      /\ \A i \in DOMAIN stream : stream[i].at \in Nat /\ stream[i].at <= now
  <2>1. now \in Nat /\ stream \in Seq(Updates)
    BY DEF TypeOK, StreamTypeOK
  <2>2. \A i \in DOMAIN stream : stream[i] \in Updates
    BY <2>1
  <2>3. \A i \in DOMAIN stream : i <= i
    BY <2>1
  <2>. QED
    BY <2>1, <2>2, <2>3 DEF StreamAscends, Updates
<1>1. IsFiniteSet(history')
  <2>1. \/ UNCHANGED history
        \/ \E sure : history' = InsertFlightHistory(sure)
    BY DEF Next, Tick, Deliver, HistoryStep, Skip, Reserve, Insert, InsertFails, Ack, EvictBefore,
      Restart, PublishUpdate, PublishEvent, EventStep, DeliverEvent, HandleEvent,
      HandleEventFails, AckEvent, vars
  <2>. QED
    BY <2>1, InsertFinite
<1>2. CASE Tick
  <2>1. now' = now + 1 /\ UNCHANGED stream
    BY <1>2 DEF Tick
  <2>2. \A i \in DOMAIN stream : stream[i].at <= now'
    BY <1>0, <2>1
  <2>. QED
    BY <1>0, <1>1, <2>1, <2>2 DEF StreamAscends
<1>3. ASSUME NEW a \in Aircraft, PublishUpdate(a)
      PROVE  /\ StreamAscends' /\ UNCHANGED now /\ Len(stream) <= Len(stream')
             /\ \A i \in DOMAIN stream : i \in DOMAIN stream' /\ stream'[i] = stream[i]
  <2>1. PICK u \in Updates : stream' = Append(stream, u) /\ u.at = now
    <3>1. PICK t \in 0 .. now, ok \in BOOLEAN :
            stream' = Append(stream, [icao24 |-> a, seen |-> t, at |-> now, decodes |-> ok])
      BY <1>3 DEF PublishUpdate
    <3>2. t \in Nat
      BY <1>0
    <3>. QED
      BY <1>0, <3>1, <3>2 DEF Updates
  <2>2. /\ Len(stream') = Len(stream) + 1 /\ stream'[Len(stream) + 1] = u
        /\ \A i \in 1 .. Len(stream) : stream'[i] = stream[i]
    BY <1>0, <2>1
  <2>4. \A i, j \in 1 .. Len(stream) + 1 :
          i <= j => stream'[i].at <= stream'[j].at /\ stream'[j].at <= now
    BY <1>0, <2>1, <2>2 DEF StreamAscends
  <2>5. UNCHANGED now /\ DOMAIN stream' = 1 .. Len(stream) + 1
    BY <1>0, <1>3, <2>1 DEF PublishUpdate
  <2>6. StreamAscends'
    BY <2>4, <2>5 DEF StreamAscends
  <2>. QED
    BY <1>0, <2>2, <2>5, <2>6
<1>4. CASE UNCHANGED <<now, stream>>
  BY <1>0, <1>1, <1>4 DEF StreamAscends
<1>5. \/ Tick \/ (\E a \in Aircraft : PublishUpdate(a)) \/ UNCHANGED <<now, stream>>
  BY DEF Next, Deliver, HistoryStep, Skip, Reserve, Insert, InsertFails, Ack, EvictBefore,
    Restart, PublishEvent, EventStep, DeliverEvent, HandleEvent,
    HandleEventFails, AckEvent, vars
<1>. QED
  BY <1>0, <1>1, <1>2, <1>3, <1>4, <1>5

(* The samples of a query of the history, and of a batch of the stream.    *)
LEMMA RowsAscend ==
  ASSUME TypeOK, IsFiniteSet(history), NEW from \in Int, NEW to \in Int,
         NEW rows \in QueryFlightHistoryRange(from, to)
  PROVE  /\ Ascending(RowSamples(rows))
         /\ \A k \in DOMAIN RowSamples(rows) : RowSamples(rows)[k].at \in from .. to
<1>. DEFINE within == {r \in history : r.recordedAt \in from .. to}
            n == LowerOf(Cardinality(within), MaxRows)
<1>1. n \in Nat
  <2>1. Cardinality(within) \in Nat
    BY FS_Subset, FS_CardinalityType
  <2>. QED
    BY <2>1, ReplayConstants DEF LowerOf
<1>2. /\ rows \in [1 .. n -> within]
      /\ \A i, j \in 1 .. n : i < j => rows[i].recordedAt <= rows[j].recordedAt
  BY DEF QueryFlightHistoryRange
<1>. HIDE DEF n
<1>3. \A i \in 1 .. n : /\ rows[i].icao24 \in Aircraft /\ rows[i].recordedAt \in Nat
                        /\ rows[i].recordedAt \in from .. to
  BY <1>2 DEF TypeOK, TablesTypeOK, Rows
<1>. DEFINE s == RowSamples(rows)
<1>4. /\ s = [i \in 1 .. n |-> [icao24 |-> rows[i].icao24, at |-> rows[i].recordedAt,
                                seen |-> rows[i].recordedAt]]
  BY <1>2 DEF RowSamples
<1>. HIDE DEF s
<1>5. s \in Seq(Samples) /\ DOMAIN s = 1 .. n
  <2>1. \A k \in 1 .. n : s[k] \in Samples
    BY <1>3, <1>4 DEF Samples
  <2>. QED
    BY <1>1, <1>4, <2>1
<1>6. \A i, j \in 1 .. n : i <= j => s[i].at <= s[j].at
  BY <1>1, <1>2, <1>3, <1>4
<1>. QED
  BY <1>3, <1>4, <1>5, <1>6 DEF Ascending, s

LEMMA EnumerationHasAll ==
  ASSUME NEW S, S \subseteq Nat, IsFiniteSet(S), NEW s \in InOrder(S)
  PROVE  /\ Cardinality(S) \in Nat /\ s \in [1 .. Cardinality(S) -> S]
         /\ \A j, k \in 1 .. Cardinality(S) : j < k => s[j] < s[k]
         /\ \A i \in S : \E k \in 1 .. Cardinality(S) : s[k] = i
<1>. DEFINE n == Cardinality(S)
<1>1. n \in Nat
  BY FS_CardinalityType
<1>2. s \in [1 .. n -> S] /\ \A j, k \in 1 .. n : j < k => s[j] < s[k]
  BY DEF InOrder
<1>. HIDE DEF n
<1>3. \A j, k \in 1 .. n : s[j] = s[k] => j = k
  <2>. SUFFICES ASSUME NEW j \in 1 .. n, NEW k \in 1 .. n, j < k PROVE s[j] # s[k]
    BY <1>1
  <2>1. s[j] \in Nat /\ s[k] \in Nat
    BY <1>2
  <2>. QED
    BY <1>2, <2>1
<1>4. s \in Injection(1 .. n, S)
  BY <1>2, <1>3 DEF Injection, IsInjective
<1>5. IsFiniteSet(1 .. n) /\ Cardinality(1 .. n) = n
  BY <1>1, FS_Interval
<1>6. s \in Surjection(1 .. n, S)
  BY <1>4, <1>5, FS_Injection DEF n
<1>. QED
  BY <1>1, <1>2, <1>6 DEF Surjection, n

LEMMA UpdatesAscend ==
  ASSUME TypeOK, StreamAscends, NEW S, S \subseteq 1 .. Len(stream), NEW s \in InOrder(S)
  PROVE  /\ Ascending(UpdateSamples(s))
         /\ \A k \in DOMAIN UpdateSamples(s) :
              s[k] \in S /\ UpdateSamples(s)[k].at = stream[s[k]].at
<1>. DEFINE n == Cardinality(S)
            u == UpdateSamples(s)
<1>1. /\ stream \in Seq(Updates) /\ Len(stream) \in Nat
      /\ IsFiniteSet(S) /\ S \subseteq Nat
  <2>1. stream \in Seq(Updates) /\ Len(stream) \in Nat
    BY DEF TypeOK, StreamTypeOK
  <2>2. IsFiniteSet(1 .. Len(stream))
    BY <2>1, FS_Interval
  <2>3. S \subseteq Nat
    BY <2>1
  <2>4. S \in SUBSET (1 .. Len(stream))
    OBVIOUS
  <2>5. IsFiniteSet(S)
    BY <2>2, <2>4, FS_Subset
  <2>. QED
    BY <2>1, <2>3, <2>5
<1>2. /\ n \in Nat /\ s \in [1 .. n -> S]
      /\ \A j, k \in 1 .. n : j < k => s[j] < s[k]
  BY <1>1, EnumerationHasAll
<1>. HIDE DEF n
<1>3. u = [j \in 1 .. n |-> [icao24 |-> stream[s[j]].icao24, at |-> stream[s[j]].at,
                             seen |-> stream[s[j]].seen]]
  BY <1>2 DEF UpdateSamples
<1>. HIDE DEF u
<1>4. \A k \in 1 .. n : s[k] \in 1 .. Len(stream) /\ stream[s[k]] \in Updates
  <2>. TAKE k \in 1 .. n
  <2>1. s[k] \in 1 .. Len(stream)
    BY <1>2
  <2>. QED
    BY <1>1, <2>1
<1>5. u \in Seq(Samples) /\ DOMAIN u = 1 .. n
  <2>1. \A k \in 1 .. n : u[k] \in Samples
    BY <1>3, <1>4 DEF Updates, Samples
  <2>. QED
    BY <1>2, <1>3, <2>1
<1>6. \A i, j \in 1 .. n : i <= j => u[i].at <= u[j].at
  <2>. SUFFICES ASSUME NEW i \in 1 .. n, NEW j \in 1 .. n, i <= j
                PROVE  u[i].at <= u[j].at
    OBVIOUS
  <2>1. s[i] \in 1 .. Len(stream) /\ s[j] \in 1 .. Len(stream) /\ s[i] <= s[j]
    <3>1. CASE i < j
      BY <1>1, <1>2, <1>4, <3>1
    <3>2. CASE i = j
      BY <1>1, <1>4, <3>2
    <3>. QED
      BY <1>2, <3>1, <3>2
  <2>2. stream[s[i]].at <= stream[s[j]].at
    BY <1>1, <2>1 DEF StreamAscends
  <2>. QED
    BY <1>3, <2>2
<1>7. Ascending(u)
  BY <1>5, <1>6 DEF Ascending
<1>. QED
  BY <1>2, <1>3, <1>5, <1>7 DEF u

LEMMA AppendAscends ==
  ASSUME NEW s, Ascending(s), NEW t, Ascending(t),
         \A i \in DOMAIN s, j \in DOMAIN t : s[i].at <= t[j].at
  PROVE  Ascending(s \o t)
<1>. DEFINE c == s \o t
<1>1. s \in Seq(Samples) /\ t \in Seq(Samples) /\ c \in Seq(Samples)
  BY DEF Ascending
<1>2. /\ Len(s) \in Nat /\ Len(t) \in Nat /\ Len(c) = Len(s) + Len(t)
      /\ DOMAIN s = 1 .. Len(s) /\ DOMAIN t = 1 .. Len(t) /\ DOMAIN c = 1 .. Len(c)
      /\ \A k \in DOMAIN c : c[k] = IF k <= Len(s) THEN s[k] ELSE t[k - Len(s)]
  BY <1>1
<1>. HIDE DEF c
<1>3. ASSUME NEW i \in DOMAIN c, NEW j \in DOMAIN c, i <= j
      PROVE  c[i].at <= c[j].at
  <2>1. CASE j <= Len(s)
    BY <1>2, <1>3, <2>1 DEF Ascending
  <2>2. CASE i > Len(s)
    <3>1. /\ i - Len(s) \in DOMAIN t /\ j - Len(s) \in DOMAIN t /\ i - Len(s) <= j - Len(s)
          /\ c[i] = t[i - Len(s)] /\ c[j] = t[j - Len(s)]
      BY <1>2, <1>3, <2>2
    <3>. QED
      BY <3>1 DEF Ascending
  <2>3. CASE i <= Len(s) /\ j > Len(s)
    <3>1. /\ i \in DOMAIN s /\ j - Len(s) \in DOMAIN t
          /\ c[i] = s[i] /\ c[j] = t[j - Len(s)]
      BY <1>2, <1>3, <2>3
    <3>. QED
      BY <3>1
  <2>. QED
    BY <1>2, <2>1, <2>2, <2>3
<1>. QED
  BY <1>1, <1>3 DEF Ascending, c

(* A sample that is behind the stream stays so while the stream grows.     *)
LEMMA RequestStaysInOrder ==
  ASSUME RequestInOrder, UNCHANGED req, stream \in Seq(Updates), stream' \in Seq(Updates),
         Len(stream) <= Len(stream'),
         \A i \in DOMAIN stream : stream'[i] = stream[i]
  PROVE  RequestInOrder'
<1>1. Len(stream) \in Nat /\ Len(stream') \in Nat /\ DOMAIN stream = 1 .. Len(stream)
  OBVIOUS
<1>2. req.pos \in Nat \ {0} /\ req.pos - 1 <= Len(stream)
  BY DEF RequestInOrder
<1>3. \A j \in 1 .. req.pos - 1 : stream'[j] = stream[j]
  BY <1>1, <1>2
<1>4. \A k \in DOMAIN req.samples : Behind(req.samples[k]) => Behind(req.samples[k])'
  BY <1>3 DEF Behind, StreamFrom
<1>. QED
  BY <1>1, <1>2, <1>4 DEF RequestInOrder, Ascending, StreamFrom

LEMMA SampleType ==
  ASSUME NEW s, Ascending(s), NEW i \in DOMAIN s
  PROVE  s[i].at \in Nat
<1>1. s[i] \in Samples
  BY DEF Ascending
<1>. QED
  BY <1>1 DEF Samples

LEMMA AppendedFrom ==
  ASSUME NEW s, Ascending(s), NEW t, Ascending(t), NEW k \in DOMAIN (s \o t)
  PROVE  \/ k \in DOMAIN s /\ (s \o t)[k] = s[k]
         \/ k - Len(s) \in DOMAIN t /\ (s \o t)[k] = t[k - Len(s)]
  BY DEF Ascending

LEMMA AppendHasBoth ==
  ASSUME NEW s, Ascending(s), NEW t, Ascending(t)
  PROVE  /\ \A k \in DOMAIN s : \E l \in DOMAIN (s \o t) : (s \o t)[l] = s[k]
         /\ \A k \in DOMAIN t : \E l \in DOMAIN (s \o t) : (s \o t)[l] = t[k]
<1>1. /\ Len(s) \in Nat /\ Len(t) \in Nat /\ DOMAIN s = 1 .. Len(s) /\ DOMAIN t = 1 .. Len(t)
      /\ DOMAIN (s \o t) = 1 .. Len(s) + Len(t)
      /\ \A k \in 1 .. Len(s) + Len(t) :
           (s \o t)[k] = IF k <= Len(s) THEN s[k] ELSE t[k - Len(s)]
  BY DEF Ascending
<1>2. ASSUME NEW k \in DOMAIN s
      PROVE  k \in DOMAIN (s \o t) /\ (s \o t)[k] = s[k]
  BY <1>1
<1>3. ASSUME NEW k \in DOMAIN t
      PROVE  /\ Len(s) + k \in DOMAIN (s \o t) /\ (s \o t)[Len(s) + k] = t[k]
  BY <1>1
<1>. QED
  BY <1>2, <1>3

LEMMA EmptyAscends == Ascending(<<>>)
  BY DEF Ascending

LEMMA AnswerAscends ==
  ASSUME ReplayInv, SamplesInv, NEW ok, NEW samples, Ascending(samples), NEW cut,
         Answer(ok, samples, cut), UNCHANGED <<vars, call, calls, player>>
  PROVE  SamplesInv'
<1>1. /\ req'.pc = "answered" /\ req'.samples = samples
      /\ req'.pos = req.pos /\ req'.cutoff = req.cutoff
  BY DEF Answer, ReplayInv, RequestInv, RequestShape
<1>2. UNCHANGED history /\ UNCHANGED stream /\ UNCHANGED now /\ UNCHANGED player
  BY DEF vars
<1>3. StreamAscends' /\ Ascending(player.window.samples)' /\ IsFiniteSet(history)'
  BY <1>2 DEF SamplesInv, StreamAscends, Ascending
<1>4. RequestInOrder'
  BY <1>1, <1>2 DEF SamplesInv, RequestInOrder, Ascending
<1>5. \A r \in answers' : Ascending(r.samples)
  BY DEF Answer, SamplesInv
<1>. QED
  BY <1>3, <1>4, <1>5 DEF SamplesInv, Ascending

(* The history's part ends where the stream's may start. *)
LEMMA HistoryCollected ==
  ASSUME TypeOK, ReplayInv, SamplesInv, CollectHistory
  PROVE  SamplesInv'
<1>. DEFINE cutoff == now - Retention
<1>1. /\ req.pc = "history" /\ now \in Nat /\ cutoff \in Int
      /\ req.from \in Int /\ req.to \in Int
  BY DEF CollectHistory, TypeOK, StreamTypeOK, ReplayInv, RequestInv, InOrderOfTime
<1>. HIDE DEF cutoff
<1>2. PICK rows \in IF req.from < cutoff
                    THEN QueryFlightHistoryRange(req.from, HistoryTo(cutoff)) ELSE {<<>>} :
        req' = [req EXCEPT !.pc = "open", !.cutoff = cutoff, !.samples = RowSamples(rows)]
  BY DEF CollectHistory, cutoff
<1>3. /\ Ascending(RowSamples(rows))
      /\ \A k \in DOMAIN RowSamples(rows) :
           RowSamples(rows)[k].at \in Int /\ RowSamples(rows)[k].at <= cutoff
  <2>1. CASE req.from < cutoff
    <3>1. HistoryTo(cutoff) \in Int /\ HistoryTo(cutoff) <= cutoff
      BY <1>1 DEF HistoryTo, LowerOf
    <3>2. rows \in QueryFlightHistoryRange(req.from, HistoryTo(cutoff))
      BY <1>2, <2>1
    <3>3. IsFiniteSet(history)
      BY DEF SamplesInv
    <3>. HIDE DEF SamplesInv
    <3>4. /\ Ascending(RowSamples(rows))
          /\ \A k \in DOMAIN RowSamples(rows) :
               RowSamples(rows)[k].at \in req.from .. HistoryTo(cutoff)
      BY <1>1, <3>1, <3>2, <3>3, RowsAscend
    <3>. QED
      BY <1>1, <3>1, <3>4
  <2>2. CASE ~(req.from < cutoff)
    <3>1. rows = <<>>
      BY <1>2, <2>2
    <3>2. RowSamples(rows) = <<>>
      BY <3>1 DEF RowSamples
    <3>. QED
      BY <3>2, EmptyAscends
  <2>. QED
    BY <2>1, <2>2
<1>4. /\ req'.pc = "open" /\ req'.samples = RowSamples(rows) /\ req'.cutoff = cutoff
      /\ req'.from = req.from /\ req'.pos = req.pos
  BY <1>2 DEF ReplayInv, RequestInv, RequestShape
<1>5. \A k \in DOMAIN req'.samples : req'.samples[k].at <= StreamFrom'
  BY <1>1, <1>3, <1>4 DEF StreamFrom, HigherOf
<1>6. UNCHANGED <<history, stream, now, player, answers>>
  BY DEF CollectHistory, vars
<1>7. RequestInOrder'
  BY <1>1, <1>3, <1>4, <1>5, <1>6 DEF RequestInOrder, SamplesInv, Ascending
<1>. QED
  BY <1>6, <1>7 DEF SamplesInv, StreamAscends, Ascending

LEMMA ReaderOpened ==
  ASSUME TypeOK, ReplayInv, SamplesInv, OpenReader
  PROVE  SamplesInv'
<1>1. req.pc = "open" /\ Ascending(req.samples) /\ UNCHANGED <<vars, call, calls, player>>
  BY DEF OpenReader, SamplesInv, RequestInOrder
<1>2. CASE Answer(TRUE, req.samples, FALSE)
  BY <1>1, <1>2, AnswerAscends
<1>3. CASE /\ UNCHANGED answers
           /\ req' = [req EXCEPT !.pc = "fetch", !.pos = 1, !.upto = Len(stream),
                                 !.remaining = Cardinality(Pending(1))]
  <2>1. /\ req'.pc = "fetch" /\ req'.samples = req.samples /\ req'.cutoff = req.cutoff
        /\ req'.from = req.from /\ req'.pos = 1
    BY <1>3 DEF ReplayInv, RequestInv, RequestShape
  <2>2. UNCHANGED <<history, stream, now, player>>
    BY <1>1 DEF vars
  <2>3. \A k \in DOMAIN req'.samples : Behind(req.samples[k])'
    BY <1>1, <2>1 DEF SamplesInv, RequestInOrder, Behind, StreamFrom
  <2>4. Len(stream) \in Nat
    BY DEF TypeOK, StreamTypeOK
  <2>5. RequestInOrder'
    BY <1>1, <2>1, <2>2, <2>3, <2>4 DEF SamplesInv, RequestInOrder, Ascending
  <2>. QED
    BY <1>3, <2>2, <2>5 DEF SamplesInv, StreamAscends, Ascending
<1>. QED
  BY <1>2, <1>3 DEF OpenReader

(* A batch: an initial piece of what is pending, of which the updates that *)
(* decode and are not past the end of the window are taken.                *)
LEMMA BatchShape ==
  ASSUME TypeOK, ReplayInv, SamplesInv, req.pc = "fetch",
         NEW end \in {req.pos - 1} \cup Pending(req.pos)
  PROVE  LET batch == {i \in Pending(req.pos) : i <= end}
             decoded == {i \in batch : stream[i].decodes}
         IN  /\ end \in Nat /\ req.pos - 1 <= end /\ end <= Len(stream)
             /\ batch \subseteq req.pos .. end
             /\ Taken(decoded) \subseteq 1 .. Len(stream)
             /\ \A s \in InOrder(Taken(decoded)) :
                  LET samples == req.samples \o UpdateSamples(s) IN
                  /\ Ascending(samples)
                  /\ \A k \in DOMAIN samples :
                       \/ samples[k].at <= StreamFrom
                       \/ \E j \in 1 .. end : samples[k].at = stream[j].at
<1>. DEFINE batch == {i \in Pending(req.pos) : i <= end}
            decoded == {i \in batch : stream[i].decodes}
<1>1. /\ stream \in Seq(Updates) /\ Len(stream) \in Nat /\ DOMAIN stream = 1 .. Len(stream)
      /\ req.pos \in Nat \ {0} /\ req.pos - 1 <= Len(stream)
      /\ StreamAscends /\ Ascending(req.samples)
  BY DEF TypeOK, StreamTypeOK, SamplesInv, RequestInOrder
<1>2. Pending(req.pos) \subseteq req.pos .. Len(stream)
  BY DEF Pending
<1>3. /\ end \in Nat /\ req.pos - 1 <= end /\ end <= Len(stream)
      /\ batch \subseteq req.pos .. end
  BY <1>1, <1>2
<1>4. Taken(decoded) \subseteq batch
  BY DEF Taken
<1>5. Taken(decoded) \subseteq 1 .. Len(stream)
  BY <1>1, <1>3, <1>4
<1>6. ASSUME NEW s \in InOrder(Taken(decoded))
      PROVE  LET samples == req.samples \o UpdateSamples(s) IN
             /\ Ascending(samples)
             /\ \A k \in DOMAIN samples :
                  \/ samples[k].at <= StreamFrom
                  \/ \E j \in 1 .. end : samples[k].at = stream[j].at
  <2>. DEFINE new == UpdateSamples(s)
              samples == req.samples \o new
  <2>1. /\ Ascending(new)
        /\ \A k \in DOMAIN new : s[k] \in Taken(decoded) /\ new[k].at = stream[s[k]].at
    BY <1>1, <1>5, UpdatesAscend
  <2>. HIDE DEF new
  <2>2. ASSUME NEW i \in DOMAIN req.samples, NEW j \in DOMAIN new
        PROVE  req.samples[i].at <= new[j].at
    <3>1. /\ s[j] \in Pending(req.pos) /\ s[j] \in req.pos .. Len(stream)
          /\ new[j].at = stream[s[j]].at /\ stream[s[j]].at >= StreamFrom
      BY <1>2, <1>4, <2>1 DEF Pending
    <3>2. Behind(req.samples[i])
      BY DEF SamplesInv, RequestInOrder
    <3>3. /\ req.samples[i].at \in Nat /\ StreamFrom \in Int
          /\ \A l \in 1 .. Len(stream) : stream[l].at \in Nat
      <4>1. req.samples[i].at \in Nat
        BY <1>1, SampleType
      <4>2. \A l \in 1 .. Len(stream) : stream[l] \in Updates
        BY <1>1
      <4>3. req.from \in Int /\ req.cutoff \in Int
        BY DEF ReplayInv, RequestInv, InOrderOfTime, SamplesInv, RequestInOrder
      <4>. QED
        BY <4>1, <4>2, <4>3 DEF Updates, StreamFrom, HigherOf
    <3>4. CASE req.samples[i].at <= StreamFrom
      BY <1>1, <3>1, <3>3, <3>4
    <3>5. ASSUME NEW l \in 1 .. req.pos - 1, req.samples[i].at = stream[l].at
          PROVE  req.samples[i].at <= new[j].at
      <4>1. l \in 1 .. Len(stream) /\ l <= s[j]
        BY <1>1, <3>1
      <4>2. stream[l].at <= stream[s[j]].at
        BY <1>1, <3>1, <4>1 DEF StreamAscends
      <4>. QED
        BY <3>1, <3>5, <4>2
    <3>. QED
      BY <3>2, <3>4, <3>5 DEF Behind
  <2>3. Ascending(samples)
    BY <1>1, <2>1, <2>2, AppendAscends
  <2>4. ASSUME NEW k \in DOMAIN samples
        PROVE  \/ samples[k].at <= StreamFrom
               \/ \E j \in 1 .. end : samples[k].at = stream[j].at
    <3>1. /\ \/ k \in DOMAIN req.samples /\ samples[k] = req.samples[k]
             \/ k - Len(req.samples) \in DOMAIN new /\ samples[k] = new[k - Len(req.samples)]
      BY <1>1, <2>1, AppendedFrom
    <3>2. CASE k \in DOMAIN req.samples /\ samples[k] = req.samples[k]
      <4>1. Behind(req.samples[k])
        BY <3>2 DEF SamplesInv, RequestInOrder
      <4>2. \A j \in 1 .. req.pos - 1 : j \in 1 .. end
        BY <1>1, <1>3
      <4>. QED
        BY <3>2, <4>1, <4>2 DEF Behind
    <3>3. ASSUME NEW j \in DOMAIN new, samples[k] = new[j]
          PROVE  \E l \in 1 .. end : samples[k].at = stream[l].at
      <4>1. s[j] \in batch /\ samples[k].at = stream[s[j]].at
        BY <1>4, <2>1, <3>3
      <4>2. s[j] \in 1 .. end
        BY <1>1, <1>3, <4>1
      <4>. QED
        BY <4>1, <4>2
    <3>. QED
      BY <3>1, <3>2, <3>3
  <2>. QED
    BY <2>3, <2>4 DEF new
<1>. QED
  BY <1>3, <1>5, <1>6

LEMMA BatchFetched ==
  ASSUME TypeOK, ReplayInv, SamplesInv, Fetch
  PROVE  SamplesInv'
<1>1. req.pc = "fetch" /\ UNCHANGED <<vars, call, calls, player>>
  BY DEF Fetch
<1>2. PICK end \in {req.pos - 1} \cup Pending(req.pos) :
        LET batch == {i \in Pending(req.pos) : i <= end}
            decoded == {i \in batch : stream[i].decodes}
        IN  \E s \in InOrder(Taken(decoded)) : \E left, cut :
              LET samples == req.samples \o UpdateSamples(s) IN
              \/ Answer(TRUE, samples, cut)
              \/ /\ UNCHANGED answers
                 /\ req' = [req EXCEPT !.samples = samples, !.remaining = left,
                                       !.pos = end + 1]
  BY ZenonT(60) DEF Fetch
<1>3. PICK samples, left, cut :
        /\ Ascending(samples)
        /\ \A k \in DOMAIN samples : \/ samples[k].at <= StreamFrom
                                     \/ \E j \in 1 .. end : samples[k].at = stream[j].at
        /\ \/ Answer(TRUE, samples, cut)
           \/ /\ UNCHANGED answers
              /\ req' = [req EXCEPT !.samples = samples, !.remaining = left, !.pos = end + 1]
  BY <1>1, <1>2, BatchShape
<1>4. end \in Nat /\ end <= Len(stream)
  BY <1>1, BatchShape
<1>5. CASE Answer(TRUE, samples, cut)
  BY <1>1, <1>3, <1>5, AnswerAscends
<1>6. CASE /\ UNCHANGED answers
           /\ req' = [req EXCEPT !.samples = samples, !.remaining = left, !.pos = end + 1]
  <2>1. /\ req'.pc = "fetch" /\ req'.samples = samples /\ req'.cutoff = req.cutoff
        /\ req'.from = req.from /\ req'.pos = end + 1
    BY <1>1, <1>6 DEF ReplayInv, RequestInv, RequestShape
  <2>2. UNCHANGED <<history, stream, now, player>>
    BY <1>1 DEF vars
  <2>3. \A k \in DOMAIN req'.samples : Behind(req.samples[k])'
    BY <1>3, <1>4, <2>1, <2>2 DEF Behind, StreamFrom
  <2>4. RequestInOrder'
    BY <1>3, <1>4, <2>1, <2>2, <2>3 DEF SamplesInv, RequestInOrder, Ascending
  <2>. QED
    BY <1>6, <2>2, <2>4 DEF SamplesInv, StreamAscends, Ascending
<1>. QED
  BY <1>3, <1>5, <1>6

LEMMA PlayerKeepsOrder ==
  ASSUME TypeOK, ReplayInv, SamplesInv, Browser
  PROVE  SamplesInv'
<1>1. UNCHANGED <<history, stream, now>>
  BY DEF Browser, StartReplay, Scrub, togglePlay, exit, Land, vars
<1>2. Len(stream) \in Nat /\ NoRequest.samples = <<>> /\ Exited.window.samples = <<>>
  BY DEF TypeOK, StreamTypeOK, NoRequest, Exited, None
<1>3. ASSUME answers' \subseteq answers, RequestInOrder', Ascending(player.window.samples)'
      PROVE  SamplesInv'
  BY <1>1, <1>3 DEF SamplesInv, StreamAscends, Ascending
<1>4. UNCHANGED req => RequestInOrder'
  BY <1>1 DEF SamplesInv, RequestInOrder, Ascending, StreamFrom, Behind
<1>5. PlayerShape /\ (HasWindow => WindowShape)
  BY DEF ReplayInv, PlayerInv
<1>6. CASE StartReplay
  <2>1. PICK w \in Windows :
          req' = [NoRequest EXCEPT !.pc = "history", !.from = now - w, !.to = now]
    BY <1>6 DEF StartReplay
  <2>2. /\ req'.pc = "history" /\ req'.samples = <<>> /\ req'.pos = 1 /\ req'.cutoff = 0
    BY <2>1 DEF NoRequest
  <2>3. RequestInOrder'
    BY <1>1, <1>2, <2>2, EmptyAscends DEF RequestInOrder, Ascending
  <2>4. player'.window = player.window /\ UNCHANGED answers
    BY <1>5, <1>6 DEF StartReplay, PlayerShape
  <2>. QED
    BY <1>3, <2>3, <2>4 DEF SamplesInv, Ascending
<1>7. CASE exit
  <2>1. req' = NoRequest /\ player' = Exited /\ UNCHANGED answers
    BY <1>7 DEF exit
  <2>2. /\ req'.pc = "idle" /\ req'.samples = <<>> /\ req'.pos = 1 /\ req'.cutoff = 0
        /\ player'.window.samples = <<>>
    BY <1>2, <2>1 DEF NoRequest
  <2>3. RequestInOrder'
    BY <1>1, <1>2, <2>2, EmptyAscends DEF RequestInOrder, Ascending
  <2>4. Ascending(player.window.samples)'
    BY <2>2, EmptyAscends DEF Ascending
  <2>. QED
    BY <1>3, <2>1, <2>3, <2>4
<1>8. CASE Scrub \/ togglePlay
  <2>1. UNCHANGED req /\ UNCHANGED answers /\ HasWindow
    BY <1>8 DEF Scrub, togglePlay
  <2>2. ASSUME NEW ms, setScrub(ms)
        PROVE  player'.window.samples = player.window.samples
    BY <1>5, <2>1, <2>2 DEF PlayerShape, WindowShape, setScrub
  <2>3. ASSUME togglePlay
        PROVE  player'.window.samples = player.window.samples
    <3>1. \/ player' = [player EXCEPT !.isPlaying = TRUE, !.window.scrub = player.window.start]
          \/ player' = [player EXCEPT !.isPlaying = ~@]
      BY <2>3 DEF togglePlay
    <3>. QED
      BY <1>5, <2>1, <3>1 DEF PlayerShape, WindowShape
  <2>4. player'.window.samples = player.window.samples
    BY <1>8, <2>2, <2>3 DEF Scrub
  <2>. QED
    BY <1>3, <1>4, <2>1, <2>4 DEF SamplesInv, Ascending
<1>9. ASSUME NEW r \in answers, Land(r) PROVE SamplesInv'
  <2>1. UNCHANGED req /\ answers' \subseteq answers
    BY <1>9 DEF Land
  <2>2. player'.window.samples \in {player.window.samples, r.samples}
    BY <1>5, <1>9 DEF Land, PlayerShape
  <2>. QED
    BY <1>3, <1>4, <2>1, <2>2 DEF SamplesInv, Ascending
<1>. QED
  BY <1>6, <1>7, <1>8, <1>9 DEF Browser

LEMMA SamplesStep ==
  TypeOK /\ TypeOK' /\ ReplayInv /\ SamplesInv /\ [ReplayNext]_replaySpecVars => SamplesInv'
<1>. SUFFICES ASSUME TypeOK, TypeOK', ReplayInv, SamplesInv, [ReplayNext]_replaySpecVars
              PROVE  SamplesInv'
  OBVIOUS
<1>1. CASE [Next]_vars /\ UNCHANGED replayVars
  <2>1. /\ IsFiniteSet(history') /\ StreamAscends' /\ Len(stream) <= Len(stream')
        /\ \A i \in DOMAIN stream : stream'[i] = stream[i]
    BY <1>1, StreamGrows DEF SamplesInv
  <2>2. stream \in Seq(Updates) /\ stream' \in Seq(Updates)
    BY DEF TypeOK, StreamTypeOK
  <2>3. UNCHANGED req /\ UNCHANGED answers /\ UNCHANGED player
    BY <1>1 DEF replayVars
  <2>4. RequestInOrder'
    BY <2>1, <2>2, <2>3, RequestStaysInOrder DEF SamplesInv
  <2>. QED
    BY <2>1, <2>3, <2>4 DEF SamplesInv, Ascending
<1>2. CASE Collect
  BY <1>2, HistoryCollected, ReaderOpened, BatchFetched DEF Collect
<1>3. CASE CollectFails
  BY <1>3, EmptyAscends, AnswerAscends DEF CollectFails
<1>4. CASE Browser
  BY <1>4, PlayerKeepsOrder
<1>. QED
  BY <1>1, <1>2, <1>3, <1>4 DEF ReplayNext, replaySpecVars

(* What is collected, sent and shown is in order of time. *)
THEOREM SamplesAscend == ReplaySpec => []SamplesInv
<1>1. ReplayInit => SamplesInv
  <2>. SUFFICES ASSUME ReplayInit PROVE SamplesInv
    OBVIOUS
  <2>1. /\ history = {} /\ stream = <<>> /\ req = NoRequest /\ answers = {}
        /\ player.window.samples = <<>>
    BY DEF ReplayInit, Init, Exited, None
  <2>2. req.pc = "idle" /\ req.samples = <<>> /\ req.pos = 1 /\ req.cutoff = 0
    BY <2>1 DEF NoRequest
  <2>3. IsFiniteSet(history) /\ StreamAscends
    BY <2>1, FS_EmptySet DEF StreamAscends
  <2>. QED
    BY <2>1, <2>2, <2>3, EmptyAscends DEF SamplesInv, RequestInOrder
<1>2. TypeOK /\ ReplayInv /\ SamplesInv /\ [ReplayNext]_replaySpecVars /\ TypeOK'
      => SamplesInv'
  BY SamplesStep
<1>. QED
  BY <1>1, <1>2, WriterRunsOn, TypeCorrect, ReplayCorrect, PTL DEF ReplaySpec

(* A nonempty set of naturals has a least element. *)
LEMMA LeastOf ==
  ASSUME NEW T \in SUBSET Nat, T # {}
  PROVE  \E x \in T : \A y \in T : x <= y
<1>1. \E x \in T : \A y \in T : ~ (<<y, x>> \in OpToRel(<, Nat))
  BY WFMin, NatLessThanWellFounded, Zenon
<1>2. PICK x \in T : \A y \in T : ~ (<<y, x>> \in OpToRel(<, Nat))
  BY <1>1
<1>3. ASSUME NEW y \in T PROVE x <= y
  <2>1. ~(y < x)
    BY <1>2 DEF OpToRel
  <2>. QED
    BY <2>1
<1>. QED
  BY <1>3

(* A nonempty set of naturals with a bound has a greatest element. *)
LEMMA GreatestOf ==
  ASSUME NEW T \in SUBSET Nat, T # {}, NEW n \in Nat, \A t \in T : t <= n
  PROVE  \E x \in T : \A y \in T : y <= x
<1>. DEFINE Bounds == {k \in Nat : \A t \in T : t <= k}
<1>1. PICK k \in Bounds : \A j \in Bounds : k <= j
  <2>1. Bounds \in SUBSET Nat /\ Bounds # {}
    OBVIOUS
  <2>. HIDE DEF Bounds
  <2>. QED
    BY <2>1, LeastOf
<1>2. k \in Nat /\ \A t \in T : t \in Nat /\ t <= k
  BY <1>1
<1>3. CASE k \in T
  BY <1>2, <1>3
<1>4. CASE k \notin T
  <2>1. \A t \in T : t <= k - 1
    BY <1>2, <1>4
  <2>2. k - 1 \in Nat
    <3>1. PICK t \in T : t \in Nat /\ t <= k - 1
      BY <1>2, <2>1
    <3>. QED
      BY <1>2, <3>1
  <2>3. k - 1 \in Bounds
    BY <2>1, <2>2
  <2>. HIDE DEF Bounds
  <2>4. k <= k - 1
    BY <1>1, <2>3
  <2>. QED
    BY <1>2, <2>4
<1>. QED
  BY <1>3, <1>4

(* computeFlightsAtTime may stop at the first sample past the head: what   *)
(* it shows of an aircraft is the last of its samples that the head has    *)
(* reached, for every window and any interleaving of the writer, expiry,   *)
(* the two reads and the player.                                           *)
THEOREM FramesAreLatest == ReplaySpec => []FrameIsLatest
<1>1. ReplayInv /\ SamplesInv => FrameIsLatest
  <2>. SUFFICES ASSUME ReplayInv, SamplesInv, NEW a \in Aircraft,
                       NEW i \in DOMAIN player.window.samples,
                       player.window.samples[i].icao24 = a,
                       player.window.samples[i].at <= player.window.scrub
                PROVE  i <= Frame(a)
    BY DEF FrameIsLatest
  <2>. DEFINE samples == player.window.samples
              past == {k \in DOMAIN samples : samples[k].at > player.window.scrub}
              scanned == {k \in DOMAIN samples : \A j \in past : k < j}
              mine == {k \in scanned : samples[k].icao24 = a}
  <2>1. Ascending(samples)
    BY DEF SamplesInv
  <2>2. /\ Len(samples) \in Nat /\ DOMAIN samples = 1 .. Len(samples)
        /\ \A k \in DOMAIN samples : samples[k].at \in Nat
        /\ \A k, l \in DOMAIN samples : k <= l => samples[k].at <= samples[l].at
    <3>. HIDE DEF samples
    <3>1. \A k \in DOMAIN samples : samples[k].at \in Nat
      BY <2>1, SampleType
    <3>. QED
      BY <2>1, <3>1 DEF Ascending
  <2>3. player.window.scrub \in Int
    <3>1. HasWindow
      BY <2>2 DEF HasWindow, None
    <3>. QED
      BY <3>1 DEF ReplayInv, PlayerInv, PlayerShowsWhatWasAsked
  <2>4. i \in scanned
    <3>. SUFFICES ASSUME NEW j \in past PROVE i < j
      OBVIOUS
    <3>1. i \in DOMAIN samples /\ j \in DOMAIN samples
      OBVIOUS
    <3>2. ~(samples[j].at <= samples[i].at)
      BY <2>2, <2>3
    <3>. QED
      BY <2>2, <3>1, <3>2
  <2>5. i \in mine /\ mine \subseteq 1 .. Len(samples)
    BY <2>2, <2>4
  <2>6. \E k \in mine : \A j \in mine : j <= k
    <3>1. mine \in SUBSET Nat /\ mine # {} /\ \A j \in mine : j <= Len(samples)
      BY <2>2, <2>5
    <3>. HIDE DEF mine, samples
    <3>. QED
      BY <2>2, <3>1, GreatestOf
  <2>7. Frame(a) = CHOOSE k \in mine : \A j \in mine : j <= k
    BY <2>5 DEF Frame
  <2>. HIDE DEF mine
  <2>. QED
    BY <2>5, <2>6, <2>7
<1>. QED
  BY <1>1, ReplayCorrect, SamplesAscend, PTL

-----------------------------------------------------------------------------
-----------------------------------------------------------------------------
(* The completeness of the stream's part.  The clock only takes updates    *)
(* out of what is wanted and of what is pending.                           *)
LEMMA StreamTypes ==
  ASSUME TypeOK, ReplayInv, SamplesInv
  PROVE  /\ now \in Nat /\ Len(stream) \in Nat /\ DOMAIN stream = 1 .. Len(stream)
         /\ \A i \in 1 .. Len(stream) : stream[i].at \in Nat
         /\ req.pos \in Nat \ {0} /\ req.pos - 1 <= Len(stream)
         /\ req.pc # "idle" => StreamFrom \in Int /\ req.from \in Int /\ req.to \in Int
<1>1. stream \in Seq(Updates) /\ now \in Nat
  BY DEF TypeOK, StreamTypeOK
<1>2. \A i \in 1 .. Len(stream) : stream[i] \in Updates
  BY <1>1
<1>. QED
  BY <1>1, <1>2 DEF Updates, ReplayInv, RequestInv, InOrderOfTime, SamplesInv, RequestInOrder,
    StreamFrom, HigherOf

LEMMA PendingFinite ==
  ASSUME TypeOK, NEW pos \in Nat, NEW S, S \subseteq Pending(pos)
  PROVE  /\ IsFiniteSet(S) /\ Cardinality(S) \in Nat
         /\ \A T : T \subseteq S => IsFiniteSet(T) /\ Cardinality(T) \in Nat
                                    /\ Cardinality(T) <= Cardinality(S)
<1>1. Len(stream) \in Nat
  BY DEF TypeOK, StreamTypeOK
<1>2. IsFiniteSet(pos .. Len(stream)) /\ S \in SUBSET (pos .. Len(stream))
  BY <1>1, FS_Interval DEF Pending
<1>3. IsFiniteSet(S)
  BY <1>2, FS_Subset
<1>4. ASSUME NEW T, T \subseteq S
      PROVE  IsFiniteSet(T) /\ Cardinality(T) \in Nat /\ Cardinality(T) <= Cardinality(S)
  <2>1. T \in SUBSET S
    BY <1>4
  <2>. QED
    BY <1>3, <2>1, FS_Subset, FS_CardinalityType
<1>. QED
  BY <1>3, <1>4, FS_CardinalityType

(* What is taken off `remaining` never makes it less than what of the      *)
(* counted backlog is still to come.                                       *)
LEMMA BacklogCovered ==
  ASSUME TypeOK, ReplayInv, SamplesInv, req.pc = "fetch",
         req.upto \in Nat, req.upto <= Len(stream),
         req.remaining \in Nat, Cardinality(Backlog) <= req.remaining,
         NEW end \in {req.pos - 1} \cup Pending(req.pos),
         NEW batch, batch = {i \in Pending(req.pos) : i <= end},
         NEW decoded, decoded \subseteq batch,
         Cardinality(batch) <= req.remaining
  PROVE  LET rest == {i \in Pending(end + 1) : i <= req.upto} IN
         /\ IsFiniteSet(rest)
         /\ Cardinality(decoded) \in Nat
         /\ Cardinality(rest) \in Nat
         /\ Cardinality(rest) <= req.remaining - Cardinality(decoded)
<1>. DEFINE rest == {i \in Pending(end + 1) : i <= req.upto}
<1>1. /\ Len(stream) \in Nat /\ req.pos \in Nat \ {0}
      /\ end \in Nat /\ req.pos - 1 <= end
  BY StreamTypes, BatchShape
<1>2. rest = Backlog \ batch
  <2>1. Pending(end + 1) = {i \in Pending(req.pos) : i > end}
    BY <1>1 DEF Pending
  <2>2. Pending(req.pos) \subseteq Nat
    BY <1>1 DEF Pending
  <2>. QED
    BY <1>1, <2>1, <2>2 DEF Backlog
<1>3. /\ IsFiniteSet(Backlog) /\ Cardinality(Backlog) \in Nat
      /\ IsFiniteSet(rest) /\ Cardinality(rest) \in Nat
  BY <1>1, <1>2, PendingFinite DEF Backlog
<1>4. /\ Cardinality(batch) \in Nat /\ Cardinality(decoded) \in Nat
      /\ Cardinality(decoded) <= Cardinality(batch)
  BY <1>1, PendingFinite
<1>5. CASE end <= req.upto
  <2>1. Backlog \cap batch = batch
    <3>1. Pending(req.pos) \subseteq Nat
      BY <1>1 DEF Pending
    <3>. QED
      BY <1>1, <1>5, <3>1 DEF Backlog
  <2>2. Cardinality(rest) = Cardinality(Backlog) - Cardinality(batch)
    BY <1>2, <1>3, <2>1, FS_Difference
  <2>. QED
    BY <1>3, <1>4, <2>2
<1>6. CASE ~(end <= req.upto)
  <2>1. rest = {}
    BY <1>1, <1>6 DEF Pending
  <2>2. Cardinality(rest) = 0
    BY <2>1, FS_EmptySet
  <2>. QED
    BY <1>3, <1>4, <2>2
<1>. QED
  BY <1>5, <1>6

LEMMA HasUpdate ==
  ASSUME TypeOK, StreamAscends, NEW S, S \subseteq 1 .. Len(stream), NEW s \in InOrder(S),
         NEW i \in S
  PROVE  \E k \in DOMAIN UpdateSamples(s) :
           /\ UpdateSamples(s)[k].at = stream[i].at
           /\ UpdateSamples(s)[k].seen = stream[i].seen
<1>. DEFINE n == Cardinality(S)
<1>1. Len(stream) \in Nat
  BY DEF TypeOK, StreamTypeOK
<1>2. IsFiniteSet(S) /\ S \subseteq Nat
  <2>1. IsFiniteSet(1 .. Len(stream))
    BY <1>1, FS_Interval
  <2>2. S \subseteq Nat
    BY <1>1
  <2>3. S \in SUBSET (1 .. Len(stream))
    OBVIOUS
  <2>4. IsFiniteSet(S)
    BY <2>1, <2>3, FS_Subset
  <2>. QED
    BY <2>2, <2>4
<1>3. /\ n \in Nat /\ s \in [1 .. n -> S]
      /\ \A j \in S : \E k \in 1 .. n : s[k] = j
  BY <1>2, EnumerationHasAll
<1>. HIDE DEF n
<1>4. PICK k \in 1 .. n : s[k] = i
  BY <1>3
<1>5. k \in DOMAIN s
  BY <1>3
<1>. QED
  BY <1>4, <1>5 DEF UpdateSamples

(* What a batch adds, and what it shows to be past the end. *)
LEMMA BatchCollects ==
  ASSUME TypeOK, ReplayInv, SamplesInv, req.pc = "fetch",
         NEW end \in {req.pos - 1} \cup Pending(req.pos)
  PROVE  LET batch == {i \in Pending(req.pos) : i <= end}
             decoded == {i \in batch : stream[i].decodes}
         IN  /\ decoded \subseteq 1 .. Len(stream)
             /\ \A s \in InOrder(Taken(decoded)) :
                  LET samples == req.samples \o UpdateSamples(s) IN
                  \A i \in 1 .. Len(stream) :
                    Wanted(i) /\ (IF i < req.pos THEN Collected(i) ELSE i <= end)
                    => \E k \in DOMAIN samples :
                         samples[k].at = stream[i].at /\ samples[k].seen = stream[i].seen
             /\ \A i \in 1 .. Len(stream) :
                  Wanted(i) /\ end < i => \A j \in decoded : stream[j].at <= req.to
<1>. DEFINE batch == {i \in Pending(req.pos) : i <= end}
            decoded == {i \in batch : stream[i].decodes}
            taken == Taken(decoded)
<1>1. /\ Len(stream) \in Nat /\ \A i \in 1 .. Len(stream) : stream[i].at \in Nat
      /\ req.pos \in Nat \ {0} /\ StreamFrom \in Int /\ req.to \in Int
      /\ end \in Nat /\ DOMAIN stream = 1 .. Len(stream)
  BY StreamTypes, BatchShape
<1>2. /\ decoded \subseteq 1 .. Len(stream) /\ taken \subseteq 1 .. Len(stream)
      /\ \A j \in decoded : j <= end
      /\ \A i \in decoded : (\A j \in decoded : stream[j].at > req.to => i < j) => i \in taken
  BY <1>1 DEF Pending, Taken
<1>3. ASSUME NEW i \in 1 .. Len(stream), Wanted(i), ~(i < req.pos), i <= end
      PROVE  i \in decoded
  <2>1. Kept(i) /\ stream[i].decodes /\ stream[i].at >= StreamFrom
    BY <1>1, <1>3 DEF Wanted
  <2>. QED
    BY <1>1, <1>3, <2>1 DEF Pending
<1>. HIDE DEF decoded, taken
<1>4. Ascending(req.samples) /\ StreamAscends
  BY DEF SamplesInv, RequestInOrder
<1>5. \A i, j \in 1 .. Len(stream) : i <= j => stream[i].at <= stream[j].at
  BY <1>1, <1>4 DEF StreamAscends
<1>6. ASSUME NEW i \in 1 .. Len(stream), Wanted(i), ~(i < req.pos), i <= end
      PROVE  i \in taken
  <2>1. ASSUME NEW j \in decoded, stream[j].at > req.to PROVE i < j
    <3>1. j \in 1 .. Len(stream) /\ ~(stream[j].at <= stream[i].at)
      BY <1>1, <1>2, <1>6, <2>1 DEF Wanted
    <3>. QED
      BY <1>1, <1>5, <3>1
  <2>. QED
    BY <1>2, <1>3, <1>6, <2>1
<1>7. ASSUME NEW s \in InOrder(taken), NEW i \in 1 .. Len(stream), Wanted(i),
             IF i < req.pos THEN Collected(i) ELSE i <= end
      PROVE  LET samples == req.samples \o UpdateSamples(s) IN
             \E k \in DOMAIN samples :
               samples[k].at = stream[i].at /\ samples[k].seen = stream[i].seen
  <2>1. /\ Ascending(UpdateSamples(s))
        /\ \A j \in taken : \E k \in DOMAIN UpdateSamples(s) :
             /\ UpdateSamples(s)[k].at = stream[j].at
             /\ UpdateSamples(s)[k].seen = stream[j].seen
    <3>1. TypeOK /\ StreamAscends /\ taken \subseteq 1 .. Len(stream) /\ s \in InOrder(taken)
      BY <1>2, <1>4, <1>7
    <3>2. Ascending(UpdateSamples(s))
      BY <3>1, UpdatesAscend
    <3>3. ASSUME NEW j \in taken
          PROVE  \E k \in DOMAIN UpdateSamples(s) :
                   /\ UpdateSamples(s)[k].at = stream[j].at
                   /\ UpdateSamples(s)[k].seen = stream[j].seen
      BY <3>1, <3>3, HasUpdate
    <3>. QED
      BY <3>2, <3>3
  <2>. DEFINE new == UpdateSamples(s)
              old == req.samples
              samples == old \o new
  <2>2. i < req.pos => \E k \in DOMAIN old :
             old[k].at = stream[i].at /\ old[k].seen = stream[i].seen
    BY <1>7 DEF Collected
  <2>3. ~(i < req.pos) => \E k \in DOMAIN new :
             new[k].at = stream[i].at /\ new[k].seen = stream[i].seen
    BY <1>6, <1>7, <2>1
  <2>4. Ascending(old) /\ Ascending(new)
    BY <1>4, <2>1 DEF old, new
  <2>. HIDE DEF new, old
  <2>6. /\ \A k \in DOMAIN old : \E l \in DOMAIN (old \o new) : (old \o new)[l] = old[k]
        /\ \A k \in DOMAIN new : \E l \in DOMAIN (old \o new) : (old \o new)[l] = new[k]
    <3>1. ASSUME NEW k \in DOMAIN old
          PROVE  \E l \in DOMAIN (old \o new) : (old \o new)[l] = old[k]
      BY <2>4, <3>1, AppendHasBoth
    <3>2. ASSUME NEW k \in DOMAIN new
          PROVE  \E l \in DOMAIN (old \o new) : (old \o new)[l] = new[k]
      BY <2>4, <3>2, AppendHasBoth
    <3>. QED
      BY <3>1, <3>2
  <2>. HIDE DEF samples
  <2>5. \E k \in DOMAIN samples : samples[k].at = stream[i].at /\ samples[k].seen = stream[i].seen
    BY <2>2, <2>3, <2>6 DEF samples
  <2>. QED
    BY <2>5 DEF samples, old, new
<1>8. ASSUME NEW i \in 1 .. Len(stream), Wanted(i), end < i, NEW j \in decoded
      PROVE  stream[j].at <= req.to
  <2>1. j \in 1 .. Len(stream) /\ j <= i
    BY <1>1, <1>2, <1>8
  <2>2. stream[j].at <= stream[i].at
    BY <1>5, <1>8, <2>1
  <2>3. stream[i].at <= req.to
    BY <1>1, <1>8 DEF Wanted
  <2>. QED
    BY <1>1, <1>8, <2>1, <2>2, <2>3
<1>. QED
  BY <1>2, <1>7, <1>8 DEF decoded, taken

LEMMA FetchCollects ==
  ASSUME TypeOK, ReplayInv, SamplesInv, BacklogInv, Fetch
  PROVE  BacklogInv'
<1>1. /\ req.pc = "fetch" /\ UNCHANGED <<vars, call, calls, player>>
      /\ req.upto \in Nat /\ req.upto <= Len(stream) /\ req.remaining \in Nat
      /\ Cardinality(Backlog) <= req.remaining
      /\ \A r \in answers : r.call # calls
      /\ \A i \in 1 .. req.upto : i < req.pos /\ Wanted(i) => Collected(i)
  BY DEF Fetch, BacklogInv
<1>2. PICK end \in {req.pos - 1} \cup Pending(req.pos) :
        LET batch == {i \in Pending(req.pos) : i <= end}
            decoded == {i \in batch : stream[i].decodes}
            left == req.remaining - Cardinality(decoded)
            pastTo == \E i \in decoded : stream[i].at > req.to
        IN  /\ Cardinality(batch) <= LowerOf(FetchBatch, req.remaining)
            /\ \E s \in InOrder(Taken(decoded)) :
                 LET samples == req.samples \o UpdateSamples(s) IN
                 IF NothingDecoded(decoded) \/ pastTo \/ left = 0
                 THEN Answer(TRUE, samples, NothingDecoded(decoded))
                 ELSE /\ req' = [req EXCEPT !.samples = samples, !.remaining = left,
                                           !.pos = end + 1]
                      /\ UNCHANGED answers
  BY ZenonT(60) DEF Fetch
<1>. DEFINE batch == {i \in Pending(req.pos) : i <= end}
            decoded == {i \in batch : stream[i].decodes}
            left == req.remaining - Cardinality(decoded)
            rest == {i \in Pending(end + 1) : i <= req.upto}
<1>3. PICK s \in InOrder(Taken(decoded)) :
        LET samples == req.samples \o UpdateSamples(s) IN
        \/ /\ NothingDecoded(decoded) \/ (\E i \in decoded : stream[i].at > req.to) \/ left = 0
           /\ Answer(TRUE, samples, NothingDecoded(decoded))
        \/ /\ req' = [req EXCEPT !.samples = samples, !.remaining = left, !.pos = end + 1]
           /\ UNCHANGED answers
  BY <1>2
<1>. DEFINE samples == req.samples \o UpdateSamples(s)
            HasSample(i) == \E k \in DOMAIN samples :
                              samples[k].at = stream[i].at /\ samples[k].seen = stream[i].seen
<1>4. /\ IsFiniteSet(rest) /\ left \in Nat /\ Cardinality(rest) \in Nat
      /\ Cardinality(rest) <= left
  <2>1. Cardinality(batch) <= req.remaining
    <3>1. Cardinality(batch) \in Nat
      BY <1>1, StreamTypes, PendingFinite
    <3>. QED
      BY <1>1, <1>2, <3>1, ReplayConstants DEF LowerOf
  <2>2. decoded \subseteq batch
    OBVIOUS
  <2>3. /\ IsFiniteSet(rest) /\ Cardinality(decoded) \in Nat /\ Cardinality(rest) \in Nat
        /\ Cardinality(rest) <= req.remaining - Cardinality(decoded)
    <3>. HIDE DEF decoded
    <3>. QED
      BY <1>1, <2>1, <2>2, BacklogCovered
  <2>. QED
    BY <1>1, <2>3
<1>5. /\ decoded \subseteq 1 .. Len(stream)
      /\ \A i \in 1 .. Len(stream) :
           Wanted(i) /\ (IF i < req.pos THEN Collected(i) ELSE i <= end) => HasSample(i)
      /\ \A i \in 1 .. Len(stream) :
           Wanted(i) /\ end < i => \A j \in decoded : stream[j].at <= req.to
  BY <1>1, BatchCollects
<1>6. /\ Len(stream) \in Nat /\ req.pos \in Nat /\ end \in Nat /\ req.to \in Int
      /\ 1 .. req.upto \subseteq 1 .. Len(stream)
      /\ \A i \in 1 .. Len(stream) : stream[i].at \in Nat
  BY <1>1, StreamTypes, BatchShape
<1>7. ASSUME NEW i \in 1 .. req.upto, Wanted(i), i < end + 1 PROVE HasSample(i)
  <2>. HIDE DEF HasSample
  <2>1. i \in 1 .. Len(stream) /\ (i < req.pos => Collected(i)) /\ i <= end
    BY <1>1, <1>6, <1>7
  <2>. QED
    BY <1>5, <1>7, <2>1
<1>8. UNCHANGED stream /\ UNCHANGED now /\ UNCHANGED calls
  BY <1>1 DEF vars
<1>9. ASSUME req'.samples = samples, req'.from = req.from, req'.to = req.to,
             req'.cutoff = req.cutoff
      PROVE  /\ \A i : Wanted(i)' <=> Wanted(i)
             /\ \A i : Collected(i)' <=> HasSample(i)
             /\ \A pos : Pending(pos)' = Pending(pos)
  BY <1>8, <1>9 DEF Wanted, Collected, Kept, StreamFrom, Pending
<1>10. CASE /\ NothingDecoded(decoded) \/ (\E i \in decoded : stream[i].at > req.to) \/ left = 0
            /\ Answer(TRUE, samples, NothingDecoded(decoded))
  <2>1. /\ req'.pc = "answered" /\ req'.samples = samples /\ req'.upto = req.upto
        /\ req'.from = req.from /\ req'.to = req.to /\ req'.cutoff = req.cutoff
        /\ req'.cut = NothingDecoded(decoded)
    BY <1>10 DEF Answer, ReplayInv, RequestInv, RequestShape
  <2>2. ASSUME ~NothingDecoded(decoded), NEW i \in 1 .. req.upto, Wanted(i) PROVE HasSample(i)
    <3>1. CASE i < end + 1
      BY <1>7, <2>2, <3>1
    <3>2. CASE ~(i < end + 1)
      <4>1. end < i /\ i \in 1 .. Len(stream)
        BY <1>6, <3>2
      <4>2. \A j \in decoded : j \in 1 .. Len(stream) /\ stream[j].at <= req.to
        <5>. HIDE DEF decoded
        <5>. QED
          BY <1>5, <2>2, <4>1
      <4>3. left = 0
        <5>. HIDE DEF decoded, left
        <5>. QED
          BY <1>6, <1>10, <2>2, <4>2
      <4>4. rest = {}
        <5>. HIDE DEF rest, left
        <5>1. Cardinality(rest) = 0
          BY <1>4, <4>3
        <5>. QED
          BY <1>4, <5>1, FS_EmptySet
      <4>5. i \in rest
        BY <1>6, <2>2, <4>1 DEF Pending, Wanted
      <4>. QED
        BY <4>4, <4>5
    <3>. QED
      BY <3>1, <3>2
  <2>3. StreamPartComplete'
    BY <1>9, <2>1, <2>2 DEF StreamPartComplete
  <2>. QED
    BY <1>1, <1>8, <2>1, <2>3 DEF BacklogInv
<1>11. CASE /\ req' = [req EXCEPT !.samples = samples, !.remaining = left, !.pos = end + 1]
            /\ UNCHANGED answers
  <2>1. /\ req'.pc = "fetch" /\ req'.samples = samples /\ req'.upto = req.upto
        /\ req'.from = req.from /\ req'.to = req.to /\ req'.cutoff = req.cutoff
        /\ req'.remaining = left /\ req'.pos = end + 1
    BY <1>1, <1>11 DEF ReplayInv, RequestInv, RequestShape
  <2>2. Backlog' = rest
    BY <1>9, <2>1 DEF Backlog
  <2>3. \A i \in 1 .. req'.upto : i < req'.pos /\ Wanted(i)' => Collected(i)'
    BY <1>7, <1>9, <2>1
  <2>4. StreamPartComplete'
    BY <2>1 DEF StreamPartComplete
  <2>. QED
    BY <1>1, <1>4, <1>8, <1>11, <2>1, <2>2, <2>3, <2>4 DEF BacklogInv
<1>. QED
  BY <1>3, <1>10, <1>11

LEMMA BacklogAges ==
  ASSUME TypeOK, ReplayInv, SamplesInv, BacklogInv, [Next]_vars, UNCHANGED replayVars
  PROVE  BacklogInv'
<1>1. /\ UNCHANGED req /\ UNCHANGED answers /\ UNCHANGED calls
  BY DEF replayVars
<1>2. /\ now' \in Nat /\ now <= now' /\ Len(stream) <= Len(stream')
      /\ \A i \in 1 .. Len(stream) : stream'[i] = stream[i]
      /\ Len(stream) \in Nat /\ Len(stream') \in Nat
  <2>1. Len(stream) \in Nat /\ DOMAIN stream = 1 .. Len(stream)
    BY StreamTypes
  <2>2. /\ now' \in Nat /\ now <= now' /\ Len(stream) <= Len(stream')
        /\ \A i \in DOMAIN stream : stream'[i] = stream[i]
    BY StreamGrows DEF SamplesInv
  <2>3. TypeOK'
    BY TypeStep
  <2>4. Len(stream') \in Nat
    BY <2>3 DEF TypeOK, StreamTypeOK
  <2>. QED
    BY <2>1, <2>2, <2>4
<1>3. /\ now \in Nat /\ \A i \in 1 .. Len(stream) : stream[i].at \in Nat
      /\ req.pos \in Nat
  BY StreamTypes
<1>4. req.upto \in Nat /\ req.upto <= Len(stream)
  BY DEF BacklogInv
<1>5. ASSUME NEW i \in 1 .. req.upto
      PROVE  /\ Wanted(i)' => Wanted(i)
             /\ Collected(i) => Collected(i)'
             /\ i \in Backlog' => i \in Backlog
  <2>1. i \in 1 .. Len(stream)
    BY <1>2, <1>4
  <2>2. Kept(i)' => Kept(i)
    BY <1>2, <1>3, <2>1 DEF Kept
  <2>. QED
    BY <1>1, <1>2, <1>3, <2>1, <2>2 DEF Wanted, Collected, StreamFrom, Backlog, Pending
<1>6. /\ Cardinality(Backlog') \in Nat
      /\ Cardinality(Backlog) \in Nat /\ Cardinality(Backlog') <= Cardinality(Backlog)
  <2>1. Backlog \subseteq Pending(req.pos)
    BY DEF Backlog
  <2>2. Backlog' \subseteq Backlog
    <3>1. ASSUME NEW i \in Backlog' PROVE i \in 1 .. req.upto
      BY <1>1, <1>2, <1>3, <1>4 DEF Backlog, Pending, SamplesInv, RequestInOrder
    <3>. QED
      BY <1>5, <3>1
  <2>. QED
    BY <1>3, <2>1, <2>2, PendingFinite
<1>7. StreamPartComplete'
  BY <1>1, <1>5 DEF BacklogInv, StreamPartComplete
<1>8. req'.pc = "fetch" =>
        /\ req'.remaining \in Nat /\ Cardinality(Backlog') <= req'.remaining
        /\ \A i \in 1 .. req'.upto : i < req'.pos /\ Wanted(i)' => Collected(i)'
  BY <1>1, <1>5, <1>6 DEF BacklogInv
<1>. QED
  BY <1>1, <1>2, <1>4, <1>7, <1>8 DEF BacklogInv

LEMMA BacklogStep ==
  /\ TypeOK /\ ReplayInv /\ SamplesInv /\ BacklogInv /\ [ReplayNext]_replaySpecVars
  => BacklogInv'
<1>. SUFFICES ASSUME TypeOK, ReplayInv, SamplesInv, BacklogInv, [ReplayNext]_replaySpecVars
              PROVE  BacklogInv'
  OBVIOUS
<1>1. CASE [Next]_vars /\ UNCHANGED replayVars
  BY <1>1, BacklogAges
<1>2. CASE CollectHistory
  <2>1. PICK cutoff, samples :
          req' = [req EXCEPT !.pc = "open", !.cutoff = cutoff, !.samples = samples]
    BY <1>2, ZenonT(60) DEF CollectHistory
  <2>2. req'.pc = "open" /\ req'.upto = req.upto
    BY <2>1 DEF ReplayInv, RequestInv, RequestShape
  <2>. QED
    BY <1>2, <2>2 DEF CollectHistory, BacklogInv, StreamPartComplete, vars
<1>3. CASE OpenReader
  <2>1. /\ req.pc = "open" /\ req.upto = 0 /\ UNCHANGED stream /\ UNCHANGED now
        /\ UNCHANGED calls
    BY <1>3 DEF OpenReader, BacklogInv, vars
  <2>2. CASE Answer(TRUE, req.samples, FALSE)
    <3>1. req'.pc = "answered" /\ req'.upto = 0
      BY <2>1, <2>2 DEF Answer, ReplayInv, RequestInv, RequestShape
    <3>. QED
      BY <2>1, <3>1 DEF BacklogInv, StreamPartComplete
  <2>3. CASE /\ UNCHANGED answers
             /\ req' = [req EXCEPT !.pc = "fetch", !.pos = 1, !.upto = Len(stream),
                                   !.remaining = Cardinality(Pending(1))]
    <3>1. /\ req'.pc = "fetch" /\ req'.upto = Len(stream) /\ req'.pos = 1
          /\ req'.remaining = Cardinality(Pending(1))
          /\ req'.from = req.from /\ req'.cutoff = req.cutoff
      BY <2>3 DEF ReplayInv, RequestInv, RequestShape
    <3>2. Len(stream) \in Nat /\ Cardinality(Pending(1)) \in Nat
      BY StreamTypes, PendingFinite
    <3>3. Backlog' = Pending(1)
      BY <2>1, <3>1, <3>2 DEF Backlog, Pending, Kept, StreamFrom
    <3>. QED
      BY <2>1, <2>3, <3>1, <3>2, <3>3 DEF BacklogInv, StreamPartComplete
  <2>. QED
    BY <1>3, <2>2, <2>3 DEF OpenReader
<1>4. CASE Fetch
  BY <1>4, FetchCollects
<1>5. CASE CollectFails
  <2>1. /\ req'.pc = "answered" /\ req'.upto = req.upto
        /\ \A r \in answers' : r.call = calls => ~r.ok
        /\ UNCHANGED stream /\ UNCHANGED calls
    BY <1>5 DEF CollectFails, Answer, ReplayInv, RequestInv, RequestShape, BacklogInv, vars
  <2>. QED
    BY <2>1 DEF BacklogInv, StreamPartComplete
<1>6. CASE StartReplay
  <2>1. /\ req'.pc = "history" /\ req'.upto = 0
    BY <1>6 DEF StartReplay, NoRequest
  <2>2. \A r \in answers : r.call # calls + 1
    BY DEF ReplayInv, RequestInv, PlayerInv
  <2>3. UNCHANGED stream /\ UNCHANGED answers /\ calls' = calls + 1 /\ Len(stream) \in Nat
    BY <1>6, StreamTypes DEF StartReplay, vars
  <2>. QED
    BY <2>1, <2>2, <2>3 DEF BacklogInv, StreamPartComplete
<1>7. CASE exit
  BY <1>7, StreamTypes DEF exit, NoRequest, BacklogInv, StreamPartComplete, vars
<1>8. CASE Scrub \/ togglePlay \/ \E r \in answers : Land(r)
  <2>1. /\ UNCHANGED req /\ UNCHANGED calls /\ answers' \subseteq answers
        /\ UNCHANGED stream /\ UNCHANGED now
    BY <1>8 DEF Scrub, togglePlay, Land, vars
  <2>2. /\ \A i : Wanted(i)' <=> Wanted(i)
        /\ \A i : Collected(i)' <=> Collected(i)
        /\ Backlog' = Backlog
    BY <2>1 DEF Wanted, Collected, Kept, StreamFrom, Backlog, Pending
  <2>3. StreamPartComplete'
    BY <2>1, <2>2 DEF BacklogInv, StreamPartComplete
  <2>. QED
    BY <2>1, <2>2, <2>3 DEF BacklogInv
<1>. QED
  BY <1>1, <1>2, <1>3, <1>4, <1>5, <1>6, <1>7, <1>8
    DEF ReplayNext, replaySpecVars, Collect, Browser

(* An update of the window that the stream held when the backlog was       *)
(* counted, and still holds, is in the answer: for any sizes of stream and *)
(* batches, short batches, updates that do not decode and expiry included. *)
THEOREM StreamPartIsComplete == ReplaySpec => []StreamPartComplete
<1>1. ReplayInit => BacklogInv
  BY DEF ReplayInit, Init, NoRequest, BacklogInv, StreamPartComplete
<1>2. BacklogInv => StreamPartComplete
  BY DEF BacklogInv
<1>. QED
  BY <1>1, <1>2, BacklogStep, WriterRunsOn, TypeCorrect, ReplayCorrect, SamplesAscend, PTL
    DEF ReplaySpec
=============================================================================
