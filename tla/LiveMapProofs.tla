---------------------------- MODULE LiveMapProofs ----------------------------
(***************************************************************************)
(* Theorems about LiveMap, for any fleet, cells, viewports and bounds: the *)
(* selection, the order of an aircraft's states, and what a reload shows.  *)
(***************************************************************************)
EXTENDS LiveMap, TLAPS

LEMMA Types ==
  ASSUME TypeOK
  PROVE  /\ log \in Seq(States) /\ recv[Tab] \in Seq(Nat)
         /\ asked \in [{Tab} -> SUBSET {Box(v) : v \in Viewports}]
         /\ hot \in [Aircraft -> States \cup {None}] /\ version \in [Aircraft -> Nat]
         /\ flights \in [Aircraft -> States \cup {None}]
         /\ reloads \subseteq Requests /\ made \in Nat /\ current \in {0, made}
         /\ bounds \in Viewports \cup {{}} /\ moving \in BOOLEAN /\ view \in Viewports \cup {{}}
  BY DEF TypeOK, FeedTypeOK, StateTypeOK, MapTypeOK

(* Whoever is read or drawn is a state of some aircraft. *)
LEMMA StateFacts ==
  ASSUME NEW s \in States
  PROVE  s.icao24 \in Aircraft /\ s.cell \in Cells /\ s.version \in Nat /\ s # None
  BY NoneAssumption, VersionsAssumption DEF States

LEMMA RequestFacts ==
  ASSUME NEW r \in Requests
  PROVE  /\ r.id \in Nat \ {0} /\ r.pc \in {"lookup", "read", "ok", "failed"}
         /\ r.box \in Viewports /\ r.todo \subseteq Aircraft /\ r.states \subseteq States
         /\ r.steady \subseteq Aircraft /\ r.floor \in [Aircraft -> Nat]
  BY DEF Requests

LEMMA MapInit == Init => MapInv
<1>. SUFFICES ASSUME Init PROVE MapInv
  OBVIOUS
<1>. USE DEF Init, Feed!Init
<1>1. FeedTypeOK /\ StateTypeOK
  BY DEF FeedTypeOK, StateTypeOK
<1>2. MapTypeOK
  <2>1. bounds \in Viewports \cup {{}} /\ moving \in BOOLEAN /\ view \in Viewports \cup {{}}
    OBVIOUS
  <2>2. /\ flights \in [Aircraft -> States \cup {None}] /\ selected \in Aircraft \cup {None}
        /\ frame \subseteq Aircraft /\ fromREST \subseteq Aircraft
    OBVIOUS
  <2>3. reloads \subseteq Requests /\ made \in Nat /\ current \in {0, made}
    OBVIOUS
  <2>. QED
    BY <2>1, <2>2, <2>3 DEF MapTypeOK
<1>3. HotIsLast /\ LogInOrder
  BY DEF HotIsLast, LogInOrder
<1>4. StoreIsFed
  BY DEF StoreIsFed
<1>5. ReloadsReadOn /\ ViewFollows /\ SelectionIsTracked
  BY DEF ReloadsReadOn, ViewFollows, SelectionIsTracked
<1>. QED
  BY <1>1, <1>2, <1>3, <1>4, <1>5 DEF MapInv, TypeOK

-----------------------------------------------------------------------------
(* Redis moves on: a request keeps who stayed hot and inside.              *)
LEMMA Watched ==
  ASSUME MapInv, Watch, StateTypeOK', \A a \in Aircraft : version[a] <= version'[a],
         current' = current, made' = made, bounds' = bounds, moving' = moving,
         view' = view
  PROVE  reloads' \subseteq Requests /\ ReloadsReadOn'
<1>. SUFFICES ASSUME NEW r \in reloads' PROVE r \in Requests /\ ReadSoFar(r)'
  BY DEF ReloadsReadOn
<1>1. PICK q \in reloads : r = [q EXCEPT !.steady = q.steady \cap Inside(q.box)']
  BY DEF Watch
<1>2. q \in Requests /\ ReadSoFar(q)
  BY Types DEF MapInv, ReloadsReadOn
<1>3. /\ r.id = q.id /\ r.pc = q.pc /\ r.box = q.box /\ r.todo = q.todo
      /\ r.states = q.states /\ r.floor = q.floor
      /\ r.steady = q.steady \cap Inside(q.box)' /\ r \in Requests
  BY <1>1, <1>2 DEF Requests
<1>4. \A a \in Aircraft : r.floor[a] <= version'[a]
  <2>1. \A a \in Aircraft : q.floor[a] \in Nat /\ version[a] \in Nat /\ version'[a] \in Nat
                            /\ q.floor[a] <= version[a]
    BY <1>2, RequestFacts DEF MapInv, TypeOK, StateTypeOK, ReadSoFar
  <2>. QED
    BY <1>3, <2>1
<1>. QED
  BY <1>2, <1>3, <1>4 DEF ReadSoFar, Inside

LEMMA WriteStep ==
  ASSUME MapInv, NEW a \in Aircraft, WriteState(a)
  PROVE  MapInv'
<1>. USE DEF feedVars, moveVars, mapVars, storeVars
<1>1. /\ hot \in [Aircraft -> States \cup {None}] /\ version \in [Aircraft -> Nat]
      /\ due \subseteq Aircraft
  BY DEF MapInv, TypeOK, StateTypeOK
<1>2. PICK cell \in Cells :
        hot' = [hot EXCEPT ![a] = [icao24 |-> a, cell |-> cell, version |-> version'[a]]]
  BY DEF WriteState
<1>3. /\ version[a] < MaxVersion /\ version' = [version EXCEPT ![a] = version[a] + 1]
      /\ due' = due \cup {a} /\ Watch
      /\ UNCHANGED <<log, asked, recv, bounds, moving, view, current, made, flights, selected, frame,
                     fromREST, pickedLate>>
  BY DEF WriteState
<1>4. version'[a] = version[a] + 1 /\ version'[a] \in 1 .. MaxVersion /\ version'[a] \in Nat
  BY <1>1, <1>3, VersionsAssumption
<1>5. /\ hot'[a] = [icao24 |-> a, cell |-> cell, version |-> version'[a]]
      /\ hot'[a] \in States /\ hot'[a] # None
  <2>1. hot'[a] = [icao24 |-> a, cell |-> cell, version |-> version'[a]]
    BY <1>1, <1>2
  <2>2. hot'[a] \in States
    BY <1>4, <2>1 DEF States
  <2>. QED
    BY <2>1, <2>2, StateFacts
<1>6. StateTypeOK'
  BY <1>1, <1>2, <1>3, <1>4, <1>5 DEF StateTypeOK
<1>7. HotIsLast'
  BY <1>1, <1>2, <1>3, <1>5 DEF MapInv, HotIsLast
<1>8. \A b \in Aircraft : version[b] \in Nat /\ version'[b] \in Nat /\ version[b] <= version'[b]
  BY <1>1, <1>3, <1>4
<1>9. reloads' \subseteq Requests /\ ReloadsReadOn'
  BY <1>3, <1>6, <1>8, Watched
<1>10. LogInOrder'
  <2>1. \A i \in DOMAIN log : log[i].icao24 \in Aircraft /\ log[i].version \in Nat
    BY Types, StateFacts DEF MapInv
  <2>2. \A i \in DOMAIN log : log[i].version <= version'[log[i].icao24]
    BY <1>8, <2>1 DEF MapInv, LogInOrder
  <2>. QED
    BY <1>3, <2>2 DEF MapInv, LogInOrder
<1>11. StoreIsFed' /\ SelectionIsTracked' /\ ViewFollows' /\ FeedTypeOK' /\ MapTypeOK'
  BY <1>3, <1>9
  DEF MapInv, StoreIsFed, SelectionIsTracked, ViewFollows, TypeOK, FeedTypeOK, MapTypeOK
<1>. QED
  BY <1>6, <1>7, <1>9, <1>10, <1>11 DEF MapInv, TypeOK

LEMMA ExpireStep ==
  ASSUME MapInv, NEW a \in Aircraft, Expire(a)
  PROVE  MapInv'
<1>. USE DEF feedVars, moveVars, mapVars, storeVars
<1>1. /\ due' = due \ {a} /\ hot' = [hot EXCEPT ![a] = None] /\ Watch
      /\ UNCHANGED <<version, log, asked, recv, bounds, moving, view, current, made, flights,
                     selected, frame, fromREST, pickedLate>>
  BY DEF Expire
<1>2. StateTypeOK'
  BY <1>1 DEF MapInv, TypeOK, StateTypeOK
<1>3. HotIsLast'
  BY <1>1 DEF MapInv, TypeOK, StateTypeOK, HotIsLast
<1>4. \A b \in Aircraft : version[b] <= version'[b]
  BY <1>1 DEF MapInv, TypeOK, StateTypeOK
<1>5. reloads' \subseteq Requests /\ ReloadsReadOn'
  BY <1>1, <1>2, <1>4, Watched
<1>6. /\ LogInOrder' /\ StoreIsFed' /\ SelectionIsTracked' /\ ViewFollows'
      /\ FeedTypeOK' /\ MapTypeOK'
  BY <1>1, <1>5
  DEF MapInv, LogInOrder, StoreIsFed, SelectionIsTracked, ViewFollows, TypeOK, FeedTypeOK,
      MapTypeOK
<1>. QED
  BY <1>2, <1>3, <1>5, <1>6 DEF MapInv, TypeOK

(* The last state written goes behind everything published of the aircraft. *)
LEMMA PublishStep ==
  ASSUME MapInv, NEW a \in Aircraft, Publish(a) \/ PublishFailed(a)
  PROVE  MapInv'
<1>. USE DEF moveVars, mapVars, storeVars
<1>1. /\ a \in due /\ due' \subseteq due /\ log' = Append(log, hot[a])
      /\ UNCHANGED <<asked, recv, hot, version, bounds, moving, view, current, reloads, made, flights,
                     selected, frame, fromREST, pickedLate>>
  BY DEF Publish, PublishFailed, Feed!Publish
<1>2. log \in Seq(States) /\ recv[Tab] \in Seq(Nat) /\ version \in [Aircraft -> Nat]
  BY Types DEF MapInv
<1>3. hot[a] \in States /\ hot[a].icao24 = a /\ hot[a].version = version[a]
  BY <1>1, Types DEF MapInv, HotIsLast
<1>4. /\ log' \in Seq(States)
      /\ \A i \in DOMAIN log : i \in DOMAIN log' /\ log'[i] = log[i] /\ i \in Nat
      /\ \A i \in DOMAIN log' : i \in DOMAIN log \/ (i = Len(log) + 1 /\ log'[i] = hot[a])
      /\ \A i \in DOMAIN log : i < Len(log) + 1
      /\ Len(log) + 1 \in Nat
  BY <1>1, <1>2, <1>3
<1>5. \A i \in DOMAIN log : log[i] \in States /\ log[i].version \in Nat
  BY <1>2, StateFacts
<1>6. LogInOrder'
  <2>1. ASSUME NEW i \in DOMAIN log' PROVE log'[i].version <= version[log'[i].icao24]
    <3>1. CASE i \in DOMAIN log
      BY <1>4, <3>1 DEF MapInv, LogInOrder
    <3>2. CASE log'[i] = hot[a]
      BY <1>2, <1>3, <3>2
    <3>. QED
      BY <1>4, <3>1, <3>2
  <2>2. ASSUME NEW i \in DOMAIN log', NEW j \in DOMAIN log', i <= j,
               log'[i].icao24 = log'[j].icao24
        PROVE  log'[i].version <= log'[j].version
    <3>1. CASE j \in DOMAIN log
      <4>1. i \in DOMAIN log
        BY <1>4, <2>2, <3>1
      <4>. QED
        BY <1>4, <2>2, <3>1, <4>1 DEF MapInv, LogInOrder
    <3>2. CASE log'[j] = hot[a]
      BY <1>3, <2>1, <2>2, <3>2
    <3>. QED
      BY <1>4, <3>1, <3>2
  <2>. QED
    BY <1>1, <2>1, <2>2 DEF LogInOrder
<1>7. StoreIsFed'
  BY <1>1, <1>4 DEF MapInv, StoreIsFed
<1>8. /\ HotIsLast' /\ SelectionIsTracked' /\ ViewFollows'
      /\ StateTypeOK' /\ MapTypeOK' /\ FeedTypeOK'
  BY <1>1, <1>4
  DEF MapInv, HotIsLast, SelectionIsTracked, ViewFollows, TypeOK, StateTypeOK, FeedTypeOK,
      MapTypeOK
<1>9. ReloadsReadOn'
  BY <1>1 DEF MapInv, ReloadsReadOn, ReadSoFar, Inside
<1>. QED
  BY <1>6, <1>7, <1>8, <1>9 DEF MapInv, TypeOK

-----------------------------------------------------------------------------
(* Serving a reload: the index finds at least what is inside, and a state  *)
(* is read after the request was made.                                     *)
LEMMA ServeStep ==
  ASSUME MapInv, ServeReload
  PROVE  MapInv'
<1>. USE DEF feedVars, moveVars, mapVars, storeVars
<1>1. UNCHANGED <<hot, version, due, log, asked, recv, bounds, moving, view, current, made, flights,
                  selected, frame, fromREST, pickedLate>>
  BY DEF ServeReload
<1>2. PICK r \in reloads : bboxCandidates(r) \/ ReadFlightState(r) \/ Respond(r)
  BY DEF ServeReload
<1>3. r \in Requests /\ ReadSoFar(r)
  BY Types DEF MapInv, ReloadsReadOn
<1>4. \E q \in Requests : reloads' = (reloads \ {r}) \cup {q} /\ ReadSoFar(q)
  <2>1. CASE bboxCandidates(r)
    <3>1. PICK found \in SUBSET Aircraft :
            /\ Inside(r.box) \subseteq found
            /\ reloads' = (reloads \ {r}) \cup {[r EXCEPT !.pc = "read", !.todo = found]}
      BY <2>1 DEF bboxCandidates, Step
    <3>. DEFINE q == [r EXCEPT !.pc = "read", !.todo = found]
    <3>2. /\ q \in Requests /\ q.id = r.id /\ q.pc = "read" /\ q.box = r.box /\ q.todo = found
          /\ q.states = r.states /\ q.floor = r.floor /\ q.steady = r.steady
      BY <1>3 DEF Requests
    <3>. HIDE DEF q
    <3>3. ReadSoFar(q)
      BY <1>3, <3>1, <3>2 DEF ReadSoFar
    <3>. QED
      BY <3>1, <3>2, <3>3 DEF q
  <2>2. CASE ReadFlightState(r)
    <3>1. r.pc = "read"
      BY <2>2 DEF ReadFlightState
    <3>2. PICK a \in r.todo :
            reloads' = (reloads \ {r}) \cup
              {[r EXCEPT !.todo = r.todo \ {a},
                         !.states = IF hot[a] # None /\ Contains(r, hot[a])
                                    THEN r.states \cup {hot[a]} ELSE r.states]}
      BY <2>2 DEF ReadFlightState, Step
    <3>. DEFINE more == IF hot[a] # None /\ Contains(r, hot[a])
                        THEN r.states \cup {hot[a]} ELSE r.states
                q == [r EXCEPT !.todo = r.todo \ {a}, !.states = more]
    <3>3. a \in Aircraft /\ hot[a] \in States \cup {None}
      BY <1>3, RequestFacts, Types DEF MapInv
    <3>4. more \subseteq States
      BY <1>3, <3>3, RequestFacts
    <3>5. \A s \in more : s \in r.states \/ (s = hot[a] /\ hot[a] # None /\ s.cell \in r.box)
      BY DEF Contains
    <3>6. a \in r.steady => hot[a] \in more /\ hot[a] # None
      BY <1>3 DEF ReadSoFar, Inside, Contains
    <3>. HIDE DEF more
    <3>7. /\ q \in Requests /\ q.id = r.id /\ q.pc = "read" /\ q.box = r.box
          /\ q.todo = r.todo \ {a} /\ q.states = more /\ q.floor = r.floor /\ q.steady = r.steady
          /\ r.states \subseteq more
      <4>1. r.states \subseteq more
        BY DEF more
      <4>. QED
        BY <1>3, <3>1, <3>4, <4>1 DEF Requests
    <3>8. hot[a] # None => hot[a].icao24 = a /\ hot[a].version = version[a]
      BY <3>3 DEF MapInv, HotIsLast
    <3>9. \A s \in more : s.cell \in r.box /\ r.floor[s.icao24] <= s.version
      BY <1>3, <3>3, <3>5, <3>8 DEF ReadSoFar
    <3>. HIDE DEF q
    <3>10. \A b \in r.steady : b \in r.todo \ {a} \/ \E s \in more : s.icao24 = b
      BY <1>3, <3>1, <3>6, <3>7, <3>8 DEF ReadSoFar
    <3>11. ReadSoFar(q)
      BY <1>3, <3>7, <3>9, <3>10 DEF ReadSoFar
    <3>. QED
      BY <3>2, <3>7, <3>11 DEF q, more
  <2>3. CASE Respond(r)
    <3>1. PICK pc \in {"ok", "failed"} :
            /\ reloads' = (reloads \ {r}) \cup {[r EXCEPT !.pc = pc]}
            /\ pc = "ok" => r.pc = "read" /\ r.todo = {}
      BY <2>3 DEF Respond, Step
    <3>. DEFINE q == [r EXCEPT !.pc = pc]
    <3>2. /\ q \in Requests /\ q.id = r.id /\ q.pc = pc /\ q.box = r.box /\ q.todo = r.todo
          /\ q.states = r.states /\ q.floor = r.floor /\ q.steady = r.steady
      BY <1>3 DEF Requests
    <3>. HIDE DEF q
    <3>3. ReadSoFar(q)
      BY <1>3, <3>1, <3>2 DEF ReadSoFar
    <3>. QED
      BY <3>1, <3>2, <3>3 DEF q
  <2>. QED
    BY <1>2, <2>1, <2>2, <2>3
<1>5. reloads' \subseteq Requests /\ \A q \in reloads' : ReadSoFar(q)
  BY <1>4, Types DEF MapInv, ReloadsReadOn
<1>6. ReloadsReadOn'
  BY <1>1, <1>5 DEF ReloadsReadOn, ReadSoFar, Inside
<1>7. TypeOK'
  BY <1>1, <1>5 DEF MapInv, TypeOK, StateTypeOK, FeedTypeOK, MapTypeOK
<1>8. HotIsLast' /\ LogInOrder' /\ StoreIsFed' /\ SelectionIsTracked' /\ ViewFollows'
  BY <1>1 DEF MapInv, HotIsLast, LogInOrder, StoreIsFed, SelectionIsTracked, ViewFollows
<1>. QED
  BY <1>6, <1>7, <1>8 DEF MapInv

(* A failed resume asks for the bounds the map has at that moment.         *)
LEMMA AskStep ==
  ASSUME MapInv, OnResumeFailed
  PROVE  MapInv'
<1>. USE DEF feedVars, moveVars, storeVars
<1>. DEFINE q == [id |-> made', pc |-> "lookup", box |-> bounds, todo |-> {}, states |-> {},
                  steady |-> Inside(bounds), floor |-> version]
<1>1. /\ made' = made + 1 /\ current' = made' /\ reloads' = reloads \cup {q}
      /\ UNCHANGED <<hot, version, due, log, asked, recv, bounds, moving, view, flights,
                     selected, frame, fromREST, pickedLate>>
  BY DEF OnResumeFailed
<1>2. /\ reloads \subseteq Requests /\ made \in Nat /\ bounds \in Viewports
      /\ version \in [Aircraft -> Nat]
  BY Types DEF MapInv, OnResumeFailed
<1>3. made' \in Nat \ {0}
  BY <1>1, <1>2
<1>4. q \in Requests
  BY <1>2, <1>3 DEF Requests, Inside
<1>5. ASSUME NEW r, r = q PROVE ReadSoFar(r)'
  <2>1. /\ r.id = made' /\ r.pc = "lookup" /\ r.box = bounds /\ r.states = {}
        /\ r.steady = Inside(bounds) /\ r.floor = version
    BY <1>5
  <2>2. (\A a \in Aircraft : version[a] <= version[a]) /\ made' <= made' /\ view # {}
    BY <1>2, <1>3 DEF OnResumeFailed
  <2>. HIDE DEF q
  <2>3. r.steady \subseteq Inside(r.box)'
    BY <1>1, <2>1 DEF Inside
  <2>. QED
    BY <1>1, <2>1, <2>2, <2>3 DEF ReadSoFar
<1>. HIDE DEF q
<1>6. ASSUME NEW r \in reloads PROVE ReadSoFar(r)'
  <2>1. ReadSoFar(r) /\ r.id \in Nat
    BY <1>2, RequestFacts DEF MapInv, ReloadsReadOn
  <2>2. r.id <= made' /\ r.id # current'
    BY <1>1, <1>2, <2>1 DEF ReadSoFar
  <2>. QED
    BY <1>1, <2>1, <2>2 DEF ReadSoFar, Inside
<1>7. ReloadsReadOn' /\ TypeOK'
  BY <1>1, <1>2, <1>3, <1>4, <1>5, <1>6
  DEF MapInv, ReloadsReadOn, TypeOK, StateTypeOK, FeedTypeOK, MapTypeOK
<1>8. HotIsLast' /\ LogInOrder' /\ StoreIsFed' /\ SelectionIsTracked' /\ ViewFollows'
  BY <1>1 DEF MapInv, HotIsLast, LogInOrder, StoreIsFed, SelectionIsTracked, ViewFollows
<1>. QED
  BY <1>7, <1>8 DEF MapInv

-----------------------------------------------------------------------------
(* The store after a snapshot. *)
LEMMA Snapshot ==
  ASSUME NEW states \in SUBSET States, setFlights(states)
  PROVE  /\ flights' \in [Aircraft -> States \cup {None}]
         /\ \A a \in Aircraft :
              /\ flights'[a] # None => flights'[a] \in states /\ flights'[a].icao24 = a
              /\ (\E s \in states : s.icao24 = a) => flights'[a] # None
         /\ fromREST' = Tracked(flights') /\ selected' = SelectionAmong(flights')
         /\ UNCHANGED <<frame, pickedLate>>
<1>1. /\ fromREST' = Tracked(flights') /\ selected' = SelectionAmong(flights')
      /\ UNCHANGED <<frame, pickedLate>>
      /\ flights' = [a \in Aircraft |->
           IF \E s \in states : s.icao24 = a THEN CHOOSE s \in states : s.icao24 = a ELSE None]
  BY DEF setFlights
<1>2. ASSUME NEW a \in Aircraft
      PROVE  \/ flights'[a] \in states /\ flights'[a].icao24 = a
             \/ flights'[a] = None /\ ~\E s \in states : s.icao24 = a
  <2>1. CASE \E s \in states : s.icao24 = a
    BY <1>1, <2>1
  <2>2. CASE ~\E s \in states : s.icao24 = a
    BY <1>1, <2>2
  <2>. QED
    BY <2>1, <2>2
<1>3. \A s \in states : s # None
  BY StateFacts
<1>4. ASSUME NEW a \in Aircraft PROVE flights'[a] \in States \cup {None}
  BY <1>2
<1>5. flights' = [a \in Aircraft |-> flights'[a]]
  BY <1>1
<1>. QED
  BY <1>1, <1>2, <1>3, <1>4, <1>5

(* The selection follows what is tracked. *)
LEMMA SelectionFollows ==
  ASSUME MapTypeOK, selected' = SelectionAmong(flights')
  PROVE  SelectionIsTracked' /\ selected' \in Aircraft \cup {None}
  BY NoneAssumption DEF MapTypeOK, SelectionAmong, Tracked, SelectionIsTracked

(* The map moves: no reload is for bounds it rests with any more.          *)
LEMMA MoveStep ==
  ASSUME MapInv, Move
  PROVE  MapInv'
<1>. USE DEF feedVars, storeVars
<1>1. /\ moving' = TRUE /\ bounds' \in Viewports \cup {{}}
      /\ UNCHANGED <<hot, version, due, log, asked, recv, view, current, made, reloads, flights,
                     selected, frame, fromREST, pickedLate>>
  BY DEF Move
<1>2. TypeOK'
  BY <1>1 DEF MapInv, TypeOK, StateTypeOK, FeedTypeOK, MapTypeOK
<1>3. ReloadsReadOn' /\ ViewFollows'
  BY <1>1 DEF MapInv, ReloadsReadOn, ReadSoFar, Inside, ViewFollows
<1>4. HotIsLast' /\ LogInOrder' /\ StoreIsFed' /\ SelectionIsTracked'
  BY <1>1 DEF MapInv, HotIsLast, LogInOrder, StoreIsFed, SelectionIsTracked
<1>. QED
  BY <1>2, <1>3, <1>4 DEF MapInv

(* New bounds: the socket is told, the store keeps what is inside, and no  *)
(* reload is current any more; bounds that make no box change nothing.     *)
LEMMA SubscribeStep ==
  ASSUME MapInv, MoveEnd \/ Load
  PROVE  MapInv'
<1>. USE DEF feedVars, storeVars
<1>1. /\ resubscribe /\ moving' \in {FALSE, moving}
      /\ UNCHANGED <<hot, version, due, reloads, made, bounds>>
  BY DEF MoveEnd, Load
<1>2. moving \in BOOLEAN /\ moving' \in BOOLEAN /\ (moving' = TRUE => moving = TRUE)
  BY <1>1, Types DEF MapInv
<1>3. CASE bounds = {}
  <2>1. UNCHANGED <<view, current, log, asked, recv, flights, selected, frame, fromREST,
                    pickedLate>>
    BY <1>1, <1>3 DEF resubscribe
  <2>2. TypeOK'
    BY <1>1, <1>2, <2>1 DEF MapInv, TypeOK, StateTypeOK, FeedTypeOK, MapTypeOK
  <2>3. ReloadsReadOn' /\ ViewFollows'
    BY <1>1, <1>3, <2>1 DEF MapInv, ReloadsReadOn, ReadSoFar, Inside, ViewFollows
  <2>4. HotIsLast' /\ LogInOrder' /\ StoreIsFed' /\ SelectionIsTracked'
    BY <1>1, <2>1 DEF MapInv, HotIsLast, LogInOrder, StoreIsFed, SelectionIsTracked
  <2>. QED
    BY <2>2, <2>3, <2>4 DEF MapInv
<1>4. CASE bounds # {}
  <2>1. /\ view' = bounds /\ Feed!Ask(Tab, Box(bounds)) /\ current' = 0
        /\ IF view = {} THEN UNCHANGED storeVars ELSE retainWithinBBox(bounds)
    BY <1>1, <1>4 DEF resubscribe, AbortReload
  <2>2. UNCHANGED <<log, recv>> /\ asked' = [asked EXCEPT ![Tab] = asked[Tab] \cup {Box(bounds)}]
    BY <2>1 DEF Feed!Ask
  <2>3. /\ flights \in [Aircraft -> States \cup {None}] /\ fromREST \subseteq Aircraft
        /\ bounds \in Viewports
    BY <1>4 DEF MapInv, TypeOK, MapTypeOK
  <2>4. /\ flights' \in [Aircraft -> States \cup {None}] /\ fromREST' \subseteq Aircraft
        /\ \A a \in Aircraft : flights'[a] # None =>
             flights'[a] = flights[a] /\ (a \in fromREST => a \in fromREST')
        /\ SelectionIsTracked' /\ selected' \in Aircraft \cup {None} /\ frame' = frame
    <3>1. CASE UNCHANGED storeVars
      BY <2>3, <3>1 DEF MapInv, TypeOK, MapTypeOK, SelectionIsTracked
    <3>2. CASE retainWithinBBox(bounds)
      <4>1. /\ flights' = [a \in Aircraft |->
                 IF flights[a] # None /\ flights[a].cell \in bounds THEN flights[a] ELSE None]
            /\ selected' = SelectionAmong(flights')
            /\ fromREST' = fromREST \cap Tracked(flights') /\ frame' = frame
        BY <3>2 DEF retainWithinBBox
      <4>2. SelectionIsTracked' /\ selected' \in Aircraft \cup {None}
        BY <4>1, SelectionFollows DEF MapInv, TypeOK
      <4>3. \A a \in Aircraft : flights'[a] # None => flights'[a] = flights[a]
        BY <4>1
      <4>. QED
        BY <2>3, <4>1, <4>2, <4>3 DEF Tracked, MapInv, TypeOK, MapTypeOK
    <3>. QED
      BY <2>1, <3>1, <3>2
  <2>5. StoreIsFed'
    BY <2>2, <2>4 DEF MapInv, StoreIsFed
  <2>6. FeedTypeOK'
    <3>1. asked \in [{Tab} -> SUBSET {Box(w) : w \in Viewports}]
      BY Types DEF MapInv
    <3>2. asked' \in [{Tab} -> SUBSET {Box(w) : w \in Viewports}]
      BY <2>2, <2>3, <3>1
    <3>3. {Box(w) : w \in Viewports}' = {Box(w) : w \in Viewports}
      OBVIOUS
    <3>. QED
      BY <2>2, <3>2 DEF MapInv, TypeOK, FeedTypeOK
  <2>7. StateTypeOK' /\ MapTypeOK'
    BY <1>1, <1>2, <2>1, <2>3, <2>4 DEF MapInv, TypeOK, StateTypeOK, MapTypeOK
  <2>8. HotIsLast' /\ LogInOrder' /\ ViewFollows'
    BY <1>1, <2>1, <2>2 DEF MapInv, HotIsLast, LogInOrder, ViewFollows
  <2>9. ReloadsReadOn'
    <3>1. \A r \in reloads : r.id # 0
      BY Types, RequestFacts DEF MapInv
    <3>. QED
      BY <1>1, <1>4, <2>1, <3>1 DEF MapInv, ReloadsReadOn, ReadSoFar, Inside
  <2>. QED
    BY <2>4, <2>5, <2>6, <2>7, <2>8, <2>9 DEF MapInv, TypeOK
<1>. QED
  BY <1>3, <1>4

(* The feed hands over an update. *)
LEMMA UpdateStep ==
  ASSUME MapInv, OnFlightUpdate
  PROVE  MapInv'
<1>. USE DEF moveVars, mapVars
<1>1. PICK i \in DOMAIN log : Feed!Hand(Tab, i) /\ upsertFlight(log[i])
  BY DEF OnFlightUpdate
<1>2. /\ UNCHANGED <<hot, version, due, bounds, moving, view, current, reloads, made, log, asked,
                     selected, frame, pickedLate>>
      /\ recv' = [recv EXCEPT ![Tab] = Append(recv[Tab], i)]
      /\ flights' = [flights EXCEPT ![log[i].icao24] = log[i]]
      /\ fromREST' = fromREST \ {log[i].icao24}
  BY <1>1 DEF OnFlightUpdate, upsertFlight, Feed!Hand
<1>3. /\ log \in Seq(States) /\ recv[Tab] \in Seq(Nat) /\ recv \in [{Tab} -> Seq(Nat)]
      /\ flights \in [Aircraft -> States \cup {None}]
  BY DEF MapInv, TypeOK, FeedTypeOK, MapTypeOK
<1>4. i \in Nat /\ log[i] \in States /\ log[i].icao24 \in Aircraft /\ log[i] # None
  BY <1>3, StateFacts
<1>5. recv'[Tab] = Append(recv[Tab], i) /\ recv' \in [{Tab} -> Seq(Nat)]
  BY <1>2, <1>3, <1>4
<1>6. /\ \A k \in DOMAIN recv[Tab] : k \in DOMAIN recv'[Tab] /\ recv'[Tab][k] = recv[Tab][k]
      /\ \A k \in DOMAIN recv'[Tab] : recv'[Tab][k] = i \/ k \in DOMAIN recv[Tab]
      /\ \E k \in DOMAIN recv'[Tab] : recv'[Tab][k] = i
  <2>1. Len(recv[Tab]) + 1 \in DOMAIN recv'[Tab] /\ recv'[Tab][Len(recv[Tab]) + 1] = i
    BY <1>3, <1>4, <1>5
  <2>. QED
    BY <1>3, <1>4, <1>5, <2>1
<1>7. StoreIsFed'
  <2>1. \A k \in DOMAIN recv'[Tab] : recv'[Tab][k] \in DOMAIN log
    BY <1>6 DEF MapInv, StoreIsFed
  <2>2. ASSUME NEW a \in Aircraft, flights'[a] # None
        PROVE  /\ flights'[a].icao24 = a
               /\ a \notin fromREST' => \E k \in DOMAIN recv'[Tab] : flights'[a] = log[recv'[Tab][k]]
    <3>1. CASE a = log[i].icao24
      BY <1>2, <1>3, <1>6, <3>1
    <3>2. CASE a # log[i].icao24
      <4>1. flights'[a] = flights[a] /\ (a \notin fromREST' => a \notin fromREST)
        BY <1>2, <1>3, <3>2
      <4>. QED
        BY <1>6, <2>2, <4>1 DEF MapInv, StoreIsFed
    <3>. QED
      BY <3>1, <3>2
  <2>. QED
    BY <1>2, <2>1, <2>2 DEF StoreIsFed
<1>8. SelectionIsTracked'
  <2>1. ASSUME selected # None, ~pickedLate PROVE flights'[selected] # None
    <3>1. selected \in Aircraft /\ flights[selected] # None
      BY <2>1 DEF MapInv, TypeOK, MapTypeOK, SelectionIsTracked
    <3>. QED
      BY <1>2, <1>3, <1>4, <3>1
  <2>. QED
    BY <1>2, <2>1 DEF SelectionIsTracked
<1>9. FeedTypeOK' /\ StateTypeOK' /\ MapTypeOK'
  BY <1>2, <1>3, <1>4, <1>5 DEF MapInv, TypeOK, FeedTypeOK, StateTypeOK, MapTypeOK
<1>10. HotIsLast' /\ LogInOrder' /\ ReloadsReadOn' /\ ViewFollows'
  BY <1>2 DEF MapInv, HotIsLast, LogInOrder, ReloadsReadOn, ReadSoFar, Inside, ViewFollows
<1>. QED
  BY <1>7, <1>8, <1>9, <1>10 DEF MapInv, TypeOK

(* An answer lands: it replaces the store if it is the current one's.      *)
LEMMA LandStep ==
  ASSUME MapInv, NEW r \in reloads, Land(r)
  PROVE  MapInv'
<1>. USE DEF feedVars, moveVars, mapVars, storeVars
<1>1. UNCHANGED <<hot, version, due, log, asked, recv, bounds, moving, view, current, made>>
      /\ reloads' = reloads \ {r}
  BY DEF Land
<1>2. /\ flights' \in [Aircraft -> States \cup {None}] /\ fromREST' \subseteq Aircraft
      /\ selected' \in Aircraft \cup {None} /\ frame' = frame
      /\ SelectionIsTracked' /\ StoreIsFed'
  <2>1. CASE UNCHANGED storeVars
    BY <1>1, <2>1 DEF MapInv, TypeOK, MapTypeOK, SelectionIsTracked, StoreIsFed
  <2>2. CASE setFlights(r.states)
    <3>1. r.states \in SUBSET States
      BY Types, RequestFacts DEF MapInv
    <3>2. SelectionIsTracked' /\ selected' \in Aircraft \cup {None}
      BY <2>2, <3>1, Snapshot, SelectionFollows DEF MapInv, TypeOK
    <3>3. StoreIsFed'
      BY <1>1, <2>2, <3>1, Snapshot DEF MapInv, StoreIsFed, Tracked
    <3>. QED
      BY <2>2, <3>1, <3>2, <3>3, Snapshot DEF Tracked
  <2>. QED
    BY <2>1, <2>2 DEF Land
<1>3. StateTypeOK' /\ FeedTypeOK' /\ MapTypeOK'
  BY <1>1, <1>2 DEF MapInv, TypeOK, StateTypeOK, FeedTypeOK, MapTypeOK
<1>4. HotIsLast' /\ LogInOrder' /\ ReloadsReadOn' /\ ViewFollows'
  BY <1>1 DEF MapInv, HotIsLast, LogInOrder, ReloadsReadOn, ReadSoFar, Inside, ViewFollows
<1>. QED
  BY <1>2, <1>3, <1>4 DEF MapInv, TypeOK

LEMMA DrawStep ==
  ASSUME MapInv, Draw \/ Click \/ UNCHANGED vars
  PROVE  MapInv'
<1>. USE DEF feedVars, moveVars, mapVars, storeVars
<1>1. UNCHANGED <<hot, version, due, log, asked, recv, bounds, moving, view, current, made, reloads,
                  flights, fromREST>>
  BY DEF Draw, Click, vars
<1>2. /\ frame' \subseteq Aircraft /\ selected' \in Aircraft \cup {None} /\ SelectionIsTracked'
  <2>1. CASE Draw
    BY <2>1 DEF Draw, Tracked, MapInv, TypeOK, MapTypeOK, SelectionIsTracked
  <2>2. CASE Click
    <3>1. PICK a \in frame \cup {None} :
            selected' = a /\ pickedLate' = (a # None /\ flights[a] = None)
      BY <2>2 DEF Click
    <3>2. frame' = frame /\ frame \subseteq Aircraft
      BY <2>2 DEF Click, MapInv, TypeOK, MapTypeOK
    <3>3. SelectionIsTracked'
      BY <1>1, <3>1 DEF SelectionIsTracked
    <3>. QED
      BY <3>1, <3>2, <3>3
  <2>3. CASE UNCHANGED vars
    BY <2>3 DEF vars, MapInv, TypeOK, MapTypeOK, SelectionIsTracked
  <2>. QED
    BY <2>1, <2>2, <2>3
<1>3. StateTypeOK' /\ FeedTypeOK' /\ MapTypeOK'
  BY <1>1, <1>2 DEF MapInv, TypeOK, StateTypeOK, FeedTypeOK, MapTypeOK
<1>4. HotIsLast' /\ LogInOrder' /\ StoreIsFed' /\ ReloadsReadOn' /\ ViewFollows'
  BY <1>1
  DEF MapInv, HotIsLast, LogInOrder, StoreIsFed, ReloadsReadOn, ReadSoFar, Inside, ViewFollows
<1>. QED
  BY <1>2, <1>3, <1>4 DEF MapInv, TypeOK

LEMMA MapStep == MapInv /\ [Next]_vars => MapInv'
  BY WriteStep, PublishStep, ExpireStep, ServeStep, MoveStep, SubscribeStep, UpdateStep,
     AskStep, LandStep, DrawStep DEF Next

(* What the tab holds follows from what was written, published and asked   *)
(* for, in every reachable state.                                          *)
THEOREM MapCorrect == Spec => []MapInv
  BY MapInit, MapStep, PTL DEF Spec

(* The drawer is never stuck on an aircraft the map no longer tracks.      *)
THEOREM DrawerFollowsTheMap == Spec => []SelectionIsTracked
<1>1. MapInv => SelectionIsTracked
  BY DEF MapInv
<1>. QED
  BY <1>1, MapCorrect, PTL

-----------------------------------------------------------------------------
(* The feed hands over the states of an aircraft in the order they were    *)
(* written.                                                                *)
LEMMA UpdateIsNewer ==
  ASSUME MapInv, OnFlightUpdate, NEW a \in Aircraft, flights[a] # None, flights'[a] # None,
         a \notin fromREST
  PROVE  ~(flights'[a].version < flights[a].version)
<1>1. PICK i \in DOMAIN log : Feed!Hand(Tab, i) /\ upsertFlight(log[i])
  BY DEF OnFlightUpdate
<1>2. flights' = [flights EXCEPT ![log[i].icao24] = log[i]]
  BY <1>1 DEF upsertFlight
<1>3. /\ flights \in [Aircraft -> States \cup {None}] /\ log \in Seq(States)
      /\ recv[Tab] \in Seq(Nat)
  BY Types DEF MapInv
<1>4. flights[a].version \in Nat
  BY <1>3, StateFacts
<1>5. CASE a # log[i].icao24
  BY <1>2, <1>3, <1>4, <1>5
<1>6. CASE a = log[i].icao24
  <2>1. PICK k \in DOMAIN recv[Tab] : flights[a] = log[recv[Tab][k]]
    BY DEF MapInv, StoreIsFed
  <2>2. recv[Tab][k] \in DOMAIN log /\ recv[Tab][k] < i /\ flights[a].icao24 = a
    BY <1>1 DEF MapInv, StoreIsFed, Feed!Hand, Feed!InOrder
  <2>3. recv[Tab][k] \in Nat /\ i \in Nat
    BY <1>3
  <2>4. log[recv[Tab][k]].version <= log[i].version
    BY <1>6, <2>1, <2>2, <2>3 DEF MapInv, LogInOrder
  <2>5. flights'[a] = log[i] /\ log[i].version \in Nat
    BY <1>2, <1>3, <1>6, StateFacts
  <2>. QED
    BY <1>4, <2>1, <2>4, <2>5
<1>. QED
  BY <1>5, <1>6

(* The map takes an aircraft back to an earlier state only around a reload *)
(* from REST.                                                              *)
THEOREM FeedNeverGoesBack == Spec => BackOnlyAroundReload
<1>. DEFINE A == \A a \in Aircraft :
                   flights[a] # None /\ flights'[a] # None /\ flights'[a].version < flights[a].version
                   => recv' = recv \/ a \in fromREST
<1>1. ASSUME MapInv, [Next]_vars PROVE A
  <2>1. CASE OnFlightUpdate
    BY <1>1, <2>1, UpdateIsNewer
  <2>2. CASE ~OnFlightUpdate
    <3>1. recv' = recv
      BY <1>1, <2>2 DEF Next, vars, feedVars, WriteState, Publish, PublishFailed, Expire, ServeReload,
        Move, MoveEnd, Load, resubscribe, OnResumeFailed, Draw, Click, Land, Feed!Publish, Feed!Ask
    <3>. QED
      BY <3>1
  <2>. QED
    BY <2>1, <2>2
<1>2. MapInv /\ [Next]_vars => [A]_vars
  BY <1>1
<1>. QED
  BY <1>2, MapCorrect, PTL DEF Spec, BackOnlyAroundReload

(* A snapshot that replaces the store is the one asked for last; while the *)
(* map rests it is for the bounds shown and subscribed with; and it is     *)
(* complete for whoever stayed hot and inside its box, and no older than   *)
(* the request.                                                            *)
THEOREM ReloadIsCurrent == Spec => ReloadServesTheView
<1>. DEFINE A == \A r \in reloads :
                   r \notin reloads' /\ Land(r) /\ flights' # flights
                   => /\ r.id = made
                      /\ ~moving /\ bounds # {} => r.box = bounds /\ view = bounds
                      /\ \A a \in Tracked(flights') : flights'[a].cell \in r.box
                      /\ \A a \in r.steady : flights'[a] # None
                                             /\ flights'[a].version >= r.floor[a]
<1>1. ASSUME MapInv, NEW r \in reloads, Land(r), flights' # flights
      PROVE  /\ r.id = made
             /\ ~moving /\ bounds # {} => r.box = bounds /\ view = bounds
             /\ \A a \in Tracked(flights') : flights'[a].cell \in r.box
             /\ \A a \in r.steady : flights'[a] # None /\ flights'[a].version >= r.floor[a]
  <2>1. r.id = current /\ r.pc = "ok" /\ setFlights(r.states)
    BY <1>1 DEF Land, storeVars
  <2>2. r \in Requests /\ ReadSoFar(r) /\ current \in {0, made}
    BY <1>1, Types DEF MapInv, ReloadsReadOn
  <2>3. /\ r.id # 0 /\ r.states \subseteq States /\ r.steady \subseteq Aircraft
        /\ r.floor \in [Aircraft -> Nat]
    BY <2>2, RequestFacts
  <2>4. /\ r.id = made /\ (r.box = bounds \/ moving \/ bounds = {})
        /\ ~moving /\ bounds # {} => view = bounds
    BY <1>1, <2>1, <2>2, <2>3 DEF ReadSoFar, MapInv, ViewFollows
  <2>5. ASSUME NEW a \in Aircraft, flights'[a] # None
        PROVE  flights'[a].cell \in r.box /\ flights'[a].version >= r.floor[a]
    <3>1. flights'[a] \in r.states /\ flights'[a].icao24 = a
      BY <2>1, <2>3, <2>5, Snapshot
    <3>2. flights'[a].version \in Nat /\ r.floor[a] \in Nat
      BY <2>3, <3>1, StateFacts
    <3>. QED
      BY <2>2, <2>4, <3>1, <3>2 DEF ReadSoFar
  <2>6. ASSUME NEW a \in r.steady PROVE flights'[a] # None
    <3>1. \E s \in r.states : s.icao24 = a
      BY <2>1, <2>2, <2>6 DEF ReadSoFar
    <3>. QED
      BY <2>1, <2>3, <3>1, Snapshot
  <2>. QED
    BY <2>3, <2>4, <2>5, <2>6 DEF Tracked
<1>2. MapInv /\ [Next]_vars => [A]_vars
  BY <1>1
<1>. QED
  BY <1>2, MapCorrect, PTL DEF Spec, ReloadServesTheView

(* What feeds the map is the feed that the live path implements: nothing   *)
(* the map does takes a step of it that the feed would not.                *)
THEOREM MapUsesTheFeed == Spec => Feed!Spec
<1>1. Init => Feed!Init
  BY DEF Init
<1>2. ASSUME MapInv, [Next]_vars PROVE [Feed!Next]_(Feed!feedVars)
  <2>1. ASSUME NEW a \in Aircraft, Publish(a) \/ PublishFailed(a) PROVE Feed!Next
    <3>1. hot[a] \in States /\ Feed!Publish(hot[a])
      BY <1>2, <2>1, Types DEF MapInv, HotIsLast, Publish, PublishFailed
    <3>. QED
      BY <3>1 DEF Feed!Next
  <2>2. CASE MoveEnd \/ Load
    <3>1. resubscribe /\ bounds \in Viewports \cup {{}}
      BY <1>2, <2>2, Types DEF MoveEnd, Load, MapInv
    <3>2. CASE bounds = {}
      BY <3>1, <3>2 DEF resubscribe, feedVars, Feed!feedVars
    <3>3. CASE bounds # {}
      <4>1. bounds \in Viewports /\ Feed!Ask(Tab, Box(bounds))
        BY <3>1, <3>3 DEF resubscribe
      <4>. QED
        BY <4>1 DEF Feed!Next
    <3>. QED
      BY <3>2, <3>3
  <2>3. CASE OnFlightUpdate
    BY <2>3 DEF OnFlightUpdate, Feed!Next
  <2>4. ASSUME NEW a \in Aircraft, WriteState(a) \/ Expire(a) PROVE UNCHANGED Feed!feedVars
    BY <2>4 DEF WriteState, Expire, feedVars, Feed!feedVars
  <2>5. CASE Move \/ ServeReload \/ OnResumeFailed \/ Draw \/ Click \/ UNCHANGED vars
    BY <2>5 DEF Move, ServeReload, OnResumeFailed, Draw, Click, vars, feedVars, Feed!feedVars
  <2>6. ASSUME NEW r \in reloads, Land(r) PROVE UNCHANGED Feed!feedVars
    BY <2>6 DEF Land, feedVars, Feed!feedVars
  <2>. QED
    BY <1>2, <2>1, <2>2, <2>3, <2>4, <2>5, <2>6 DEF Next
<1>. QED
  BY <1>1, <1>2, MapCorrect, PTL DEF Spec, Feed!Spec
=============================================================================
