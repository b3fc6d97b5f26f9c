------------------------------ MODULE WSGateway ------------------------------
(***************************************************************************)
(* The live path of the API gateway: the FLIGHTS_UPDATES stream with its   *)
(* retention window, the gateway's live tail, the hub that fans updates    *)
(* out to bounded per-client buffers, the WebSocket handshake with its     *)
(* resume replay, the drain loop, and the browser's FlightSocket, which    *)
(* remembers the last sequence it handled and resumes from it.             *)
(*                                                                         *)
(* cmd/apigateway/ws_gateway.go, ws_hub.go, ws_protocol.go,                *)
(* internal/natsutil/flighttail.go, web/src/api/ws.ts.                     *)
(*                                                                         *)
(* A published FlightState is abstracted to the map cell its position      *)
(* falls in, and a bounding box to the set of cells it contains.  The      *)
(* connection is a FIFO from the gateway to the client and one back; a     *)
(* dropped connection loses whatever was still in flight, in either        *)
(* direction.                                                              *)
(***************************************************************************)
EXTENDS Integers, Sequences

CONSTANTS
  Clients,     \* browser tabs, each with one FlightSocket
  Cells,       \* positions, as far as a bounding box can tell them apart
  Undecodable, \* the payload of a message that does not unmarshal
  Payloads,    \* what may be published: cells, possibly Undecodable
  Viewports,   \* the bounding boxes a client may ask for
  NoSeq,       \* FlightSocket.lastSeq = undefined / ResumeFromSeq = nil
  BufSize,     \* wsSendBufferSize
  MaxBacklog,  \* wsMaxResumeBacklog
  MaxSeq,      \* bound: messages published in a behaviour
  MaxPans      \* bound: viewport updates in flight on one connection

ASSUME PayloadsAssumption  == Payloads \subseteq Cells \cup {Undecodable}
ASSUME DecodeAssumption    == Undecodable \notin Cells
ASSUME ViewportsAssumption == Viewports \subseteq SUBSET Cells
ASSUME NoSeqAssumption     == NoSeq \notin Nat
ASSUME BoundsAssumption    ==
  /\ BufSize \in Nat \ {0} /\ MaxBacklog \in Nat
  /\ MaxSeq \in Nat /\ MaxPans \in Nat

VARIABLES
  log,        \* every message ever published; the index is its sequence
  first,      \* the stream's FirstSeq: messages below it have aged out
  tail,       \* last sequence the live tail handed to hub.broadcast
  hub,        \* wsHub.clients
  pc,         \* how far the gateway's handler of the connection has got
  bbox,       \* wsClient.bbox
  send,       \* wsClient.send
  resumeFrom, \* msg.ResumeFromSeq of the connection's first subscribe
  head,       \* headSeq
  todo,       \* replayed messages still to be written
  delivered,  \* lastDeliveredSeq
  down,       \* server messages written and not yet handled by the client
  up,         \* viewport updates sent and not yet read by the gateway
  lastSeq,    \* FlightSocket.lastSeq
  view,       \* FlightSocket.bbox
  status,     \* FlightSocket's ConnectionStatus
  recv,       \* history: sequences handed to onFlightUpdate, in order
  base,       \* history: where the promise of a gapless stream starts
  asked,      \* history: every viewport the client subscribed with
  overflow,   \* history: sequences dropped because send was full
  skipped,    \* history: sequences a resume replay did not fetch
  aged        \* history: sequences that aged out before being broadcast

streamVars  == <<log, first, tail>>
serverVars  == <<hub, bbox, send, resumeFrom, head, todo, delivered>>
clientVars  == <<lastSeq, view, status, recv, base, asked>>
historyVars == <<overflow, skipped, aged>>
vars == <<streamVars, serverVars, pc, down, up, clientVars, historyVars>>

Larger(a, b)  == IF a > b THEN a ELSE b
Smaller(a, b) == IF a < b THEN a ELSE b

LastSeq == Len(log)
Contains(box, s) == log[s] \in box

Elems(q) == {q[i] : i \in DOMAIN q}

PCs == {"closed", "accepted", "registered", "resuming", "fetching",
        "replaying", "acking", "serving"}

Subscribed(s)   == [type |-> "subscribed", seq |-> s]
FlightUpdate(s) == [type |-> "flight_update", seq |-> s]
ResumeFailed    == [type |-> "resume_failed", seq |-> 0]
ServerMessages  ==
  [type: {"subscribed", "flight_update", "resume_failed"}, seq: Nat]

(***************************************************************************)
(* The initial state: an empty stream and no connections.                  *)
(***************************************************************************)
Init ==
  /\ log = <<>> /\ first = 1 /\ tail = 0
  /\ hub = {}
  /\ pc = [c \in Clients |-> "closed"]
  /\ view \in [Clients -> Viewports]
  /\ bbox = view
  /\ asked = [c \in Clients |-> {}]
  /\ send = [c \in Clients |-> <<>>]
  /\ resumeFrom = [c \in Clients |-> NoSeq]
  /\ head = [c \in Clients |-> 0]
  /\ todo = [c \in Clients |-> {}]
  /\ delivered = [c \in Clients |-> 0]
  /\ down = [c \in Clients |-> <<>>]
  /\ up = [c \in Clients |-> <<>>]
  /\ lastSeq = [c \in Clients |-> NoSeq]
  /\ status = [c \in Clients |-> "connecting"]
  /\ recv = [c \in Clients |-> <<>>]
  /\ base = [c \in Clients |-> 0]
  /\ overflow = [c \in Clients |-> {}]
  /\ skipped = [c \in Clients |-> {}]
  /\ aged = {}

-----------------------------------------------------------------------------
(***************************************************************************)
(* The stream and the live tail.                                           *)
(***************************************************************************)

(* The normalizer publishes an update. *)
Publish ==
  /\ LastSeq < MaxSeq
  /\ \E p \in Payloads : log' = Append(log, p)
  /\ UNCHANGED <<first, tail, serverVars, pc, down, up, clientVars, historyVars>>

(* MaxAge: the oldest retained message ages out. *)
AgeOut ==
  /\ first <= LastSeq
  /\ first' = first + 1
  /\ UNCHANGED <<log, tail, serverVars, pc, down, up, clientVars, historyVars>>

(* Mutants of the next two: a client registered only after its handshake,  *)
(* no viewport filter, and a capacity off by one.                          *)
WantedLate(c, s) == c \in hub /\ pc[c] = "serving" /\ log[s] \in bbox[c]
WantedAnywhere(c, s) == c \in hub /\ log[s] \in Cells
HasRoomForOneMore(c) == Len(send[c]) <= BufSize

(* hub.broadcast for one client: filter by its viewport, and drop the      *)
(* message rather than block when its buffer is full.                      *)
Wanted(c, s) == c \in hub /\ Contains(bbox[c], s)
HasRoom(c) == Len(send[c]) < BufSize

(* FlightStateTailReader.Run: the ordered consumer hands over the next      *)
(* retained message.  An undecodable one is skipped: it is in no bounding   *)
(* box.                                                                     *)
NextRetained == Larger(tail + 1, first)
Broadcast ==
  LET s == NextRetained IN
  /\ s <= LastSeq
  /\ tail' = s
  /\ aged' = aged \cup (tail + 1 .. s - 1)
  /\ send' = [c \in Clients |->
       IF Wanted(c, s) /\ HasRoom(c) THEN Append(send[c], s) ELSE send[c]]
  /\ overflow' = [c \in Clients |->
       IF Wanted(c, s) /\ ~HasRoom(c) THEN overflow[c] \cup {s} ELSE overflow[c]]
  /\ UNCHANGED <<log, first, hub, bbox, resumeFrom, head, todo, delivered,
                 pc, down, up, clientVars, skipped>>

-----------------------------------------------------------------------------
(***************************************************************************)
(* The gateway's handler of one connection.                                *)
(***************************************************************************)

Write(c, m) == down' = [down EXCEPT ![c] = Append(@, m)]
Goto(c, from, to) == pc[c] = from /\ pc' = [pc EXCEPT ![c] = to]

(* handshake: read the subscribe, SetBBox, hub.register. *)
Register(c) ==
  /\ Goto(c, "accepted", "registered")
  /\ hub' = hub \cup {c}
  /\ send' = [send EXCEPT ![c] = <<>>]
  /\ UNCHANGED <<streamVars, bbox, resumeFrom, head, todo, delivered,
                 down, up, clientVars, historyVars>>

(* handshake: FlightsUpdatesHeadSequence, after the registration. *)
ReadHead(c) ==
  /\ Goto(c, "registered", IF resumeFrom[c] = NoSeq THEN "acking" ELSE "resuming")
  /\ head' = [head EXCEPT ![c] = LastSeq]
  /\ delivered' = [delivered EXCEPT ![c] = LastSeq]
  /\ UNCHANGED <<streamVars, hub, bbox, send, resumeFrom, todo,
                 down, up, clientVars, historyVars>>

(* replayResume, fromSeq >= headSeq: there is nothing to replay. *)
ResumeNothing(c) ==
  /\ Goto(c, "resuming", "acking")
  /\ resumeFrom[c] >= head[c]
  /\ delivered' = [delivered EXCEPT ![c] = resumeFrom[c]]
  /\ UNCHANGED <<streamVars, hub, bbox, send, resumeFrom, head, todo,
                 down, up, clientVars, historyVars>>

WithinCap(c) == head[c] - resumeFrom[c] <= MaxBacklog
Retained(c) == resumeFrom[c] >= first - 1

(* replayResume gives up and says so: the gap exceeds the cap or is no     *)
(* longer retained, or JetStream answers with an error.                    *)
ResumeRefused(c) ==
  /\ \/ /\ Goto(c, "resuming", "acking")
        /\ resumeFrom[c] < head[c]
     \/ Goto(c, "fetching", "acking")
  /\ Write(c, ResumeFailed)
  /\ delivered' = [delivered EXCEPT ![c] = head[c]]
  /\ UNCHANGED <<streamVars, hub, bbox, send, resumeFrom, head, todo,
                 up, clientVars, historyVars>>

(* replayResume: the gap is within the cap and NewFlightStateResumeReader  *)
(* finds it retained.                                                      *)
OpenReader(c) ==
  /\ Goto(c, "resuming", "fetching")
  /\ resumeFrom[c] < head[c]
  /\ WithinCap(c)
  /\ Retained(c)
  /\ UNCHANGED <<streamVars, serverVars, down, up, clientVars, historyVars>>

(* FetchBacklog asks for headSeq-fromSeq messages and keeps what arrived   *)
(* before the timeout.  Messages that aged out after the retention check   *)
(* are passed over by the consumer, so the batch may reach past headSeq,   *)
(* and what was passed over may lie past it too.                           *)
Oldest(c) == Larger(resumeFrom[c] + 1, first)
Decoded(from, to) == {s \in from .. to : log[s] \in Cells}

FetchBacklog(c) ==
  LET from  == resumeFrom[c]
      limit == Smaller(Oldest(c) + (head[c] - from) - 1, LastSeq)
  IN
  /\ Goto(c, "fetching", "replaying")
  /\ \E hi \in (Oldest(c) - 1) .. limit :
       LET backlog == Decoded(Oldest(c), hi) IN
       /\ \E last \in backlog \cup {from} :
            /\ \A s \in backlog : s <= last
            /\ delivered' = [delivered EXCEPT ![c] = last]
       /\ todo' = [todo EXCEPT ![c] = {s \in backlog : Contains(bbox[c], s)}]
       /\ skipped' = [skipped EXCEPT ![c] = @ \cup
                         ((from + 1 .. Larger(head[c], hi)) \ (Oldest(c) .. hi))]
  /\ UNCHANGED <<streamVars, hub, bbox, send, resumeFrom, head,
                 down, up, clientVars, overflow, aged>>

(* replayResume: write the next backlog message. *)
Replay(c) ==
  /\ pc[c] = "replaying"
  /\ \E s \in todo[c] :
       /\ \A t \in todo[c] : s <= t
       /\ Write(c, FlightUpdate(s))
       /\ todo' = [todo EXCEPT ![c] = @ \ {s}]
  /\ UNCHANGED <<streamVars, hub, bbox, send, resumeFrom, head, delivered,
                 pc, up, clientVars, historyVars>>

ReplayDone(c) ==
  /\ Goto(c, "replaying", "acking")
  /\ todo[c] = {}
  /\ UNCHANGED <<streamVars, serverVars, down, up, clientVars, historyVars>>

(* Mutant: the ack carries headSeq. *)
AcknowledgeHead(c) ==
  /\ Goto(c, "acking", "serving")
  /\ Write(c, Subscribed(head[c]))
  /\ UNCHANGED <<streamVars, serverVars, up, clientVars, historyVars>>

(* handshake: the subscribed ack, carrying lastDeliveredSeq. *)
Acknowledge(c) ==
  /\ Goto(c, "acking", "serving")
  /\ Write(c, Subscribed(delivered[c]))
  /\ UNCHANGED <<streamVars, serverVars, up, clientVars, historyVars>>

(* Mutants: the mark itself, or the update after it, on the wrong side. *)
IsDuplicateStrict(c, s) == s < delivered[c]
IsDuplicateNext(c, s)   == s <= delivered[c] + 1

(* serve: take one message off the buffer; drop it if it is at or below    *)
(* the high-water mark.                                                    *)
IsDuplicate(c, s) == s <= delivered[c]
Drain(c) ==
  /\ pc[c] = "serving"
  /\ send[c] # <<>>
  /\ send' = [send EXCEPT ![c] = Tail(@)]
  /\ LET s == Head(send[c]) IN
       IF IsDuplicate(c, s)
       THEN UNCHANGED <<delivered, down>>
       ELSE /\ Write(c, FlightUpdate(s))
            /\ delivered' = [delivered EXCEPT ![c] = s]
  /\ UNCHANGED <<streamVars, hub, bbox, resumeFrom, head, todo,
                 pc, up, clientVars, historyVars>>

(* readViewportUpdates. *)
SetBBox(c) ==
  /\ pc[c] = "serving"
  /\ up[c] # <<>>
  /\ bbox' = [bbox EXCEPT ![c] = Head(up[c])]
  /\ up' = [up EXCEPT ![c] = Tail(@)]
  /\ UNCHANGED <<streamVars, hub, send, resumeFrom, head, todo, delivered,
                 pc, down, clientVars, historyVars>>

-----------------------------------------------------------------------------
(***************************************************************************)
(* The browser's FlightSocket.                                             *)
(***************************************************************************)

(* open and onopen: subscribe with the current viewport, resuming from     *)
(* lastSeq if there is one.                                                *)
Connect(c) ==
  /\ status[c] # "closed"
  /\ Goto(c, "closed", "accepted")
  /\ resumeFrom' = [resumeFrom EXCEPT ![c] = lastSeq[c]]
  /\ bbox' = [bbox EXCEPT ![c] = view[c]]
  /\ asked' = [asked EXCEPT ![c] = @ \cup {view[c]}]
  /\ UNCHANGED <<streamVars, hub, send, head, todo, delivered, down, up,
                 lastSeq, view, status, recv, base, historyVars>>

Handle(c, type) ==
  /\ down[c] # <<>>
  /\ Head(down[c]).type = type
  /\ down' = [down EXCEPT ![c] = Tail(@)]

(* A sequence of 0 is left out of the JSON (omitempty), and the client     *)
(* keeps the lastSeq it had.                                               *)
OnSubscribed(c) ==
  LET s == Head(down[c]).seq IN
  /\ Handle(c, "subscribed")
  /\ lastSeq' = IF s = 0 THEN lastSeq ELSE [lastSeq EXCEPT ![c] = s]
  /\ base' = IF lastSeq[c] = NoSeq THEN [base EXCEPT ![c] = s] ELSE base
  /\ status' = [status EXCEPT ![c] = "open"]
  /\ UNCHANGED <<streamVars, serverVars, pc, up, view, recv, asked, historyVars>>

OnFlightUpdate(c) ==
  LET s == Head(down[c]).seq IN
  /\ Handle(c, "flight_update")
  /\ lastSeq' = [lastSeq EXCEPT ![c] = s]
  /\ recv' = [recv EXCEPT ![c] = Append(@, s)]
  /\ UNCHANGED <<streamVars, serverVars, pc, up, view, status, base, asked,
                 historyVars>>

OnResumeFailed(c) ==
  /\ Handle(c, "resume_failed")
  /\ lastSeq' = [lastSeq EXCEPT ![c] = NoSeq]
  /\ UNCHANGED <<streamVars, serverVars, pc, up, view, status, recv, base,
                 asked, historyVars>>

(* Mutant: the connection status taken for the state of the socket. *)
SocketSubscribed(c) == status[c] = "open"

SocketOpen(c) == pc[c] # "closed"

(* updateBBox: on an open socket the new viewport is sent at once,         *)
(* otherwise the next subscribe carries it.                                *)
UpdateBBox(c) ==
  /\ status[c] # "closed"
  /\ \E v \in Viewports \ {view[c]} :
       /\ view' = [view EXCEPT ![c] = v]
       /\ IF SocketOpen(c)
          THEN /\ Len(up[c]) < MaxPans
               /\ up' = [up EXCEPT ![c] = Append(@, v)]
               /\ asked' = [asked EXCEPT ![c] = @ \cup {v}]
          ELSE UNCHANGED <<up, asked>>
  /\ UNCHANGED <<streamVars, serverVars, pc, down, lastSeq, status, recv, base,
                 historyVars>>

-----------------------------------------------------------------------------
(***************************************************************************)
(* The end of a connection.                                                *)
(***************************************************************************)

(* Everything in flight is lost, and the wsClient with its buffer is       *)
(* garbage.                                                                *)
Disconnect(S, newStatus) ==
  /\ pc' = [c \in Clients |-> IF c \in S THEN "closed" ELSE pc[c]]
  /\ hub' = hub \ S
  /\ send' = [c \in Clients |-> IF c \in S THEN <<>> ELSE send[c]]
  /\ todo' = [c \in Clients |-> IF c \in S THEN {} ELSE todo[c]]
  /\ down' = [c \in Clients |-> IF c \in S THEN <<>> ELSE down[c]]
  /\ up' = [c \in Clients |-> IF c \in S THEN <<>> ELSE up[c]]
  /\ status' = [c \in Clients |-> IF c \in S THEN newStatus ELSE status[c]]
  /\ UNCHANGED <<log, first, bbox, resumeFrom, head, delivered,
                 lastSeq, view, recv, base, asked, historyVars>>

(* A read or write error, a handshake that fails (no subscribe in time, no *)
(* head sequence), or the network: every one of these paths unregisters.   *)
Drop(c) ==
  /\ pc[c] # "closed"
  /\ Disconnect({c}, "reconnecting")
  /\ UNCHANGED tail

(* FlightSocket.close. *)
Close(c) ==
  /\ status[c] # "closed"
  /\ Disconnect({c}, "closed")
  /\ UNCHANGED tail

(* The gateway restarts: every connection drops, and its new live tail     *)
(* starts after the newest message (DeliverNewPolicy).                     *)
Restart ==
  /\ Disconnect({c \in Clients : pc[c] # "closed"}, "reconnecting")
  /\ tail' = LastSeq

-----------------------------------------------------------------------------
Serve(c) ==
  \/ Register(c) \/ ReadHead(c)
  \/ ResumeNothing(c) \/ ResumeRefused(c) \/ OpenReader(c) \/ FetchBacklog(c)
  \/ Replay(c) \/ ReplayDone(c) \/ Acknowledge(c)
  \/ Drain(c) \/ SetBBox(c)

OnMessage(c) == OnSubscribed(c) \/ OnFlightUpdate(c) \/ OnResumeFailed(c)

Next ==
  \/ Publish \/ AgeOut \/ Broadcast \/ Restart
  \/ \E c \in Clients :
       Serve(c) \/ Connect(c) \/ OnMessage(c) \/ UpdateBBox(c)
       \/ Drop(c) \/ Close(c)

Spec == Init /\ [][Next]_vars

(* The live tail, the handler goroutines, the browser's event loop and its *)
(* reconnect timer keep running.  Nothing is assumed of the network, the   *)
(* normalizer or the user.                                                 *)
FairSpec ==
  /\ Spec
  /\ WF_vars(Broadcast)
  /\ \A c \in Clients :
       /\ WF_vars(Register(c) \/ ReadHead(c) \/ ResumeNothing(c) \/ ResumeRefused(c)
                  \/ OpenReader(c) \/ FetchBacklog(c) \/ Replay(c) \/ ReplayDone(c)
                  \/ Acknowledge(c))
       /\ WF_vars(Drain(c)) /\ WF_vars(SetBBox(c))
       /\ WF_vars(Connect(c)) /\ WF_vars(OnMessage(c))

-----------------------------------------------------------------------------
(***************************************************************************)
(* Properties.                                                             *)
(***************************************************************************)

(* Every variable holds a value of its kind, the gateway's buffer never    *)
(* exceeds wsSendBufferSize, and a handler that is resuming has a sequence *)
(* to resume from.                                                         *)
StreamTypeOK ==
  log \in Seq(Payloads) /\ first \in Nat \ {0} /\ tail \in Nat /\ aged \subseteq Nat
ServerTypeOK ==
  /\ hub \subseteq Clients
  /\ pc \in [Clients -> PCs]
  /\ bbox \in [Clients -> Viewports]
  /\ resumeFrom \in [Clients -> Nat \cup {NoSeq}]
  /\ \A c \in Clients : pc[c] \in {"resuming", "fetching"} => resumeFrom[c] # NoSeq
  /\ head \in [Clients -> Nat] /\ delivered \in [Clients -> Nat]
  /\ todo \in [Clients -> SUBSET Nat]
BufferTypeOK ==
  /\ send \in [Clients -> Seq(Nat)]
  /\ \A c \in Clients : Len(send[c]) <= BufSize
WireTypeOK ==
  /\ down \in [Clients -> Seq(ServerMessages)]
  /\ up \in [Clients -> Seq(Viewports)]
ClientTypeOK ==
  /\ lastSeq \in [Clients -> Nat \cup {NoSeq}]
  /\ view \in [Clients -> Viewports]
  /\ status \in [Clients -> {"connecting", "open", "reconnecting", "closed"}]
  /\ recv \in [Clients -> Seq(Nat)] /\ base \in [Clients -> Nat]
  /\ asked \in [Clients -> SUBSET Viewports]
HistoryTypeOK ==
  overflow \in [Clients -> SUBSET Nat] /\ skipped \in [Clients -> SUBSET Nat]
TypeOK ==
  /\ StreamTypeOK /\ ServerTypeOK /\ BufferTypeOK /\ WireTypeOK
  /\ ClientTypeOK /\ HistoryTypeOK

(* Over all of a client's connections, onFlightUpdate sees strictly        *)
(* increasing sequences: the registration made before the head snapshot,   *)
(* the replay that may reach past the head, and the resumes never deliver  *)
(* an update twice or out of order.                                        *)
Increasing(q) == \A i, j \in DOMAIN q : i < j => q[i] < q[j]
NoDuplicateDelivery == \A c \in Clients : Increasing(recv[c])

(* An update the client should have seen: inside every viewport it asked   *)
(* for, and after the point where its gapless stream began.                *)
Wants(c, s) == \A v \in asked[c] : Contains(v, s)
Due(c, from, upto) == {s \in from + 1 .. upto : Wants(c, s)}
Owed(c, upto) == Due(c, base[c], upto)
Accounted(c) == Elems(recv[c]) \cup overflow[c] \cup skipped[c] \cup aged

(* Once the client resumes from n, everything it was owed up to n has been *)
(* handled, or fell to one of three causes: a full send buffer, a replay   *)
(* that fetched less than the gap, a live tail overtaken by retention.  No *)
(* interleaving of registration, head snapshot, replay and broadcast loses *)
(* an update.                                                              *)
GapsAreAccountedFor ==
  \A c \in Clients :
    lastSeq[c] # NoSeq => Owed(c, lastSeq[c]) \subseteq Accounted(c)

(* The client's resume point moves only forwards, except when a failed     *)
(* resume clears it: the subscribed ack after a replay never takes back    *)
(* what the replay delivered.                                              *)
ResumePointAdvances ==
  [][\A c \in Clients : lastSeq[c] # NoSeq /\ lastSeq'[c] # NoSeq
                          => lastSeq'[c] >= lastSeq[c]]_vars

(* No pan is lost while a connection lives: once the gateway has read the  *)
(* viewport updates still on their way, it filters by the viewport the     *)
(* client shows, whether the pan came before the subscribe, during the     *)
(* handshake or after it.                                                  *)
Agrees(c) ==
  pc[c] # "closed" =>
    view[c] = IF up[c] = <<>> THEN bbox[c] ELSE up[c][Len(up[c])]
ViewportsAgree == \A c \in Clients : Agrees(c)

(* What the gateway, the stream, the wire and the browser do between them  *)
(* is a feed in order: every update handed to onFlightUpdate was published, *)
(* is inside some viewport the client subscribed with, and comes once, in  *)
(* the order of publication, across any number of connections.             *)
Feed == INSTANCE OrderedFeed
ImplementsFeed == Feed!Spec

(* The inductive invariant behind it and behind ViewportsAgree: what waits *)
(* for a client or is on the wire to it is inside some viewport it has     *)
(* subscribed with, and a closed connection holds nothing.                 *)
IsUpdate(m) == m.type = "flight_update"
Inside(c, s) == s \in DOMAIN log /\ \E v \in asked[c] : Contains(v, s)

Filtered(c) ==
  pc[c] # "closed" => bbox[c] \in asked[c] /\ Elems(up[c]) \subseteq asked[c]
Filled(c) ==
  /\ \A s \in Elems(send[c]) \cup todo[c] : Inside(c, s)
  /\ \A m \in Elems(down[c]) : IsUpdate(m) => Inside(c, m.seq)
Emptied(c) ==
  pc[c] = "closed" =>
    /\ c \notin hub /\ send[c] = <<>> /\ todo[c] = {}
    /\ down[c] = <<>> /\ up[c] = <<>>

FeedInv(c) == Filtered(c) /\ Filled(c) /\ Emptied(c) /\ Agrees(c)
AllFeedInv == \A c \in Clients : FeedInv(c)

(* If the connection eventually stays up, the client gets through the      *)
(* handshake and ends with nothing in flight and every update it was owed  *)
(* handled or accounted for.                                               *)
CaughtUp(c) ==
  /\ pc[c] = "serving" /\ status[c] = "open"
  /\ send[c] = <<>> /\ down[c] = <<>>
  /\ Owed(c, LastSeq) \subseteq Accounted(c) \cup (tail + 1 .. first - 1)
EventuallyCaughtUp ==
  \A c \in Clients : <>[](pc[c] # "closed") => <>[]CaughtUp(c)

-----------------------------------------------------------------------------
(***************************************************************************)
(* What a comment in the code says, and the code does not keep.            *)
(***************************************************************************)

(* ws_hub.go: "A dropped message is recoverable: the client can reconnect  *)
(* and resume from the last sequence it actually received."                *)
DroppedIsRecoverable ==
  \A c \in Clients : lastSeq[c] # NoSeq =>
    \A s \in overflow[c] \ Elems(recv[c]) : s > base[c] => s > lastSeq[c]

-----------------------------------------------------------------------------
(***************************************************************************)
(* The inductive invariant behind NoDuplicateDelivery and                  *)
(* ResumePointAdvances: wherever an update is on its way (the replay set,  *)
(* the wire), it is ahead of everything that went before it.               *)
(***************************************************************************)

Carries(m) == m.type # "resume_failed"

(* What the client has handled, and the point it would resume from. *)
Seen(c) == Elems(recv[c]) \cup ({lastSeq[c]} \ {NoSeq})

InOrder(q) ==
  \A i, j \in DOMAIN q :
    i < j /\ Carries(q[i]) /\ Carries(q[j]) =>
      /\ q[i].seq <= q[j].seq
      /\ IsUpdate(q[j]) => q[i].seq < q[j].seq

WireAhead(c) ==
  \A m \in Elems(down[c]), r \in Seen(c) :
    /\ Carries(m) => r <= m.seq
    /\ IsUpdate(m) => r < m.seq

ReplayAhead(c) ==
  \A t \in todo[c] :
    /\ t <= delivered[c]
    /\ \A r \in Seen(c) : r < t
    /\ \A m \in Elems(down[c]) : Carries(m) => m.seq < t

HighWaterAhead(c) ==
  pc[c] \in {"replaying", "acking", "serving"} =>
    /\ \A r \in Seen(c) : r <= delivered[c]
    /\ \A m \in Elems(down[c]) : Carries(m) => m.seq <= delivered[c]

Handshaking == {"accepted", "registered", "resuming", "fetching"}
ResumeAhead(c) ==
  /\ lastSeq[c] # NoSeq => \A r \in Seen(c) : r <= lastSeq[c]
  /\ pc[c] \in Handshaking /\ resumeFrom[c] # NoSeq =>
       \A r \in Seen(c) : r <= resumeFrom[c]
  /\ pc[c] \in {"resuming", "fetching"} => \A r \in Seen(c) : r <= head[c]

Quiet(c) ==
  /\ pc[c] \in Handshaking \cup {"closed"} => down[c] = <<>>
  /\ pc[c] # "replaying" => todo[c] = {}

WithinStream(c) ==
  /\ \A r \in Seen(c) : r <= LastSeq
  /\ \A m \in Elems(down[c]) : m.seq <= LastSeq
  /\ \A t \in todo[c] : t <= LastSeq
  /\ \A s \in Elems(send[c]) : s <= LastSeq
  /\ resumeFrom[c] # NoSeq => resumeFrom[c] <= LastSeq
  /\ delivered[c] <= LastSeq /\ head[c] <= LastSeq

ClientInv(c) ==
  /\ Increasing(recv[c])
  /\ InOrder(down[c]) /\ WireAhead(c) /\ ReplayAhead(c)
  /\ HighWaterAhead(c) /\ ResumeAhead(c) /\ Quiet(c) /\ WithinStream(c)
DeliveryInv == \A c \in Clients : ClientInv(c)

-----------------------------------------------------------------------------
(***************************************************************************)
(* The inductive invariant behind GapsAreAccountedFor, on top of those     *)
(* above.  What the client is owed up to the gateway's high-water mark was *)
(* handled, is under way to the client or is accounted for; what was       *)
(* broadcast past the head snapshot is below the mark, waits in the buffer *)
(* or is accounted for.                                                    *)
(***************************************************************************)

(* Where the gapless stream begins, once what is on the wire is handled:   *)
(* at the subscribed ack, on a connection that resumed nothing.            *)
IsAck(m) == m.type = "subscribed"
Renewed(c) == lastSeq[c] = NoSeq \/ \E m \in Elems(down[c]) : ~Carries(m)
Starts(c) ==
  IF ~Renewed(c) THEN {base[c]}
  ELSE IF pc[c] = "acking" THEN {delivered[c]}
  ELSE IF \E m \in Elems(down[c]) : IsAck(m)
       THEN {m.seq : m \in {x \in Elems(down[c]) : IsAck(x)}}
       ELSE {base[c]}

UnderWay(c) == {m.seq : m \in {x \in Elems(down[c]) : IsUpdate(x)}} \cup todo[c]

Promised(c) ==
  pc[c] \in {"replaying", "acking", "serving"} =>
    \A b \in Starts(c) :
      Due(c, b, Larger(delivered[c], head[c])) \subseteq Accounted(c) \cup UnderWay(c)

Buffered(c) ==
  /\ pc[c] \notin {"closed", "accepted"} => c \in hub
  /\ Increasing(send[c]) /\ \A s \in Elems(send[c]) : s <= tail
  /\ pc[c] \notin {"closed", "accepted", "registered"} =>
       Due(c, head[c], tail) \subseteq
         1 .. delivered[c] \cup Elems(send[c]) \cup overflow[c] \cup aged

(* A refusal comes first on its connection, and an ack before any update   *)
(* unless the connection replays.                                          *)
Ordered(c) ==
  /\ \A i \in DOMAIN down[c] : ~Carries(down[c][i]) => i = 1
  /\ Renewed(c) => \A m, u \in Elems(down[c]) : IsAck(m) /\ IsUpdate(u) => m.seq < u.seq
  /\ pc[c] = "replaying" => ~Renewed(c)
  /\ pc[c] = "acking" /\ Renewed(c) => \A m \in Elems(down[c]) : ~Carries(m)

Resumed(c) ==
  /\ lastSeq[c] # NoSeq => Owed(c, lastSeq[c]) \subseteq Accounted(c)
  /\ pc[c] \in Handshaking => resumeFrom[c] = lastSeq[c]
  /\ pc[c] \in {"resuming", "fetching"} => delivered[c] = head[c]

GapInv(c) == Promised(c) /\ Buffered(c) /\ Ordered(c) /\ Resumed(c)
AllGapInv == tail <= LastSeq /\ \A c \in Clients : GapInv(c)
=============================================================================
