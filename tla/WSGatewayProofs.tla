--------------------------- MODULE WSGatewayProofs ---------------------------
(***************************************************************************)
(* Theorems about WSGateway, for every value of the constants: its types;  *)
(* the order of delivery: no update twice, none out of order, and a resume *)
(* point that only advances; that it implements OrderedFeed; that no pan   *)
(* is lost while a connection lives; and that no update a client is owed   *)
(* goes missing unaccounted for.                                           *)
(***************************************************************************)
EXTENDS WSGateway, SequenceTheorems, TLAPS

LEMMA TypeInit == Init => TypeOK
<1>. SUFFICES ASSUME Init PROVE TypeOK
  OBVIOUS
<1>. USE BoundsAssumption DEF Init
<1>1. StreamTypeOK /\ BufferTypeOK /\ WireTypeOK
  BY DEF StreamTypeOK, BufferTypeOK, WireTypeOK
<1>2. ServerTypeOK /\ ClientTypeOK /\ HistoryTypeOK
  BY DEF ServerTypeOK, ClientTypeOK, HistoryTypeOK, PCs
<1>. QED
  BY <1>1, <1>2 DEF TypeOK

(* One step per action, and under it one per part of the type that the     *)
(* action touches.                                                         *)
LEMMA TypeStep == TypeOK /\ [Next]_vars => TypeOK'
<1>. SUFFICES ASSUME TypeOK, [Next]_vars PROVE TypeOK'
  OBVIOUS
<1>. USE BoundsAssumption DEF TypeOK, LastSeq, streamVars, serverVars,
       clientVars, historyVars
<1>1. ASSUME Publish PROVE TypeOK'
  <2>. USE <1>1 DEF Publish
  <2>1. StreamTypeOK'
    BY DEF StreamTypeOK
  <2>2. ServerTypeOK' /\ BufferTypeOK' /\ WireTypeOK' /\ ClientTypeOK' /\ HistoryTypeOK'
    BY DEF ServerTypeOK, BufferTypeOK, WireTypeOK, ClientTypeOK, HistoryTypeOK
  <2>. QED
    BY <2>1, <2>2
<1>2. ASSUME AgeOut PROVE TypeOK'
  <2>. USE <1>2 DEF AgeOut
  <2>1. StreamTypeOK'
    BY DEF StreamTypeOK
  <2>2. ServerTypeOK' /\ BufferTypeOK' /\ WireTypeOK' /\ ClientTypeOK' /\ HistoryTypeOK'
    BY DEF ServerTypeOK, BufferTypeOK, WireTypeOK, ClientTypeOK, HistoryTypeOK
  <2>. QED
    BY <2>1, <2>2
<1>3. ASSUME Broadcast PROVE TypeOK'
  <2>. USE <1>3 DEF Broadcast, HasRoom, NextRetained, Larger
  <2>1. Larger(tail + 1, first) \in Nat
    BY DEF StreamTypeOK
  <2>2. StreamTypeOK'
    BY <2>1 DEF StreamTypeOK
  <2>3. BufferTypeOK'
    BY <2>1 DEF BufferTypeOK
  <2>4. HistoryTypeOK'
    BY <2>1 DEF HistoryTypeOK
  <2>5. ServerTypeOK' /\ WireTypeOK' /\ ClientTypeOK'
    BY DEF ServerTypeOK, WireTypeOK, ClientTypeOK
  <2>. QED
    BY <2>1, <2>2, <2>3, <2>4, <2>5
<1>4. ASSUME Restart PROVE TypeOK'
  <2>. USE <1>4 DEF Restart, Disconnect
  <2>1. StreamTypeOK'
    BY DEF StreamTypeOK
  <2>2. ServerTypeOK'
    BY DEF ServerTypeOK, PCs
  <2>3. BufferTypeOK'
    BY DEF BufferTypeOK
  <2>4. WireTypeOK'
    BY DEF WireTypeOK, ServerMessages
  <2>5. ClientTypeOK'
    BY DEF ClientTypeOK, ServerMessages
  <2>6. HistoryTypeOK'
    BY DEF HistoryTypeOK
  <2>. QED
    BY <2>1, <2>2, <2>3, <2>4, <2>5, <2>6
<1>5. ASSUME NEW c \in Clients, Register(c) PROVE TypeOK'
  <2>. USE <1>5 DEF Register, Goto
  <2>1. ServerTypeOK'
    BY DEF ServerTypeOK, PCs
  <2>2. BufferTypeOK'
    BY DEF BufferTypeOK
  <2>3. StreamTypeOK' /\ WireTypeOK' /\ ClientTypeOK' /\ HistoryTypeOK'
    BY DEF StreamTypeOK, WireTypeOK, ClientTypeOK, HistoryTypeOK
  <2>. QED
    BY <2>1, <2>2, <2>3
<1>6. ASSUME NEW c \in Clients, ReadHead(c) PROVE TypeOK'
  <2>. USE <1>6 DEF ReadHead, Goto
  <2>1. LastSeq \in Nat
    BY DEF StreamTypeOK
  <2>2. ServerTypeOK'
    BY <2>1 DEF ServerTypeOK, PCs
  <2>3. StreamTypeOK' /\ BufferTypeOK' /\ WireTypeOK' /\ ClientTypeOK' /\ HistoryTypeOK'
    BY DEF StreamTypeOK, BufferTypeOK, WireTypeOK, ClientTypeOK, HistoryTypeOK
  <2>. QED
    BY <2>1, <2>2, <2>3
<1>7. ASSUME NEW c \in Clients, ResumeNothing(c) PROVE TypeOK'
  <2>. USE <1>7 DEF ResumeNothing, Goto
  <2>1. ServerTypeOK'
    BY DEF ServerTypeOK, PCs
  <2>2. StreamTypeOK' /\ BufferTypeOK' /\ WireTypeOK' /\ ClientTypeOK' /\ HistoryTypeOK'
    BY DEF StreamTypeOK, BufferTypeOK, WireTypeOK, ClientTypeOK, HistoryTypeOK
  <2>. QED
    BY <2>1, <2>2
<1>8. ASSUME NEW c \in Clients, ResumeRefused(c) PROVE TypeOK'
  <2>. USE <1>8 DEF ResumeRefused, Goto, Write, ResumeFailed
  <2>1. ServerTypeOK'
    BY DEF ServerTypeOK, PCs
  <2>2. WireTypeOK'
    BY DEF WireTypeOK, ServerMessages
  <2>3. StreamTypeOK' /\ BufferTypeOK' /\ ClientTypeOK' /\ HistoryTypeOK'
    BY DEF StreamTypeOK, BufferTypeOK, ClientTypeOK, HistoryTypeOK
  <2>. QED
    BY <2>1, <2>2, <2>3
<1>9. ASSUME NEW c \in Clients, OpenReader(c) PROVE TypeOK'
  <2>. USE <1>9 DEF OpenReader, Goto
  <2>1. ServerTypeOK'
    BY DEF ServerTypeOK, PCs
  <2>2. StreamTypeOK' /\ BufferTypeOK' /\ WireTypeOK' /\ ClientTypeOK' /\ HistoryTypeOK'
    BY DEF StreamTypeOK, BufferTypeOK, WireTypeOK, ClientTypeOK, HistoryTypeOK
  <2>. QED
    BY <2>1, <2>2
<1>10. ASSUME NEW c \in Clients, FetchBacklog(c) PROVE TypeOK'
  <2>. USE <1>10 DEF FetchBacklog, Goto, Larger
  <2>1. resumeFrom[c] \in Nat /\ LastSeq \in Nat
    BY DEF ServerTypeOK, StreamTypeOK
  <2>2. ServerTypeOK'
    <3>1. PICK last \in Nat, B \in SUBSET Nat :
            /\ delivered' = [delivered EXCEPT ![c] = last]
            /\ todo' = [todo EXCEPT ![c] = B]
      <4>1. Oldest(c) \in Nat
        BY <2>1 DEF StreamTypeOK, Oldest
      <4>2. PICK hi \in Oldest(c) - 1 .. Smaller(Oldest(c) + (head[c] - resumeFrom[c]) - 1, LastSeq) :
              /\ \E last \in Decoded(Oldest(c), hi) \cup {resumeFrom[c]} :
                   delivered' = [delivered EXCEPT ![c] = last]
              /\ todo' = [todo EXCEPT ![c] =
                            {s \in Decoded(Oldest(c), hi) : Contains(bbox[c], s)}]
        OBVIOUS
      <4>3. Decoded(Oldest(c), hi) \subseteq Nat
        BY <4>1 DEF Decoded
      <4>. QED
        BY <2>1, <4>2, <4>3
    <3>2. delivered' \in [Clients -> Nat] /\ todo' \in [Clients -> SUBSET Nat]
      BY <3>1 DEF ServerTypeOK
    <3>3. /\ pc' \in [Clients -> PCs]
          /\ \A d \in Clients : pc'[d] \in {"resuming", "fetching"} => pc[d] \in {"resuming", "fetching"}
      BY DEF ServerTypeOK, PCs
    <3>. QED
      BY <3>2, <3>3 DEF ServerTypeOK
  <2>3. HistoryTypeOK'
    BY <2>1 DEF HistoryTypeOK, ServerTypeOK, StreamTypeOK, Oldest, Smaller
  <2>4. StreamTypeOK' /\ BufferTypeOK' /\ WireTypeOK' /\ ClientTypeOK'
    BY DEF StreamTypeOK, BufferTypeOK, WireTypeOK, ClientTypeOK
  <2>. QED
    BY <2>1, <2>2, <2>3, <2>4
<1>11. ASSUME NEW c \in Clients, Replay(c) PROVE TypeOK'
  <2>. USE <1>11 DEF Replay, Write, FlightUpdate
  <2>1. \A s \in todo[c] : s \in Nat
    BY DEF ServerTypeOK
  <2>2. ServerTypeOK'
    BY <2>1 DEF ServerTypeOK, PCs
  <2>3. WireTypeOK'
    BY <2>1 DEF WireTypeOK, ServerMessages
  <2>4. StreamTypeOK' /\ BufferTypeOK' /\ ClientTypeOK' /\ HistoryTypeOK'
    BY DEF StreamTypeOK, BufferTypeOK, ClientTypeOK, HistoryTypeOK
  <2>. QED
    BY <2>1, <2>2, <2>3, <2>4
<1>12. ASSUME NEW c \in Clients, ReplayDone(c) PROVE TypeOK'
  <2>. USE <1>12 DEF ReplayDone, Goto
  <2>1. ServerTypeOK'
    BY DEF ServerTypeOK, PCs
  <2>2. StreamTypeOK' /\ BufferTypeOK' /\ WireTypeOK' /\ ClientTypeOK' /\ HistoryTypeOK'
    BY DEF StreamTypeOK, BufferTypeOK, WireTypeOK, ClientTypeOK, HistoryTypeOK
  <2>. QED
    BY <2>1, <2>2
<1>13. ASSUME NEW c \in Clients, Acknowledge(c) PROVE TypeOK'
  <2>. USE <1>13 DEF Acknowledge, Goto, Write, Subscribed
  <2>1. delivered[c] \in Nat
    BY DEF ServerTypeOK
  <2>2. ServerTypeOK'
    BY <2>1 DEF ServerTypeOK, PCs
  <2>3. WireTypeOK'
    BY <2>1 DEF WireTypeOK, ServerMessages
  <2>4. StreamTypeOK' /\ BufferTypeOK' /\ ClientTypeOK' /\ HistoryTypeOK'
    BY DEF StreamTypeOK, BufferTypeOK, ClientTypeOK, HistoryTypeOK
  <2>. QED
    BY <2>1, <2>2, <2>3, <2>4
<1>14. ASSUME NEW c \in Clients, Drain(c) PROVE TypeOK'
  <2>. USE <1>14 DEF Drain, Write, FlightUpdate
  <2>1. Head(send[c]) \in Nat /\ Tail(send[c]) \in Seq(Nat) /\ Len(Tail(send[c])) <= BufSize
    BY DEF BufferTypeOK
  <2>2. ServerTypeOK'
    BY <2>1 DEF ServerTypeOK, PCs
  <2>3. BufferTypeOK'
    BY <2>1 DEF BufferTypeOK
  <2>4. WireTypeOK'
    <3>1. [type |-> "flight_update", seq |-> Head(send[c])] \in ServerMessages
      BY <2>1 DEF ServerMessages
    <3>2. CASE IsDuplicate(c, Head(send[c]))
      BY <3>2 DEF WireTypeOK
    <3>3. CASE ~IsDuplicate(c, Head(send[c]))
      <4>1. down' = [down EXCEPT ![c] = Append(@, FlightUpdate(Head(send[c])))]
        BY <3>3
      <4>2. up' = up
        OBVIOUS
      <4>. QED
        BY <3>1, <4>1, <4>2 DEF WireTypeOK
    <3>. QED
      BY <3>2, <3>3
  <2>5. StreamTypeOK' /\ ClientTypeOK' /\ HistoryTypeOK'
    BY DEF StreamTypeOK, ClientTypeOK, HistoryTypeOK
  <2>. QED
    BY <2>1, <2>2, <2>3, <2>4, <2>5
<1>15. ASSUME NEW c \in Clients, SetBBox(c) PROVE TypeOK'
  <2>. USE <1>15 DEF SetBBox
  <2>1. Head(up[c]) \in Viewports /\ Tail(up[c]) \in Seq(Viewports)
    BY DEF WireTypeOK
  <2>2. ServerTypeOK'
    BY <2>1 DEF ServerTypeOK, PCs
  <2>3. WireTypeOK'
    BY <2>1 DEF WireTypeOK, ServerMessages
  <2>4. StreamTypeOK' /\ BufferTypeOK' /\ ClientTypeOK' /\ HistoryTypeOK'
    BY DEF StreamTypeOK, BufferTypeOK, ClientTypeOK, HistoryTypeOK
  <2>. QED
    BY <2>1, <2>2, <2>3, <2>4
<1>16. ASSUME NEW c \in Clients, Connect(c) PROVE TypeOK'
  <2>. USE <1>16 DEF Connect, Goto
  <2>1. /\ lastSeq[c] \in Nat \cup {NoSeq}
        /\ view[c] \in Viewports
    BY DEF ClientTypeOK
  <2>2. ServerTypeOK'
    BY <2>1 DEF ServerTypeOK, PCs
  <2>3. ClientTypeOK'
    BY <2>1 DEF ClientTypeOK, ServerMessages
  <2>4. StreamTypeOK' /\ BufferTypeOK' /\ WireTypeOK' /\ HistoryTypeOK'
    BY DEF StreamTypeOK, BufferTypeOK, WireTypeOK, HistoryTypeOK
  <2>. QED
    BY <2>1, <2>2, <2>3, <2>4
<1>17. ASSUME NEW c \in Clients, OnSubscribed(c) PROVE TypeOK'
  <2>. USE <1>17 DEF OnSubscribed, Handle
  <2>1. Head(down[c]) \in ServerMessages /\ Tail(down[c]) \in Seq(ServerMessages)
    BY DEF WireTypeOK
  <2>2. WireTypeOK'
    BY <2>1 DEF WireTypeOK, ServerMessages
  <2>3. ClientTypeOK'
    BY <2>1 DEF ClientTypeOK, ServerMessages
  <2>4. StreamTypeOK' /\ ServerTypeOK' /\ BufferTypeOK' /\ HistoryTypeOK'
    BY DEF StreamTypeOK, ServerTypeOK, BufferTypeOK, HistoryTypeOK
  <2>. QED
    BY <2>1, <2>2, <2>3, <2>4
<1>18. ASSUME NEW c \in Clients, OnFlightUpdate(c) PROVE TypeOK'
  <2>. USE <1>18 DEF OnFlightUpdate, Handle
  <2>1. Head(down[c]) \in ServerMessages /\ Tail(down[c]) \in Seq(ServerMessages)
    BY DEF WireTypeOK
  <2>2. WireTypeOK'
    BY <2>1 DEF WireTypeOK, ServerMessages
  <2>3. ClientTypeOK'
    BY <2>1 DEF ClientTypeOK, ServerMessages
  <2>4. StreamTypeOK' /\ ServerTypeOK' /\ BufferTypeOK' /\ HistoryTypeOK'
    BY DEF StreamTypeOK, ServerTypeOK, BufferTypeOK, HistoryTypeOK
  <2>. QED
    BY <2>1, <2>2, <2>3, <2>4
<1>19. ASSUME NEW c \in Clients, OnResumeFailed(c) PROVE TypeOK'
  <2>. USE <1>19 DEF OnResumeFailed, Handle
  <2>1. Head(down[c]) \in ServerMessages /\ Tail(down[c]) \in Seq(ServerMessages)
    BY DEF WireTypeOK
  <2>2. WireTypeOK'
    BY <2>1 DEF WireTypeOK, ServerMessages
  <2>3. ClientTypeOK'
    BY <2>1 DEF ClientTypeOK, ServerMessages
  <2>4. StreamTypeOK' /\ ServerTypeOK' /\ BufferTypeOK' /\ HistoryTypeOK'
    BY DEF StreamTypeOK, ServerTypeOK, BufferTypeOK, HistoryTypeOK
  <2>. QED
    BY <2>1, <2>2, <2>3, <2>4
<1>20. ASSUME NEW c \in Clients, UpdateBBox(c) PROVE TypeOK'
  <2>. USE <1>20 DEF UpdateBBox
  <2>1. WireTypeOK'
    <3>1. PICK v \in Viewports : up' = up \/ up' = [up EXCEPT ![c] = Append(@, v)]
      OBVIOUS
    <3>2. CASE up' = up
      BY <3>2 DEF WireTypeOK
    <3>3. CASE up' = [up EXCEPT ![c] = Append(@, v)]
      BY <3>3 DEF WireTypeOK
    <3>. QED
      BY <3>1, <3>2, <3>3
  <2>2. ClientTypeOK'
    <3>1. PICK v \in Viewports :
            /\ view' = [view EXCEPT ![c] = v]
            /\ asked' = asked \/ asked' = [asked EXCEPT ![c] = @ \cup {v}]
      OBVIOUS
    <3>2. view' \in [Clients -> Viewports]
      BY <3>1 DEF ClientTypeOK
    <3>3. asked' \in [Clients -> SUBSET Viewports]
      <4>1. CASE asked' = asked
        BY <4>1 DEF ClientTypeOK
      <4>2. CASE asked' = [asked EXCEPT ![c] = @ \cup {v}]
        BY <4>2 DEF ClientTypeOK
      <4>. QED
        BY <3>1, <4>1, <4>2
    <3>. QED
      BY <3>2, <3>3 DEF ClientTypeOK
  <2>3. StreamTypeOK' /\ ServerTypeOK' /\ BufferTypeOK' /\ HistoryTypeOK'
    BY DEF StreamTypeOK, ServerTypeOK, BufferTypeOK, HistoryTypeOK
  <2>. QED
    BY <2>1, <2>2, <2>3
<1>21. ASSUME NEW c \in Clients, Drop(c) PROVE TypeOK'
  <2>. USE <1>21 DEF Drop, Disconnect
  <2>1. ServerTypeOK'
    BY DEF ServerTypeOK, PCs
  <2>2. BufferTypeOK'
    BY DEF BufferTypeOK
  <2>3. WireTypeOK'
    BY DEF WireTypeOK, ServerMessages
  <2>4. ClientTypeOK'
    BY DEF ClientTypeOK, ServerMessages
  <2>5. StreamTypeOK' /\ HistoryTypeOK'
    BY DEF StreamTypeOK, HistoryTypeOK
  <2>. QED
    BY <2>1, <2>2, <2>3, <2>4, <2>5
<1>22. ASSUME NEW c \in Clients, Close(c) PROVE TypeOK'
  <2>. USE <1>22 DEF Close, Disconnect
  <2>1. ServerTypeOK'
    BY DEF ServerTypeOK, PCs
  <2>2. BufferTypeOK'
    BY DEF BufferTypeOK
  <2>3. WireTypeOK'
    BY DEF WireTypeOK, ServerMessages
  <2>4. ClientTypeOK'
    BY DEF ClientTypeOK, ServerMessages
  <2>5. StreamTypeOK' /\ HistoryTypeOK'
    BY DEF StreamTypeOK, HistoryTypeOK
  <2>. QED
    BY <2>1, <2>2, <2>3, <2>4, <2>5
<1>23. CASE UNCHANGED vars
  BY <1>23 DEF vars, StreamTypeOK, ServerTypeOK, BufferTypeOK, WireTypeOK,
    ClientTypeOK, HistoryTypeOK
<1>. QED
  BY <1>1, <1>2, <1>3, <1>4, <1>5, <1>6, <1>7, <1>8, <1>9, <1>10, <1>11, <1>12, <1>13, <1>14, <1>15, <1>16, <1>17, <1>18, <1>19, <1>20, <1>21, <1>22, <1>23
  DEF Next, Serve, OnMessage

(* Every reachable state is well typed: no buffer outgrows its bound, and  *)
(* no handler replays a resume that the client did not ask for.            *)
THEOREM TypeCorrect == Spec => []TypeOK
<1>. QED
  BY TypeInit, TypeStep, PTL DEF Spec

-----------------------------------------------------------------------------
(***************************************************************************)
(* The order of delivery.                                                  *)
(***************************************************************************)

LEMMA ElemsAppend ==
  ASSUME NEW S, NEW q \in Seq(S), NEW e \in S
  PROVE  Elems(Append(q, e)) = Elems(q) \cup {e}
<1>1. \A i \in DOMAIN q : Append(q, e)[i] = q[i] /\ i \in DOMAIN Append(q, e)
  OBVIOUS
<1>2. Append(q, e)[Len(q) + 1] = e /\ Len(q) + 1 \in DOMAIN Append(q, e)
  OBVIOUS
<1>3. \A i \in DOMAIN Append(q, e) : i \in DOMAIN q \/ i = Len(q) + 1
  OBVIOUS
<1>. QED
  BY <1>1, <1>2, <1>3 DEF Elems

LEMMA ElemsTail ==
  ASSUME NEW S, NEW q \in Seq(S), q # <<>>
  PROVE  /\ Elems(Tail(q)) \subseteq Elems(q)
         /\ Head(q) \in Elems(q) /\ Head(q) = q[1]
         /\ \A i \in DOMAIN Tail(q) : i + 1 \in DOMAIN q /\ Tail(q)[i] = q[i + 1]
<1>1. \A i \in DOMAIN Tail(q) : i + 1 \in DOMAIN q /\ Tail(q)[i] = q[i + 1]
  OBVIOUS
<1>2. Head(q) = q[1] /\ 1 \in DOMAIN q
  OBVIOUS
<1>. QED
  BY <1>1, <1>2 DEF Elems

LEMMA ElemsEmpty == Elems(<<>>) = {}
  BY DEF Elems

LEMMA ElemsType ==
  ASSUME NEW S, NEW q \in Seq(S)
  PROVE  Elems(q) \subseteq S
  BY DEF Elems

LEMMA IncreasingAppend ==
  ASSUME NEW q \in Seq(Nat), NEW e \in Nat,
         Increasing(q), \A r \in Elems(q) : r < e
  PROVE  Increasing(Append(q, e))
<1>1. \A i \in DOMAIN q : q[i] < e
  BY DEF Elems
<1>2. \A i \in DOMAIN Append(q, e) :
        \/ i \in DOMAIN q /\ Append(q, e)[i] = q[i]
        \/ i = Len(q) + 1 /\ Append(q, e)[i] = e
  OBVIOUS
<1>3. DOMAIN q = 1 .. Len(q) /\ Len(q) \in Nat
  OBVIOUS
<1>. QED
  BY <1>1, <1>2, <1>3 DEF Increasing

(* A message is in order behind a queue whose carriers it is ahead of. *)
LEMMA InOrderAppend ==
  ASSUME NEW q \in Seq(ServerMessages), NEW m \in ServerMessages, InOrder(q),
         Carries(m) => \A x \in Elems(q) : Carries(x) =>
                          x.seq <= m.seq /\ (IsUpdate(m) => x.seq < m.seq)
  PROVE  InOrder(Append(q, m))
<1>1. \A i \in DOMAIN q : Carries(m) /\ Carries(q[i]) =>
         q[i].seq <= m.seq /\ (IsUpdate(m) => q[i].seq < m.seq)
  BY DEF Elems
<1>2. \A i \in DOMAIN Append(q, m) :
        \/ i \in DOMAIN q /\ Append(q, m)[i] = q[i]
        \/ i = Len(q) + 1 /\ Append(q, m)[i] = m
  OBVIOUS
<1>3. DOMAIN q = 1 .. Len(q) /\ Len(q) \in Nat
  OBVIOUS
<1>. QED
  BY <1>1, <1>2, <1>3 DEF InOrder

LEMMA InOrderTail ==
  ASSUME NEW q \in Seq(ServerMessages), q # <<>>, InOrder(q)
  PROVE  /\ InOrder(Tail(q))
         /\ Carries(Head(q)) => \A x \in Elems(Tail(q)) : Carries(x) =>
              Head(q).seq <= x.seq /\ (IsUpdate(x) => Head(q).seq < x.seq)
<1>1. \A i \in DOMAIN Tail(q) : i + 1 \in DOMAIN q /\ Tail(q)[i] = q[i + 1]
  BY ElemsTail
<1>2. Head(q) = q[1] /\ 1 \in DOMAIN q
  OBVIOUS
<1>3. DOMAIN q \subseteq Nat /\ DOMAIN Tail(q) \subseteq Nat \ {0}
  OBVIOUS
<1>4. InOrder(Tail(q))
  BY <1>1, <1>3 DEF InOrder
<1>5. ASSUME Carries(Head(q)), NEW i \in DOMAIN Tail(q), Carries(Tail(q)[i])
      PROVE  /\ Head(q).seq <= Tail(q)[i].seq
             /\ IsUpdate(Tail(q)[i]) => Head(q).seq < Tail(q)[i].seq
  <2>1. 1 < i + 1
    BY <1>3
  <2>. QED
    BY <1>1, <1>2, <1>5, <2>1 DEF InOrder
<1>. QED
  BY <1>4, <1>5 DEF Elems

-----------------------------------------------------------------------------
(* What TypeOK says of one client. *)
LEMMA ClientFacts ==
  ASSUME TypeOK, NEW d \in Clients
  PROVE  /\ down[d] \in Seq(ServerMessages) /\ Elems(down[d]) \subseteq ServerMessages
         /\ recv[d] \in Seq(Nat) /\ Elems(recv[d]) \subseteq Nat
         /\ send[d] \in Seq(Nat) /\ Elems(send[d]) \subseteq Nat
         /\ todo[d] \subseteq Nat /\ delivered[d] \in Nat /\ head[d] \in Nat
         /\ lastSeq[d] \in Nat \cup {NoSeq} /\ resumeFrom[d] \in Nat \cup {NoSeq}
         /\ Seen(d) \subseteq Nat /\ LastSeq \in Nat /\ pc[d] \in PCs
         /\ pc[d] \in {"resuming", "fetching"} => resumeFrom[d] \in Nat
<1>. USE DEF TypeOK
<1>1. down[d] \in Seq(ServerMessages) /\ recv[d] \in Seq(Nat) /\ send[d] \in Seq(Nat)
  BY DEF WireTypeOK, ClientTypeOK, BufferTypeOK
<1>2. /\ Elems(down[d]) \subseteq ServerMessages
      /\ Elems(recv[d]) \subseteq Nat /\ Elems(send[d]) \subseteq Nat
  BY <1>1, ElemsType
<1>3. /\ todo[d] \subseteq Nat /\ delivered[d] \in Nat /\ head[d] \in Nat
      /\ resumeFrom[d] \in Nat \cup {NoSeq} /\ pc[d] \in PCs
      /\ pc[d] \in {"resuming", "fetching"} => resumeFrom[d] \in Nat
  BY DEF ServerTypeOK
<1>4. lastSeq[d] \in Nat \cup {NoSeq} /\ LastSeq \in Nat
  BY DEF ClientTypeOK, StreamTypeOK, LastSeq
<1>. QED
  BY <1>1, <1>2, <1>3, <1>4 DEF Seen

(* A step that leaves client d alone, but for what waits in its buffer,    *)
(* keeps d's invariant.                                                    *)
Untouched(d) ==
  /\ pc'[d] = pc[d] /\ down'[d] = down[d] /\ recv'[d] = recv[d]
  /\ lastSeq'[d] = lastSeq[d] /\ todo'[d] = todo[d] /\ delivered'[d] = delivered[d]
  /\ head'[d] = head[d] /\ resumeFrom'[d] = resumeFrom[d]

LEMMA Frame ==
  ASSUME TypeOK, TypeOK', NEW d \in Clients, ClientInv(d), Untouched(d),
         LastSeq <= LastSeq', \A s \in Elems(send'[d]) : s <= LastSeq'
  PROVE  ClientInv(d)'
<1>1. /\ Seen(d) \subseteq Nat /\ Elems(down[d]) \subseteq ServerMessages
      /\ todo[d] \subseteq Nat /\ delivered[d] \in Nat /\ head[d] \in Nat
      /\ resumeFrom[d] \in Nat \cup {NoSeq} /\ LastSeq \in Nat
  BY ClientFacts
<1>2. LastSeq' \in Nat
  BY DEF TypeOK, StreamTypeOK, LastSeq
<1>3. Seen(d)' = Seen(d)
  BY DEF Seen, Untouched
<1>4. \A m \in ServerMessages : m.seq \in Nat
  BY DEF ServerMessages
<1>5. WithinStream(d)'
  BY <1>1, <1>2, <1>3, <1>4 DEF WithinStream, ClientInv, Untouched
<1>6. Increasing(recv[d])' /\ InOrder(down[d])' /\ Quiet(d)'
  BY DEF ClientInv, Untouched, Quiet
<1>7. WireAhead(d)' /\ ReplayAhead(d)'
  BY <1>3 DEF ClientInv, Untouched, WireAhead, ReplayAhead
<1>8. HighWaterAhead(d)' /\ ResumeAhead(d)'
  BY <1>3 DEF ClientInv, Untouched, HighWaterAhead, ResumeAhead
<1>. QED
  BY <1>5, <1>6, <1>7, <1>8 DEF ClientInv

(* A handler step before anything is on the wire: the client is as it was, *)
(* and the replay set, if one was fetched, lies between what the client    *)
(* has seen and the high-water mark.                                       *)
LEMMA QuietStep ==
  ASSUME TypeOK, TypeOK', NEW d \in Clients, ClientInv(d),
         recv'[d] = recv[d], lastSeq'[d] = lastSeq[d], LastSeq' = LastSeq,
         down'[d] = <<>>, Elems(send'[d]) \subseteq Elems(send[d]),
         Quiet(d)', ResumeAhead(d)',
         \A t \in todo'[d] : t <= delivered'[d] /\ \A r \in Seen(d) : r < t,
         pc'[d] \in {"replaying", "acking", "serving"} =>
           \A r \in Seen(d) : r <= delivered'[d],
         delivered'[d] <= LastSeq, head'[d] <= LastSeq,
         resumeFrom'[d] # NoSeq => resumeFrom'[d] <= LastSeq
  PROVE  ClientInv(d)'
<1>1. /\ Seen(d) \subseteq Nat /\ LastSeq \in Nat
      /\ Elems(send[d]) \subseteq Nat
  BY ClientFacts
<1>2. Seen(d)' = Seen(d) /\ Elems(down'[d]) = {}
  BY ElemsEmpty DEF Seen
<1>3. todo'[d] \subseteq Nat /\ delivered'[d] \in Nat
  BY DEF TypeOK, ServerTypeOK
<1>4. InOrder(down[d])' /\ WireAhead(d)' /\ ReplayAhead(d)' /\ HighWaterAhead(d)'
  BY <1>2 DEF InOrder, WireAhead, ReplayAhead, HighWaterAhead
<1>5. WithinStream(d)'
  BY <1>1, <1>2, <1>3 DEF WithinStream, ClientInv
<1>. QED
  BY <1>4, <1>5 DEF ClientInv

(* Writing one more message, ahead of everything the client may see first. *)
LEMMA WriteStep ==
  ASSUME TypeOK, TypeOK', NEW d \in Clients, ClientInv(d), NEW m \in ServerMessages,
         recv'[d] = recv[d], lastSeq'[d] = lastSeq[d], LastSeq' = LastSeq,
         resumeFrom'[d] = resumeFrom[d], head'[d] = head[d],
         down'[d] = Append(down[d], m), Elems(send'[d]) \subseteq Elems(send[d]),
         todo'[d] \subseteq todo[d], pc[d] # "replaying" => todo'[d] = {},
         pc'[d] \in {"replaying", "acking", "serving"},
         pc'[d] # "replaying" => todo'[d] = {},
         m.seq <= LastSeq, delivered'[d] <= LastSeq,
         \A r \in Seen(d) : r <= delivered'[d],
         \A x \in Elems(down[d]) : Carries(x) => x.seq <= delivered'[d],
         \A t \in todo'[d] : t <= delivered'[d],
         Carries(m) =>
           /\ m.seq <= delivered'[d]
           /\ \A t \in todo'[d] : m.seq < t
           /\ \A r \in Seen(d) : r <= m.seq /\ (IsUpdate(m) => r < m.seq)
           /\ \A x \in Elems(down[d]) : Carries(x) =>
                x.seq <= m.seq /\ (IsUpdate(m) => x.seq < m.seq),
         IsUpdate(m) => Carries(m)
  PROVE  ClientInv(d)'
<1>1. /\ Seen(d) \subseteq Nat /\ LastSeq \in Nat /\ Elems(send[d]) \subseteq Nat
      /\ down[d] \in Seq(ServerMessages) /\ todo[d] \subseteq Nat
  BY ClientFacts
<1>2. Seen(d)' = Seen(d) /\ Elems(down'[d]) = Elems(down[d]) \cup {m}
  BY <1>1, ElemsAppend DEF Seen
<1>3. InOrder(down[d])'
  BY <1>1, InOrderAppend DEF ClientInv
<1>4. WireAhead(d)'
  BY <1>2 DEF WireAhead, ClientInv
<1>5. ReplayAhead(d)'
  BY <1>2 DEF ReplayAhead, ClientInv
<1>6. HighWaterAhead(d)' /\ Quiet(d)'
  BY <1>2 DEF HighWaterAhead, Quiet, Handshaking
<1>7. ResumeAhead(d)'
  BY <1>2 DEF ResumeAhead, ClientInv, Handshaking
<1>8. WithinStream(d)'
  BY <1>1, <1>2 DEF WithinStream, ClientInv
<1>. QED
  BY <1>3, <1>4, <1>5, <1>6, <1>7, <1>8 DEF ClientInv

(* The client takes the first message off the wire. *)
LEMMA ReadStep ==
  ASSUME TypeOK, TypeOK', NEW d \in Clients, ClientInv(d), down[d] # <<>>,
         down'[d] = Tail(down[d]), LastSeq' = LastSeq,
         pc'[d] = pc[d], todo'[d] = todo[d], delivered'[d] = delivered[d],
         head'[d] = head[d], resumeFrom'[d] = resumeFrom[d], send'[d] = send[d],
         Increasing(recv'[d]),
         Seen(d)' \subseteq Seen(d) \cup {Head(down[d]).seq},
         Head(down[d]).seq \in Seen(d)' => Carries(Head(down[d])) \/ Head(down[d]).seq \in Seen(d),
         lastSeq'[d] # NoSeq => \A r \in Seen(d)' : r <= lastSeq'[d]
  PROVE  ClientInv(d)'
<1>. DEFINE h == Head(down[d])
<1>1. /\ Seen(d) \subseteq Nat /\ LastSeq \in Nat /\ todo[d] \subseteq Nat
      /\ down[d] \in Seq(ServerMessages) /\ Elems(down[d]) \subseteq ServerMessages
      /\ delivered[d] \in Nat
  BY ClientFacts
<1>2. Elems(down'[d]) \subseteq Elems(down[d]) /\ h \in Elems(down[d])
  BY <1>1, ElemsTail
<1>3. /\ InOrder(down'[d])
      /\ Carries(h) => \A x \in Elems(down'[d]) : Carries(x) =>
           h.seq <= x.seq /\ (IsUpdate(x) => h.seq < x.seq)
  BY <1>1, InOrderTail DEF ClientInv
<1>4. \A r \in Seen(d)' : r \in Seen(d) \/ (r = h.seq /\ Carries(h))
  OBVIOUS
<1>5. \A x : IsUpdate(x) => Carries(x)
  BY DEF IsUpdate, Carries
<1>6. WireAhead(d)'
  BY <1>2, <1>3, <1>4, <1>5 DEF WireAhead, ClientInv
<1>7. ReplayAhead(d)'
  BY <1>2, <1>4 DEF ReplayAhead, ClientInv
<1>8. HighWaterAhead(d)'
  BY <1>2, <1>4 DEF HighWaterAhead, ClientInv
<1>9. Quiet(d)' /\ ResumeAhead(d)'
  <2>1. pc[d] \notin Handshaking \cup {"closed"}
    BY DEF ClientInv, Quiet
  <2>2. Quiet(d)'
    BY <2>1 DEF Quiet, ClientInv
  <2>. QED
    BY <2>1, <2>2 DEF ResumeAhead, Handshaking
<1>10. WithinStream(d)'
  BY <1>1, <1>2, <1>4 DEF WithinStream, ClientInv
<1>. QED
  BY <1>3, <1>6, <1>7, <1>8, <1>9, <1>10 DEF ClientInv

(* The connection of d ends. *)
LEMMA EndStep ==
  ASSUME TypeOK, TypeOK', NEW d \in Clients, ClientInv(d),
         pc'[d] = "closed", down'[d] = <<>>, todo'[d] = {}, send'[d] = <<>>,
         recv'[d] = recv[d], lastSeq'[d] = lastSeq[d], LastSeq' = LastSeq,
         delivered'[d] = delivered[d], head'[d] = head[d],
         resumeFrom'[d] = resumeFrom[d]
  PROVE  ClientInv(d)'
<1>1. Seen(d)' = Seen(d) /\ Elems(send'[d]) \subseteq Elems(send[d])
  BY ElemsEmpty DEF Seen
<1>2. Quiet(d)' /\ ResumeAhead(d)'
  BY <1>1 DEF Quiet, ResumeAhead, ClientInv, Handshaking
<1>3. /\ delivered'[d] <= LastSeq /\ head'[d] <= LastSeq
      /\ resumeFrom'[d] # NoSeq => resumeFrom'[d] <= LastSeq
  BY DEF ClientInv, WithinStream
<1>. QED
  BY <1>1, <1>2, <1>3, QuietStep

-----------------------------------------------------------------------------
(* The initial states. *)
LEMMA DeliveryInit == Init => DeliveryInv
<1>. SUFFICES ASSUME Init, NEW d \in Clients PROVE ClientInv(d)
  BY DEF DeliveryInv
<1>1. /\ recv[d] = <<>> /\ down[d] = <<>> /\ send[d] = <<>> /\ todo[d] = {}
      /\ lastSeq[d] = NoSeq /\ resumeFrom[d] = NoSeq /\ delivered[d] = 0
      /\ head[d] = 0 /\ pc[d] = "closed" /\ LastSeq = 0
  BY DEF Init, LastSeq
<1>2. Seen(d) = {} /\ Elems(down[d]) = {} /\ Elems(send[d]) = {}
  BY <1>1, ElemsEmpty DEF Seen
<1>3. Increasing(recv[d]) /\ InOrder(down[d])
  BY <1>1 DEF Increasing, InOrder
<1>4. WireAhead(d) /\ ReplayAhead(d) /\ HighWaterAhead(d) /\ ResumeAhead(d)
  BY <1>1, <1>2 DEF WireAhead, ReplayAhead, HighWaterAhead, ResumeAhead
<1>5. Quiet(d) /\ WithinStream(d)
  BY <1>1, <1>2 DEF Quiet, WithinStream
<1>. QED
  BY <1>3, <1>4, <1>5 DEF ClientInv

(* The steps of the stream and of the hub. *)
LEMMA StreamSteps ==
  ASSUME TypeOK, TypeOK', DeliveryInv, Publish \/ AgeOut \/ Broadcast,
         NEW d \in Clients
  PROVE  ClientInv(d)'
<1>. USE DEF streamVars, serverVars, clientVars, historyVars
<1>1. ClientInv(d) /\ LastSeq \in Nat /\ Elems(send[d]) \subseteq Nat
      /\ send[d] \in Seq(Nat)
  BY ClientFacts DEF DeliveryInv
<1>2. \A s \in Elems(send[d]) : s <= LastSeq
  BY <1>1 DEF ClientInv, WithinStream
<1>3. Untouched(d)
  BY DEF Publish, AgeOut, Broadcast, Untouched
<1>4. CASE Publish
  <2>1. LastSeq' = LastSeq + 1
    <3>1. PICK p \in Payloads : log' = Append(log, p)
      BY <1>4 DEF Publish
    <3>. QED
      BY <3>1 DEF TypeOK, StreamTypeOK, LastSeq
  <2>2. send' = send
    BY <1>4 DEF Publish
  <2>. QED
    BY <1>1, <1>2, <1>3, <2>1, <2>2, Frame
<1>5. CASE AgeOut
  <2>1. LastSeq' = LastSeq /\ send' = send
    BY <1>5 DEF AgeOut, LastSeq
  <2>. QED
    BY <1>1, <1>2, <1>3, <2>1, Frame
<1>6. CASE Broadcast
  <2>1. LastSeq' = LastSeq
    BY <1>6 DEF Broadcast, LastSeq
  <2>2. PICK s : /\ s \in Nat /\ s <= LastSeq
                 /\ send'[d] = send[d] \/ send'[d] = Append(send[d], s)
    <3>1. Larger(tail + 1, first) \in Nat
      BY DEF TypeOK, StreamTypeOK, Larger
    <3>. QED
      BY <1>6, <3>1 DEF Broadcast, NextRetained
  <2>3. \A x \in Elems(send'[d]) : x <= LastSeq'
    <3>1. CASE send'[d] = send[d]
      BY <1>2, <2>1, <3>1
    <3>2. CASE send'[d] = Append(send[d], s)
      <4>1. Elems(send'[d]) = Elems(send[d]) \cup {s}
        BY <1>1, <2>2, <3>2, ElemsAppend
      <4>. QED
        BY <1>2, <2>1, <2>2, <4>1
    <3>. QED
      BY <2>2, <3>1, <3>2
  <2>. QED
    BY <1>1, <1>3, <2>1, <2>3, Frame
<1>. QED
  BY <1>4, <1>5, <1>6

-----------------------------------------------------------------------------
ClientStep(c) ==
  Serve(c) \/ Connect(c) \/ OnMessage(c) \/ UpdateBBox(c) \/ Drop(c) \/ Close(c)

(* A step of one connection leaves the other clients alone. *)
LEMMA OthersUntouched ==
  ASSUME TypeOK, NEW c \in Clients, NEW d \in Clients, d # c, ClientStep(c)
  PROVE  Untouched(d) /\ send'[d] = send[d] /\ LastSeq' = LastSeq
<1>. USE DEF streamVars, serverVars, clientVars, historyVars, Untouched, LastSeq
<1>1. /\ DOMAIN pc = Clients /\ DOMAIN down = Clients /\ DOMAIN recv = Clients
      /\ DOMAIN lastSeq = Clients /\ DOMAIN todo = Clients /\ DOMAIN send = Clients
      /\ DOMAIN delivered = Clients /\ DOMAIN head = Clients
      /\ DOMAIN resumeFrom = Clients
  BY DEF TypeOK, ServerTypeOK, WireTypeOK, ClientTypeOK, BufferTypeOK
<1>2. CASE Register(c)
  BY <1>1, <1>2 DEF Register, Goto
<1>3. CASE ReadHead(c)
  BY <1>1, <1>3 DEF ReadHead, Goto
<1>4. CASE ResumeNothing(c)
  BY <1>1, <1>4 DEF ResumeNothing, Goto
<1>5. CASE ResumeRefused(c)
  BY <1>1, <1>5 DEF ResumeRefused, Goto, Write
<1>6. CASE OpenReader(c)
  BY <1>1, <1>6 DEF OpenReader, Goto
<1>7. CASE FetchBacklog(c)
  BY <1>1, <1>7 DEF FetchBacklog, Goto
<1>8. CASE Replay(c)
  BY <1>1, <1>8 DEF Replay, Write
<1>9. CASE ReplayDone(c)
  BY <1>1, <1>9 DEF ReplayDone, Goto
<1>10. CASE Acknowledge(c)
  BY <1>1, <1>10 DEF Acknowledge, Goto, Write
<1>11. CASE Drain(c)
  BY <1>1, <1>11 DEF Drain, Write
<1>12. CASE SetBBox(c)
  BY <1>1, <1>12 DEF SetBBox
<1>13. CASE Connect(c)
  BY <1>1, <1>13 DEF Connect, Goto
<1>14. CASE OnSubscribed(c)
  BY <1>1, <1>14 DEF OnSubscribed, Handle
<1>15. CASE OnFlightUpdate(c)
  BY <1>1, <1>15 DEF OnFlightUpdate, Handle
<1>16. CASE OnResumeFailed(c)
  BY <1>1, <1>16 DEF OnResumeFailed, Handle
<1>17. CASE UpdateBBox(c)
  BY <1>1, <1>17 DEF UpdateBBox
<1>18. CASE Drop(c)
  BY <1>1, <1>18 DEF Drop, Disconnect
<1>19. CASE Close(c)
  BY <1>1, <1>19 DEF Close, Disconnect
<1>. QED
  BY <1>2, <1>3, <1>4, <1>5, <1>6, <1>7, <1>8, <1>9, <1>10, <1>11, <1>12, <1>13, <1>14, <1>15, <1>16, <1>17, <1>18, <1>19
  DEF ClientStep, Serve, OnMessage

(* The steps of a handler that has not written anything yet. *)
LEMMA HandshakeSteps ==
  ASSUME TypeOK, TypeOK', NEW c \in Clients, ClientInv(c),
         \/ Register(c) \/ ReadHead(c) \/ ResumeNothing(c) \/ OpenReader(c)
         \/ FetchBacklog(c) \/ Connect(c)
  PROVE  ClientInv(c)'
<1>. USE DEF streamVars, serverVars, clientVars, historyVars, Goto
<1>1. /\ c \in DOMAIN pc /\ c \in DOMAIN send /\ c \in DOMAIN todo
      /\ c \in DOMAIN delivered /\ c \in DOMAIN head /\ c \in DOMAIN resumeFrom
  BY DEF TypeOK, ServerTypeOK, BufferTypeOK
<1>2. /\ Seen(c) \subseteq Nat /\ LastSeq \in Nat /\ head[c] \in Nat
      /\ resumeFrom[c] \in Nat \cup {NoSeq} /\ lastSeq[c] \in Nat \cup {NoSeq}
      /\ pc[c] \in {"resuming", "fetching"} => resumeFrom[c] \in Nat
      /\ delivered[c] \in Nat
  BY ClientFacts
<1>3. /\ pc[c] \in Handshaking \cup {"closed"} /\ LastSeq' = LastSeq
      /\ recv' = recv /\ lastSeq' = lastSeq /\ down' = down
  BY DEF Register, ReadHead, ResumeNothing, OpenReader, FetchBacklog, Connect,
         Handshaking, LastSeq
<1>4. down'[c] = <<>> /\ todo[c] = {} /\ Seen(c)' = Seen(c)
  BY <1>3 DEF ClientInv, Quiet, Handshaking, Seen
<1>5. /\ \A r \in Seen(c) : r <= LastSeq
      /\ resumeFrom[c] # NoSeq => resumeFrom[c] <= LastSeq
      /\ delivered[c] <= LastSeq /\ head[c] <= LastSeq
      /\ lastSeq[c] # NoSeq => lastSeq[c] \in Seen(c) /\ \A r \in Seen(c) : r <= lastSeq[c]
      /\ pc[c] \in Handshaking /\ resumeFrom[c] # NoSeq =>
           \A r \in Seen(c) : r <= resumeFrom[c]
      /\ pc[c] \in {"resuming", "fetching"} => \A r \in Seen(c) : r <= head[c]
  BY DEF ClientInv, WithinStream, ResumeAhead, Seen
<1>6. CASE Register(c)
  <2>1. /\ pc[c] = "accepted" /\ pc'[c] = "registered" /\ send'[c] = <<>>
        /\ todo' = todo /\ delivered' = delivered /\ head' = head
        /\ resumeFrom' = resumeFrom
    BY <1>1, <1>6 DEF Register
  <2>2. Elems(send'[c]) \subseteq Elems(send[c])
    BY <2>1, ElemsEmpty
  <2>3. Quiet(c)' /\ ResumeAhead(c)'
    BY <1>3, <1>4, <1>5, <2>1 DEF Quiet, ResumeAhead, Handshaking
  <2>. QED
    BY <1>3, <1>4, <1>5, <2>1, <2>2, <2>3, QuietStep
<1>7. CASE ReadHead(c)
  <2>1. /\ pc[c] = "registered" /\ send' = send /\ todo' = todo
        /\ resumeFrom' = resumeFrom /\ delivered'[c] = LastSeq /\ head'[c] = LastSeq
        /\ pc'[c] \in {"acking", "resuming"}
    BY <1>1, <1>7 DEF ReadHead
  <2>2. Quiet(c)'
    BY <1>4, <2>1 DEF Quiet
  <2>3. ResumeAhead(c)'
    BY <1>3, <1>4, <1>5, <2>1 DEF ResumeAhead, Handshaking
  <2>. QED
    BY <1>2, <1>3, <1>4, <1>5, <2>1, <2>2, <2>3, QuietStep
<1>8. CASE ResumeNothing(c)
  <2>1. /\ pc[c] = "resuming" /\ pc'[c] = "acking" /\ send' = send /\ todo' = todo
        /\ resumeFrom' = resumeFrom /\ head' = head /\ delivered'[c] = resumeFrom[c]
    BY <1>1, <1>8 DEF ResumeNothing
  <2>2. resumeFrom[c] \in Nat /\ resumeFrom[c] # NoSeq /\ pc[c] \in Handshaking
    BY <1>2, <2>1, NoSeqAssumption DEF Handshaking
  <2>3. Quiet(c)' /\ ResumeAhead(c)'
    BY <1>3, <1>4, <1>5, <2>1 DEF Quiet, ResumeAhead, Handshaking
  <2>. QED
    BY <1>3, <1>4, <1>5, <2>1, <2>2, <2>3, QuietStep
<1>9. CASE OpenReader(c)
  <2>1. /\ pc[c] = "resuming" /\ pc'[c] = "fetching" /\ send' = send /\ todo' = todo
        /\ resumeFrom' = resumeFrom /\ head' = head /\ delivered' = delivered
    BY <1>1, <1>9 DEF OpenReader
  <2>2. Quiet(c)' /\ ResumeAhead(c)'
    BY <1>3, <1>4, <1>5, <2>1 DEF Quiet, ResumeAhead, Handshaking
  <2>. QED
    BY <1>3, <1>4, <1>5, <2>1, <2>2, QuietStep
<1>10. CASE FetchBacklog(c)
  <2>1. /\ pc[c] = "fetching" /\ pc'[c] = "replaying" /\ send' = send
        /\ resumeFrom' = resumeFrom /\ head' = head
    BY <1>1, <1>10 DEF FetchBacklog
  <2>2. resumeFrom[c] \in Nat /\ resumeFrom[c] # NoSeq /\ pc[c] \in Handshaking
    BY <1>2, <2>1, NoSeqAssumption DEF Handshaking
  <2>3. Oldest(c) \in Nat /\ resumeFrom[c] < Oldest(c)
    BY <2>2 DEF Oldest, Larger, TypeOK, StreamTypeOK
  <2>hi. PICK hi \in Oldest(c) - 1 .. Smaller(Oldest(c) + (head[c] - resumeFrom[c]) - 1, LastSeq) :
          /\ \E last \in Decoded(Oldest(c), hi) \cup {resumeFrom[c]} :
               /\ \A s \in Decoded(Oldest(c), hi) : s <= last
               /\ delivered' = [delivered EXCEPT ![c] = last]
          /\ todo' = [todo EXCEPT ![c] =
                        {s \in Decoded(Oldest(c), hi) : Contains(bbox[c], s)}]
    BY <1>10 DEF FetchBacklog
  <2>last. PICK last \in Decoded(Oldest(c), hi) \cup {resumeFrom[c]} :
          /\ \A s \in Decoded(Oldest(c), hi) : s <= last
          /\ delivered' = [delivered EXCEPT ![c] = last]
    BY <2>hi
  <2>5. hi \in Int /\ hi <= LastSeq
    BY <1>2, <2>2, <2>3, <2>hi DEF Smaller
  <2>6. \A s \in Decoded(Oldest(c), hi) : s \in Nat /\ resumeFrom[c] < s /\ s <= LastSeq
    BY <1>2, <2>2, <2>3, <2>5 DEF Decoded
  <2>7. /\ todo'[c] \subseteq Decoded(Oldest(c), hi) /\ delivered'[c] = last
        /\ last \in Nat /\ resumeFrom[c] <= last /\ last <= LastSeq
    BY <1>1, <1>5, <2>2, <2>last, <2>hi, <2>6
  <2>8. \A r \in Seen(c) : r <= resumeFrom[c]
    BY <1>5, <2>2
  <2>9. \A t \in todo'[c] : t <= delivered'[c] /\ \A r \in Seen(c) : r < t
    BY <1>2, <2>2, <2>last, <2>6, <2>7, <2>8
  <2>10. \A r \in Seen(c) : r <= delivered'[c]
    BY <1>2, <2>2, <2>7, <2>8
  <2>11. Quiet(c)' /\ ResumeAhead(c)'
    BY <1>3, <1>4, <1>5, <2>1 DEF Quiet, ResumeAhead, Handshaking
  <2>. QED
    BY <1>3, <1>4, <1>5, <2>1, <2>7, <2>9, <2>10, <2>11, QuietStep
<1>11. CASE Connect(c)
  <2>1. /\ pc'[c] = "accepted" /\ send' = send /\ todo' = todo
        /\ resumeFrom'[c] = lastSeq[c] /\ head' = head /\ delivered' = delivered
    BY <1>1, <1>11 DEF Connect
  <2>2. Quiet(c)'
    BY <1>4, <2>1 DEF Quiet
  <2>3. ResumeAhead(c)'
    BY <1>3, <1>4, <1>5, <2>1 DEF ResumeAhead, Handshaking
  <2>. QED
    BY <1>3, <1>4, <1>5, <2>1, <2>2, <2>3, QuietStep
<1>. QED
  BY <1>6, <1>7, <1>8, <1>9, <1>10, <1>11

(* The steps of a handler that write to the client. *)
LEMMA WriteSteps ==
  ASSUME TypeOK, TypeOK', NEW c \in Clients, ClientInv(c),
         ResumeRefused(c) \/ Replay(c) \/ Acknowledge(c) \/ Drain(c)
  PROVE  ClientInv(c)'
<1>. USE DEF streamVars, serverVars, clientVars, historyVars, Goto, Write
<1>1. /\ c \in DOMAIN pc /\ c \in DOMAIN send /\ c \in DOMAIN todo
      /\ c \in DOMAIN delivered /\ c \in DOMAIN down
  BY DEF TypeOK, ServerTypeOK, BufferTypeOK, WireTypeOK
<1>2. /\ Seen(c) \subseteq Nat /\ LastSeq \in Nat /\ head[c] \in Nat
      /\ delivered[c] \in Nat /\ todo[c] \subseteq Nat
      /\ send[c] \in Seq(Nat) /\ Elems(send[c]) \subseteq Nat
      /\ Elems(down[c]) \subseteq ServerMessages
  BY ClientFacts
<1>3. /\ LastSeq' = LastSeq /\ recv' = recv /\ lastSeq' = lastSeq
      /\ resumeFrom' = resumeFrom /\ head' = head
  BY DEF ResumeRefused, Replay, Acknowledge, Drain, LastSeq
<1>4. \A m \in ServerMessages : m.seq \in Nat
  BY DEF ServerMessages
<1>5. CASE ResumeRefused(c)
  <2>1. /\ pc[c] \in {"resuming", "fetching"} /\ pc'[c] = "acking"
        /\ down'[c] = Append(down[c], ResumeFailed) /\ delivered'[c] = head[c]
        /\ send' = send /\ todo' = todo
    BY <1>1, <1>5 DEF ResumeRefused
  <2>2. ResumeFailed \in ServerMessages /\ ResumeFailed.seq = 0
        /\ ~Carries(ResumeFailed) /\ ~IsUpdate(ResumeFailed)
    BY DEF ResumeFailed, ServerMessages, Carries, IsUpdate
  <2>3. todo[c] = {} /\ down[c] = <<>> /\ Elems(down[c]) = {}
    BY <2>1, ElemsEmpty DEF ClientInv, Quiet, Handshaking
  <2>4. (\A r \in Seen(c) : r <= head[c]) /\ head[c] <= LastSeq
    BY <2>1 DEF ClientInv, ResumeAhead, WithinStream
  <2>5. /\ ResumeFailed.seq <= LastSeq /\ delivered'[c] <= LastSeq
        /\ \A r \in Seen(c) : r <= delivered'[c]
        /\ \A x \in Elems(down[c]) : Carries(x) => x.seq <= delivered'[c]
        /\ todo'[c] = {} /\ todo'[c] \subseteq todo[c] /\ pc[c] # "replaying"
        /\ pc'[c] # "replaying" /\ pc'[c] \in {"replaying", "acking", "serving"}
        /\ Elems(send'[c]) \subseteq Elems(send[c])
    BY <1>2, <2>1, <2>2, <2>3, <2>4
  <2>. QED
    BY <1>3, <2>1, <2>2, <2>3, <2>5, WriteStep
<1>6. CASE Replay(c)
  <2>1. PICK s \in todo[c] :
          /\ \A t \in todo[c] : s <= t
          /\ down' = [down EXCEPT ![c] = Append(@, FlightUpdate(s))]
          /\ todo' = [todo EXCEPT ![c] = @ \ {s}]
    BY <1>6 DEF Replay
  <2>2. /\ pc[c] = "replaying" /\ pc' = pc /\ send' = send /\ delivered' = delivered
    BY <1>6 DEF Replay
  <2>3. /\ down'[c] = Append(down[c], FlightUpdate(s)) /\ todo'[c] = todo[c] \ {s}
        /\ s \in Nat
    BY <1>1, <1>2, <2>1
  <2>4. FlightUpdate(s) \in ServerMessages /\ FlightUpdate(s).seq = s
        /\ Carries(FlightUpdate(s))
    BY <2>3 DEF FlightUpdate, ServerMessages, Carries
  <2>5. /\ s <= delivered[c] /\ s <= LastSeq /\ delivered[c] <= LastSeq
        /\ \A r \in Seen(c) : r < s
        /\ \A x \in Elems(down[c]) : Carries(x) => x.seq < s
    BY <2>1 DEF ClientInv, ReplayAhead, WithinStream
  <2>6. \A t \in todo'[c] : s < t /\ t <= delivered[c]
    BY <1>2, <2>1, <2>3 DEF ClientInv, ReplayAhead
  <2>7. /\ \A r \in Seen(c) : r <= delivered[c]
        /\ \A x \in Elems(down[c]) : Carries(x) => x.seq <= delivered[c]
    BY <2>2 DEF ClientInv, HighWaterAhead
  <2>8. /\ \A r \in Seen(c) : r <= s
        /\ \A x \in Elems(down[c]) : Carries(x) => x.seq <= s
    BY <1>2, <1>4, <2>3, <2>5
  <2>. QED
    BY <1>3, <2>2, <2>3, <2>4, <2>5, <2>6, <2>7, <2>8, WriteStep
<1>7. CASE Acknowledge(c)
  <2>1. /\ pc[c] = "acking" /\ pc'[c] = "serving" /\ send' = send /\ todo' = todo
        /\ delivered' = delivered /\ down'[c] = Append(down[c], Subscribed(delivered[c]))
    BY <1>1, <1>7 DEF Acknowledge
  <2>2. /\ Subscribed(delivered[c]) \in ServerMessages
        /\ Subscribed(delivered[c]).seq = delivered[c]
        /\ Carries(Subscribed(delivered[c])) /\ ~IsUpdate(Subscribed(delivered[c]))
    BY <1>2 DEF Subscribed, ServerMessages, Carries, IsUpdate
  <2>3. todo[c] = {}
    BY <2>1 DEF ClientInv, Quiet
  <2>4. /\ \A r \in Seen(c) : r <= delivered[c]
        /\ \A x \in Elems(down[c]) : Carries(x) => x.seq <= delivered[c]
        /\ delivered[c] <= LastSeq
    BY <2>1 DEF ClientInv, HighWaterAhead, WithinStream
  <2>. QED
    BY <1>2, <1>3, <2>1, <2>2, <2>3, <2>4, WriteStep
<1>8. CASE Drain(c)
  <2>1. /\ pc[c] = "serving" /\ pc' = pc /\ todo' = todo /\ send[c] # <<>>
        /\ send'[c] = Tail(send[c])
    BY <1>1, <1>8 DEF Drain
  <2>2. /\ Elems(send'[c]) \subseteq Elems(send[c])
        /\ Head(send[c]) \in Elems(send[c])
    BY <1>2, <2>1, ElemsTail
  <2>3. \A s \in Elems(send[c]) : s \in Nat /\ s <= LastSeq
    BY <1>2 DEF ClientInv, WithinStream
  <2>4. CASE IsDuplicate(c, Head(send[c]))
    <3>1. delivered' = delivered /\ down' = down
      BY <1>8, <2>4 DEF Drain
    <3>. QED
      BY <1>2, <1>3, <2>1, <2>2, <2>3, <3>1, Frame DEF Untouched
  <2>5. CASE ~IsDuplicate(c, Head(send[c]))
    <3>. DEFINE s == Head(send[c])
    <3>1. /\ down'[c] = Append(down[c], FlightUpdate(s)) /\ delivered'[c] = s
      BY <1>1, <1>8, <2>5 DEF Drain
    <3>2. s \in Nat /\ s <= LastSeq /\ delivered[c] < s
      BY <1>2, <2>2, <2>3, <2>5 DEF IsDuplicate
    <3>3. FlightUpdate(s) \in ServerMessages /\ FlightUpdate(s).seq = s
          /\ Carries(FlightUpdate(s))
      BY <3>2 DEF FlightUpdate, ServerMessages, Carries
    <3>4. todo[c] = {}
      BY <2>1 DEF ClientInv, Quiet
    <3>5. /\ \A r \in Seen(c) : r <= delivered[c]
          /\ \A x \in Elems(down[c]) : Carries(x) => x.seq <= delivered[c]
      BY <2>1 DEF ClientInv, HighWaterAhead
    <3>6. /\ \A r \in Seen(c) : r < s /\ r <= s
          /\ \A x \in Elems(down[c]) : Carries(x) => x.seq < s /\ x.seq <= s
      BY <1>2, <1>4, <3>2, <3>5
    <3>. HIDE DEF s
    <3>. QED
      BY <1>3, <2>1, <2>2, <3>1, <3>2, <3>3, <3>4, <3>6, WriteStep
  <2>. QED
    BY <2>4, <2>5
<1>. QED
  BY <1>5, <1>6, <1>7, <1>8

(* The steps that neither write nor read a message. *)
LEMMA IdleSteps ==
  ASSUME TypeOK, TypeOK', NEW c \in Clients, ClientInv(c),
         ReplayDone(c) \/ SetBBox(c) \/ UpdateBBox(c)
  PROVE  ClientInv(c)'
<1>. USE DEF streamVars, serverVars, clientVars, historyVars
<1>1. c \in DOMAIN pc /\ LastSeq \in Nat /\ todo[c] \subseteq Nat
      /\ Elems(send[c]) \subseteq Nat
  BY ClientFacts DEF TypeOK, ServerTypeOK
<1>2. /\ LastSeq' = LastSeq /\ recv' = recv /\ lastSeq' = lastSeq /\ send' = send
      /\ resumeFrom' = resumeFrom /\ head' = head /\ todo' = todo
      /\ delivered' = delivered /\ down' = down
  BY DEF ReplayDone, SetBBox, UpdateBBox, LastSeq
<1>3. CASE SetBBox(c) \/ UpdateBBox(c)
  <2>1. pc' = pc
    BY <1>3 DEF SetBBox, UpdateBBox
  <2>2. \A s \in Elems(send'[c]) : s <= LastSeq'
    BY <1>2 DEF ClientInv, WithinStream
  <2>. QED
    BY <1>1, <1>2, <2>1, <2>2, Frame DEF Untouched
<1>4. CASE ReplayDone(c)
  <2>1. pc[c] = "replaying" /\ pc'[c] = "acking" /\ todo[c] = {}
    BY <1>1, <1>4 DEF ReplayDone, Goto
  <2>2. Seen(c)' = Seen(c)
    BY <1>2 DEF Seen
  <2>3. /\ Increasing(recv[c])' /\ InOrder(down[c])' /\ WireAhead(c)' /\ ReplayAhead(c)'
        /\ HighWaterAhead(c)' /\ WithinStream(c)'
    BY <1>2, <2>1, <2>2 DEF ClientInv, WireAhead, ReplayAhead, HighWaterAhead, WithinStream
  <2>4. Quiet(c)' /\ ResumeAhead(c)'
    BY <1>2, <2>1, <2>2 DEF ClientInv, Quiet, ResumeAhead, Handshaking
  <2>. QED
    BY <2>3, <2>4 DEF ClientInv
<1>. QED
  BY <1>3, <1>4

(* The steps of the browser that handle a message: the resume point does   *)
(* not move back.                                                          *)
Advances(c) ==
  lastSeq[c] # NoSeq /\ lastSeq'[c] # NoSeq => lastSeq'[c] >= lastSeq[c]

LEMMA ReadSteps ==
  ASSUME TypeOK, TypeOK', NEW c \in Clients, ClientInv(c), OnMessage(c)
  PROVE  ClientInv(c)' /\ Advances(c)
<1>. USE DEF streamVars, serverVars, clientVars, historyVars
<1>. DEFINE h == Head(down[c])
<1>1. /\ c \in DOMAIN down /\ c \in DOMAIN lastSeq /\ c \in DOMAIN recv
  BY DEF TypeOK, WireTypeOK, ClientTypeOK
<1>2. /\ Seen(c) \subseteq Nat /\ recv[c] \in Seq(Nat)
      /\ down[c] \in Seq(ServerMessages) /\ lastSeq[c] \in Nat \cup {NoSeq}
  BY ClientFacts
<1>3. /\ down[c] # <<>> /\ down'[c] = Tail(down[c]) /\ LastSeq' = LastSeq
      /\ pc' = pc /\ todo' = todo /\ delivered' = delivered /\ head' = head
      /\ resumeFrom' = resumeFrom /\ send' = send
  BY <1>1 DEF OnMessage, OnSubscribed, OnFlightUpdate, OnResumeFailed, Handle, LastSeq
<1>4. h \in Elems(down[c]) /\ h \in ServerMessages /\ h.seq \in Nat /\ h.seq # NoSeq
  <2>1. h \in Elems(down[c])
    BY <1>2, <1>3, ElemsTail
  <2>2. h \in ServerMessages
    BY <1>2, <2>1, ElemsType
  <2>. QED
    BY <2>1, <2>2, NoSeqAssumption DEF ServerMessages
<1>5. \A r \in Seen(c) : /\ Carries(h) => r <= h.seq
                         /\ IsUpdate(h) => r < h.seq
  BY <1>4 DEF ClientInv, WireAhead
<1>6. lastSeq[c] # NoSeq => lastSeq[c] \in Seen(c)
  BY DEF Seen
<1>7. CASE OnSubscribed(c)
  <2>1. /\ h.type = "subscribed" /\ recv' = recv
        /\ lastSeq'[c] = lastSeq[c] \/ lastSeq'[c] = h.seq
    BY <1>1, <1>7 DEF OnSubscribed, Handle
  <2>2. Carries(h) /\ Increasing(recv'[c])
    BY <2>1 DEF Carries, ClientInv
  <2>3. CASE lastSeq'[c] = lastSeq[c]
    <3>1. Seen(c)' = Seen(c) /\ Advances(c)
      BY <1>2, <2>1, <2>3 DEF Seen, Advances
    <3>2. lastSeq'[c] # NoSeq => \A r \in Seen(c)' : r <= lastSeq'[c]
      BY <2>3, <3>1 DEF ClientInv, ResumeAhead
    <3>. HIDE DEF h
    <3>. QED
      BY <1>3, <2>2, <3>1, <3>2, ReadStep DEF h
  <2>4. CASE lastSeq'[c] = h.seq
    <3>1. Seen(c)' \subseteq Seen(c) \cup {h.seq}
      BY <2>1, <2>4 DEF Seen
    <3>2. \A r \in Seen(c)' : r <= lastSeq'[c]
      BY <1>4, <1>5, <2>2, <2>4, <3>1
    <3>3. Advances(c)
      BY <1>4, <1>5, <1>6, <2>2, <2>4 DEF Advances
    <3>. QED
      BY <1>3, <2>2, <3>1, <3>2, <3>3, ReadStep
  <2>. QED
    BY <2>1, <2>3, <2>4
<1>8. CASE OnFlightUpdate(c)
  <2>1. /\ h.type = "flight_update" /\ recv'[c] = Append(recv[c], h.seq)
        /\ lastSeq'[c] = h.seq
    BY <1>1, <1>8 DEF OnFlightUpdate, Handle
  <2>2. Carries(h) /\ IsUpdate(h)
    BY <2>1 DEF Carries, IsUpdate
  <2>3. Increasing(recv'[c])
    BY <1>2, <1>4, <1>5, <2>1, <2>2, IncreasingAppend DEF ClientInv, Seen
  <2>4. Seen(c)' \subseteq Seen(c) \cup {h.seq}
    <3>1. Elems(recv'[c]) = Elems(recv[c]) \cup {h.seq}
      BY <1>2, <1>4, <2>1, ElemsAppend
    <3>. QED
      BY <2>1, <3>1 DEF Seen
  <2>5. \A r \in Seen(c)' : r <= lastSeq'[c]
    BY <1>4, <1>5, <2>1, <2>2, <2>4
  <2>6. Advances(c)
    BY <1>4, <1>5, <1>6, <2>1, <2>2 DEF Advances
  <2>. QED
    BY <1>3, <2>2, <2>3, <2>4, <2>5, <2>6, ReadStep
<1>9. CASE OnResumeFailed(c)
  <2>1. recv' = recv /\ lastSeq'[c] = NoSeq
    BY <1>1, <1>9 DEF OnResumeFailed
  <2>2. Seen(c)' \subseteq Seen(c) /\ Increasing(recv'[c])
    BY <2>1 DEF Seen, ClientInv
  <2>. QED
    BY <1>3, <2>1, <2>2, ReadStep DEF Advances
<1>. QED
  BY <1>7, <1>8, <1>9 DEF OnMessage

(* The connections in S end; the others are left alone. *)
LEMMA EndSteps ==
  ASSUME TypeOK, TypeOK', DeliveryInv, NEW d \in Clients, NEW S \in SUBSET Clients,
         NEW st, Disconnect(S, st)
  PROVE  ClientInv(d)'
<1>1. ClientInv(d) /\ LastSeq \in Nat /\ Elems(send[d]) \subseteq Nat
  BY ClientFacts DEF DeliveryInv
<1>2. /\ LastSeq' = LastSeq /\ recv' = recv /\ lastSeq' = lastSeq
      /\ delivered' = delivered /\ head' = head /\ resumeFrom' = resumeFrom
  BY DEF Disconnect, LastSeq
<1>3. CASE d \in S
  <2>1. pc'[d] = "closed" /\ down'[d] = <<>> /\ todo'[d] = {} /\ send'[d] = <<>>
    BY <1>3 DEF Disconnect
  <2>. QED
    BY <1>1, <1>2, <2>1, EndStep
<1>4. CASE d \notin S
  <2>1. pc'[d] = pc[d] /\ down'[d] = down[d] /\ todo'[d] = todo[d] /\ send'[d] = send[d]
    BY <1>4 DEF Disconnect
  <2>2. \A s \in Elems(send'[d]) : s <= LastSeq'
    BY <1>1, <1>2, <2>1 DEF ClientInv, WithinStream
  <2>. QED
    BY <1>1, <1>2, <2>1, <2>2, Frame DEF Untouched
<1>. QED
  BY <1>3, <1>4

-----------------------------------------------------------------------------
(* Only the browser's message handlers move a resume point. *)
LEMMA ResumePointKept ==
  ASSUME TypeOK, [Next]_vars,
         ~ \E c \in Clients : OnMessage(c)
  PROVE  lastSeq' = lastSeq
<1>. USE DEF streamVars, serverVars, clientVars, historyVars, Goto, Disconnect
<1>1. CASE UNCHANGED vars
  BY <1>1 DEF vars
<1>2. CASE Publish \/ AgeOut \/ Broadcast \/ Restart
  BY <1>2 DEF Publish, AgeOut, Broadcast, Restart
<1>3. ASSUME NEW c \in Clients, Serve(c) PROVE lastSeq' = lastSeq
  BY <1>3 DEF Serve, Register, ReadHead, ResumeNothing, ResumeRefused, OpenReader,
    FetchBacklog, Replay, ReplayDone, Acknowledge, Drain, SetBBox
<1>4. ASSUME NEW c \in Clients, Connect(c) \/ UpdateBBox(c) \/ Drop(c) \/ Close(c)
      PROVE lastSeq' = lastSeq
  BY <1>4 DEF Connect, UpdateBBox, Drop, Close
<1>. QED
  BY <1>1, <1>2, <1>3, <1>4 DEF Next

(* DeliveryInv is inductive, and the step that takes it along moves no     *)
(* resume point back.                                                      *)
LEMMA DeliveryStep ==
  ASSUME TypeOK, TypeOK', DeliveryInv, [Next]_vars, NEW d \in Clients
  PROVE  ClientInv(d)'
<1>1. CASE UNCHANGED vars
  <2>1. Untouched(d) /\ LastSeq' = LastSeq /\ send' = send
    BY <1>1 DEF vars, streamVars, serverVars, clientVars, historyVars, Untouched, LastSeq
  <2>2. ClientInv(d) /\ LastSeq \in Nat
    BY ClientFacts DEF DeliveryInv
  <2>3. \A s \in Elems(send'[d]) : s <= LastSeq'
    BY <2>1, <2>2 DEF ClientInv, WithinStream
  <2>. QED
    BY <2>1, <2>2, <2>3, Frame
<1>2. CASE Publish \/ AgeOut \/ Broadcast
  BY <1>2, StreamSteps
<1>3. CASE Restart
  BY <1>3, EndSteps DEF Restart
<1>4. ASSUME NEW c \in Clients, ClientStep(c) PROVE ClientInv(d)'
  <2>1. ClientInv(c) /\ ClientInv(d) /\ LastSeq \in Nat
    BY ClientFacts DEF DeliveryInv
  <2>2. CASE d # c
    <3>1. Untouched(d) /\ send'[d] = send[d] /\ LastSeq' = LastSeq
      BY <1>4, <2>2, OthersUntouched
    <3>2. \A s \in Elems(send'[d]) : s <= LastSeq'
      BY <2>1, <3>1 DEF ClientInv, WithinStream
    <3>. QED
      BY <2>1, <3>1, <3>2, Frame
  <2>3. CASE Drop(c) \/ Close(c)
    BY <2>3, EndSteps DEF Drop, Close
  <2>4. CASE \/ Register(c) \/ ReadHead(c) \/ ResumeNothing(c) \/ OpenReader(c)
             \/ FetchBacklog(c) \/ Connect(c)
    BY <2>1, <2>2, <2>4, HandshakeSteps
  <2>5. CASE ResumeRefused(c) \/ Replay(c) \/ Acknowledge(c) \/ Drain(c)
    BY <2>1, <2>2, <2>5, WriteSteps
  <2>6. CASE ReplayDone(c) \/ SetBBox(c) \/ UpdateBBox(c)
    BY <2>1, <2>2, <2>6, IdleSteps
  <2>7. CASE OnMessage(c)
    BY <2>1, <2>2, <2>7, ReadSteps
  <2>. QED
    BY <1>4, <2>3, <2>4, <2>5, <2>6, <2>7 DEF ClientStep, Serve
<1>. QED
  BY <1>1, <1>2, <1>3, <1>4 DEF Next, ClientStep

(* The invariant holds in every reachable state. *)
THEOREM DeliveryCorrect == Spec => []DeliveryInv
<1>1. DeliveryInv /\ TypeOK /\ TypeOK' /\ [Next]_vars => DeliveryInv'
  BY DeliveryStep DEF DeliveryInv
<1>. QED
  BY <1>1, DeliveryInit, TypeCorrect, PTL DEF Spec

(* FlightSocket hands every update to the application at most once and in  *)
(* stream order, across any number of reconnects and resumes.              *)
THEOREM NoDuplicates == Spec => []NoDuplicateDelivery
<1>1. DeliveryInv => NoDuplicateDelivery
  BY DEF DeliveryInv, ClientInv, NoDuplicateDelivery
<1>. QED
  BY <1>1, DeliveryCorrect, PTL

(* FlightSocket's resume point never moves back, except to be cleared.     *)
THEOREM ResumePointOnlyAdvances == Spec => ResumePointAdvances
<1>. DEFINE A == \A c \in Clients : lastSeq[c] # NoSeq /\ lastSeq'[c] # NoSeq
                                      => lastSeq'[c] >= lastSeq[c]
<1>1. ASSUME TypeOK, TypeOK', DeliveryInv, [Next]_vars PROVE [A]_vars
  <2>. SUFFICES ASSUME NEW c \in Clients PROVE Advances(c)
    BY DEF Advances
  <2>1. lastSeq[c] \in Nat \cup {NoSeq}
    BY <1>1, ClientFacts
  <2>2. CASE lastSeq'[c] = lastSeq[c]
    BY <2>1, <2>2 DEF Advances
  <2>3. CASE OnMessage(c)
    BY <1>1, <2>3, ReadSteps DEF DeliveryInv
  <2>4. ASSUME NEW d \in Clients, d # c, OnMessage(d) PROVE lastSeq'[c] = lastSeq[c]
    BY <1>1, <2>4, OthersUntouched DEF ClientStep, Untouched
  <2>. QED
    BY <1>1, <2>2, <2>3, <2>4, ResumePointKept
<1>. QED
  BY <1>1, TypeCorrect, DeliveryCorrect, PTL DEF Spec, ResumePointAdvances

-----------------------------------------------------------------------------
LEMMA FeedFacts ==
  ASSUME TypeOK, NEW d \in Clients
  PROVE  /\ up[d] \in Seq(Viewports) /\ view[d] \in Viewports /\ bbox[d] \in Viewports
         /\ asked[d] \subseteq Viewports
  BY DEF TypeOK, WireTypeOK, ClientTypeOK, ServerTypeOK

LEMMA LastOne ==
  ASSUME NEW S, NEW q \in Seq(S), q # <<>>, Tail(q) = <<>>
  PROVE  Len(q) = 1
<1>1. Len(Tail(q)) = 0
  <2>1. Len(<<>>) = 0
    BY EmptySeq
  <2>. QED
    BY <2>1
<1>2. Len(Tail(q)) = Len(q) - 1 /\ Len(q) \in Nat
  OBVIOUS
<1>. QED
  BY <1>1, <1>2

(* What was inside a viewport stays so. *)
LEMMA InsideStays ==
  ASSUME NEW d \in Clients, asked[d] \subseteq asked'[d],
         \A s \in DOMAIN log : s \in DOMAIN log' /\ log'[s] = log[s],
         NEW s, Inside(d, s)
  PROVE  Inside(d, s)'
  BY DEF Inside, Contains

(* A step that has nothing to do with client d. *)
Aside(d) ==
  /\ pc'[d] = pc[d] /\ (d \in hub' <=> d \in hub) /\ send'[d] = send[d]
  /\ todo'[d] = todo[d] /\ down'[d] = down[d] /\ up'[d] = up[d]
  /\ bbox'[d] = bbox[d] /\ view'[d] = view[d] /\ asked'[d] = asked[d]

LEMMA FeedFrame ==
  ASSUME NEW d \in Clients, FeedInv(d), Aside(d),
         \A s \in DOMAIN log : s \in DOMAIN log' /\ log'[s] = log[s]
  PROVE  FeedInv(d)'
<1>1. \A s : Inside(d, s) => Inside(d, s)'
  BY InsideStays DEF Aside
<1>2. Filled(d)'
  BY <1>1 DEF FeedInv, Filled, Aside
<1>3. Filtered(d)' /\ Emptied(d)' /\ Agrees(d)'
  BY DEF FeedInv, Filtered, Emptied, Agrees, Aside
<1>. QED
  BY <1>2, <1>3 DEF FeedInv

(* A step of d's live connection that moves updates and no viewport. *)
LEMMA FeedMoves ==
  ASSUME NEW d \in Clients, FeedInv(d), log' = log, pc[d] # "closed", pc'[d] # "closed",
         up'[d] = up[d], bbox'[d] = bbox[d], view'[d] = view[d], asked'[d] = asked[d],
         \A s \in Elems(send'[d]) \cup todo'[d] : Inside(d, s),
         \A m \in Elems(down'[d]) : IsUpdate(m) => Inside(d, m.seq)
  PROVE  FeedInv(d)'
<1>1. \A s : Inside(d, s) => Inside(d, s)'
  BY InsideStays
<1>2. Filled(d)'
  BY <1>1 DEF Filled
<1>3. Filtered(d)' /\ Emptied(d)' /\ Agrees(d)'
  BY DEF FeedInv, Filtered, Emptied, Agrees
<1>. QED
  BY <1>2, <1>3 DEF FeedInv

LEMMA FeedInit == Init => AllFeedInv
<1>. SUFFICES ASSUME Init, NEW d \in Clients PROVE FeedInv(d)
  BY DEF AllFeedInv
<1>1. /\ pc[d] = "closed" /\ send[d] = <<>> /\ todo[d] = {} /\ down[d] = <<>>
      /\ up[d] = <<>> /\ d \notin hub
  BY DEF Init
<1>2. Elems(send[d]) = {} /\ Elems(down[d]) = {}
  BY <1>1, ElemsEmpty
<1>. QED
  BY <1>1, <1>2 DEF FeedInv, Filtered, Filled, Emptied, Agrees

-----------------------------------------------------------------------------
LEMMA FeedPublish ==
  ASSUME TypeOK, NEW d \in Clients, FeedInv(d), Publish \/ AgeOut
  PROVE  FeedInv(d)'
<1>. USE DEF serverVars, clientVars
<1>1. Aside(d)
  BY DEF Publish, AgeOut, Aside
<1>2. \A s \in DOMAIN log : s \in DOMAIN log' /\ log'[s] = log[s]
  <2>1. CASE Publish
    <3>1. PICK p \in Payloads : log' = Append(log, p)
      BY <2>1 DEF Publish
    <3>. QED
      BY <3>1 DEF TypeOK, StreamTypeOK
  <2>2. CASE AgeOut
    BY <2>2 DEF AgeOut
  <2>. QED
    BY <2>1, <2>2
<1>. QED
  BY <1>1, <1>2, FeedFrame

(* The hub hands an update only to a client whose viewport it is in. *)
LEMMA FeedBroadcast ==
  ASSUME TypeOK, NEW d \in Clients, FeedInv(d), Broadcast
  PROVE  FeedInv(d)'
<1>. DEFINE s == NextRetained
<1>. USE DEF clientVars
<1>1. /\ log' = log /\ pc' = pc /\ hub' = hub /\ todo' = todo /\ down' = down /\ up' = up
      /\ bbox' = bbox /\ view' = view /\ asked' = asked
  BY DEF Broadcast
<1>2. CASE send'[d] = send[d]
  BY <1>1, <1>2, FeedFrame DEF Aside
<1>3. CASE Wanted(d, s) /\ send'[d] = Append(send[d], s)
  <2>1. pc[d] # "closed"
    BY <1>3 DEF FeedInv, Emptied, Wanted
  <2>2. s \in Nat \ {0} /\ s \in DOMAIN log
    BY DEF Broadcast, NextRetained, Larger, TypeOK, StreamTypeOK, LastSeq
  <2>3. Inside(d, s)
    BY <1>3, <2>1, <2>2 DEF FeedInv, Filtered, Wanted, Inside
  <2>4. Elems(send'[d]) = Elems(send[d]) \cup {s}
    BY <1>3, <2>2, ClientFacts, ElemsAppend
  <2>. QED
    BY <1>1, <2>1, <2>3, <2>4, FeedMoves DEF FeedInv, Filled
<1>. QED
  BY <1>2, <1>3 DEF Broadcast

LEMMA FeedDisconnect ==
  ASSUME NEW d \in Clients, FeedInv(d), NEW S \in SUBSET Clients, NEW st, Disconnect(S, st)
  PROVE  FeedInv(d)'
<1>1. CASE d \in S
  <2>1. /\ pc'[d] = "closed" /\ d \notin hub' /\ send'[d] = <<>> /\ todo'[d] = {}
        /\ down'[d] = <<>> /\ up'[d] = <<>>
    BY <1>1 DEF Disconnect
  <2>2. Elems(send'[d]) = {} /\ Elems(down'[d]) = {}
    BY <2>1, ElemsEmpty
  <2>. QED
    BY <2>1, <2>2 DEF FeedInv, Filtered, Filled, Emptied, Agrees
<1>2. CASE d \notin S
  <2>1. Aside(d) /\ log' = log
    BY <1>2 DEF Disconnect, Aside
  <2>. QED
    BY <2>1, FeedFrame
<1>. QED
  BY <1>1, <1>2

(* A step of one connection has nothing to do with the other clients. *)
LEMMA OthersAside ==
  ASSUME TypeOK, NEW c \in Clients, NEW d \in Clients, d # c, ClientStep(c)
  PROVE  Aside(d) /\ log' = log
<1>. USE DEF streamVars, serverVars, clientVars, Aside
<1>1. /\ DOMAIN pc = Clients /\ DOMAIN bbox = Clients /\ DOMAIN view = Clients
      /\ DOMAIN asked = Clients /\ DOMAIN up = Clients
  BY DEF TypeOK, ServerTypeOK, WireTypeOK, ClientTypeOK
<1>2. send'[d] = send[d] /\ todo'[d] = todo[d] /\ down'[d] = down[d] /\ pc'[d] = pc[d]
  BY OthersUntouched DEF Untouched
<1>3. CASE Serve(c)
  <2>1. log' = log /\ (d \in hub' <=> d \in hub) /\ view' = view /\ asked' = asked
    BY <1>3 DEF Serve, Register, ReadHead, ResumeNothing, ResumeRefused, OpenReader,
      FetchBacklog, Replay, ReplayDone, Acknowledge, Drain, SetBBox
  <2>2. bbox'[d] = bbox[d] /\ up'[d] = up[d]
    BY <1>1, <1>3 DEF Serve, Register, ReadHead, ResumeNothing, ResumeRefused, OpenReader,
      FetchBacklog, Replay, ReplayDone, Acknowledge, Drain, SetBBox
  <2>. QED
    BY <1>2, <2>1, <2>2
<1>4. CASE Connect(c)
  BY <1>1, <1>2, <1>4 DEF Connect
<1>5. CASE OnMessage(c)
  BY <1>2, <1>5 DEF OnMessage, OnSubscribed, OnFlightUpdate, OnResumeFailed
<1>6. CASE UpdateBBox(c)
  BY <1>1, <1>2, <1>6 DEF UpdateBBox
<1>7. CASE Drop(c) \/ Close(c)
  BY <1>2, <1>7 DEF Drop, Close, Disconnect
<1>. QED
  BY <1>3, <1>4, <1>5, <1>6, <1>7 DEF ClientStep
-----------------------------------------------------------------------------
(* The handler's steps that add no update to what is under way. *)
LEMMA FeedHandshake ==
  ASSUME TypeOK, NEW c \in Clients, FeedInv(c),
         Register(c) \/ ReadHead(c) \/ ResumeNothing(c) \/ OpenReader(c) \/ ReplayDone(c)
  PROVE  FeedInv(c)'
<1>. USE DEF streamVars, serverVars, clientVars, Goto
<1>1. DOMAIN pc = Clients /\ DOMAIN send = Clients
  BY DEF TypeOK, ServerTypeOK, BufferTypeOK
<1>2. /\ log' = log /\ todo' = todo /\ down' = down /\ up' = up /\ bbox' = bbox
      /\ view' = view /\ asked' = asked
  BY DEF Register, ReadHead, ResumeNothing, OpenReader, ReplayDone
<1>3. pc[c] # "closed" /\ pc'[c] # "closed"
  BY <1>1 DEF Register, ReadHead, ResumeNothing, OpenReader, ReplayDone
<1>4. send'[c] = send[c] \/ send'[c] = <<>>
  BY <1>1 DEF Register, ReadHead, ResumeNothing, OpenReader, ReplayDone
<1>5. Elems(send'[c]) \subseteq Elems(send[c])
  BY <1>4, ElemsEmpty
<1>. QED
  BY <1>2, <1>3, <1>5, FeedMoves DEF FeedInv, Filled

(* The backlog is filtered by the viewport the client subscribed with. *)
LEMMA FeedFetch ==
  ASSUME TypeOK, NEW c \in Clients, FeedInv(c), FetchBacklog(c)
  PROVE  FeedInv(c)'
<1>. USE DEF streamVars, serverVars, clientVars, Goto
<1>1. DOMAIN pc = Clients /\ DOMAIN todo = Clients
  BY DEF TypeOK, ServerTypeOK
<1>2. /\ log' = log /\ send' = send /\ down' = down /\ up' = up /\ bbox' = bbox
      /\ view' = view /\ asked' = asked /\ pc[c] = "fetching" /\ pc'[c] = "replaying"
  BY <1>1 DEF FetchBacklog
<1>3. PICK hi \in (Oldest(c) - 1) ..
                  Smaller(Oldest(c) + (head[c] - resumeFrom[c]) - 1, LastSeq) :
        todo'[c] = {s \in Decoded(Oldest(c), hi) : Contains(bbox[c], s)}
  BY <1>1 DEF FetchBacklog
<1>4. /\ resumeFrom[c] \in Nat /\ head[c] \in Nat /\ LastSeq \in Nat
      /\ first \in Nat \ {0}
  BY <1>2, ClientFacts DEF TypeOK, StreamTypeOK
<1>5. Oldest(c) \in Nat \ {0} /\ hi \in Int /\ hi <= LastSeq
  BY <1>3, <1>4 DEF Oldest, Larger, Smaller
<1>6. ASSUME NEW s \in todo'[c] PROVE Inside(c, s)
  <2>1. s \in Oldest(c) .. hi /\ Contains(bbox[c], s)
    BY <1>3 DEF Decoded
  <2>2. s \in DOMAIN log
    BY <1>5, <2>1 DEF LastSeq, TypeOK, StreamTypeOK
  <2>. QED
    BY <1>2, <2>1, <2>2 DEF FeedInv, Filtered, Inside
<1>. QED
  BY <1>2, <1>6, FeedMoves DEF FeedInv, Filled

(* The handler's writes: an update comes from the replay set or from the   *)
(* buffer.                                                                 *)
LEMMA FeedWrites ==
  ASSUME TypeOK, NEW c \in Clients, FeedInv(c),
         ResumeRefused(c) \/ Replay(c) \/ Acknowledge(c) \/ Drain(c)
  PROVE  FeedInv(c)'
<1>. USE DEF streamVars, serverVars, clientVars
<1>1. DOMAIN pc = Clients /\ DOMAIN send = Clients /\ DOMAIN down = Clients
      /\ DOMAIN todo = Clients
  BY DEF TypeOK, ServerTypeOK, BufferTypeOK, WireTypeOK
<1>2. /\ log' = log /\ up' = up /\ bbox' = bbox /\ view' = view /\ asked' = asked
      /\ pc[c] # "closed" /\ pc'[c] # "closed"
  BY <1>1 DEF ResumeRefused, Replay, Acknowledge, Drain, Goto
<1>3. /\ down[c] \in Seq(ServerMessages) /\ send[c] \in Seq(Nat)
      /\ todo[c] \subseteq Nat /\ delivered[c] \in Nat
  BY ClientFacts
<1>4. todo'[c] \subseteq todo[c] /\ Elems(send'[c]) \subseteq Elems(send[c])
  <2>1. CASE Drain(c)
    BY <1>1, <1>3, <2>1, ElemsTail DEF Drain
  <2>2. CASE ~Drain(c)
    BY <1>1, <2>2 DEF ResumeRefused, Replay, Acknowledge
  <2>. QED
    BY <2>1, <2>2
<1>5. \/ down'[c] = down[c]
      \/ \E m \in ServerMessages :
           /\ down'[c] = Append(down[c], m)
           /\ IsUpdate(m) => m.seq \in Elems(send[c]) \cup todo[c]
  <2>1. CASE ResumeRefused(c)
    BY <1>1, <2>1 DEF ResumeRefused, Write, ResumeFailed, ServerMessages, IsUpdate
  <2>2. CASE Acknowledge(c)
    BY <1>1, <1>3, <2>2 DEF Acknowledge, Write, Subscribed, ServerMessages, IsUpdate
  <2>3. CASE Replay(c)
    BY <1>1, <1>3, <2>3 DEF Replay, Write, FlightUpdate, ServerMessages, IsUpdate
  <2>4. CASE Drain(c)
    <3>1. Head(send[c]) \in Elems(send[c]) /\ Head(send[c]) \in Nat
      BY <1>3, <2>4, ElemsTail DEF Drain
    <3>2. FlightUpdate(Head(send[c])) \in ServerMessages
          /\ FlightUpdate(Head(send[c])).seq = Head(send[c])
      BY <3>1 DEF FlightUpdate, ServerMessages
    <3>3. down'[c] = down[c] \/ down'[c] = Append(down[c], FlightUpdate(Head(send[c])))
      BY <1>1, <2>4 DEF Drain, Write
    <3>. QED
      BY <3>1, <3>2, <3>3
  <2>. QED
    BY <2>1, <2>2, <2>3, <2>4
<1>6. \A m \in Elems(down'[c]) : IsUpdate(m) =>
        m \in Elems(down[c]) \/ m.seq \in Elems(send[c]) \cup todo[c]
  <2>1. CASE down'[c] = down[c]
    BY <2>1
  <2>2. ASSUME NEW m \in ServerMessages, down'[c] = Append(down[c], m)
        PROVE  Elems(down'[c]) = Elems(down[c]) \cup {m}
    BY <1>3, <2>2, ElemsAppend
  <2>. QED
    BY <1>5, <2>1, <2>2
<1>. QED
  BY <1>2, <1>4, <1>6, FeedMoves DEF FeedInv, Filled

(* The viewport the client shows travels to the gateway in order. *)
LEMMA FeedPans ==
  ASSUME TypeOK, NEW c \in Clients, FeedInv(c),
         SetBBox(c) \/ UpdateBBox(c) \/ Connect(c)
  PROVE  FeedInv(c)'
<1>. USE DEF streamVars, serverVars, clientVars
<1>1. DOMAIN pc = Clients /\ DOMAIN bbox = Clients /\ DOMAIN view = Clients
      /\ DOMAIN asked = Clients /\ DOMAIN up = Clients
  BY DEF TypeOK, ServerTypeOK, WireTypeOK, ClientTypeOK
<1>2. /\ log' = log /\ hub' = hub /\ send' = send /\ todo' = todo /\ down' = down
      /\ asked[c] \subseteq asked'[c]
  BY <1>1 DEF SetBBox, UpdateBBox, Connect
<1>3. \A s : Inside(c, s) => Inside(c, s)'
  BY <1>2, InsideStays
<1>4. Filled(c)'
  BY <1>2, <1>3 DEF FeedInv, Filled
<1>5. up[c] \in Seq(Viewports) /\ view[c] \in Viewports
  BY FeedFacts
<1>6. CASE SetBBox(c)
  <2>1. /\ pc' = pc /\ pc[c] # "closed" /\ up[c] # <<>> /\ up'[c] = Tail(up[c])
        /\ bbox'[c] = Head(up[c]) /\ view' = view /\ asked' = asked
    BY <1>1, <1>6 DEF SetBBox
  <2>2. Elems(Tail(up[c])) \subseteq Elems(up[c]) /\ Head(up[c]) \in Elems(up[c])
        /\ Head(up[c]) = up[c][1]
    BY <1>5, <2>1, ElemsTail
  <2>3. Filtered(c)'
    BY <2>1, <2>2 DEF FeedInv, Filtered
  <2>4. view[c] = up[c][Len(up[c])]
    BY <2>1 DEF FeedInv, Agrees
  <2>5. up'[c] = <<>> => Len(up[c]) = 1
    BY <1>5, <2>1, LastOne
  <2>6. up'[c] # <<>> => up'[c][Len(up'[c])] = up[c][Len(up[c])]
    BY <1>5, <2>1
  <2>7. Agrees(c)'
    BY <2>1, <2>2, <2>4, <2>5, <2>6 DEF Agrees
  <2>. QED
    BY <1>4, <2>1, <2>3, <2>7 DEF FeedInv, Emptied
<1>7. CASE Connect(c)
  <2>1. /\ pc[c] = "closed" /\ pc'[c] = "accepted" /\ up' = up /\ view' = view
        /\ bbox'[c] = view[c] /\ asked'[c] = asked[c] \cup {view[c]}
    BY <1>1, <1>7 DEF Connect, Goto
  <2>2. up[c] = <<>> /\ Elems(up[c]) = {}
    BY <2>1, ElemsEmpty DEF FeedInv, Emptied
  <2>. QED
    BY <1>4, <2>1, <2>2 DEF FeedInv, Filtered, Emptied, Agrees
<1>8. CASE UpdateBBox(c)
  <2>1. PICK v \in Viewports :
          /\ view'[c] = v
          /\ IF SocketOpen(c)
             THEN up'[c] = Append(up[c], v) /\ asked'[c] = asked[c] \cup {v}
             ELSE UNCHANGED <<up, asked>>
    BY <1>1, <1>8 DEF UpdateBBox
  <2>2. pc' = pc /\ bbox' = bbox
    BY <1>8 DEF UpdateBBox
  <2>3. CASE SocketOpen(c)
    <3>1. Elems(up'[c]) = Elems(up[c]) \cup {v}
      <4>1. up'[c] = Append(up[c], v)
        BY <2>1, <2>3
      <4>2. up[c] \in Seq(Viewports) /\ v \in Viewports
        BY <1>5
      <4>. QED
        BY <4>1, <4>2, ElemsAppend
    <3>2. up'[c] # <<>> /\ up'[c][Len(up'[c])] = v
      BY <1>5, <2>1, <2>3
    <3>3. Filtered(c)'
      BY <2>1, <2>2, <2>3, <3>1 DEF FeedInv, Filtered, SocketOpen
    <3>4. Agrees(c)'
      BY <2>1, <3>2 DEF Agrees
    <3>. QED
      BY <1>4, <2>2, <2>3, <3>3, <3>4 DEF FeedInv, Emptied, SocketOpen
  <2>4. CASE ~SocketOpen(c)
    BY <1>2, <1>4, <2>1, <2>2, <2>4 DEF FeedInv, Filtered, Emptied, Agrees, SocketOpen
  <2>. QED
    BY <2>3, <2>4
<1>. QED
  BY <1>6, <1>7, <1>8

(* The browser takes a message off the wire. *)
LEMMA FeedReads ==
  ASSUME TypeOK, NEW c \in Clients, FeedInv(c), OnMessage(c)
  PROVE  FeedInv(c)'
<1>. USE DEF streamVars, serverVars, clientVars
<1>1. DOMAIN down = Clients
  BY DEF TypeOK, WireTypeOK
<1>2. /\ log' = log /\ send' = send /\ todo' = todo /\ up' = up /\ bbox' = bbox
      /\ view' = view /\ asked' = asked /\ pc' = pc
      /\ down[c] # <<>> /\ down'[c] = Tail(down[c])
  BY <1>1 DEF OnMessage, OnSubscribed, OnFlightUpdate, OnResumeFailed, Handle
<1>3. pc[c] # "closed"
  BY <1>2 DEF FeedInv, Emptied
<1>4. Elems(down'[c]) \subseteq Elems(down[c])
  BY <1>2, ClientFacts, ElemsTail
<1>. QED
  BY <1>2, <1>3, <1>4, FeedMoves DEF FeedInv, Filled

LEMMA FeedStep ==
  ASSUME TypeOK, AllFeedInv, [Next]_vars, NEW d \in Clients
  PROVE  FeedInv(d)'
<1>1. FeedInv(d)
  BY DEF AllFeedInv
<1>2. CASE UNCHANGED vars
  BY <1>1, <1>2, FeedFrame DEF vars, streamVars, serverVars, clientVars, Aside
<1>3. CASE Publish \/ AgeOut
  BY <1>1, <1>3, FeedPublish
<1>4. CASE Broadcast
  BY <1>1, <1>4, FeedBroadcast
<1>5. CASE Restart
  BY <1>1, <1>5, FeedDisconnect DEF Restart
<1>6. ASSUME NEW c \in Clients, ClientStep(c) PROVE FeedInv(d)'
  <2>1. CASE c # d
    BY <1>1, <1>6, <2>1, OthersAside, FeedFrame
  <2>2. CASE c = d /\ (Drop(c) \/ Close(c))
    BY <1>1, <2>2, FeedDisconnect DEF Drop, Close
  <2>3. CASE c = d /\ Serve(c)
    BY <1>1, <2>3, FeedHandshake, FeedFetch, FeedWrites, FeedPans DEF Serve
  <2>4. CASE c = d /\ (Connect(c) \/ UpdateBBox(c))
    BY <1>1, <2>4, FeedPans
  <2>5. CASE c = d /\ OnMessage(c)
    BY <1>1, <2>5, FeedReads
  <2>. QED
    BY <1>6, <2>1, <2>2, <2>3, <2>4, <2>5 DEF ClientStep
<1>. QED
  BY <1>2, <1>3, <1>4, <1>5, <1>6 DEF Next, ClientStep

THEOREM FeedCorrect == Spec => []AllFeedInv
<1>1. TypeOK /\ AllFeedInv /\ [Next]_vars => AllFeedInv'
  BY FeedStep DEF AllFeedInv
<1>. QED
  BY <1>1, FeedInit, TypeCorrect, PTL DEF Spec

(* Once the gateway has read the viewport updates on their way, it filters *)
(* by the viewport the client shows.                                       *)
THEOREM NoPanIsLost == Spec => []ViewportsAgree
<1>1. AllFeedInv => ViewportsAgree
  BY DEF AllFeedInv, FeedInv, ViewportsAgree
<1>. QED
  BY <1>1, FeedCorrect, PTL

-----------------------------------------------------------------------------
(* Every step of the live path is a step of the feed, or none.             *)
LEMMA ServeIsAside ==
  ASSUME NEW c \in Clients, Serve(c) \/ Drop(c) \/ Close(c) \/ OnSubscribed(c)
                            \/ OnResumeFailed(c)
  PROVE  UNCHANGED Feed!feedVars
  BY DEF Serve, Register, ReadHead, ResumeNothing, ResumeRefused, OpenReader, FetchBacklog,
    Replay, ReplayDone, Acknowledge, Drain, SetBBox, Drop, Close, Disconnect, OnSubscribed,
    OnResumeFailed, streamVars, serverVars, clientVars, Feed!feedVars

(* An update handed to the browser is the next one, from a viewport it has *)
(* asked for.                                                              *)
LEMMA UpdateIsHanded ==
  ASSUME TypeOK, DeliveryInv, AllFeedInv, NEW c \in Clients, OnFlightUpdate(c)
  PROVE  \E s \in DOMAIN log : Feed!Hand(c, s)
<1>. DEFINE h == Head(down[c])
<1>1. down[c] # <<>> /\ h.type = "flight_update"
  BY DEF OnFlightUpdate, Handle
<1>2. h \in Elems(down[c]) /\ IsUpdate(h) /\ Carries(h)
  BY <1>1, ClientFacts, ElemsTail DEF IsUpdate, Carries
<1>3. Inside(c, h.seq)
  BY <1>2 DEF AllFeedInv, FeedInv, Filled
<1>4. \A i \in DOMAIN recv[c] : recv[c][i] < h.seq
  <2>1. \A r \in Seen(c) : r < h.seq
    BY <1>2 DEF DeliveryInv, ClientInv, WireAhead
  <2>. QED
    BY <2>1 DEF Seen, Elems
<1>5. recv' = [recv EXCEPT ![c] = Append(recv[c], h.seq)] /\ log' = log /\ asked' = asked
  BY DEF OnFlightUpdate, streamVars
<1>. HIDE DEF h
<1>6. Feed!Hand(c, h.seq)
  BY <1>3, <1>4, <1>5 DEF Feed!Hand, Feed!InOrder, Inside, Contains
<1>. QED
  BY <1>3, <1>6 DEF Inside

LEMMA FeedSimulation ==
  ASSUME TypeOK, DeliveryInv, AllFeedInv, [Next]_vars
  PROVE  [Feed!Next]_(Feed!feedVars)
<1>1. CASE UNCHANGED vars
  BY <1>1 DEF vars, streamVars, clientVars, Feed!feedVars
<1>2. CASE Publish
  BY <1>2 DEF Publish, clientVars, Feed!Next, Feed!Publish
<1>3. CASE AgeOut \/ Broadcast \/ Restart
  BY <1>3 DEF AgeOut, Broadcast, Restart, Disconnect, clientVars, Feed!feedVars
<1>4. ASSUME NEW c \in Clients, Connect(c) PROVE Feed!Next
  <2>1. view[c] \in Viewports /\ Feed!Ask(c, view[c])
    BY <1>4, FeedFacts DEF Connect, streamVars, Feed!Ask
  <2>. QED
    BY <2>1 DEF Feed!Next
<1>5. ASSUME NEW c \in Clients, UpdateBBox(c) PROVE Feed!Next \/ UNCHANGED Feed!feedVars
  <2>1. PICK v \in Viewports :
          asked' = [asked EXCEPT ![c] = asked[c] \cup {v}] \/ asked' = asked
    BY <1>5 DEF UpdateBBox
  <2>2. log' = log /\ recv' = recv
    BY <1>5 DEF UpdateBBox, streamVars
  <2>3. Feed!Ask(c, v) \/ UNCHANGED Feed!feedVars
    BY <2>1, <2>2 DEF Feed!Ask, Feed!feedVars
  <2>. QED
    BY <2>3 DEF Feed!Next
<1>6. ASSUME NEW c \in Clients, OnFlightUpdate(c) PROVE Feed!Next
  BY <1>6, UpdateIsHanded DEF Feed!Next
<1>. QED
  BY <1>1, <1>2, <1>3, <1>4, <1>5, <1>6, ServeIsAside DEF Next, OnMessage

(* The live path, from the stream through the hub, the replay and any      *)
(* number of connections to onFlightUpdate, implements the feed in order.  *)
THEOREM ImplementsOrderedFeed == Spec => ImplementsFeed
<1>1. Init => Feed!Init
  BY DEF Init, Feed!Init
<1>. QED
  BY <1>1, FeedSimulation, TypeCorrect, DeliveryCorrect, FeedCorrect, PTL
  DEF Spec, ImplementsFeed, Feed!Spec

-----------------------------------------------------------------------------
(* What the feed promises holds of whoever implements it: the promise is   *)
(* proved of the feed's own steps, and the gateway inherits it.            *)
LEMMA FeedKeepsTypes ==
  ASSUME Feed!FeedTypeOK, [Feed!Next]_(Feed!feedVars)
  PROVE  Feed!FeedTypeOK'
<1>. USE DEF Feed!FeedTypeOK
<1>1. ASSUME NEW p \in Payloads, Feed!Publish(p) PROVE Feed!FeedTypeOK'
  <2>1. log' = Append(log, p) /\ asked' = asked /\ recv' = recv
    BY <1>1 DEF Feed!Publish
  <2>2. log' \in Seq(Payloads) /\ DOMAIN log \subseteq DOMAIN log'
    BY <2>1
  <2>3. ASSUME NEW c \in Clients PROVE recv[c] \in Seq(DOMAIN log')
    BY <2>2
  <2>. QED
    BY <2>1, <2>2, <2>3
<1>2. ASSUME NEW c \in Clients, NEW v \in Viewports, Feed!Ask(c, v) PROVE Feed!FeedTypeOK'
  BY <1>2 DEF Feed!Ask
<1>3. ASSUME NEW c \in Clients, NEW s \in DOMAIN log, Feed!Hand(c, s) PROVE Feed!FeedTypeOK'
  BY <1>3 DEF Feed!Hand
<1>4. CASE UNCHANGED Feed!feedVars
  BY <1>4 DEF Feed!feedVars
<1>. QED
  BY <1>1, <1>2, <1>3, <1>4 DEF Feed!Next

LEMMA FeedKeepsPromise ==
  ASSUME Feed!FeedTypeOK, Feed!Promise, [Feed!Next]_(Feed!feedVars)
  PROVE  Feed!Promise'
<1>. USE DEF Feed!FeedTypeOK, Feed!Promise
<1>1. ASSUME NEW p \in Payloads, Feed!Publish(p) PROVE Feed!Promise'
  <2>1. log' = Append(log, p) /\ asked' = asked /\ recv' = recv
    BY <1>1 DEF Feed!Publish
  <2>2. \A s \in DOMAIN log : s \in DOMAIN log' /\ log'[s] = log[s]
    BY <2>1
  <2>. QED
    BY <2>1, <2>2
<1>2. ASSUME NEW c \in Clients, NEW v \in Viewports, Feed!Ask(c, v) PROVE Feed!Promise'
  BY <1>2 DEF Feed!Ask
<1>3. ASSUME NEW c \in Clients, NEW s \in DOMAIN log, Feed!Hand(c, s) PROVE Feed!Promise'
  <2>1. recv' = [recv EXCEPT ![c] = Append(recv[c], s)] /\ log' = log /\ asked' = asked
    BY <1>3 DEF Feed!Hand
  <2>2. /\ \A i \in DOMAIN recv[c] : recv[c][i] < s
        /\ \E v \in asked[c] : log[s] \in v
    BY <1>3 DEF Feed!Hand, Feed!InOrder
  <2>3. ASSUME NEW d \in Clients, NEW i \in DOMAIN recv'[d]
        PROVE  /\ recv'[d][i] \in DOMAIN log
               /\ \E v \in asked[d] : log[recv'[d][i]] \in v
               /\ \A j \in 1 .. i - 1 : recv'[d][j] < recv'[d][i]
    <3>1. CASE d # c
      BY <2>1, <3>1
    <3>2. CASE d = c
      <4>1. recv[c] \in Seq(DOMAIN log) /\ recv'[d] = Append(recv[c], s)
        BY <2>1, <3>2
      <4>2. CASE i = Len(recv[c]) + 1
        <5>1. recv'[d][i] = s
          BY <4>1, <4>2
        <5>2. ASSUME NEW j \in 1 .. i - 1 PROVE j \in DOMAIN recv[c] /\ recv'[d][j] = recv[c][j]
          BY <4>1, <4>2
        <5>. QED
          BY <2>2, <3>2, <5>1, <5>2
      <4>3. CASE i # Len(recv[c]) + 1
        <5>1. i \in DOMAIN recv[c] /\ recv'[d][i] = recv[c][i]
          BY <4>1, <4>3
        <5>2. ASSUME NEW j \in 1 .. i - 1 PROVE j \in DOMAIN recv[c] /\ recv'[d][j] = recv[c][j]
          BY <4>1, <5>1
        <5>. QED
          BY <3>2, <5>1, <5>2
      <4>. QED
        BY <4>2, <4>3
    <3>. QED
      BY <3>1, <3>2
  <2>. QED
    BY <2>1, <2>3
<1>4. CASE UNCHANGED Feed!feedVars
  BY <1>4 DEF Feed!feedVars
<1>. QED
  BY <1>1, <1>2, <1>3, <1>4 DEF Feed!Next

(* Over any number of connections, resumes, pans and drops, what a browser *)
(* tab is handed was published, lies in a viewport it asked for, and comes *)
(* once and in order.                                                      *)
THEOREM GatewayKeepsPromise == Spec => [](Feed!FeedTypeOK /\ Feed!Promise)
<1>1. Feed!Init => Feed!FeedTypeOK /\ Feed!Promise
  BY DEF Feed!Init, Feed!FeedTypeOK, Feed!Promise
<1>. QED
  BY <1>1, FeedKeepsTypes, FeedKeepsPromise, ImplementsOrderedFeed, PTL
  DEF ImplementsFeed, Feed!Spec

-----------------------------------------------------------------------------
(***************************************************************************)
(* No update goes missing unaccounted for.                                 *)
(***************************************************************************)

LEMMA GapFacts ==
  ASSUME TypeOK, DeliveryInv, AllGapInv, NEW c \in Clients
  PROVE  /\ ClientInv(c) /\ GapInv(c)
         /\ tail \in Nat /\ LastSeq \in Nat /\ tail <= LastSeq /\ DOMAIN log = 1 .. LastSeq
         /\ delivered[c] \in Nat /\ delivered[c] <= LastSeq
         /\ head[c] \in Nat /\ head[c] <= LastSeq
         /\ lastSeq[c] # NoSeq => lastSeq[c] \in Nat /\ lastSeq[c] <= LastSeq
         /\ \A m \in Elems(down[c]) : m \in ServerMessages /\ m.seq \in Nat
         /\ base[c] \in Nat /\ Starts(c) \subseteq Nat
<1>1. ClientInv(c) /\ GapInv(c) /\ tail <= LastSeq
  BY DEF DeliveryInv, AllGapInv
<1>2. tail \in Nat /\ LastSeq \in Nat /\ DOMAIN log = 1 .. LastSeq /\ base[c] \in Nat
  BY DEF TypeOK, StreamTypeOK, ClientTypeOK, LastSeq
<1>3. /\ delivered[c] \in Nat /\ head[c] \in Nat /\ lastSeq[c] \in Nat \cup {NoSeq}
      /\ Elems(down[c]) \subseteq ServerMessages
  BY ClientFacts
<1>4. delivered[c] <= LastSeq /\ head[c] <= LastSeq /\ \A r \in Seen(c) : r <= LastSeq
  BY <1>1 DEF ClientInv, WithinStream
<1>5. lastSeq[c] # NoSeq => lastSeq[c] \in Seen(c)
  BY DEF Seen
<1>6. \A m \in Elems(down[c]) : m \in ServerMessages /\ m.seq \in Nat
  BY <1>3 DEF ServerMessages
<1>7. Starts(c) \subseteq Nat
  BY <1>2, <1>3, <1>6 DEF Starts
<1>. QED
  BY <1>1, <1>2, <1>3, <1>4, <1>5, <1>6, <1>7

(* Whoever wants an update after a step wanted it before.                  *)
Extends(c) ==
  /\ \A s \in DOMAIN log : s \in DOMAIN log' /\ log'[s] = log[s]
  /\ asked[c] \subseteq asked'[c]

LEMMA WantsKept ==
  ASSUME NEW c \in Clients, Extends(c), NEW s \in DOMAIN log, Wants(c, s)'
  PROVE  Wants(c, s)
  BY DEF Extends, Wants, Contains

LEMMA PromiseKept ==
  ASSUME TypeOK, DeliveryInv, AllGapInv, NEW c \in Clients, Extends(c),
         pc[c] \in {"replaying", "acking", "serving"}, Starts(c)' \subseteq Starts(c),
         delivered'[c] = delivered[c], head'[c] = head[c],
         Accounted(c) \cup UnderWay(c) \subseteq Accounted(c)' \cup UnderWay(c)'
  PROVE  Promised(c)'
<1>. SUFFICES ASSUME NEW b \in Starts(c)',
                     NEW s \in (b + 1 .. Larger(delivered[c], head[c])), Wants(c, s)'
              PROVE  s \in Accounted(c)' \cup UnderWay(c)'
  BY DEF Promised, Due
<1>1. s \in DOMAIN log /\ b \in Starts(c)
  BY GapFacts DEF Larger
<1>2. s \in Due(c, b, Larger(delivered[c], head[c]))
  BY <1>1, WantsKept DEF Due
<1>3. s \in Accounted(c) \cup UnderWay(c)
  BY <1>1, <1>2, GapFacts DEF GapInv, Promised
<1>. QED
  BY <1>3

LEMMA BufferKept ==
  ASSUME TypeOK, DeliveryInv, AllGapInv, NEW c \in Clients, Extends(c),
         pc[c] \notin {"closed", "accepted", "registered"}
           \/ pc'[c] \in {"closed", "accepted", "registered"},
         pc[c] \notin {"closed", "accepted"} \/ pc'[c] \in {"closed", "accepted"},
         c \in hub => c \in hub', send'[c] = send[c], tail' = tail, head'[c] = head[c],
         \A s \in Nat : head[c] < s /\ s <= delivered[c] => s <= delivered'[c],
         delivered'[c] \in Nat,
         overflow[c] \subseteq overflow'[c], aged \subseteq aged'
  PROVE  Buffered(c)'
<1>1. Buffered(c)
  BY GapFacts DEF GapInv
<1>2. ASSUME pc'[c] \notin {"closed", "accepted", "registered"},
             NEW s \in (head[c] + 1 .. tail), Wants(c, s)'
      PROVE  s \in 1 .. delivered'[c] \cup Elems(send[c]) \cup overflow'[c] \cup aged'
  <2>1. s \in DOMAIN log /\ s \in Nat /\ head[c] < s /\ 1 <= s
    BY GapFacts
  <2>2. s \in Due(c, head[c], tail)
    BY <1>2, <2>1, WantsKept DEF Due
  <2>3. s \in 1 .. delivered[c] \cup Elems(send[c]) \cup overflow[c] \cup aged
    BY <1>1, <1>2, <2>2 DEF Buffered
  <2>4. s \in 1 .. delivered[c] => s \in 1 .. delivered'[c]
    BY <2>1, GapFacts
  <2>. QED
    BY <2>3, <2>4
<1>. QED
  BY <1>1, <1>2 DEF Buffered, Due

LEMMA ResumedKept ==
  ASSUME TypeOK, DeliveryInv, AllGapInv, NEW c \in Clients, Extends(c),
         lastSeq'[c] = lastSeq[c], base'[c] = base[c],
         Accounted(c) \subseteq Accounted(c)',
         pc'[c] \in Handshaking => resumeFrom'[c] = lastSeq[c],
         pc'[c] \in {"resuming", "fetching"} => delivered'[c] = head'[c]
  PROVE  Resumed(c)'
<1>1. Resumed(c)
  BY GapFacts DEF GapInv
<1>2. ASSUME lastSeq[c] # NoSeq, NEW s \in (base[c] + 1 .. lastSeq[c]), Wants(c, s)'
      PROVE  s \in Accounted(c)'
  <2>1. s \in DOMAIN log
    BY <1>2, GapFacts
  <2>2. s \in Owed(c, lastSeq[c])
    BY <1>2, <2>1, WantsKept DEF Owed, Due
  <2>. QED
    BY <1>1, <1>2, <2>2 DEF Resumed
<1>. QED
  BY <1>2 DEF Resumed, Owed, Due

(* A step that leaves c's connection and what c handled alone. *)
Apart(c) ==
  /\ Untouched(c) /\ send'[c] = send[c] /\ base'[c] = base[c] /\ tail' = tail
  /\ (c \in hub => c \in hub') /\ overflow[c] \subseteq overflow'[c]
  /\ skipped[c] \subseteq skipped'[c] /\ aged \subseteq aged'

LEMMA GapFrame ==
  ASSUME TypeOK, DeliveryInv, AllGapInv, NEW c \in Clients, Extends(c), Apart(c)
  PROVE  GapInv(c)'
<1>. USE DEF Apart, Untouched
<1>1. /\ Renewed(c)' <=> Renewed(c)
      /\ Starts(c)' = Starts(c) /\ UnderWay(c)' = UnderWay(c)
      /\ Accounted(c) \subseteq Accounted(c)'
  BY DEF Renewed, Starts, UnderWay, Accounted
<1>2. Promised(c)'
  <2>1. CASE pc[c] \in {"replaying", "acking", "serving"}
    BY <1>1, <2>1, PromiseKept
  <2>2. CASE pc[c] \notin {"replaying", "acking", "serving"}
    BY <2>2 DEF Promised
  <2>. QED
    BY <2>1, <2>2
<1>3. Buffered(c)'
  BY BufferKept, GapFacts
<1>4. Ordered(c)'
  BY <1>1, GapFacts DEF GapInv, Ordered
<1>5. Resumed(c)'
  <2>1. Resumed(c)
    BY GapFacts DEF GapInv
  <2>. QED
    BY <1>1, <2>1, ResumedKept DEF Resumed
<1>. QED
  BY <1>2, <1>3, <1>4, <1>5 DEF GapInv

-----------------------------------------------------------------------------
(* The hub hands over the next retained update: it is aged, or in no       *)
(* viewport that counts, or buffered, or dropped.                          *)
LEMMA GapBroadcast ==
  ASSUME TypeOK, DeliveryInv, AllFeedInv, AllGapInv, NEW c \in Clients, Broadcast
  PROVE  GapInv(c)' /\ tail' <= LastSeq'
<1>. DEFINE s == NextRetained
<1>1. /\ UNCHANGED <<log, hub, pc, down, recv, lastSeq, base, asked, todo, delivered, head,
                     resumeFrom, skipped>>
      /\ tail' = s /\ s <= LastSeq /\ aged' = aged \cup (tail + 1 .. s - 1)
      /\ send'[c] = IF Wanted(c, s) /\ HasRoom(c) THEN Append(send[c], s) ELSE send[c]
      /\ overflow'[c] = IF Wanted(c, s) /\ ~HasRoom(c) THEN overflow[c] \cup {s} ELSE overflow[c]
  BY DEF Broadcast, clientVars
<1>2. s \in Nat /\ tail \in Nat /\ tail < s
  BY GapFacts DEF NextRetained, Larger, TypeOK, StreamTypeOK
<1>. HIDE DEF s
<1>3. Extends(c) /\ LastSeq' = LastSeq
  BY <1>1 DEF Extends, LastSeq
<1>4. /\ Renewed(c)' <=> Renewed(c)
      /\ Starts(c)' = Starts(c) /\ UnderWay(c)' = UnderWay(c)
      /\ Accounted(c) \subseteq Accounted(c)'
  BY <1>1 DEF Renewed, Starts, UnderWay, Accounted
<1>5. Promised(c)'
  <2>1. CASE pc[c] \in {"replaying", "acking", "serving"}
    BY <1>1, <1>3, <1>4, <2>1, PromiseKept
  <2>2. CASE pc[c] \notin {"replaying", "acking", "serving"}
    BY <1>1, <2>2 DEF Promised
  <2>. QED
    BY <2>1, <2>2
<1>6. Ordered(c)'
  BY <1>1, <1>4, GapFacts DEF GapInv, Ordered
<1>7. Resumed(c)'
  <2>1. Resumed(c)
    BY GapFacts DEF GapInv
  <2>. QED
    BY <1>1, <1>3, <1>4, <2>1, ResumedKept DEF Resumed
<1>8. Buffered(c)'
  <2>0. Buffered(c) /\ send[c] \in Seq(Nat) /\ Elems(send[c]) \subseteq Nat
    BY GapFacts, ClientFacts DEF GapInv
  <2>1. \/ send'[c] = send[c]
        \/ send'[c] = Append(send[c], s) /\ Elems(send'[c]) = Elems(send[c]) \cup {s}
    BY <1>1, <1>2, <2>0, ElemsAppend
  <2>2. \A x \in Elems(send'[c]) : x <= s
    BY <1>2, <2>0, <2>1 DEF Buffered
  <2>3. Increasing(send'[c])
    <3>1. \A r \in Elems(send[c]) : r < s
      BY <1>2, <2>0 DEF Buffered
    <3>. QED
      BY <1>2, <2>0, <2>1, <3>1, IncreasingAppend DEF Buffered
  <2>4. ASSUME pc[c] \notin {"closed", "accepted", "registered"},
               NEW x \in (head[c] + 1 .. s), Wants(c, x)
        PROVE  x \in 1 .. delivered[c] \cup Elems(send'[c]) \cup overflow'[c] \cup aged'
    <3>0. head[c] \in Nat
      BY GapFacts
    <3>1. CASE x <= tail
      <4>1. x \in Due(c, head[c], tail)
        BY <1>2, <2>4, <3>0, <3>1 DEF Due
      <4>2. x \in 1 .. delivered[c] \cup Elems(send[c]) \cup overflow[c] \cup aged
        BY <2>0, <2>4, <4>1 DEF Buffered
      <4>. QED
        BY <1>1, <2>1, <4>2
    <3>2. CASE tail < x /\ x < s
      BY <1>1, <1>2, <2>4, <3>0, <3>2
    <3>3. CASE x = s
      <4>1. bbox[c] \in asked[c] /\ c \in hub
        BY <2>0, <2>4 DEF AllFeedInv, FeedInv, Filtered, Buffered
      <4>2. Wanted(c, s)
        BY <2>4, <3>3, <4>1 DEF Wants, Wanted
      <4>. QED
        BY <1>1, <2>1, <3>3, <4>2, ElemsAppend, <2>0, <1>2
    <3>. QED
      BY <1>2, <2>4, <3>0, <3>1, <3>2, <3>3
  <2>5. \A x : Wants(c, x)' <=> Wants(c, x)
    BY <1>1 DEF Wants, Contains
  <2>. QED
    BY <1>1, <2>0, <2>2, <2>3, <2>4, <2>5 DEF Buffered, Due
<1>. QED
  BY <1>1, <1>3, <1>5, <1>6, <1>7, <1>8 DEF GapInv

(* A connection that ends leaves only what the client handled. *)
LEMMA GapDisconnect ==
  ASSUME TypeOK, DeliveryInv, AllGapInv, NEW c \in Clients, NEW S \in SUBSET Clients, NEW st,
         Disconnect(S, st), tail' = tail \/ c \in S \/ pc[c] = "closed",
         tail' \in Nat, tail <= tail'
  PROVE  GapInv(c)'
<1>1. /\ UNCHANGED <<log, recv, lastSeq, base, asked, overflow, skipped, aged, resumeFrom,
                     delivered, head>>
  BY DEF Disconnect, historyVars
<1>2. Extends(c) /\ Accounted(c)' = Accounted(c)
  BY <1>1 DEF Extends, Accounted
<1>3. CASE c \in S
  <2>1. pc'[c] = "closed" /\ send'[c] = <<>> /\ down'[c] = <<>>
    BY <1>3 DEF Disconnect
  <2>2. Elems(send'[c]) = {} /\ Elems(down'[c]) = {} /\ DOMAIN send'[c] = {} /\ DOMAIN down'[c] = {}
    BY <2>1, ElemsEmpty
  <2>3. Resumed(c)'
    BY <1>1, <1>2, <2>1, ResumedKept DEF Handshaking
  <2>4. Promised(c)' /\ Buffered(c)' /\ Ordered(c)'
    BY <2>1, <2>2 DEF Promised, Buffered, Ordered, Increasing
  <2>. QED
    BY <2>3, <2>4 DEF GapInv
<1>4. CASE c \notin S
  <2>1. /\ pc'[c] = pc[c] /\ send'[c] = send[c] /\ down'[c] = down[c] /\ todo'[c] = todo[c]
        /\ (c \in hub => c \in hub')
    BY <1>4 DEF Disconnect
  <2>2. CASE tail' = tail
    BY <1>1, <1>2, <2>1, <2>2, GapFrame DEF Apart, Untouched
  <2>3. CASE pc[c] = "closed"
    <3>1. Renewed(c)' <=> Renewed(c)
      BY <1>1, <2>1 DEF Renewed
    <3>2. Ordered(c)'
      BY <1>1, <2>1, <3>1, GapFacts DEF GapInv, Ordered
    <3>3. Resumed(c)'
      BY <1>1, <1>2, <2>1, <2>3, ResumedKept DEF Handshaking
    <3>4. \A s \in Elems(send[c]) : s \in Nat /\ s <= tail
      BY ClientFacts, GapFacts DEF GapInv, Buffered
    <3>5. Buffered(c)'
      BY <2>1, <2>3, <3>4, GapFacts DEF GapInv, Buffered
    <3>6. Promised(c)'
      BY <2>1, <2>3 DEF Promised
    <3>. QED
      BY <3>2, <3>3, <3>5, <3>6 DEF GapInv
  <2>. QED
    BY <1>4, <2>2, <2>3
<1>. QED
  BY <1>3, <1>4

-----------------------------------------------------------------------------
(* Nothing is promised before anything was published.                      *)
LEMMA GapInit == Init => AllGapInv
<1>. SUFFICES ASSUME Init PROVE AllGapInv
  OBVIOUS
<1>1. tail = 0 /\ LastSeq = 0
  BY DEF Init, LastSeq
<1>2. ASSUME NEW c \in Clients PROVE GapInv(c)
  <2>1. /\ pc[c] = "closed" /\ down[c] = <<>> /\ send[c] = <<>> /\ lastSeq[c] = NoSeq
    BY DEF Init
  <2>2. Elems(send[c]) = {} /\ Elems(down[c]) = {} /\ DOMAIN send[c] = {} /\ DOMAIN down[c] = {}
    BY <2>1, ElemsEmpty
  <2>. QED
    BY <2>1, <2>2 DEF GapInv, Promised, Buffered, Ordered, Resumed, Increasing, Handshaking
<1>. QED
  BY <1>1, <1>2 DEF AllGapInv

(* The stream grows at one end and ages at the other. *)
LEMMA GapStream ==
  ASSUME TypeOK, DeliveryInv, AllGapInv, NEW c \in Clients, Publish \/ AgeOut
  PROVE  GapInv(c)' /\ tail' <= LastSeq'
<1>. USE DEF serverVars, clientVars, historyVars
<1>1. Apart(c) /\ asked' = asked /\ tail' = tail
  BY DEF Publish, AgeOut, Apart, Untouched
<1>2. (\A s \in DOMAIN log : s \in DOMAIN log' /\ log'[s] = log[s]) /\ tail <= LastSeq'
  <2>1. CASE Publish
    <3>1. PICK p \in Payloads : log' = Append(log, p)
      BY <2>1 DEF Publish
    <3>2. LastSeq' = LastSeq + 1
      BY <3>1 DEF LastSeq, TypeOK, StreamTypeOK
    <3>. QED
      BY <3>1, <3>2, GapFacts DEF TypeOK, StreamTypeOK
  <2>2. CASE AgeOut
    BY <2>2, GapFacts DEF AgeOut, LastSeq
  <2>. QED
    BY <2>1, <2>2
<1>. QED
  BY <1>1, <1>2, GapFrame DEF Extends

(* A step of one connection leaves the promise to the others alone. *)
LEMMA GapOthers ==
  ASSUME TypeOK, DeliveryInv, AllGapInv, NEW c \in Clients, NEW d \in Clients, d # c,
         ClientStep(c)
  PROVE  GapInv(d)'
<1>. USE DEF streamVars, serverVars, clientVars, historyVars
<1>1. DOMAIN base = Clients /\ DOMAIN overflow = Clients /\ DOMAIN skipped = Clients
  BY DEF TypeOK, ClientTypeOK, HistoryTypeOK
<1>2. Untouched(d) /\ send'[d] = send[d]
  BY OthersUntouched
<1>3. (d \in hub => d \in hub') /\ log' = log /\ asked'[d] = asked[d]
  BY OthersAside DEF Aside
<1>4. /\ tail' = tail /\ aged' = aged /\ overflow' = overflow
      /\ skipped'[d] = skipped[d] /\ base'[d] = base[d]
  <2>1. CASE Serve(c)
    BY <1>1, <2>1 DEF Serve, Register, ReadHead, ResumeNothing, ResumeRefused, OpenReader,
      FetchBacklog, Replay, ReplayDone, Acknowledge, Drain, SetBBox
  <2>2. CASE Connect(c) \/ UpdateBBox(c) \/ Drop(c) \/ Close(c)
    BY <2>2 DEF Connect, UpdateBBox, Drop, Close, Disconnect
  <2>3. CASE OnMessage(c)
    BY <1>1, <2>3 DEF OnMessage, OnSubscribed, OnFlightUpdate, OnResumeFailed
  <2>. QED
    BY <2>1, <2>2, <2>3 DEF ClientStep
<1>. QED
  BY <1>2, <1>3, <1>4, GapFrame DEF Extends, Apart

(* A pan asks for more, which only narrows what is owed. *)
LEMMA GapPans ==
  ASSUME TypeOK, DeliveryInv, AllGapInv, NEW c \in Clients, SetBBox(c) \/ UpdateBBox(c)
  PROVE  GapInv(c)'
<1>. USE DEF streamVars, serverVars, clientVars, historyVars
<1>1. Apart(c) /\ log' = log
  BY DEF SetBBox, UpdateBBox, Apart, Untouched
<1>2. asked[c] \subseteq asked'[c]
  BY DEF SetBBox, UpdateBBox, TypeOK, ClientTypeOK
<1>. QED
  BY <1>1, <1>2, GapFrame DEF Extends

(* Nothing is on the wire to a connection that only starts. *)
LEMMA OrderedQuiet ==
  ASSUME NEW c \in Clients, down'[c] = <<>>, pc'[c] = "replaying" => lastSeq'[c] # NoSeq
  PROVE  Ordered(c)'
<1>1. Elems(down'[c]) = {} /\ DOMAIN down'[c] = {}
  BY ElemsEmpty
<1>. QED
  BY <1>1 DEF Ordered, Renewed

(* A connection opened and registered: nothing is broadcast to it yet that *)
(* it is owed past a head it has not read.                                 *)
LEMMA GapConnect ==
  ASSUME TypeOK, DeliveryInv, AllGapInv, NEW c \in Clients, Connect(c) \/ Register(c)
  PROVE  GapInv(c)'
<1>. USE DEF streamVars, serverVars, clientVars, historyVars, Goto
<1>1. DOMAIN pc = Clients /\ DOMAIN send = Clients /\ DOMAIN resumeFrom = Clients
      /\ DOMAIN asked = Clients
  BY DEF TypeOK, ServerTypeOK, BufferTypeOK, ClientTypeOK
<1>2. /\ UNCHANGED <<log, down, recv, lastSeq, base, tail, overflow, skipped, aged>>
      /\ asked[c] \subseteq asked'[c]
      /\ pc[c] \in Handshaking \cup {"closed"}
  BY <1>1 DEF Connect, Register, Handshaking
<1>3. Extends(c) /\ Accounted(c)' = Accounted(c)
  BY <1>2 DEF Extends, Accounted
<1>4. down'[c] = <<>>
  BY <1>2, GapFacts DEF ClientInv, Quiet
<1>5. /\ pc'[c] \in {"accepted", "registered"} /\ resumeFrom'[c] = lastSeq[c]
      /\ pc'[c] = "registered" => c \in hub'
      /\ send'[c] = send[c] \/ send'[c] = <<>>
  <2>1. CASE Connect(c)
    BY <1>1, <2>1 DEF Connect
  <2>2. CASE Register(c)
    BY <1>1, <2>2, GapFacts DEF Register, GapInv, Resumed, Handshaking
  <2>. QED
    BY <2>1, <2>2
<1>6. Resumed(c)'
  BY <1>2, <1>3, <1>5, ResumedKept
<1>7. Increasing(send[c])' /\ \A s \in Elems(send'[c]) : s <= tail'
  <2>1. CASE send'[c] = send[c]
    BY <1>2, <2>1, GapFacts DEF GapInv, Buffered
  <2>2. CASE send'[c] = <<>>
    BY <2>2, ElemsEmpty DEF Increasing
  <2>. QED
    BY <1>5, <2>1, <2>2
<1>. QED
  BY <1>4, <1>5, <1>6, <1>7, OrderedQuiet DEF GapInv, Promised, Buffered

(* The head snapshot, taken once the connection is registered: whatever is *)
(* broadcast past it goes through the buffer.                              *)
LEMMA GapReadHead ==
  ASSUME TypeOK, DeliveryInv, AllGapInv, NEW c \in Clients, ReadHead(c)
  PROVE  GapInv(c)'
<1>. USE DEF streamVars, serverVars, clientVars, historyVars, Goto
<1>1. DOMAIN pc = Clients /\ DOMAIN head = Clients /\ DOMAIN delivered = Clients
  BY DEF TypeOK, ServerTypeOK
<1>2. /\ UNCHANGED <<log, down, hub, send, recv, lastSeq, base, asked, tail, overflow, skipped,
                     aged, resumeFrom>>
      /\ pc[c] = "registered" /\ head'[c] = LastSeq /\ delivered'[c] = LastSeq
      /\ pc'[c] = IF resumeFrom[c] = NoSeq THEN "acking" ELSE "resuming"
  BY <1>1 DEF ReadHead
<1>3. Extends(c) /\ Accounted(c)' = Accounted(c) /\ resumeFrom[c] = lastSeq[c] /\ c \in hub
  BY <1>2, GapFacts DEF Extends, Accounted, GapInv, Resumed, Buffered, Handshaking
<1>4. down'[c] = <<>> /\ Elems(down'[c]) = {}
  BY <1>2, GapFacts, ElemsEmpty DEF ClientInv, Quiet, Handshaking
<1>5. Resumed(c)'
  BY <1>2, <1>3, ResumedKept DEF Handshaking
<1>6. Due(c, LastSeq, tail)' = {} /\ Due(c, LastSeq, Larger(LastSeq, LastSeq))' = {}
  <2>1. LastSeq' = LastSeq /\ LastSeq \in Nat /\ tail \in Nat /\ tail <= LastSeq
    BY <1>2, GapFacts DEF LastSeq
  <2>2. LastSeq + 1 .. tail = {} /\ LastSeq + 1 .. Larger(LastSeq, LastSeq) = {}
    BY <2>1 DEF Larger
  <2>. QED
    BY <1>2, <2>1, <2>2 DEF Due, Larger
<1>7. Buffered(c)'
  <2>1. Due(c, head[c], tail)' = {}
    BY <1>2, <1>6 DEF Due, LastSeq
  <2>. QED
    BY <1>2, <1>3, <2>1, GapFacts DEF GapInv, Buffered
<1>8. Promised(c)'
  <2>1. CASE pc'[c] = "acking"
    <3>1. Renewed(c)' /\ Starts(c)' = {LastSeq}
      BY <1>2, <1>3, <2>1, NoSeqAssumption DEF Renewed, Starts
    <3>2. Due(c, LastSeq, Larger(delivered[c], head[c]))' = {}
      BY <1>2, <1>6 DEF Due, LastSeq
    <3>3. LastSeq' = LastSeq
      BY <1>2 DEF LastSeq
    <3>. QED
      BY <3>1, <3>2, <3>3 DEF Promised
  <2>2. CASE pc'[c] = "resuming"
    BY <2>2 DEF Promised
  <2>. QED
    BY <1>2, <2>1, <2>2
<1>. QED
  BY <1>2, <1>4, <1>5, <1>7, <1>8, OrderedQuiet DEF GapInv

-----------------------------------------------------------------------------
(* A resume from the head or past it, a reader opened, a replay done: the  *)
(* promise is what the client already holds.                               *)
LEMMA GapNothing ==
  ASSUME TypeOK, DeliveryInv, AllGapInv, NEW c \in Clients,
         ResumeNothing(c) \/ OpenReader(c) \/ ReplayDone(c)
  PROVE  GapInv(c)'
<1>. USE DEF streamVars, serverVars, clientVars, historyVars, Goto
<1>1. DOMAIN pc = Clients /\ DOMAIN delivered = Clients
  BY DEF TypeOK, ServerTypeOK
<1>2. UNCHANGED <<log, down, hub, send, recv, lastSeq, base, asked, tail, overflow, skipped,
                  aged, resumeFrom, head, todo>>
  BY DEF ResumeNothing, OpenReader, ReplayDone
<1>3. /\ Extends(c) /\ Accounted(c)' = Accounted(c) /\ UnderWay(c)' = UnderWay(c)
      /\ Renewed(c)' <=> Renewed(c)
  BY <1>2 DEF Extends, Accounted, UnderWay, Renewed
<1>4. /\ pc[c] \in {"resuming", "replaying"} /\ pc'[c] \in {"fetching", "acking"}
      /\ pc[c] = "resuming" => resumeFrom[c] = lastSeq[c] /\ lastSeq[c] \in Nat
                               /\ delivered[c] = head[c]
  BY <1>1, ClientFacts, GapFacts
  DEF ResumeNothing, OpenReader, ReplayDone, GapInv, Resumed, Handshaking
<1>5. ~Renewed(c)
  <2>1. CASE pc[c] = "resuming"
    <3>1. down[c] = <<>>
      BY <2>1, GapFacts DEF ClientInv, Quiet, Handshaking
    <3>. QED
      BY <1>4, <2>1, <3>1, ElemsEmpty, NoSeqAssumption DEF Renewed
  <2>2. CASE pc[c] = "replaying"
    BY <2>2, GapFacts DEF GapInv, Ordered
  <2>. QED
    BY <1>4, <2>1, <2>2
<1>6. Ordered(c)'
  BY <1>2, <1>3, <1>4, <1>5, GapFacts DEF GapInv, Ordered
<1>7. \/ delivered'[c] = delivered[c]
      \/ ResumeNothing(c) /\ pc[c] = "resuming" /\ delivered'[c] = lastSeq[c]
         /\ lastSeq[c] >= head[c]
  BY <1>1, <1>4 DEF ResumeNothing, OpenReader, ReplayDone
<1>8. Buffered(c)'
  <2>1. \A s \in Nat : head[c] < s /\ s <= delivered[c] => s <= delivered'[c]
    BY <1>4, <1>7, GapFacts
  <2>2. delivered'[c] \in Nat
    BY <1>4, <1>7, GapFacts
  <2>. QED
    BY <1>2, <1>3, <1>4, <2>1, <2>2, BufferKept
<1>9. Resumed(c)'
  <2>1. pc'[c] = "fetching" => pc[c] = "resuming" /\ delivered'[c] = delivered[c]
    BY <1>1 DEF ResumeNothing, OpenReader, ReplayDone
  <2>. QED
    BY <1>2, <1>3, <1>4, <2>1, ResumedKept DEF Handshaking
<1>10. Promised(c)'
  <2>1. CASE ReplayDone(c)
    <3>1. Starts(c)' = Starts(c) /\ pc[c] = "replaying" /\ delivered' = delivered
      BY <1>1, <1>2, <1>3, <1>5, <2>1 DEF Starts, ReplayDone
    <3>. QED
      BY <1>2, <1>3, <3>1, PromiseKept
  <2>2. CASE OpenReader(c)
    BY <1>1, <2>2 DEF OpenReader, Promised
  <2>3. CASE ResumeNothing(c)
    <3>1. Starts(c)' = {base[c]}
      BY <1>2, <1>3, <1>5 DEF Starts
    <3>2. pc[c] = "resuming" /\ delivered'[c] = lastSeq[c] /\ lastSeq[c] >= head[c]
      BY <1>1, <1>4, <2>3 DEF ResumeNothing
    <3>3. Larger(delivered[c], head[c])' = lastSeq[c]
      BY <1>2, <1>4, <3>2, GapFacts DEF Larger
    <3>4. Due(c, base[c], lastSeq[c])' = Owed(c, lastSeq[c])
      BY <1>2 DEF Due, Owed, Wants, Contains
    <3>5. Owed(c, lastSeq[c]) \subseteq Accounted(c)
      BY <1>4, <3>2, GapFacts, NoSeqAssumption DEF GapInv, Resumed
    <3>6. Due(c, base[c], Larger(delivered[c], head[c]))' \subseteq Accounted(c)'
      BY <1>2, <1>3, <3>3, <3>4, <3>5 DEF Due
    <3>. QED
      BY <1>2, <3>1, <3>6 DEF Promised
  <2>. QED
    BY <2>1, <2>2, <2>3
<1>. QED
  BY <1>6, <1>8, <1>9, <1>10 DEF GapInv

(* A refused resume: the promise starts over at the head.                  *)
LEMMA GapRefused ==
  ASSUME TypeOK, DeliveryInv, AllGapInv, NEW c \in Clients, ResumeRefused(c)
  PROVE  GapInv(c)'
<1>. USE DEF streamVars, serverVars, clientVars, historyVars, Goto, Write
<1>1. DOMAIN pc = Clients /\ DOMAIN delivered = Clients /\ DOMAIN down = Clients
  BY DEF TypeOK, ServerTypeOK, WireTypeOK
<1>2. /\ UNCHANGED <<log, hub, send, recv, lastSeq, base, asked, tail, overflow, skipped,
                     aged, resumeFrom, head, todo>>
      /\ pc[c] \in {"resuming", "fetching"} /\ pc'[c] = "acking"
      /\ down'[c] = Append(down[c], ResumeFailed) /\ delivered'[c] = head[c]
  BY <1>1 DEF ResumeRefused
<1>3. Extends(c) /\ Accounted(c)' = Accounted(c)
  BY <1>2 DEF Extends, Accounted
<1>4. down[c] = <<>> /\ delivered[c] = head[c]
  BY <1>2, GapFacts DEF ClientInv, Quiet, GapInv, Resumed, Handshaking
<1>5. down'[c] = <<ResumeFailed>> /\ DOMAIN down'[c] = {1} /\ Elems(down'[c]) = {ResumeFailed}
  <2>1. down'[c] = <<ResumeFailed>>
    BY <1>2, <1>4
  <2>2. DOMAIN down'[c] = {1}
    BY <2>1
  <2>. QED
    BY <2>1, <2>2 DEF Elems
<1>6. ~Carries(ResumeFailed) /\ ~IsAck(ResumeFailed) /\ ~IsUpdate(ResumeFailed)
  BY DEF ResumeFailed, Carries, IsAck, IsUpdate
<1>7. Renewed(c)' /\ Starts(c)' = {head[c]}
  BY <1>2, <1>5, <1>6 DEF Renewed, Starts
<1>8. Ordered(c)'
  BY <1>2, <1>5, <1>6 DEF Ordered
<1>9. Promised(c)'
  <2>1. Larger(delivered[c], head[c])' = head[c] /\ head[c] + 1 .. head[c] = {}
    BY <1>2, GapFacts DEF Larger
  <2>2. Due(c, head[c], Larger(delivered[c], head[c]))' = {}
    BY <1>2, <2>1 DEF Due
  <2>. QED
    BY <1>2, <1>7, <2>2 DEF Promised
<1>10. Buffered(c)'
  BY <1>2, <1>3, <1>4, GapFacts, BufferKept
<1>11. Resumed(c)'
  BY <1>2, <1>3, ResumedKept DEF Handshaking
<1>. QED
  BY <1>8, <1>9, <1>10, <1>11 DEF GapInv

(* The replay: every update of the gap is fetched and replayed, or counts  *)
(* as skipped.                                                             *)
LEMMA GapFetch ==
  ASSUME TypeOK, DeliveryInv, AllFeedInv, AllGapInv, NEW c \in Clients, FetchBacklog(c)
  PROVE  GapInv(c)'
<1>. USE DEF streamVars, serverVars, clientVars, historyVars, Goto
<1>. DEFINE from == resumeFrom[c]
<1>1. DOMAIN pc = Clients /\ DOMAIN delivered = Clients /\ DOMAIN todo = Clients
      /\ DOMAIN skipped = Clients
  BY DEF TypeOK, ServerTypeOK, HistoryTypeOK
<1>2. /\ UNCHANGED <<log, hub, send, recv, lastSeq, base, asked, tail, overflow, aged,
                     resumeFrom, head, down>>
      /\ pc[c] = "fetching" /\ pc'[c] = "replaying"
  BY <1>1 DEF FetchBacklog
<1>3. PICK hi \in (Oldest(c) - 1) .. Smaller(Oldest(c) + (head[c] - from) - 1, LastSeq) :
        /\ delivered'[c] \in Decoded(Oldest(c), hi) \cup {from}
        /\ todo'[c] = {s \in Decoded(Oldest(c), hi) : Contains(bbox[c], s)}
        /\ skipped'[c] = skipped[c] \cup
             ((from + 1 .. Larger(head[c], hi)) \ (Oldest(c) .. hi))
  BY <1>1 DEF FetchBacklog
<1>4. /\ from \in Nat /\ from = lastSeq[c] /\ lastSeq[c] # NoSeq /\ delivered[c] = head[c]
      /\ head[c] \in Nat /\ LastSeq \in Nat /\ first \in Nat \ {0} /\ DOMAIN log = 1 .. LastSeq
      /\ base[c] \in Nat
  BY <1>2, ClientFacts, GapFacts, NoSeqAssumption
  DEF GapInv, Resumed, Handshaking, TypeOK, StreamTypeOK
<1>5. Oldest(c) \in Nat \ {0} /\ hi \in Int /\ hi <= LastSeq
  <2>1. Oldest(c) \in Nat \ {0}
    BY <1>4 DEF Oldest, Larger
  <2>2. Oldest(c) + (head[c] - from) - 1 \in Int
    BY <1>4, <2>1
  <2>3. Smaller(Oldest(c) + (head[c] - from) - 1, LastSeq) <= LastSeq
        /\ Smaller(Oldest(c) + (head[c] - from) - 1, LastSeq) \in Int
    BY <1>4, <2>2 DEF Smaller
  <2>. QED
    BY <1>3, <1>4, <2>1, <2>3
<1>6. delivered'[c] \in Nat /\ (delivered'[c] <= hi \/ delivered'[c] = from)
  BY <1>3, <1>4, <1>5 DEF Decoded
<1>7. bbox[c] \in asked[c] /\ bbox[c] \subseteq Cells
  <2>1. bbox[c] \in asked[c]
    BY <1>2 DEF AllFeedInv, FeedInv, Filtered
  <2>2. bbox[c] \in Viewports
    BY DEF TypeOK, ServerTypeOK
  <2>. QED
    BY <2>1, <2>2, ViewportsAssumption
<1>8. /\ Extends(c) /\ Accounted(c) \subseteq Accounted(c)' /\ skipped'[c] \subseteq Accounted(c)'
  BY <1>2, <1>3 DEF Extends, Accounted
<1>9. down'[c] = <<>> /\ Elems(down'[c]) = {}
  BY <1>2, GapFacts, ElemsEmpty DEF ClientInv, Quiet, Handshaking
<1>10. Starts(c)' = {base[c]}
  BY <1>2, <1>4, <1>9 DEF Starts, Renewed
<1>. HIDE DEF from
<1>11. ASSUME NEW s \in (base[c] + 1 .. Larger(delivered'[c], head[c])), Wants(c, s)
       PROVE  s \in Accounted(c)' \cup UnderWay(c)'
  <2>1. s \in Nat
    BY <1>4, <1>6 DEF Larger
  <2>2. CASE s <= lastSeq[c]
    <3>1. s \in Owed(c, lastSeq[c])
      BY <1>4, <1>11, <2>1, <2>2 DEF Owed, Due
    <3>. QED
      BY <1>4, <1>8, <3>1, GapFacts DEF GapInv, Resumed
  <2>3. CASE s > lastSeq[c]
    <3>1. s \in from + 1 .. Larger(head[c], hi)
      <4>1. from < s
        BY <1>4, <2>1, <2>3
      <4>2. s <= Larger(head[c], hi)
        BY <1>4, <1>5, <1>6, <1>11, <2>1, <4>1 DEF Larger
      <4>. QED
        BY <1>4, <1>5, <2>1, <4>1, <4>2 DEF Larger
    <3>2. CASE s \in Oldest(c) .. hi
      <4>1. log[s] \in bbox[c] /\ log[s] \in Cells
        BY <1>7, <1>11 DEF Wants, Contains
      <4>2. s \in todo'[c]
        BY <1>3, <3>2, <4>1 DEF Decoded, Contains
      <4>. QED
        BY <4>2 DEF UnderWay
    <3>3. CASE s \notin Oldest(c) .. hi
      BY <1>3, <1>8, <3>1, <3>3
    <3>. QED
      BY <3>2, <3>3
  <2>. QED
    BY <1>4, <2>1, <2>2, <2>3
<1>12. Promised(c)'
  <2>1. \A s : Wants(c, s)' <=> Wants(c, s)
    BY <1>2 DEF Wants, Contains
  <2>. QED
    BY <1>2, <1>10, <1>11, <2>1 DEF Promised, Due, Larger
<1>13. Ordered(c)'
  BY <1>2, <1>4, <1>9, OrderedQuiet
<1>14. Buffered(c)'
  BY <1>2, <1>4, <1>6, <1>8, BufferKept
<1>15. Resumed(c)'
  BY <1>2, <1>8, ResumedKept DEF Handshaking
<1>. QED
  BY <1>12, <1>13, <1>14, <1>15 DEF GapInv

-----------------------------------------------------------------------------
LEMMA ElemsSplit ==
  ASSUME NEW S, NEW q \in Seq(S), q # <<>>
  PROVE  Elems(q) = {Head(q)} \cup Elems(Tail(q))
<1>1. ASSUME NEW i \in DOMAIN q PROVE q[i] \in {Head(q)} \cup Elems(Tail(q))
  <2>1. CASE i = 1
    BY <2>1
  <2>2. CASE i # 1
    <3>1. i - 1 \in DOMAIN Tail(q) /\ Tail(q)[i - 1] = q[i]
      BY <2>2
    <3>. QED
      BY <3>1 DEF Elems
  <2>. QED
    BY <2>1, <2>2
<1>. QED
  BY <1>1, ElemsTail DEF Elems

LEMMA IncreasingTail ==
  ASSUME NEW q \in Seq(Nat), q # <<>>, Increasing(q)
  PROVE  Increasing(Tail(q)) /\ \A x \in Elems(Tail(q)) : Head(q) < x
<1>1. /\ Head(q) = q[1] /\ 1 \in DOMAIN q
      /\ \A i \in DOMAIN Tail(q) : i \in Nat \ {0} /\ i + 1 \in DOMAIN q /\ Tail(q)[i] = q[i + 1]
  BY ElemsTail
<1>2. \A i, j \in DOMAIN Tail(q) : i < j => i + 1 < j + 1
  BY <1>1
<1>3. \A i \in DOMAIN Tail(q) : 1 < i + 1
  BY <1>1
<1>. QED
  BY <1>1, <1>2, <1>3 DEF Increasing, Elems

(* A message that carries a sequence joins the wire. *)
LEMMA WireGrows ==
  ASSUME TypeOK, DeliveryInv, AllGapInv, NEW c \in Clients, NEW m \in ServerMessages,
         Carries(m), down'[c] = Append(down[c], m), lastSeq'[c] = lastSeq[c]
  PROVE  /\ Elems(down'[c]) = Elems(down[c]) \cup {m}
         /\ Renewed(c)' <=> Renewed(c)
         /\ \A i \in DOMAIN down'[c] : ~Carries(down'[c][i]) => i = 1
<1>1. down[c] \in Seq(ServerMessages)
  BY ClientFacts
<1>2. Elems(down'[c]) = Elems(down[c]) \cup {m}
  BY <1>1, ElemsAppend
<1>3. \A i \in DOMAIN down'[c] : (i \in DOMAIN down[c] /\ down'[c][i] = down[c][i])
                                   \/ down'[c][i] = m
  BY <1>1
<1>. QED
  BY <1>2, <1>3, GapFacts DEF Renewed, GapInv, Ordered

(* A replayed update moves from the replay set to the wire. *)
LEMMA GapReplay ==
  ASSUME TypeOK, DeliveryInv, AllGapInv, NEW c \in Clients, Replay(c)
  PROVE  GapInv(c)'
<1>. USE DEF streamVars, serverVars, clientVars, historyVars, Write
<1>1. DOMAIN todo = Clients /\ DOMAIN down = Clients
  BY DEF TypeOK, ServerTypeOK, WireTypeOK
<1>2. /\ UNCHANGED <<log, hub, send, recv, lastSeq, base, asked, tail, overflow, skipped,
                     aged, resumeFrom, head, delivered, pc>>
      /\ pc[c] = "replaying"
  BY DEF Replay
<1>3. PICK s \in todo[c] : down'[c] = Append(down[c], FlightUpdate(s))
                           /\ todo'[c] = todo[c] \ {s}
  BY <1>1 DEF Replay
<1>4. /\ FlightUpdate(s) \in ServerMessages /\ Carries(FlightUpdate(s))
      /\ IsUpdate(FlightUpdate(s)) /\ FlightUpdate(s).seq = s
  BY ClientFacts DEF FlightUpdate, ServerMessages, Carries, IsUpdate
<1>5. Extends(c) /\ Accounted(c)' = Accounted(c)
  BY <1>2 DEF Extends, Accounted
<1>6. /\ Elems(down'[c]) = Elems(down[c]) \cup {FlightUpdate(s)}
      /\ Renewed(c)' <=> Renewed(c)
      /\ \A i \in DOMAIN down'[c] : ~Carries(down'[c][i]) => i = 1
  BY <1>2, <1>3, <1>4, WireGrows
<1>7. ~Renewed(c)
  BY <1>2, GapFacts DEF GapInv, Ordered
<1>8. Ordered(c)'
  BY <1>6, <1>7 DEF Ordered
<1>9. Starts(c)' = Starts(c) /\ UnderWay(c) \subseteq UnderWay(c)'
  BY <1>2, <1>3, <1>4, <1>6, <1>7 DEF Starts, UnderWay
<1>10. Promised(c)'
  BY <1>2, <1>5, <1>9, PromiseKept
<1>11. Buffered(c)'
  BY <1>2, <1>5, GapFacts, BufferKept
<1>12. Resumed(c)'
  BY <1>2, <1>5, ResumedKept DEF Handshaking
<1>. QED
  BY <1>8, <1>10, <1>11, <1>12 DEF GapInv

(* The ack carries the mark the promise counts from.                       *)
LEMMA GapAcknowledge ==
  ASSUME TypeOK, DeliveryInv, AllGapInv, NEW c \in Clients, Acknowledge(c)
  PROVE  GapInv(c)'
<1>. USE DEF streamVars, serverVars, clientVars, historyVars, Write, Goto
<1>. DEFINE m == Subscribed(delivered[c])
<1>1. DOMAIN pc = Clients /\ DOMAIN down = Clients
  BY DEF TypeOK, ServerTypeOK, WireTypeOK
<1>2. /\ UNCHANGED <<log, hub, send, recv, lastSeq, base, asked, tail, overflow, skipped,
                     aged, resumeFrom, head, delivered, todo>>
      /\ pc[c] = "acking" /\ pc'[c] = "serving" /\ down'[c] = Append(down[c], m)
  BY <1>1 DEF Acknowledge
<1>3. /\ m \in ServerMessages /\ Carries(m) /\ IsAck(m) /\ ~IsUpdate(m) /\ m.seq = delivered[c]
  BY ClientFacts DEF Subscribed, ServerMessages, Carries, IsAck, IsUpdate
<1>. HIDE DEF m
<1>4. Extends(c) /\ Accounted(c)' = Accounted(c)
  BY <1>2 DEF Extends, Accounted
<1>5. /\ Elems(down'[c]) = Elems(down[c]) \cup {m}
      /\ Renewed(c)' <=> Renewed(c)
      /\ \A i \in DOMAIN down'[c] : ~Carries(down'[c][i]) => i = 1
  BY <1>2, <1>3, WireGrows
<1>6. Renewed(c) => \A x \in Elems(down[c]) : ~IsAck(x) /\ ~IsUpdate(x)
  BY <1>2, GapFacts DEF GapInv, Ordered, Carries, IsAck, IsUpdate
<1>7. Ordered(c)'
  BY <1>2, <1>3, <1>5, <1>6 DEF Ordered
<1>8. Starts(c)' \subseteq Starts(c)
  <2>1. CASE ~Renewed(c)
    BY <1>2, <1>5, <2>1 DEF Starts
  <2>2. CASE Renewed(c)
    <3>1. Starts(c) = {delivered[c]}
      BY <1>2, <2>2 DEF Starts
    <3>2. \A x \in Elems(down'[c]) : IsAck(x) => x.seq = delivered[c]
      BY <1>3, <1>5, <1>6, <2>2
    <3>3. Starts(c)' = {x.seq : x \in {y \in Elems(down'[c]) : IsAck(y)}}
      BY <1>2, <1>3, <1>5, <2>2 DEF Starts
    <3>. QED
      BY <3>1, <3>2, <3>3
  <2>. QED
    BY <2>1, <2>2
<1>9. UnderWay(c) \subseteq UnderWay(c)'
  BY <1>2, <1>5 DEF UnderWay
<1>10. Promised(c)'
  BY <1>2, <1>4, <1>8, <1>9, PromiseKept
<1>11. Buffered(c)'
  BY <1>2, <1>4, GapFacts, BufferKept
<1>12. Resumed(c)'
  BY <1>2, <1>4, ResumedKept DEF Handshaking
<1>. QED
  BY <1>7, <1>10, <1>11, <1>12 DEF GapInv

(* The drain: an update past the mark reaches the wire, and nothing between *)
(* the two was left out.                                                   *)
LEMMA GapDrain ==
  ASSUME TypeOK, DeliveryInv, AllGapInv, NEW c \in Clients, Drain(c)
  PROVE  GapInv(c)'
<1>. USE DEF streamVars, serverVars, clientVars, historyVars, Write
<1>. DEFINE s == Head(send[c])
<1>1. DOMAIN send = Clients /\ DOMAIN down = Clients /\ DOMAIN delivered = Clients
  BY DEF TypeOK, ServerTypeOK, BufferTypeOK, WireTypeOK
<1>2. /\ UNCHANGED <<log, hub, recv, lastSeq, base, asked, tail, overflow, skipped,
                     aged, resumeFrom, head, todo, pc>>
      /\ pc[c] = "serving" /\ send[c] # <<>> /\ send'[c] = Tail(send[c])
      /\ \/ s <= delivered[c] /\ delivered'[c] = delivered[c] /\ down'[c] = down[c]
         \/ ~(s <= delivered[c]) /\ delivered'[c] = s /\ down'[c] = Append(down[c], FlightUpdate(s))
  BY <1>1 DEF Drain, IsDuplicate
<1>3. /\ send[c] \in Seq(Nat) /\ Increasing(send[c]) /\ \A x \in Elems(send[c]) : x \in Nat /\ x <= tail
      /\ c \in hub
  BY <1>2, ClientFacts, GapFacts DEF GapInv, Buffered
<1>4. /\ Elems(send[c]) = {s} \cup Elems(send'[c]) /\ Increasing(send'[c])
      /\ \A x \in Elems(send'[c]) : s < x
  BY <1>2, <1>3, ElemsSplit, IncreasingTail
<1>5. s \in Nat /\ s <= tail
  BY <1>3, <1>4
<1>6. /\ FlightUpdate(s) \in ServerMessages /\ Carries(FlightUpdate(s))
      /\ IsUpdate(FlightUpdate(s)) /\ ~IsAck(FlightUpdate(s)) /\ FlightUpdate(s).seq = s
  BY <1>5 DEF FlightUpdate, ServerMessages, Carries, IsUpdate, IsAck
<1>. HIDE DEF s
<1>7. Extends(c) /\ Accounted(c)' = Accounted(c) /\ \A x : Wants(c, x)' <=> Wants(c, x)
  BY <1>2 DEF Extends, Accounted, Wants, Contains
<1>8. /\ delivered[c] \in Nat /\ head[c] \in Nat /\ tail \in Nat
      /\ delivered'[c] \in Nat /\ delivered[c] <= delivered'[c] /\ s <= delivered'[c]
  BY <1>2, <1>5, GapFacts
<1>9. ASSUME NEW x \in (head[c] + 1 .. tail), Wants(c, x)
      PROVE  x \in 1 .. delivered[c] \cup Elems(send[c]) \cup overflow[c] \cup aged
  <2>1. x \in Due(c, head[c], tail)
    BY <1>9 DEF Due
  <2>. QED
    BY <1>2, <2>1, GapFacts DEF GapInv, Buffered
<1>10. Buffered(c)'
  <2>1. ASSUME NEW x \in (head[c] + 1 .. tail), Wants(c, x)
        PROVE  x \in 1 .. delivered'[c] \cup Elems(send'[c]) \cup overflow[c] \cup aged
    <3>1. x \in Nat /\ 1 <= x
      BY <1>8
    <3>2. CASE x \in 1 .. delivered[c]
      BY <1>8, <3>1, <3>2
    <3>3. CASE x = s
      BY <1>8, <3>1, <3>3
    <3>. QED
      BY <1>4, <1>9, <2>1, <3>2, <3>3
  <2>2. Due(c, head[c], tail)' \subseteq
          (1 .. delivered[c] \cup Elems(send[c]) \cup overflow[c] \cup aged)'
    BY <1>2, <1>7, <2>1 DEF Due
  <2>3. \A x \in Elems(send'[c]) : x <= tail'
    BY <1>2, <1>3, <1>4
  <2>. QED
    BY <1>2, <1>3, <1>4, <2>2, <2>3 DEF Buffered
<1>11. Resumed(c)'
  BY <1>2, <1>7, ResumedKept DEF Handshaking
<1>12. CASE s <= delivered[c]
  <2>1. delivered'[c] = delivered[c] /\ down'[c] = down[c]
    BY <1>2, <1>12
  <2>2. /\ Renewed(c)' <=> Renewed(c)
        /\ Starts(c)' = Starts(c) /\ UnderWay(c)' = UnderWay(c)
    BY <1>2, <2>1 DEF Renewed, Starts, UnderWay
  <2>3. Promised(c)'
    BY <1>2, <1>7, <2>1, <2>2, PromiseKept
  <2>4. Ordered(c)'
    BY <1>2, <2>1, <2>2, GapFacts DEF GapInv, Ordered
  <2>. QED
    BY <1>10, <1>11, <2>3, <2>4 DEF GapInv
<1>13. CASE ~(s <= delivered[c])
  <2>1. delivered'[c] = s /\ down'[c] = Append(down[c], FlightUpdate(s)) /\ delivered[c] < s
    BY <1>2, <1>5, <1>8, <1>13
  <2>2. /\ Elems(down'[c]) = Elems(down[c]) \cup {FlightUpdate(s)}
        /\ Renewed(c)' <=> Renewed(c)
        /\ \A i \in DOMAIN down'[c] : ~Carries(down'[c][i]) => i = 1
    BY <1>2, <1>6, <2>1, WireGrows
  <2>3. \A x \in Elems(down[c]) : x.seq \in Nat /\ (IsAck(x) => x.seq <= delivered[c])
    BY <1>2, GapFacts DEF ClientInv, HighWaterAhead, IsAck, Carries
  <2>4. \A x \in Elems(down[c]) : IsAck(x) => x.seq < s
    BY <1>5, <1>8, <2>1, <2>3
  <2>5. Ordered(c)'
    <3>1. Renewed(c) => \A m, u \in Elems(down[c]) : IsAck(m) /\ IsUpdate(u) => m.seq < u.seq
      BY GapFacts DEF GapInv, Ordered
    <3>2. Renewed(c)' => \A m, u \in Elems(down'[c]) : IsAck(m) /\ IsUpdate(u) => m.seq < u.seq
      BY <1>6, <2>2, <2>4, <3>1
    <3>. QED
      BY <1>2, <2>2, <3>2 DEF Ordered
  <2>6. Starts(c)' = Starts(c) /\ UnderWay(c)' = UnderWay(c) \cup {s}
    <3>1. {x \in Elems(down'[c]) : IsAck(x)} = {x \in Elems(down[c]) : IsAck(x)}
      BY <1>6, <2>2
    <3>2. Starts(c)' = Starts(c)
      BY <1>2, <2>2, <3>1 DEF Starts
    <3>3. UnderWay(c)' = UnderWay(c) \cup {s}
      BY <1>2, <1>6, <2>2 DEF UnderWay
    <3>. QED
      BY <3>2, <3>3
  <2>7. ASSUME NEW b \in Starts(c), NEW x \in (b + 1 .. Larger(s, head[c])), Wants(c, x)
        PROVE  x \in Accounted(c) \cup UnderWay(c) \cup {s}
    <3>1. b \in Nat /\ x \in Nat
      BY <1>5, <1>8, GapFacts DEF Larger
    <3>2. CASE x <= Larger(delivered[c], head[c])
      <4>1. x \in Due(c, b, Larger(delivered[c], head[c]))
        BY <1>8, <2>7, <3>1, <3>2 DEF Due, Larger
      <4>. QED
        BY <1>2, <4>1, GapFacts DEF GapInv, Promised
    <3>3. CASE ~(x <= Larger(delivered[c], head[c]))
      <4>1. delivered[c] < x /\ head[c] < x /\ x <= s
        BY <1>5, <1>8, <2>7, <3>1, <3>3 DEF Larger
      <4>2. x \in head[c] + 1 .. tail
        BY <1>5, <1>8, <3>1, <4>1
      <4>3. x \notin 1 .. delivered[c]
        BY <1>8, <3>1, <4>1
      <4>4. x \in Elems(send[c]) => x = s
        BY <1>3, <1>4, <1>5, <3>1, <4>1
      <4>. QED
        BY <1>9, <2>7, <4>2, <4>3, <4>4 DEF Accounted
    <3>. QED
      BY <3>2, <3>3
  <2>8. Promised(c)'
    BY <1>2, <1>7, <2>1, <2>6, <2>7 DEF Promised, Due, Larger
  <2>. QED
    BY <1>10, <1>11, <2>5, <2>8 DEF GapInv
<1>. QED
  BY <1>12, <1>13

-----------------------------------------------------------------------------
(* What the browser finds when it takes a message off the wire. *)
LEMMA Reading ==
  ASSUME TypeOK, DeliveryInv, AllGapInv, NEW c \in Clients,
         down[c] # <<>>, down'[c] = Tail(down[c])
  PROVE  /\ pc[c] \in {"replaying", "acking", "serving"}
         /\ Head(down[c]).seq \in Nat /\ Head(down[c]).seq # NoSeq
         /\ Elems(down[c]) = {Head(down[c])} \cup Elems(down'[c])
         /\ \A x \in Elems(down'[c]) :
              /\ Carries(x) /\ x.seq \in Nat
              /\ Carries(Head(down[c])) =>
                   Head(down[c]).seq <= x.seq /\ (IsUpdate(x) => Head(down[c]).seq < x.seq)
         /\ Renewed(c)' <=> lastSeq'[c] = NoSeq
         /\ Renewed(c) <=> lastSeq[c] = NoSeq \/ ~Carries(Head(down[c]))
         /\ \A i \in DOMAIN down'[c] : Carries(down'[c][i])
<1>. DEFINE h == Head(down[c])
<1>1. down[c] \in Seq(ServerMessages) /\ pc[c] \in PCs
  BY ClientFacts
<1>2. pc[c] \in {"replaying", "acking", "serving"}
  BY <1>1, GapFacts DEF ClientInv, Quiet, Handshaking, PCs
<1>3. Elems(down[c]) = {h} \cup Elems(down'[c])
  BY <1>1, ElemsSplit
<1>4. \A x \in Elems(down[c]) : x.seq \in Nat
  BY GapFacts
<1>5. h.seq \in Nat /\ h.seq # NoSeq
  BY <1>3, <1>4, NoSeqAssumption
<1>6. \A i \in DOMAIN down'[c] : Carries(down'[c][i])
  <2>1. \A i \in DOMAIN down'[c] : i \in Nat \ {0} /\ i + 1 \in DOMAIN down[c]
                                   /\ down'[c][i] = down[c][i + 1]
    BY <1>1, ElemsTail
  <2>2. \A i \in DOMAIN down'[c] : i + 1 # 1
    BY <2>1
  <2>. QED
    BY <2>1, <2>2, GapFacts DEF GapInv, Ordered
<1>7. \A x \in Elems(down'[c]) : Carries(x)
  BY <1>6 DEF Elems
<1>8. Carries(h) => \A x \in Elems(down'[c]) : Carries(x) =>
           h.seq <= x.seq /\ (IsUpdate(x) => h.seq < x.seq)
  BY <1>1, InOrderTail, GapFacts DEF ClientInv
<1>. HIDE DEF h
<1>9. Renewed(c)' <=> lastSeq'[c] = NoSeq
  BY <1>7 DEF Renewed
<1>10. Renewed(c) <=> lastSeq[c] = NoSeq \/ ~Carries(h)
  BY <1>3, <1>7 DEF Renewed
<1>. QED
  BY <1>2, <1>3, <1>4, <1>5, <1>6, <1>7, <1>8, <1>9, <1>10 DEF h

(* Everything promised up to the message at hand was handled, but for the  *)
(* message itself.                                                         *)
LEMMA Settled ==
  ASSUME TypeOK, DeliveryInv, AllGapInv, NEW c \in Clients,
         down[c] # <<>>, down'[c] = Tail(down[c]), Carries(Head(down[c])),
         NEW b \in Starts(c), NEW x \in (b + 1 .. Head(down[c]).seq), Wants(c, x)
  PROVE  x \in Accounted(c) \/ (x = Head(down[c]).seq /\ IsUpdate(Head(down[c])))
<1>. DEFINE h == Head(down[c])
<1>1. /\ pc[c] \in {"replaying", "acking", "serving"} /\ h.seq \in Nat
      /\ Elems(down[c]) = {h} \cup Elems(down'[c])
      /\ \A y \in Elems(down'[c]) : y.seq \in Nat /\ (IsUpdate(y) => h.seq < y.seq)
  BY Reading
<1>2. b \in Nat /\ delivered[c] \in Nat /\ head[c] \in Nat /\ todo[c] \subseteq Nat
  BY GapFacts, ClientFacts
<1>. HIDE DEF h
<1>3. x \in Nat /\ b < x /\ x <= h.seq
  BY <1>1, <1>2 DEF h
<1>4. h.seq <= delivered[c] /\ \A t \in todo[c] : h.seq < t
  BY <1>1, GapFacts DEF ClientInv, HighWaterAhead, ReplayAhead, h
<1>5. x \in Due(c, b, Larger(delivered[c], head[c]))
  BY <1>1, <1>2, <1>3, <1>4 DEF Due, Larger
<1>6. x \in Accounted(c) \cup UnderWay(c)
  BY <1>1, <1>5, GapFacts DEF GapInv, Promised
<1>7. x \notin todo[c]
  BY <1>1, <1>2, <1>3, <1>4
<1>8. \A y \in Elems(down'[c]) : IsUpdate(y) => x # y.seq
  BY <1>1, <1>3
<1>. QED
  BY <1>1, <1>6, <1>7, <1>8 DEF UnderWay, h

(* An update handled moves from what is under way to what was received.    *)
LEMMA GapUpdate ==
  ASSUME TypeOK, DeliveryInv, AllGapInv, NEW c \in Clients, OnFlightUpdate(c)
  PROVE  GapInv(c)'
<1>. USE DEF streamVars, serverVars, clientVars, historyVars, Handle
<1>. DEFINE h == Head(down[c])
<1>1. DOMAIN down = Clients /\ DOMAIN lastSeq = Clients /\ DOMAIN recv = Clients
  BY DEF TypeOK, WireTypeOK, ClientTypeOK
<1>2. /\ UNCHANGED <<log, hub, base, asked, tail, overflow, skipped, aged, resumeFrom, head,
                     todo, pc, send, delivered>>
      /\ down[c] # <<>> /\ down'[c] = Tail(down[c]) /\ h.type = "flight_update"
      /\ lastSeq'[c] = h.seq /\ recv'[c] = Append(recv[c], h.seq)
  BY <1>1 DEF OnFlightUpdate
<1>3. Carries(h) /\ IsUpdate(h) /\ ~IsAck(h)
  BY <1>2 DEF Carries, IsUpdate, IsAck
<1>4. /\ pc[c] \in {"replaying", "acking", "serving"} /\ h.seq \in Nat /\ h.seq # NoSeq
      /\ Elems(down[c]) = {h} \cup Elems(down'[c])
      /\ \A x \in Elems(down'[c]) : x.seq \in Nat /\ h.seq <= x.seq
      /\ Renewed(c)' <=> lastSeq'[c] = NoSeq
      /\ Renewed(c) <=> lastSeq[c] = NoSeq
      /\ \A i \in DOMAIN down'[c] : Carries(down'[c][i])
  BY <1>2, <1>3, Reading
<1>5. Elems(recv'[c]) = Elems(recv[c]) \cup {h.seq}
  <2>1. recv[c] \in Seq(Nat) /\ h.seq \in Nat /\ recv'[c] = Append(recv[c], h.seq)
    BY <1>2, <1>4, ClientFacts
  <2>. HIDE DEF h
  <2>. QED
    BY <2>1, ElemsAppend
<1>6. \A b \in Starts(c) : \A x \in b + 1 .. h.seq : Wants(c, x) => x \in Accounted(c) \cup {h.seq}
  <2>1. ASSUME NEW b \in Starts(c), NEW x \in (b + 1 .. h.seq), Wants(c, x)
        PROVE  x \in Accounted(c) \/ x = h.seq
    BY <1>2, <1>3, <2>1, Settled
  <2>. HIDE DEF h
  <2>. QED
    BY <2>1
<1>. HIDE DEF h
<1>7. Extends(c) /\ Accounted(c)' = Accounted(c) \cup {h.seq} /\ \A x : Wants(c, x)' <=> Wants(c, x)
  BY <1>2, <1>5 DEF Extends, Accounted, Wants, Contains
<1>8. ~Renewed(c)'
  BY <1>2, <1>4
<1>9. Ordered(c)'
  BY <1>4, <1>8 DEF Ordered
<1>10. Starts(c)' = {base[c]} /\ Starts(c) = {base[c]}
  <2>1. Starts(c)' = {base[c]}
    BY <1>2, <1>8 DEF Starts
  <2>2. CASE Renewed(c)
    <3>1. pc[c] # "acking"
      BY <1>3, <1>4, <2>2, GapFacts DEF GapInv, Ordered
    <3>2. \A m \in Elems(down[c]) : IsAck(m) => m.seq < h.seq
      BY <1>3, <1>4, <2>2, GapFacts DEF GapInv, Ordered
    <3>3. \A m \in Elems(down[c]) : ~IsAck(m)
      BY <1>3, <1>4, <3>2
    <3>. QED
      BY <2>1, <2>2, <3>1, <3>3 DEF Starts
  <2>3. CASE ~Renewed(c)
    BY <2>1, <2>3 DEF Starts
  <2>. QED
    BY <2>2, <2>3
<1>11. UnderWay(c) \subseteq UnderWay(c)' \cup {h.seq}
  BY <1>2, <1>4 DEF UnderWay
<1>12. Promised(c)'
  BY <1>2, <1>4, <1>7, <1>10, <1>11, PromiseKept
<1>13. Buffered(c)'
  BY <1>2, <1>7, GapFacts, BufferKept DEF Accounted
<1>14. Resumed(c)'
  BY <1>2, <1>4, <1>6, <1>7, <1>10 DEF Resumed, Owed, Due, Handshaking
<1>. QED
  BY <1>9, <1>12, <1>13, <1>14 DEF GapInv

(* The ack: a connection that resumed nothing starts its promise there.    *)
LEMMA GapAck ==
  ASSUME TypeOK, DeliveryInv, AllGapInv, NEW c \in Clients, OnSubscribed(c)
  PROVE  GapInv(c)'
<1>. USE DEF streamVars, serverVars, clientVars, historyVars, Handle
<1>. DEFINE h == Head(down[c])
<1>1. DOMAIN down = Clients /\ DOMAIN lastSeq = Clients /\ DOMAIN base = Clients
  BY DEF TypeOK, WireTypeOK, ClientTypeOK
<1>2. /\ UNCHANGED <<log, hub, recv, asked, tail, overflow, skipped, aged, resumeFrom, head,
                     todo, pc, send, delivered>>
      /\ down[c] # <<>> /\ down'[c] = Tail(down[c]) /\ h.type = "subscribed"
      /\ lastSeq'[c] = IF h.seq = 0 THEN lastSeq[c] ELSE h.seq
      /\ base'[c] = IF lastSeq[c] = NoSeq THEN h.seq ELSE base[c]
  BY <1>1 DEF OnSubscribed
<1>3. Carries(h) /\ ~IsUpdate(h) /\ IsAck(h)
  BY <1>2 DEF Carries, IsUpdate, IsAck
<1>4. /\ pc[c] \in {"replaying", "acking", "serving"} /\ h.seq \in Nat /\ h.seq # NoSeq
      /\ Elems(down[c]) = {h} \cup Elems(down'[c])
      /\ Renewed(c)' <=> lastSeq'[c] = NoSeq
      /\ Renewed(c) <=> lastSeq[c] = NoSeq
      /\ \A i \in DOMAIN down'[c] : Carries(down'[c][i])
  BY <1>2, <1>3, Reading
<1>5. \A b \in Starts(c) : \A x \in b + 1 .. h.seq : Wants(c, x) => x \in Accounted(c)
  BY <1>2, <1>3, Settled
<1>. HIDE DEF h
<1>6. Extends(c) /\ Accounted(c)' = Accounted(c) /\ \A x : Wants(c, x)' <=> Wants(c, x)
  BY <1>2 DEF Extends, Accounted, Wants, Contains
<1>7. Renewed(c)' => Renewed(c) /\ h.seq = 0 /\ lastSeq'[c] = lastSeq[c]
  BY <1>2, <1>4
<1>8. Ordered(c)'
  <2>1. Ordered(c) /\ Elems(down'[c]) \subseteq Elems(down[c])
    BY <1>4, GapFacts DEF GapInv
  <2>. QED
    BY <1>2, <1>4, <1>7, <2>1 DEF Ordered
<1>9. UnderWay(c)' = UnderWay(c)
  BY <1>2, <1>3, <1>4 DEF UnderWay
<1>10. Starts(c)' \subseteq Starts(c) /\ base'[c] \in Starts(c)
  <2>1. CASE ~Renewed(c)
    BY <1>2, <1>4, <1>7, <2>1 DEF Starts
  <2>2. CASE Renewed(c)
    <3>1. pc[c] = "serving"
      BY <1>3, <1>4, <2>2, GapFacts DEF GapInv, Ordered
    <3>2. Starts(c) = {m.seq : m \in {x \in Elems(down[c]) : IsAck(x)}}
      BY <1>3, <1>4, <2>2, <3>1 DEF Starts
    <3>3. base'[c] = h.seq /\ h.seq \in Starts(c)
      BY <1>2, <1>3, <1>4, <2>2, <3>2
    <3>4. Starts(c)' \subseteq {base'[c]} \cup {m.seq : m \in {x \in Elems(down'[c]) : IsAck(x)}}
      BY <1>2, <3>1 DEF Starts
    <3>. QED
      BY <1>4, <3>2, <3>3, <3>4
  <2>. QED
    BY <2>1, <2>2
<1>11. Promised(c)'
  BY <1>2, <1>4, <1>6, <1>9, <1>10, PromiseKept
<1>12. Buffered(c)'
  BY <1>2, <1>6, GapFacts, BufferKept
<1>13. Resumed(c)'
  <2>1. ASSUME lastSeq'[c] # NoSeq, NEW x \in (base'[c] + 1 .. lastSeq'[c]), Wants(c, x)
        PROVE  x \in Accounted(c)
    <3>1. CASE lastSeq'[c] = h.seq
      BY <1>5, <1>10, <2>1, <3>1
    <3>2. CASE lastSeq'[c] = lastSeq[c] /\ base'[c] = base[c]
      <4>1. x \in Owed(c, lastSeq[c])
        BY <2>1, <3>2 DEF Owed, Due
      <4>. QED
        BY <2>1, <3>2, <4>1, GapFacts DEF GapInv, Resumed
    <3>. QED
      BY <1>2, <2>1, <3>1, <3>2
  <2>. QED
    BY <1>2, <1>4, <1>6, <2>1 DEF Resumed, Owed, Due, Handshaking
<1>. QED
  BY <1>8, <1>11, <1>12, <1>13 DEF GapInv

(* A failed resume clears the resume point; the start stays where the ack  *)
(* behind it puts it.                                                      *)
LEMMA GapResumeFailed ==
  ASSUME TypeOK, DeliveryInv, AllGapInv, NEW c \in Clients, OnResumeFailed(c)
  PROVE  GapInv(c)'
<1>. USE DEF streamVars, serverVars, clientVars, historyVars, Handle
<1>. DEFINE h == Head(down[c])
<1>1. DOMAIN down = Clients /\ DOMAIN lastSeq = Clients
  BY DEF TypeOK, WireTypeOK, ClientTypeOK
<1>2. /\ UNCHANGED <<log, hub, recv, base, asked, tail, overflow, skipped, aged, resumeFrom, head,
                     todo, pc, send, delivered>>
      /\ down[c] # <<>> /\ down'[c] = Tail(down[c]) /\ h.type = "resume_failed"
      /\ lastSeq'[c] = NoSeq
  BY <1>1 DEF OnResumeFailed
<1>3. ~Carries(h) /\ ~IsUpdate(h) /\ ~IsAck(h)
  BY <1>2 DEF Carries, IsUpdate, IsAck
<1>4. /\ pc[c] \in {"replaying", "acking", "serving"}
      /\ Elems(down[c]) = {h} \cup Elems(down'[c])
      /\ Renewed(c)' /\ Renewed(c)
      /\ \A i \in DOMAIN down'[c] : Carries(down'[c][i])
  BY <1>2, <1>3, Reading
<1>. HIDE DEF h
<1>5. Extends(c) /\ Accounted(c)' = Accounted(c)
  BY <1>2 DEF Extends, Accounted
<1>6. Ordered(c)'
  <2>1. Ordered(c) /\ Elems(down'[c]) \subseteq Elems(down[c])
    BY <1>4, GapFacts DEF GapInv
  <2>. QED
    BY <1>2, <1>4, <2>1 DEF Ordered
<1>7. UnderWay(c)' = UnderWay(c)
  BY <1>2, <1>3, <1>4 DEF UnderWay
<1>8. Starts(c)' = Starts(c)
  <2>1. {x \in Elems(down'[c]) : IsAck(x)} = {x \in Elems(down[c]) : IsAck(x)}
    BY <1>3, <1>4
  <2>. QED
    BY <1>2, <1>4, <2>1 DEF Starts
<1>9. Promised(c)'
  BY <1>2, <1>4, <1>5, <1>7, <1>8, PromiseKept
<1>10. Buffered(c)'
  BY <1>2, <1>5, GapFacts, BufferKept
<1>11. Resumed(c)'
  BY <1>2, <1>4 DEF Resumed, Handshaking
<1>. QED
  BY <1>6, <1>9, <1>10, <1>11 DEF GapInv

LEMMA TailKept ==
  ASSUME TypeOK, AllGapInv, [Next]_vars
  PROVE  tail' <= LastSeq'
<1>. USE DEF streamVars, serverVars, clientVars
<1>1. tail \in Nat /\ LastSeq \in Nat /\ tail <= LastSeq
  BY DEF AllGapInv, TypeOK, StreamTypeOK, LastSeq
<1>2. CASE Publish
  <2>1. PICK p \in Payloads : log' = Append(log, p)
    BY <1>2 DEF Publish
  <2>2. LastSeq' = LastSeq + 1 /\ tail' = tail
    BY <1>2, <2>1 DEF Publish, LastSeq, TypeOK, StreamTypeOK
  <2>. QED
    BY <1>1, <2>2
<1>3. CASE AgeOut \/ UNCHANGED vars
  BY <1>1, <1>3 DEF AgeOut, vars, LastSeq
<1>4. CASE Broadcast
  BY <1>4 DEF Broadcast, LastSeq
<1>5. CASE Restart
  BY <1>1, <1>5 DEF Restart, Disconnect, LastSeq
<1>6. ASSUME NEW c \in Clients, ClientStep(c) PROVE tail' = tail /\ log' = log
  BY <1>6 DEF ClientStep, Serve, Register, ReadHead, ResumeNothing, ResumeRefused, OpenReader,
    FetchBacklog, Replay, ReplayDone, Acknowledge, Drain, SetBBox, Connect, OnMessage,
    OnSubscribed, OnFlightUpdate, OnResumeFailed, UpdateBBox, Drop, Close, Disconnect
<1>7. ASSUME tail' = tail, log' = log PROVE tail' <= LastSeq'
  BY <1>1, <1>7 DEF LastSeq
<1>. QED
  BY <1>2, <1>3, <1>4, <1>5, <1>6, <1>7 DEF Next, ClientStep

LEMMA GapStep ==
  ASSUME TypeOK, DeliveryInv, AllFeedInv, AllGapInv, [Next]_vars, NEW d \in Clients
  PROVE  GapInv(d)'
<1>1. CASE UNCHANGED vars
  BY <1>1, GapFrame DEF vars, streamVars, serverVars, clientVars, historyVars, Apart, Untouched,
    Extends
<1>2. CASE Publish \/ AgeOut
  BY <1>2, GapStream
<1>3. CASE Broadcast
  BY <1>3, GapBroadcast
<1>4. CASE Restart
  <2>1. tail' = LastSeq /\ tail \in Nat /\ LastSeq \in Nat /\ tail <= LastSeq
    BY <1>4, GapFacts DEF Restart
  <2>2. Disconnect({c \in Clients : pc[c] # "closed"}, "reconnecting")
    BY <1>4 DEF Restart
  <2>3. d \in {c \in Clients : pc[c] # "closed"} \/ pc[d] = "closed"
    OBVIOUS
  <2>. QED
    BY <2>1, <2>2, <2>3, GapDisconnect
<1>5. ASSUME NEW c \in Clients, ClientStep(c) PROVE GapInv(d)'
  <2>1. CASE c # d
    BY <1>5, <2>1, GapOthers
  <2>2. CASE c = d /\ (Drop(c) \/ Close(c))
    <3>1. PICK st : Disconnect({d}, st) /\ tail' = tail
      BY <2>2 DEF Drop, Close
    <3>2. tail \in Nat /\ tail <= tail
      BY GapFacts
    <3>. QED
      BY <3>1, <3>2, GapDisconnect
  <2>3. CASE c = d /\ Serve(c)
    BY <2>3, GapConnect, GapReadHead, GapNothing, GapRefused, GapFetch, GapReplay,
      GapAcknowledge, GapDrain, GapPans DEF Serve
  <2>4. CASE c = d /\ (Connect(c) \/ UpdateBBox(c))
    BY <2>4, GapConnect, GapPans
  <2>5. CASE c = d /\ OnMessage(c)
    BY <2>5, GapUpdate, GapAck, GapResumeFailed DEF OnMessage
  <2>. QED
    BY <1>5, <2>1, <2>2, <2>3, <2>4, <2>5 DEF ClientStep
<1>. QED
  BY <1>1, <1>2, <1>3, <1>4, <1>5 DEF Next, ClientStep

(* The promise of a gapless stream, and what is under way towards it, is   *)
(* kept by every step.                                                     *)
THEOREM PromiseIsKept == Spec => []AllGapInv
<1>1. TypeOK /\ DeliveryInv /\ AllFeedInv /\ AllGapInv /\ [Next]_vars => AllGapInv'
  BY GapStep, TailKept DEF AllGapInv
<1>. QED
  BY <1>1, GapInit, TypeCorrect, DeliveryCorrect, FeedCorrect, PTL DEF Spec

(* Once the client resumes from n, everything it was owed up to n was      *)
(* handled, or fell to a full send buffer, a replay that fetched less than *)
(* the gap, or a live tail overtaken by retention: no interleaving of the  *)
(* registration, the head snapshot, the replay and the hub's broadcasts    *)
(* loses an update.                                                        *)
THEOREM NoUpdateGoesMissing == Spec => []GapsAreAccountedFor
<1>1. AllGapInv => GapsAreAccountedFor
  BY DEF AllGapInv, GapInv, Resumed, GapsAreAccountedFor
<1>. QED
  BY <1>1, PromiseIsKept, PTL
=============================================================================
