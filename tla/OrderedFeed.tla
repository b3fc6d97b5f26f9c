---------------------------- MODULE OrderedFeed ----------------------------
(***************************************************************************)
(* What the live path of the API gateway promises a browser tab: of the    *)
(* updates published, those inside some viewport the tab asked for, each   *)
(* at most once and in the order of their publication.  It does not        *)
(* promise all of them.                                                    *)
(*                                                                         *)
(* A viewport is the set of the payloads inside it.                        *)
(***************************************************************************)
EXTENDS Naturals, Sequences

CONSTANTS Clients, Payloads, Viewports

VARIABLES
  log,      \* the updates published; the index is the sequence
  asked,    \* the viewports each client has subscribed with
  recv      \* the sequences handed to each client

feedVars == <<log, asked, recv>>

Init ==
  /\ log = <<>>
  /\ asked = [c \in Clients |-> {}]
  /\ recv = [c \in Clients |-> <<>>]

Publish(p) ==
  /\ log' = Append(log, p)
  /\ UNCHANGED <<asked, recv>>

Ask(c, v) ==
  /\ asked' = [asked EXCEPT ![c] = @ \cup {v}]
  /\ UNCHANGED <<log, recv>>

(* Mutant: a repeated or overtaken update is handed over as well. *)
InAnyOrder(c, s) == TRUE

InOrder(c, s) == \A i \in DOMAIN recv[c] : recv[c][i] < s

Hand(c, s) ==
  /\ InOrder(c, s)
  /\ \E v \in asked[c] : log[s] \in v
  /\ recv' = [recv EXCEPT ![c] = Append(@, s)]
  /\ UNCHANGED <<log, asked>>

Next ==
  \/ \E p \in Payloads : Publish(p)
  \/ \E c \in Clients :
       (\E v \in Viewports : Ask(c, v)) \/ (\E s \in DOMAIN log : Hand(c, s))

Spec == Init /\ [][Next]_feedVars

-----------------------------------------------------------------------------
FeedTypeOK ==
  /\ log \in Seq(Payloads)
  /\ asked \in [Clients -> SUBSET Viewports]
  /\ recv \in [Clients -> Seq(DOMAIN log)]

(* The promise, as an invariant: whatever a tab was handed was published,  *)
(* lies in a viewport it asked for, and came once and in order.  Whoever   *)
(* takes only steps of the feed keeps it.                                  *)
Promise ==
  \A c \in Clients : \A i \in DOMAIN recv[c] :
    /\ recv[c][i] \in DOMAIN log
    /\ \E v \in asked[c] : log[recv[c][i]] \in v
    /\ \A j \in 1 .. i - 1 : recv[c][j] < recv[c][i]
=============================================================================
