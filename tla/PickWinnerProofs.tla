-------------------------- MODULE PickWinnerProofs --------------------------
(***************************************************************************)
(* pickWinner returns the winner of the precedence rule for every list of  *)
(* reports and every tie window.                                           *)
(***************************************************************************)
EXTENDS PickWinner, TLAPS

(* A set of reports has at most one newest time, and Newest is it. *)
LEMMA NewestIs ==
  ASSUME NEW R \in SUBSET Report, NEW t \in Nat, IsNewest(t, R)
  PROVE  Newest(R) = t
<1>1. \E u \in {r.seen : r \in R} : IsNewest(u, R)
  BY DEF IsNewest
<1>2. Newest(R) \in {r.seen : r \in R} /\ IsNewest(Newest(R), R)
  BY <1>1 DEF Newest
<1>3. \A r \in R : r.seen \in Nat
  BY DEF Report
<1>. QED
  BY <1>2, <1>3 DEF IsNewest

(* Beats is a strict order on the reports of different providers, so two   *)
(* winners are one.                                                        *)
LEMMA WinnerUnique ==
  ASSUME NEW R \in SUBSET Report, OnePerProvider(R),
         NEW v, NEW w, IsWinner(v, R), IsWinner(w, R)
  PROVE  v = w
<1>1. v \in R /\ w \in R /\ ~Beats(v, w) /\ ~Beats(w, v)
  BY DEF IsWinner
<1>2. v \in Report /\ w \in Report
  BY <1>1
<1>3. /\ v.quality \in 0 .. 2 /\ w.quality \in 0 .. 2
      /\ v.seen \in Nat /\ w.seen \in Nat
      /\ v.provider \in Nat /\ w.provider \in Nat
  BY <1>2, ProvidersAssumption DEF Report
<1>4. v.provider = w.provider
  BY <1>1, <1>3 DEF Beats
<1>. QED
  BY <1>1, <1>4 DEF OnePerProvider

LEMMA LoopInit == Init => TypeOK /\ LoopInv
<1>. SUFFICES ASSUME Init PROVE TypeOK /\ LoopInv
  OBVIOUS
<1>1. reports \in Seq(Report) /\ reports # <<>>
  BY InputsAssumption DEF Init
<1>2. reports[1] \in Report /\ Len(reports) \in Nat /\ Len(reports) >= 1
  BY <1>1
<1>3. reports[1].seen \in Nat
  BY <1>2 DEF Report
<1>4. TypeOK
  <2>1. i \in 1 .. Len(reports)
    BY <1>2 DEF Init
  <2>2. pc \in {"newest", "best", "done"} /\ bestIsCandidate \in BOOLEAN
    BY DEF Init
  <2>3. maxTime \in Nat /\ best \in Report
    BY <1>2, <1>3 DEF Init
  <2>. QED
    BY <1>1, <2>1, <2>2, <2>3 DEF TypeOK
<1>5. Seen = {reports[1]}
  BY DEF Init, Seen
<1>. QED
  BY <1>3, <1>4, <1>5 DEF Init, LoopInv, IsNewest

(* What a step of either loop adds to the reports seen. *)
LEMMA SeenGrows ==
  ASSUME TypeOK, i < Len(reports), i' = i + 1, reports' = reports
  PROVE  /\ Seen' = Seen \cup {reports[i + 1]}
         /\ reports[i + 1] \in Report /\ Seen \subseteq Report
  BY DEF TypeOK, Seen

LEMMA AllSeen ==
  ASSUME TypeOK, i = Len(reports)
  PROVE  Seen = Elems(reports)
  BY DEF TypeOK, Seen, Elems

LEMMA LoopStep == TypeOK /\ LoopInv /\ [Next]_vars => TypeOK' /\ LoopInv'
<1>. SUFFICES ASSUME TypeOK, LoopInv, [Next]_vars PROVE TypeOK' /\ LoopInv'
  OBVIOUS
<1>1. /\ Len(reports) \in Nat \ {0} /\ i \in 1 .. Len(reports)
      /\ Elems(reports) \subseteq Report /\ reports[1] \in Seen
  BY DEF TypeOK, Elems, Seen
<1>2. \A r \in Report : r.seen \in Nat /\ r.quality \in 0 .. 2 /\ r.provider \in Nat
  BY ProvidersAssumption DEF Report
<1>3. CASE FindNewest
  <2>1. /\ i < Len(reports) /\ i' = i + 1 /\ reports' = reports /\ pc = "newest"
        /\ pc' = pc /\ best' = best /\ bestIsCandidate' = bestIsCandidate
    BY <1>3 DEF FindNewest
  <2>2. /\ Seen' = Seen \cup {reports[i + 1]}
        /\ reports[i + 1] \in Report /\ Seen \subseteq Report
    BY <2>1, SeenGrows
  <2>3. reports[i + 1].seen \in Nat /\ maxTime \in Nat
    BY <1>2, <2>2 DEF TypeOK
  <2>4. TypeOK'
    BY <1>1, <1>3, <2>1, <2>3 DEF TypeOK, FindNewest
  <2>5. IsNewest(maxTime', Seen')
    BY <1>2, <1>3, <2>1, <2>2, <2>3 DEF FindNewest, LoopInv, IsNewest
  <2>. QED
    BY <2>1, <2>4, <2>5 DEF LoopInv
<1>4. CASE StartBest
  <2>1. /\ i = Len(reports) /\ i' = 1 /\ reports' = reports /\ pc = "newest"
        /\ pc' = "best" /\ best' = best /\ bestIsCandidate' = IsCandidate(best)
        /\ maxTime' = maxTime
    BY <1>4 DEF StartBest
  <2>2. TypeOK'
    BY <1>1, <2>1 DEF TypeOK, IsCandidate
  <2>3. Seen' = {reports[1]} /\ best = reports[1]
    BY <2>1 DEF Seen, LoopInv
  <2>4. IsNewest(maxTime, Elems(reports))
    BY <2>1, AllSeen DEF LoopInv
  <2>5. reports[1].seen \in Nat /\ reports[1].quality \in 0 .. 2
        /\ reports[1].provider \in Nat
    BY <1>1, <1>2 DEF TypeOK
  <2>6. ~Beats(best, best)
    BY <2>3, <2>5 DEF Beats
  <2>. QED
    BY <2>1, <2>2, <2>3, <2>4, <2>6 DEF LoopInv, IsCandidate, Elems
<1>5. CASE KeepBest
  <2>. DEFINE r == reports[i + 1]
  <2>1. /\ i < Len(reports) /\ i' = i + 1 /\ reports' = reports /\ pc = "best"
        /\ pc' = pc /\ maxTime' = maxTime
        /\ \/ /\ IsCandidate(r) /\ (~bestIsCandidate \/ Preferred(r))
              /\ best' = r /\ bestIsCandidate' = TRUE
           \/ /\ ~(IsCandidate(r) /\ (~bestIsCandidate \/ Preferred(r)))
              /\ best' = best /\ bestIsCandidate' = bestIsCandidate
    BY <1>5 DEF KeepBest
  <2>2. Seen' = Seen \cup {r} /\ r \in Report /\ Seen \subseteq Report
    BY <2>1, SeenGrows
  <2>3. TypeOK'
    <3>1. i' \in 1 .. Len(reports')
      BY <1>1, <2>1
    <3>2. best' \in Report
      BY <2>1, <2>2 DEF TypeOK
    <3>3. bestIsCandidate' \in BOOLEAN
      BY <2>1, Zenon DEF TypeOK
    <3>. QED
      BY <2>1, <3>1, <3>2, <3>3 DEF TypeOK
  <2>4. best \in Report /\ bestIsCandidate \in BOOLEAN /\ maxTime \in Nat
    BY DEF TypeOK
  <2>5. best' \in Seen'
    BY <2>1, <2>2 DEF LoopInv
  <2>6. bestIsCandidate' = IsCandidate(best)'
    BY <2>1 DEF LoopInv, IsCandidate
  <2>7. /\ best \in Seen /\ bestIsCandidate = IsCandidate(best)
        /\ \A s \in Seen : IsCandidate(s) => bestIsCandidate /\ ~Beats(s, best)
    BY <2>1 DEF LoopInv
  <2>8. ASSUME NEW s \in Seen', IsCandidate(s)
        PROVE  bestIsCandidate' /\ ~Beats(s, best')
    <3>1. /\ s.seen \in Nat /\ s.quality \in 0 .. 2 /\ s.provider \in Nat
          /\ r.seen \in Nat /\ r.quality \in 0 .. 2 /\ r.provider \in Nat
          /\ best.seen \in Nat /\ best.quality \in 0 .. 2 /\ best.provider \in Nat
      BY <1>2, <2>2, <2>4
    <3>2. Preferred(r) <=> Beats(r, best)
      BY DEF Preferred, Beats
    <3>3. CASE s = r
      BY <2>1, <2>8, <3>1, <3>2, <3>3 DEF Beats
    <3>4. CASE s \in Seen
      <4>1. bestIsCandidate /\ ~Beats(s, best)
        BY <2>7, <2>8, <3>4
      <4>2. CASE best' = best
        BY <2>1, <4>1, <4>2
      <4>3. CASE best' = r /\ Preferred(r) /\ bestIsCandidate' = TRUE
        BY <3>1, <3>2, <4>1, <4>3 DEF Beats
      <4>. QED
        BY <2>1, <4>1, <4>2, <4>3
    <3>. QED
      BY <2>2, <3>3, <3>4
  <2>9. IsNewest(maxTime, Elems(reports))
    BY <2>1 DEF LoopInv
  <2>10. \A s \in Seen' : IsCandidate(s)' => bestIsCandidate' /\ ~Beats(s, best')
    BY <2>1, <2>8 DEF IsCandidate
  <2>. QED
    BY <2>1, <2>3, <2>5, <2>6, <2>9, <2>10 DEF LoopInv, Elems
<1>6. CASE Return
  BY <1>6 DEF Return, TypeOK, LoopInv, IsCandidate, Seen, Elems
<1>7. CASE UNCHANGED vars
  BY <1>7 DEF vars, TypeOK, LoopInv, IsCandidate, Seen, Elems
<1>. QED
  BY <1>3, <1>4, <1>5, <1>6, <1>7 DEF Next

(* The loop invariant holds throughout, for every list of reports. *)
THEOREM LoopInvariant == Spec => [](TypeOK /\ LoopInv)
<1>. QED
  BY LoopInit, LoopStep, PTL DEF Spec

(* pickWinner returns the winner of the documented precedence rule. *)
THEOREM PickWinnerCorrect == Spec => []ReturnsWinner
<1>1. TypeOK /\ LoopInv => ReturnsWinner
  <2>. SUFFICES ASSUME TypeOK, LoopInv, pc = "done"
                PROVE  IsWinner(best, Elems(reports))
    BY DEF ReturnsWinner
  <2>1. Seen = Elems(reports)
    BY AllSeen DEF LoopInv
  <2>2. Elems(reports) \subseteq Report
    BY DEF TypeOK, Elems
  <2>3. IsNewest(maxTime, Elems(reports)) /\ maxTime \in Nat
    BY DEF LoopInv, TypeOK
  <2>4. Newest(Elems(reports)) = maxTime
    BY <2>2, <2>3, NewestIs
  <2>5. \E r \in Elems(reports) : IsCandidate(r)
    <3>1. PICK r \in Elems(reports) : r.seen = maxTime
      BY <2>3 DEF IsNewest
    <3>. QED
      BY <2>3, <3>1, WindowAssumption DEF IsCandidate
  <2>. QED
    BY <2>1, <2>4, <2>5 DEF LoopInv, IsWinner, NearTie, IsCandidate
<1>. QED
  BY <1>1, LoopInvariant, PTL

(* The order of the list, and repetitions in it, do not matter. *)
THEOREM PickWinnerIgnoresOrder == Spec => []OrderIrrelevant
<1>1. TypeOK /\ ReturnsWinner => OrderIrrelevant
  <2>. SUFFICES ASSUME TypeOK, OnePerProvider(Elems(reports)),
                       IsWinner(best, Elems(reports))
                PROVE  best = Winner(Elems(reports))
    BY DEF OrderIrrelevant, ReturnsWinner
  <2>1. Elems(reports) \subseteq Report
    BY DEF TypeOK, Elems
  <2>2. best \in Elems(reports)
    BY DEF IsWinner
  <2>3. IsWinner(Winner(Elems(reports)), Elems(reports))
    BY <2>2 DEF Winner
  <2>. QED
    BY <2>1, <2>3, WinnerUnique
<1>. QED
  BY <1>1, LoopInvariant, PickWinnerCorrect, PTL
=============================================================================
