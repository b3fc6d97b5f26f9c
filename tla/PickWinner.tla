----------------------------- MODULE PickWinner -----------------------------
(***************************************************************************)
(* The loop of pickWinner (cmd/normalizer/merge.go): one pass finds the    *)
(* newest report, a second keeps the best candidate so far.  Reports come  *)
(* in the order SCAN happened to return their keys, and SCAN may return a  *)
(* key twice; the loop must pick the same report whatever the order.       *)
(***************************************************************************)
EXTENDS Precedence, Sequences

CONSTANT Inputs \* the report lists the loop is run on

ASSUME InputsAssumption == Inputs \subseteq Seq(Report) \ {<<>>}

VARIABLES
  reports,         \* the argument
  pc,              \* "newest" in the first loop, "best" in the second, "done"
  i,               \* reports[1 .. i] have been looked at by the current loop
  maxTime,
  best,
  bestIsCandidate
vars == <<reports, pc, i, maxTime, best, bestIsCandidate>>

Elems(q) == {q[k] : k \in DOMAIN q}

Init ==
  /\ reports \in Inputs
  /\ pc = "newest"
  /\ i = 1
  /\ maxTime = reports[1].seen
  /\ best = reports[1]
  /\ bestIsCandidate = FALSE

FindNewest ==
  /\ pc = "newest" /\ i < Len(reports)
  /\ i' = i + 1
  /\ maxTime' = IF reports[i + 1].seen > maxTime THEN reports[i + 1].seen ELSE maxTime
  /\ UNCHANGED <<reports, pc, best, bestIsCandidate>>

(* Mutant: the window measured from the best report so far. *)
IsCandidateToBest(r) == best.seen - r.seen <= Window

IsCandidate(r) == maxTime - r.seen <= Window

StartBest ==
  /\ pc = "newest" /\ i = Len(reports)
  /\ pc' = "best"
  /\ i' = 1
  /\ bestIsCandidate' = IsCandidate(best)
  /\ UNCHANGED <<reports, maxTime, best>>

Preferred(r) ==
  \/ r.quality < best.quality
  \/ /\ r.quality = best.quality
     /\ \/ r.seen > best.seen
        \/ r.seen = best.seen /\ r.provider < best.provider

KeepBest ==
  LET r == reports[i + 1] IN
  /\ pc = "best" /\ i < Len(reports)
  /\ i' = i + 1
  /\ IF IsCandidate(r) /\ (~bestIsCandidate \/ Preferred(r))
     THEN best' = r /\ bestIsCandidate' = TRUE
     ELSE UNCHANGED <<best, bestIsCandidate>>
  /\ UNCHANGED <<reports, pc, maxTime>>

Return ==
  /\ pc = "best" /\ i = Len(reports)
  /\ pc' = "done"
  /\ UNCHANGED <<reports, i, maxTime, best, bestIsCandidate>>

Next == FindNewest \/ StartBest \/ KeepBest \/ Return
Spec == Init /\ [][Next]_vars

-----------------------------------------------------------------------------
(* The report returned is the winner by the documented rule, a rule on the *)
(* set of reports: it is within the tie window of the newest report, and   *)
(* no other report of the window beats it, although the loop compares each *)
(* report only with the best so far.                                       *)
ReturnsWinner == pc = "done" => IsWinner(best, Elems(reports))

(* With one report per provider (raw:{provider}:{icao24} holds one), the   *)
(* result depends on the set of reports only, not on the order or the      *)
(* repetitions of the list.                                                *)
OnePerProvider(R) == \A r, s \in R : r.provider = s.provider => r = s
OrderIrrelevant ==
  pc = "done" /\ OnePerProvider(Elems(reports)) => best = Winner(Elems(reports))

(* The loop invariant: maxTime is the newest of the reports looked at, and *)
(* best their best candidate, or no candidate has been seen yet.           *)
TypeOK ==
  /\ reports \in Seq(Report) \ {<<>>}
  /\ pc \in {"newest", "best", "done"}
  /\ i \in 1 .. Len(reports)
  /\ maxTime \in Nat /\ best \in Report /\ bestIsCandidate \in BOOLEAN
Seen == {reports[k] : k \in 1 .. i}
LoopInv ==
  /\ pc = "newest" => best = reports[1] /\ IsNewest(maxTime, Seen)
  /\ pc # "newest" =>
       /\ IsNewest(maxTime, Elems(reports))
       /\ best \in Seen
       /\ bestIsCandidate = IsCandidate(best)
       /\ \A r \in Seen : IsCandidate(r) => bestIsCandidate /\ ~Beats(r, best)
  /\ pc = "done" => i = Len(reports)
=============================================================================
