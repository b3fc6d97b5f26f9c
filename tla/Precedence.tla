----------------------------- MODULE Precedence -----------------------------
(***************************************************************************)
(* The multi-source merge rule of the normalizer (cmd/normalizer/merge.go, *)
(* providers.go), as operators on the set of reports the providers made of *)
(* one aircraft.                                                           *)
(*                                                                         *)
(* A report is reduced to what the rule looks at: who made it, when, how   *)
(* good its position is, and the type metadata that is merged field by     *)
(* field.  Providers are numbered in the order of their names, position    *)
(* qualities by qualityRank.                                               *)
(***************************************************************************)
EXTENDS Integers

CONSTANTS
  Providers,  \* opensky, adsb.lol, airplanes.live, in the order of their names
  Types,      \* ICAO type designators
  Categories, \* emitter categories
  Unknown,    \* a designator or category the report does not carry (nil)
  Window      \* freshnessTieWindow

ASSUME ProvidersAssumption == Providers \subseteq Nat
ASSUME WindowAssumption    == Window \in Nat

Report == [provider : Providers, seen : Nat, quality : 0 .. 2,
           type : Types \cup {Unknown}, category : Categories \cup {Unknown},
           military : BOOLEAN]

(* A later time than every report of R but for one of them. *)
IsNewest(t, R) == (\E r \in R : r.seen = t) /\ (\A r \in R : r.seen <= t)
Newest(R) == CHOOSE t \in {r.seen : r \in R} : IsNewest(t, R)

(* Mutant: no window, quality alone decides. *)
NearTieAlways(r, newest) == TRUE

NearTie(r, newest) == newest - r.seen <= Window

(* Among near-ties: the better position, then the fresher report, then the *)
(* provider's name.                                                        *)
Beats(r, s) ==
  \/ r.quality < s.quality
  \/ /\ r.quality = s.quality
     /\ \/ r.seen > s.seen
        \/ r.seen = s.seen /\ r.provider < s.provider

IsWinner(w, R) ==
  /\ w \in R
  /\ NearTie(w, Newest(R))
  /\ \A r \in R : NearTie(r, Newest(R)) => ~Beats(r, w)
Winner(R) == CHOOSE w \in R : IsWinner(w, R)

(* pickAircraftType and pickEmitterCategory: the winner's value if it      *)
(* carries one, otherwise the winner's among the reports that do.          *)
FirstKnown(R, field) ==
  LET known == {r \in R : r[field] # Unknown} IN
  IF Winner(R)[field] # Unknown \/ known = {}
  THEN Winner(R)[field]
  ELSE Winner(known)[field]

anyMilitary(R) == \E r \in R : r.military
sourceList(R)  == {r.provider : r \in R}

(* The canonical FlightState of a nonempty set of reports. *)
Merge(R) ==
  LET winner == Winner(R) IN
  [seen     |-> winner.seen,
   provider |-> winner.provider,
   quality  |-> winner.quality,
   type     |-> FirstKnown(R, "type"),
   category |-> FirstKnown(R, "category"),
   military |-> anyMilitary(R),
   sources  |-> sourceList(R)]
=============================================================================
