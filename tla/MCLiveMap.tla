----------------------------- MODULE MCLiveMap -----------------------------
(***************************************************************************)
(* The instance of LiveMap that TLC checks.                                *)
(***************************************************************************)
EXTENDS LiveMap, TLC

CONSTANTS a1, c1, c2

(* Nothing tells the two cells apart. *)
Symmetry == Permutations(Cells)
=============================================================================
