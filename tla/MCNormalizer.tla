---------------------------- MODULE MCNormalizer ----------------------------
(***************************************************************************)
(* Instances of Normalizer for TLC: two providers that report positions of *)
(* two qualities.                                                          *)
(***************************************************************************)
EXTENDS Normalizer
CONSTANT a1
Shape(quality) ==
  [quality |-> quality, type |-> Unknown, category |-> Unknown, military |-> FALSE]
MCShapes == {Shape(0), Shape(1)}
=============================================================================
