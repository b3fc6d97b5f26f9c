------------------------------ MODULE MCReplay ------------------------------
(***************************************************************************)
(* The instance of Replay that TLC checks.                                 *)
(***************************************************************************)
EXTENDS Replay

CONSTANT a1
=============================================================================
