--------------------------- MODULE MCEventEngine ---------------------------
(***************************************************************************)
(* Values for the constants of EventEngine that a .cfg cannot write.       *)
(***************************************************************************)
EXTENDS EventEngine, TLC

CONSTANTS a1, z1, e1, e2

MCWatches == [e \in Entries |-> a1]
Reading(level, w) == [altitude |-> level, speed |-> level, within |-> w]
Core    == {Reading(0, {}), Reading(2, {z1}), Reading(Missing, {})}
InSome  == {Reading(0, Zones), Garbled}
=============================================================================
