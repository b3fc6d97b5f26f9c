---------------------------- MODULE MCPickWinner ----------------------------
(* PickWinner on every list of at most three reports, with type metadata,  *)
(* which the loop does not look at, left unknown.                          *)
EXTENDS PickWinner
CONSTANT MaxSeen \* bound: reports are made at times 0 .. MaxSeen
MCReports ==
  [provider : Providers, seen : 0 .. MaxSeen, quality : 0 .. 2,
   type : {Unknown}, category : {Unknown}, military : {FALSE}]
MCInputs == UNION {[1 .. n -> MCReports] : n \in 1 .. 3}
=============================================================================
