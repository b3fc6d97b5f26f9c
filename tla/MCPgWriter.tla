----------------------------- MODULE MCPgWriter -----------------------------
(***************************************************************************)
(* The instance of PgWriter that TLC checks.                               *)
(***************************************************************************)
EXTENDS PgWriter, TLC

CONSTANTS a1, e1
=============================================================================
