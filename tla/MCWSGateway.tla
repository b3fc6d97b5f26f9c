---------------------------- MODULE MCWSGateway ----------------------------
(***************************************************************************)
(* Instances of WSGateway for TLC: one or two map cells a and b, and the   *)
(* client c1.  Connections meet only in the hub, which never blocks on one *)
(* of them, so one client shows what a connection can go through.          *)
(***************************************************************************)
EXTENDS WSGateway
CONSTANTS c1, a, b
=============================================================================
