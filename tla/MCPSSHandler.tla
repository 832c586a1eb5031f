---------------------------- MODULE MCPSSHandler ----------------------------
(* PSSHandler on a small instance. *)
EXTENDS PSSHandler
=============================================================================
