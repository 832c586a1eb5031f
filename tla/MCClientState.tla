--------------------------- MODULE MCClientState ---------------------------
(* ClientState on small instances. *)
EXTENDS ClientState
=============================================================================
