--------------------------- MODULE MCCredentials ---------------------------
(* Credentials on small instances. *)
EXTENDS Credentials
=============================================================================
