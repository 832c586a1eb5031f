--------------------------- MODULE MCNaiveHandler ---------------------------
(* NaiveHandler on small instances. *)
EXTENDS NaiveHandler, TLC
CONSTANTS a1, a2

\* An account is written in two ways, and a key with a wrong checksum.
MCAddress == "a1" :> a1 @@ "A1" :> a1 @@ "aX" :> None
=============================================================================
