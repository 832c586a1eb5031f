------------------------- MODULE MCSemaphoreHandler -------------------------
(* SemaphoreHandler on small instances. *)
EXTENDS SemaphoreHandler

\* One number is written in two ways, and one cannot be a leaf.
MCBigInt == "1" :> 1 @@ "01" :> 1 @@ "2" :> 2 @@ "0" :> 0
=============================================================================
