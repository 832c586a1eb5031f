-------------------------- MODULE MCProvingWorker --------------------------
(* ProvingWorker on a small instance. *)
EXTENDS ProvingWorker
=============================================================================
