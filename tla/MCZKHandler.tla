---------------------------- MODULE MCZKHandler ----------------------------
(* ZKHandler on small instances. *)
EXTENDS ZKHandler

MCRoots == TreeRoots

\* Keys of several cases: the first one may be sent in upper case.
MCLower == [k \in Keys |-> IF k = "A1" THEN "a1" ELSE k]

=============================================================================
