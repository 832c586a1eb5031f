----------------------------- MODULE MCZKVoting -----------------------------
(* ZKVoting on a small instance: the trees of two roots share a key. *)
EXTENDS ZKVoting, TLC

CONSTANTS r1, r2, k1, k2

MCRoots == {r1, r2}
MCKeys == {k1, k2}
MCLeaves == (r1 :> {k1}) @@ (r2 :> {k1, k2})

=============================================================================
