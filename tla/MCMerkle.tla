------------------------------ MODULE MCMerkle ------------------------------
(* Merkle on a small instance: made-up proofs use leaves and inner nodes. *)
EXTENDS Merkle

CONSTANTS h1, h2, h3

MCLeafHashes == {h1, h2}
MCCandidates == {h1, h2, h3, Hash(h1, h2), Hash(h2, h2)}
MCWidth == [d \in 0 .. DEPTH |-> 2 ^ d]

=============================================================================
