------------------------------- MODULE Merkle -------------------------------
(***************************************************************************)
(* The Merkle trees of the identity provider (shared/merkle.ts, class      *)
(* MerkleTree) and the part of the circuit that checks their proofs        *)
(* (zk/stimmrechtsbeweis.zok, merkleProofValidation).  A tree is built     *)
(* level by level from its leaves; then a proof is collected on a walk     *)
(* from a leaf to the root, and the circuit folds a proof into a digest,   *)
(* one iteration of each loop a step.                                      *)
(*                                                                         *)
(* The circuit is given the proof of a leaf or one made up by its caller.  *)
(***************************************************************************)
EXTENDS Naturals, Sequences

CONSTANTS
  LeafHashes,  \* hashes the leaves may have; two leaves may have the same
  Candidates,  \* hashes a made-up proof is put together from
  DEPTH,       \* depth of trees and circuit
  Width        \* depth -> number of nodes: Math.pow(2, depth)

ASSUME DepthAssumption == DEPTH \in Nat
ASSUME WidthAssumption ==
  /\ Width \in [0 .. DEPTH -> Nat]
  /\ Width[0] = 1
  /\ \A d \in 1 .. DEPTH : Width[d] = 2 * Width[d - 1]

VARIABLES
  pc,        \* "build", "ready", "climb" or "verify"
  allNodes,  \* depth -> hashes of its nodes, from left to right
  cdepth,    \* the depth built last
  trail,     \* the nodes current_node has been, at growing heights
  proof,     \* [directionSelector, path], from the leaf upwards
  key,       \* the leaf the circuit starts from
  digest,    \* its digest so far
  step       \* iterations of its loop so far

merkleVars == <<pc, allNodes, cdepth, trail, proof, key, digest, step>>

\* The hash of the children's hashes put together: free of collisions.
Hash(left, right) == <<left, right>>

Nodes(d) == 1 .. Width[d]

root == allNodes[0][1]

leafs == allNodes[DEPTH]

Leaves == {leafs[i] : i \in Nodes(DEPTH)}

EmptyProof == [directionSelector |-> << >>, path |-> << >>]

MerkleInit ==
  /\ pc = "build"
  /\ \E initial \in [Nodes(DEPTH) -> LeafHashes] :
       allNodes = [d \in 0 .. DEPTH |-> IF d = DEPTH THEN initial ELSE << >>]
  /\ cdepth = DEPTH
  /\ trail = << >>
  /\ proof = EmptyProof
  /\ key = << >> /\ digest = << >> /\ step = 0

-----------------------------------------------------------------------------
(* buildTree *)

\* The level above a level: every node hashes a pair of it.
LevelAbove(children, d) ==
  [e \in Nodes(d) |-> Hash(children[2 * e - 1], children[2 * e])]

BuildLevel ==
  /\ pc = "build"
  /\ cdepth > 0
  /\ allNodes' = [allNodes EXCEPT ![cdepth - 1] = LevelAbove(allNodes[cdepth], cdepth - 1)]
  /\ cdepth' = cdepth - 1
  /\ UNCHANGED <<pc, trail, proof, key, digest, step>>

TreeBuilt ==
  /\ pc = "build"
  /\ cdepth = 0
  /\ pc' = "ready"
  /\ UNCHANGED <<allNodes, cdepth, trail, proof, key, digest, step>>

-----------------------------------------------------------------------------
(* getProof *)

\* leaf(hash) finds the first leaf of a hash; the walk starts there.
GetProof(i) ==
  /\ pc = "ready"
  /\ \A j \in 1 .. i - 1 : leafs[j] # leafs[i]
  /\ pc' = "climb"
  /\ trail' = <<i>>
  /\ UNCHANGED <<allNodes, cdepth, proof, key, digest, step>>

Height == Len(trail) - 1
current_node == trail[Len(trail)]

\* What is put on the path: the hash of the other child.
SiblingHash(parent, which, d) ==
  IF which = "Left" THEN allNodes[d][2 * parent] ELSE allNodes[d][2 * parent - 1]

NoteDirection(directions, which) == Append(directions, which = "Right")

\* which() compares hashes and tries the left child first; that neither
\* child has the hash (it throws) is a step that cannot be taken.
Climb(parent, which) ==
  LET d == DEPTH - Height
      hash == allNodes[d][current_node]
      left == allNodes[d][2 * parent - 1]
      right == allNodes[d][2 * parent]
  IN  /\ pc = "climb"
      /\ Height < DEPTH
      /\ parent \in Nodes(d - 1)
      /\ current_node \in {2 * parent - 1, 2 * parent}
      /\ which = "Left" <=> hash = left
      /\ which = "Right" => hash = right
      /\ proof' = [directionSelector |-> NoteDirection(proof.directionSelector, which),
                   path |-> Append(proof.path, SiblingHash(parent, which, d))]
      /\ trail' = Append(trail, parent)
      /\ UNCHANGED <<pc, allNodes, cdepth, key, digest, step>>

-----------------------------------------------------------------------------
(* merkleProofValidation *)

\* A voter proves the membership of the leaf with the proof of getProof.
Deliver ==
  /\ pc = "climb"
  /\ Height = DEPTH
  /\ pc' = "verify"
  /\ key' = leafs[trail[1]]
  /\ digest' = leafs[trail[1]]
  /\ step' = 0
  /\ UNCHANGED <<allNodes, cdepth, trail, proof>>

\* Somebody else tries with whatever proof.
MakeUp(hash, directions, path) ==
  /\ pc = "ready"
  /\ pc' = "verify"
  /\ proof' = [directionSelector |-> directions, path |-> path]
  /\ key' = hash
  /\ digest' = hash
  /\ step' = 0
  /\ UNCHANGED <<allNodes, cdepth, trail>>

\* Faulty variant: the condition is the wrong way round.
SelectSwapped(condition, left, right) ==
  IF condition THEN <<left, right>> ELSE <<right, left>>

select(condition, left, right) ==
  IF condition THEN <<right, left>> ELSE <<left, right>>

\* Faulty variant: the loop ends one iteration early.
LoopEndsEarly == step + 1 >= DEPTH

LoopDone == step = DEPTH

Fold ==
  LET h == select(proof.directionSelector[step + 1], digest, proof.path[step + 1])
  IN  /\ pc = "verify"
      /\ ~ LoopDone
      /\ digest' = Hash(h[1], h[2])
      /\ step' = step + 1
      /\ UNCHANGED <<pc, allNodes, cdepth, trail, proof, key>>

\* The circuit has compared its digest; the tree stays for further proofs.
Finish ==
  /\ pc = "verify"
  /\ LoopDone
  /\ pc' = "ready"
  /\ trail' = << >>
  /\ proof' = EmptyProof
  /\ key' = << >> /\ digest' = << >> /\ step' = 0
  /\ UNCHANGED <<allNodes, cdepth>>

-----------------------------------------------------------------------------

MerkleNext ==
  \/ BuildLevel
  \/ TreeBuilt
  \/ \E i \in Nodes(DEPTH) : GetProof(i)
  \/ \E parent \in 1 .. Width[DEPTH], which \in {"Left", "Right"} : Climb(parent, which)
  \/ Deliver
  \/ \E hash \in Candidates, directions \in [1 .. DEPTH -> BOOLEAN],
        path \in [1 .. DEPTH -> Candidates] : MakeUp(hash, directions, path)
  \/ Fold
  \/ Finish

MerkleSpec == MerkleInit /\ [][MerkleNext]_merkleVars

-----------------------------------------------------------------------------
(* Properties *)

IsSequence(s) == s \in Seq({s[i] : i \in DOMAIN s})

\* The types of the variables.
MerkleTypeOK ==
  /\ pc \in {"build", "ready", "climb", "verify"}
  /\ cdepth \in 0 .. DEPTH
  /\ DOMAIN allNodes = 0 .. DEPTH
  /\ \A d \in cdepth .. DEPTH : DOMAIN allNodes[d] = Nodes(d)
  /\ step \in 0 .. DEPTH
  /\ trail \in Seq(Nat)
  /\ proof.directionSelector \in Seq(BOOLEAN)
  /\ IsSequence(proof.path)
  /\ Len(proof.directionSelector) = Len(proof.path)
  /\ proof = [directionSelector |-> proof.directionSelector, path |-> proof.path]
  /\ Len(trail) <= DEPTH + 1

\* The circuit's assertion on the root.
Accepted == pc = "verify" /\ LoopDone /\ digest = root

\* The circuit accepts the proof the server makes for a leaf, also when
\* several leaves, or whole subtrees, have the same hash and which() goes
\* the other way (getProof and merkleProofValidation).
ProofsOfLeavesAccepted ==
  pc = "verify" /\ trail # << >> /\ LoopDone => Accepted

\* Whatever proof the circuit is given, it accepts leaves of the tree only:
\* no inner node and no key of another tree passes for a voter
\* (buildTree and merkleProofValidation).
OnlyLeavesAccepted == Accepted => key \in Leaves

-----------------------------------------------------------------------------
(* The inductive invariant behind these properties *)

\* The levels built hash the levels below.
LevelsHash ==
  \A d \in cdepth .. DEPTH - 1 : allNodes[d] = LevelAbove(allNodes[d + 1], d)

\* The trail goes from a leaf towards the root, and every entry of the proof
\* completes the hash of a node on it to the hash of the next.
TrailHashes ==
  trail # << >> =>
    /\ Len(proof.path) = Height
    /\ \A h \in 1 .. Len(trail) : trail[h] \in Nodes(DEPTH - (h - 1))
    /\ \A h \in 1 .. Height :
         LET pair == select(proof.directionSelector[h],
                            allNodes[DEPTH - (h - 1)][trail[h]], proof.path[h])
         IN  allNodes[DEPTH - h][trail[h + 1]] = Hash(pair[1], pair[2])

\* The digest of a leaf's proof is the hash of the node the trail reached.
DigestFollowsTrail ==
  pc = "verify" /\ trail # << >> =>
    /\ Height = DEPTH
    /\ digest = allNodes[DEPTH - step][trail[step + 1]]

\* The digest of a key that is no leaf is no node of its height.
DigestOffTree ==
  pc = "verify" /\ key \notin Leaves =>
    \A e \in Nodes(DEPTH - step) : digest # allNodes[DEPTH - step][e]

\* What the phases are for.
PhasesInOrder ==
  /\ pc # "build" => cdepth = 0
  /\ pc \in {"build", "ready"} => trail = << >> /\ proof = EmptyProof
  /\ pc = "climb" => trail # << >>
  /\ pc = "verify" => Len(proof.path) = DEPTH

MerkleInductiveInv ==
  /\ MerkleTypeOK
  /\ LevelsHash
  /\ TrailHashes
  /\ DigestFollowsTrail
  /\ DigestOffTree
  /\ PhasesInOrder

=============================================================================
