---------------------------- MODULE Merkle_proofs ----------------------------
(***************************************************************************)
(* Merkle proofs are complete and sound for every depth: the theorems      *)
(* that justify to read a root as the set of the keys in its tree.         *)
(***************************************************************************)
EXTENDS Merkle, TLAPS

\* The children of a node are nodes of the level below.
LEMMA ChildrenAreNodes ==
  ASSUME NEW d \in 1 .. DEPTH, NEW e \in Nodes(d - 1)
  PROVE  2 * e - 1 \in Nodes(d) /\ 2 * e \in Nodes(d)
<1>1. Width[d - 1] \in Nat /\ Width[d] = 2 * Width[d - 1]
  BY DepthAssumption, WidthAssumption
<1>2. QED
  BY <1>1 DEF Nodes

LEMMA NodesAreNaturals ==
  ASSUME NEW d \in 0 .. DEPTH, NEW e \in Nodes(d)
  PROVE  e \in Nat \ {0}
BY DepthAssumption, WidthAssumption DEF Nodes

\* Sequences of anything can be treated as sequences of their own elements.
LEMMA SequenceOfItsElements ==
  ASSUME NEW S, NEW s \in Seq(S)
  PROVE  IsSequence(s)
BY DEF IsSequence

LEMMA AppendedSequence ==
  ASSUME NEW s, IsSequence(s), NEW x
  PROVE  /\ IsSequence(Append(s, x))
         /\ Len(s) \in Nat
         /\ Len(Append(s, x)) = Len(s) + 1
         /\ \A i \in 1 .. Len(s) : Append(s, x)[i] = s[i]
         /\ Append(s, x)[Len(s) + 1] = x
<1> DEFINE T == {s[i] : i \in DOMAIN s} \cup {x}
<1>1. s \in Seq(T)
  <2>1. s \in Seq({s[i] : i \in DOMAIN s})
    BY DEF IsSequence
  <2>2. QED
    BY <2>1
<1>2. Append(s, x) \in Seq(T)
  BY <1>1
<1>3. IsSequence(Append(s, x))
  BY <1>2, SequenceOfItsElements
<1>4. QED
  BY <1>1, <1>3

-----------------------------------------------------------------------------

LEMMA MerkleInitInv == MerkleInit => MerkleInductiveInv
<1> SUFFICES ASSUME MerkleInit PROVE MerkleInductiveInv
  OBVIOUS
<1> USE DepthAssumption DEF MerkleInit
<1>1. DOMAIN allNodes = 0 .. DEPTH /\ DOMAIN allNodes[DEPTH] = Nodes(DEPTH)
  OBVIOUS
<1>2. IsSequence(<< >>)
  BY DEF IsSequence
<1>3. MerkleTypeOK
  BY <1>1, <1>2 DEF MerkleTypeOK, EmptyProof
<1>4. LevelsHash
  BY DEF LevelsHash
<1>5. TrailHashes /\ DigestFollowsTrail /\ DigestOffTree /\ PhasesInOrder
  BY DEF TrailHashes, DigestFollowsTrail, DigestOffTree, PhasesInOrder
<1>6. QED
  BY <1>3, <1>4, <1>5 DEF MerkleInductiveInv

\* A level is hashed from the one below it.
LEMMA BuildLevelInv ==
  ASSUME MerkleInductiveInv, BuildLevel
  PROVE  MerkleInductiveInv'
<1> USE DepthAssumption DEF MerkleInductiveInv, BuildLevel
<1>1. cdepth \in 1 .. DEPTH /\ cdepth' = cdepth - 1 /\ DOMAIN allNodes = 0 .. DEPTH
  BY DEF MerkleTypeOK
<1>2. /\ DOMAIN allNodes' = 0 .. DEPTH
      /\ allNodes'[cdepth - 1] = LevelAbove(allNodes[cdepth], cdepth - 1)
      /\ \A d \in cdepth .. DEPTH : allNodes'[d] = allNodes[d]
  BY <1>1
<1>3. MerkleTypeOK'
  <2>1. \A d \in cdepth' .. DEPTH : DOMAIN allNodes'[d] = Nodes(d)
    BY <1>1, <1>2 DEF MerkleTypeOK, LevelAbove
  <2>2. QED
    BY <1>1, <1>2, <2>1 DEF MerkleTypeOK, Nodes, IsSequence
<1>4. LevelsHash'
  <2>1. ASSUME NEW d \in cdepth' .. DEPTH - 1
        PROVE  allNodes'[d] = LevelAbove(allNodes'[d + 1], d)
    <3>1. CASE d = cdepth - 1
      BY <1>1, <1>2, <3>1
    <3>2. CASE d >= cdepth
      BY <1>1, <1>2, <3>2 DEF LevelsHash
    <3>3. QED
      BY <1>1, <3>1, <3>2
  <2>2. QED
    BY <2>1 DEF LevelsHash, LevelAbove, Nodes
<1>5. trail' = << >> /\ pc' = "build"
  BY DEF PhasesInOrder
<1>6. TrailHashes' /\ DigestFollowsTrail' /\ DigestOffTree' /\ PhasesInOrder'
  BY <1>5 DEF TrailHashes, DigestFollowsTrail, DigestOffTree, PhasesInOrder
<1>7. QED
  BY <1>3, <1>4, <1>6

\* From the ready tree on nothing but the walk and the circuit moves.
LEMMA LevelsStay ==
  ASSUME MerkleInductiveInv, UNCHANGED <<allNodes, cdepth>>
  PROVE  /\ LevelsHash'
         /\ DOMAIN allNodes' = 0 .. DEPTH
         /\ cdepth' \in 0 .. DEPTH
         /\ \A d \in cdepth' .. DEPTH : DOMAIN allNodes'[d] = Nodes(d)
BY DEF MerkleInductiveInv, MerkleTypeOK, LevelsHash, LevelAbove, Nodes

LEMMA TreeBuiltInv ==
  ASSUME MerkleInductiveInv, TreeBuilt
  PROVE  MerkleInductiveInv'
<1> USE DEF TreeBuilt
<1>1. LevelsHash' /\ MerkleTypeOK'
  BY LevelsStay DEF MerkleInductiveInv, MerkleTypeOK, IsSequence
<1>2. trail = << >> /\ proof = EmptyProof
  BY DEF MerkleInductiveInv, PhasesInOrder
<1>3. TrailHashes' /\ DigestFollowsTrail' /\ DigestOffTree' /\ PhasesInOrder'
  BY <1>2 DEF TrailHashes, DigestFollowsTrail, DigestOffTree, PhasesInOrder, EmptyProof
<1>4. QED
  BY <1>1, <1>3 DEF MerkleInductiveInv

\* A walk starts with a leaf and an empty proof.
LEMMA GetProofInv ==
  ASSUME MerkleInductiveInv, NEW i \in Nodes(DEPTH), GetProof(i)
  PROVE  MerkleInductiveInv'
<1> USE DepthAssumption DEF GetProof
<1>1. LevelsHash'
  BY LevelsStay
<1>2. i \in Nat /\ trail' = <<i>> /\ Len(trail') = 1 /\ trail'[1] = i
  BY NodesAreNaturals
<1>3. proof = EmptyProof /\ cdepth = 0
  BY DEF MerkleInductiveInv, PhasesInOrder
<1>4. MerkleTypeOK'
  BY <1>2, LevelsStay DEF MerkleInductiveInv, MerkleTypeOK, IsSequence
<1>5. TrailHashes'
  BY <1>2, <1>3 DEF TrailHashes, Height, EmptyProof, Nodes
<1>6. DigestFollowsTrail' /\ DigestOffTree' /\ PhasesInOrder'
  BY <1>2, <1>3 DEF DigestFollowsTrail, DigestOffTree, PhasesInOrder
<1>7. QED
  BY <1>1, <1>4, <1>5, <1>6 DEF MerkleInductiveInv

\* One step up: the sibling and the direction noted rebuild the parent.
LEMMA ClimbInv ==
  ASSUME MerkleInductiveInv,
         NEW parent \in 1 .. Width[DEPTH], NEW which \in {"Left", "Right"},
         Climb(parent, which)
  PROVE  MerkleInductiveInv'
<1> DEFINE d == DEPTH - Height
           hash == allNodes[d][current_node]
           left == allNodes[d][2 * parent - 1]
           right == allNodes[d][2 * parent]
           sibling == SiblingHash(parent, which, d)
           n == Len(trail)
<1> USE DepthAssumption
<1>1. /\ pc = "climb" /\ pc' = pc
      /\ Height < DEPTH
      /\ parent \in Nodes(d - 1)
      /\ current_node \in {2 * parent - 1, 2 * parent}
      /\ which = "Left" <=> hash = left
      /\ which = "Right" => hash = right
      /\ proof' = [directionSelector |-> NoteDirection(proof.directionSelector, which),
                   path |-> Append(proof.path, sibling)]
      /\ trail' = Append(trail, parent)
      /\ UNCHANGED <<allNodes, cdepth, key, digest, step>>
  BY DEF Climb
<1>2. /\ trail \in Seq(Nat) /\ trail # << >> /\ cdepth = 0
      /\ n \in Nat \ {0} /\ Height = n - 1
      /\ proof.directionSelector \in Seq(BOOLEAN) /\ IsSequence(proof.path)
      /\ Len(proof.directionSelector) = Height /\ Len(proof.path) = Height
  BY <1>1 DEF MerkleInductiveInv, MerkleTypeOK, PhasesInOrder, TrailHashes, Height
<1>3. d \in 1 .. DEPTH
  BY <1>1, <1>2
<1>4. parent \in Nat
  BY <1>1, <1>3, NodesAreNaturals DEF Nodes
<1>5. /\ trail' \in Seq(Nat) /\ Len(trail') = n + 1 /\ trail' # << >>
      /\ Height' = n
      /\ \A h \in 1 .. n : trail'[h] = trail[h]
      /\ trail'[n + 1] = parent
  <2>1. trail' = Append(trail, parent)
    BY <1>1
  <2>2. /\ trail' \in Seq(Nat) /\ Len(trail') = n + 1
        /\ \A h \in 1 .. n : trail'[h] = trail[h]
        /\ trail'[n + 1] = parent
    BY <2>1, <1>2, <1>4
  <2>3. trail' # << >>
    BY <2>2, <1>2
  <2>4. Height' = n
    BY <2>2, <1>2 DEF Height
  <2>5. QED
    BY <2>2, <2>3, <2>4
<1>6. /\ IsSequence(proof'.path)
      /\ Len(proof'.path) = n
      /\ \A h \in 1 .. n - 1 : proof'.path[h] = proof.path[h]
      /\ proof'.path[n] = sibling
  <2> DEFINE p == proof.path
  <2>1. proof'.path = Append(p, sibling)
    BY <1>1
  <2>2. IsSequence(p) /\ Len(p) = n - 1
    BY <1>2
  <2> HIDE DEF p, sibling, n
  <2>3. /\ IsSequence(Append(p, sibling))
        /\ Len(Append(p, sibling)) = Len(p) + 1
        /\ \A h \in 1 .. Len(p) : Append(p, sibling)[h] = p[h]
        /\ Append(p, sibling)[Len(p) + 1] = sibling
    BY <2>2, AppendedSequence
  <2>4. n - 1 + 1 = n
    BY <1>2 DEF n
  <2>5. QED
    BY <2>1, <2>2, <2>3, <2>4 DEF p
<1>7. /\ proof'.directionSelector \in Seq(BOOLEAN)
      /\ Len(proof'.directionSelector) = n
      /\ \A h \in 1 .. n - 1 : proof'.directionSelector[h] = proof.directionSelector[h]
      /\ proof'.directionSelector[n] = (which = "Right")
  <2> DEFINE b == which = "Right"
  <2>1. proof'.directionSelector = Append(proof.directionSelector, b)
    BY <1>1 DEF NoteDirection
  <2>2. b \in BOOLEAN
    OBVIOUS
  <2> HIDE DEF b
  <2>3. QED
    BY <2>1, <2>2, <1>2 DEF b
<1>8. LevelsHash'
  BY <1>1, LevelsStay
<1>9. MerkleTypeOK'
  <2>1. n + 1 <= DEPTH + 1
    BY <1>1, <1>2
  <2>2. proof' = [directionSelector |-> proof'.directionSelector, path |-> proof'.path]
    BY <1>1
  <2>3. QED
    BY <1>1, <1>5, <1>6, <1>7, <2>1, <2>2, LevelsStay DEF MerkleInductiveInv, MerkleTypeOK
<1>10. TrailHashes'
  <2>1. ASSUME NEW h \in 1 .. n + 1
        PROVE  trail'[h] \in Nodes(DEPTH - (h - 1))
    <3>1. CASE h = n + 1
      BY <3>1, <1>1, <1>2, <1>5
    <3>2. CASE h \in 1 .. n
      BY <3>2, <1>2, <1>5 DEF MerkleInductiveInv, TrailHashes
    <3>3. QED
      BY <3>1, <3>2, <1>2
  <2>2. allNodes[d - 1][parent] = Hash(left, right)
    <3>1. allNodes[d - 1] = LevelAbove(allNodes[d], d - 1)
      BY <1>2, <1>3 DEF MerkleInductiveInv, LevelsHash
    <3>2. QED
      BY <3>1, <1>1, <1>3 DEF LevelAbove
  <2>3. LET pair == select(which = "Right", hash, sibling)
        IN  Hash(left, right) = Hash(pair[1], pair[2])
    <3>1. CASE which = "Left"
      BY <3>1, <1>1 DEF select, SiblingHash, Hash
    <3>2. CASE which = "Right"
      BY <3>2, <1>1 DEF select, SiblingHash, Hash
    <3>3. QED
      BY <3>1, <3>2
  <2>4. ASSUME NEW h \in 1 .. n
        PROVE  LET pair == select(proof'.directionSelector[h],
                              allNodes[DEPTH - (h - 1)][trail'[h]], proof'.path[h])
               IN  allNodes[DEPTH - h][trail'[h + 1]] = Hash(pair[1], pair[2])
    <3>1. CASE h = n
      <4>1. DEPTH - (h - 1) = d /\ DEPTH - h = d - 1
        BY <3>1, <1>2
      <4>2. /\ trail'[h] = current_node /\ trail'[h + 1] = parent
            /\ proof'.path[h] = sibling /\ proof'.directionSelector[h] = (which = "Right")
        BY <3>1, <1>2, <1>5, <1>6, <1>7 DEF current_node
      <4>3. QED
        BY <4>1, <4>2, <2>2, <2>3
    <3>2. CASE h \in 1 .. n - 1
      <4>0. h \in 1 .. n /\ h + 1 \in 1 .. n
        BY <3>2, <1>2
      <4>1. /\ trail'[h] = trail[h] /\ trail'[h + 1] = trail[h + 1]
            /\ proof'.path[h] = proof.path[h]
            /\ proof'.directionSelector[h] = proof.directionSelector[h]
        BY <4>0, <3>2, <1>5, <1>6, <1>7
      <4>2. QED
        BY <4>1, <3>2, <1>2 DEF MerkleInductiveInv, TrailHashes
    <3>3. QED
      BY <3>1, <3>2, <1>2
  <2>5. allNodes' = allNodes
    BY <1>1
  <2>6. QED
    BY <2>1, <2>4, <2>5, <1>5, <1>6 DEF TrailHashes, Nodes
<1>11. DigestFollowsTrail' /\ DigestOffTree' /\ PhasesInOrder'
  BY <1>1, <1>2, <1>5 DEF DigestFollowsTrail, DigestOffTree, PhasesInOrder
<1>12. QED
  BY <1>8, <1>9, <1>10, <1>11 DEF MerkleInductiveInv

-----------------------------------------------------------------------------

\* The circuit starts from the leaf of the trail.
LEMMA DeliverInv ==
  ASSUME MerkleInductiveInv, Deliver
  PROVE  MerkleInductiveInv'
<1> USE DepthAssumption DEF Deliver
<1>1. LevelsHash'
  BY LevelsStay
<1>2. MerkleTypeOK'
  BY LevelsStay DEF MerkleInductiveInv, MerkleTypeOK, IsSequence
<1>3. /\ trail # << >> /\ cdepth = 0 /\ Height = DEPTH /\ Len(trail) = DEPTH + 1
      /\ Len(proof.path) = DEPTH
      /\ trail[1] \in Nodes(DEPTH)
  <2>1. trail # << >> /\ cdepth = 0 /\ Height = DEPTH /\ Len(proof.path) = DEPTH
    BY DEF MerkleInductiveInv, PhasesInOrder, TrailHashes
  <2>2. Len(trail) \in Nat
    BY DEF MerkleInductiveInv, MerkleTypeOK
  <2>3. Len(trail) = DEPTH + 1
    BY <2>1, <2>2 DEF Height
  <2>4. trail[1] \in Nodes(DEPTH - (1 - 1))
    BY <2>1, <2>3 DEF MerkleInductiveInv, TrailHashes
  <2>5. QED
    BY <2>1, <2>3, <2>4
<1>4. TrailHashes'
  BY <1>3 DEF MerkleInductiveInv, TrailHashes, Height, Nodes
<1>5. DigestFollowsTrail'
  BY <1>3 DEF DigestFollowsTrail, Height, leafs
<1>6. DigestOffTree'
  BY <1>3 DEF DigestOffTree, Leaves, leafs, Nodes
<1>7. PhasesInOrder'
  BY <1>3 DEF PhasesInOrder
<1>8. QED
  BY <1>1, <1>2, <1>4, <1>5, <1>6, <1>7 DEF MerkleInductiveInv

LEMMA MakeUpInv ==
  ASSUME MerkleInductiveInv,
         NEW hash \in Candidates, NEW directions \in [1 .. DEPTH -> BOOLEAN],
         NEW path \in [1 .. DEPTH -> Candidates], MakeUp(hash, directions, path)
  PROVE  MerkleInductiveInv'
<1> USE DepthAssumption DEF MakeUp
<1>1. LevelsHash'
  BY LevelsStay
<1>2. /\ directions \in Seq(BOOLEAN) /\ Len(directions) = DEPTH
      /\ path \in Seq(Candidates) /\ Len(path) = DEPTH
  OBVIOUS
<1>3. IsSequence(path)
  BY <1>2, SequenceOfItsElements
<1>4. trail = << >> /\ trail' = << >> /\ cdepth = 0
  BY DEF MerkleInductiveInv, PhasesInOrder
<1>5. MerkleTypeOK'
  BY <1>2, <1>3, <1>4, LevelsStay DEF MerkleInductiveInv, MerkleTypeOK
<1>6. TrailHashes' /\ DigestFollowsTrail'
  BY <1>4 DEF TrailHashes, DigestFollowsTrail
<1>7. DigestOffTree'
  BY DEF DigestOffTree, Leaves, leafs, Nodes
<1>8. PhasesInOrder'
  BY <1>2, <1>4 DEF PhasesInOrder
<1>9. QED
  BY <1>1, <1>5, <1>6, <1>7, <1>8 DEF MerkleInductiveInv

\* One iteration of the circuit: along the trail the digest reaches the next
\* node; off the tree it stays off, as equal hashes have equal arguments.
LEMMA FoldInv ==
  ASSUME MerkleInductiveInv, Fold
  PROVE  MerkleInductiveInv'
<1> DEFINE d == DEPTH - step
           h == select(proof.directionSelector[step + 1], digest, proof.path[step + 1])
<1> USE DepthAssumption
<1>1. /\ pc = "verify" /\ step \in 0 .. DEPTH - 1
      /\ digest' = Hash(h[1], h[2]) /\ step' = step + 1
      /\ UNCHANGED <<pc, allNodes, cdepth, trail, proof, key>>
  BY DEF Fold, LoopDone, MerkleInductiveInv, MerkleTypeOK
<1>2. d \in 1 .. DEPTH /\ DEPTH - step' = d - 1 /\ cdepth = 0
  BY <1>1 DEF MerkleInductiveInv, PhasesInOrder
<1>3. LevelsHash'
  BY <1>1, LevelsStay
<1>4. MerkleTypeOK'
  BY <1>1, LevelsStay DEF MerkleInductiveInv, MerkleTypeOK, IsSequence
<1>5. TrailHashes'
  BY <1>1 DEF MerkleInductiveInv, TrailHashes, Height, Nodes
<1>6. DigestFollowsTrail'
  <2> SUFFICES ASSUME trail # << >>
               PROVE  Height = DEPTH /\ digest' = allNodes[d - 1][trail[step + 2]]
    BY <1>1, <1>2 DEF DigestFollowsTrail, Height
  <2>1. Height = DEPTH /\ digest = allNodes[d][trail[step + 1]]
    BY <1>1 DEF MerkleInductiveInv, DigestFollowsTrail
  <2>2. step + 1 \in 1 .. Height
    BY <1>1, <2>1
  <2>3. LET pair == select(proof.directionSelector[step + 1],
                       allNodes[DEPTH - ((step + 1) - 1)][trail[step + 1]],
                       proof.path[step + 1])
        IN  allNodes[DEPTH - (step + 1)][trail[(step + 1) + 1]] = Hash(pair[1], pair[2])
    BY <2>2 DEF MerkleInductiveInv, TrailHashes
  <2>4. /\ DEPTH - ((step + 1) - 1) = d /\ DEPTH - (step + 1) = d - 1
        /\ (step + 1) + 1 = step + 2
    BY <1>1
  <2>5. allNodes[d - 1][trail[step + 2]] = Hash(h[1], h[2])
    BY <2>1, <2>3, <2>4
  <2>6. QED
    BY <2>1, <2>5, <1>1
<1>7. DigestOffTree'
  <2> SUFFICES ASSUME key \notin Leaves, NEW e \in Nodes(d - 1)
               PROVE  digest' # allNodes[d - 1][e]
    BY <1>1, <1>2 DEF DigestOffTree, Leaves, leafs, Nodes
  <2>1. 2 * e - 1 \in Nodes(d) /\ 2 * e \in Nodes(d)
    BY <1>2, ChildrenAreNodes
  <2>2. digest # allNodes[d][2 * e - 1] /\ digest # allNodes[d][2 * e]
    BY <1>1, <2>1 DEF MerkleInductiveInv, DigestOffTree
  <2>3. allNodes[d - 1] = LevelAbove(allNodes[d], d - 1)
    BY <1>2 DEF MerkleInductiveInv, LevelsHash
  <2>4. allNodes[d - 1][e] = <<allNodes[d][2 * e - 1], allNodes[d][2 * e]>>
    BY <2>3 DEF LevelAbove, Hash
  <2>5. digest = h[1] \/ digest = h[2]
    BY DEF select
  <2>6. QED
    BY <1>1, <2>2, <2>4, <2>5 DEF Hash
<1>8. PhasesInOrder'
  BY <1>1 DEF MerkleInductiveInv, PhasesInOrder
<1>9. QED
  BY <1>3, <1>4, <1>5, <1>6, <1>7, <1>8 DEF MerkleInductiveInv

LEMMA FinishInv ==
  ASSUME MerkleInductiveInv, Finish
  PROVE  MerkleInductiveInv'
<1> USE DepthAssumption DEF Finish
<1>1. LevelsHash'
  BY LevelsStay
<1>2. cdepth = 0
  BY DEF MerkleInductiveInv, PhasesInOrder
<1>3. MerkleTypeOK'
  BY LevelsStay DEF MerkleInductiveInv, MerkleTypeOK, IsSequence, EmptyProof
<1>4. TrailHashes' /\ DigestFollowsTrail' /\ DigestOffTree' /\ PhasesInOrder'
  BY <1>2 DEF TrailHashes, DigestFollowsTrail, DigestOffTree, PhasesInOrder, EmptyProof
<1>5. QED
  BY <1>1, <1>3, <1>4 DEF MerkleInductiveInv

LEMMA MerkleStutterInv ==
  ASSUME MerkleInductiveInv, UNCHANGED merkleVars
  PROVE  MerkleInductiveInv'
<1> USE DEF merkleVars
<1>1. LevelsHash'
  BY LevelsStay
<1>2. MerkleTypeOK'
  BY LevelsStay DEF MerkleInductiveInv, MerkleTypeOK, IsSequence
<1>3. TrailHashes'
  BY DEF MerkleInductiveInv, TrailHashes, Height, Nodes
<1>4. DigestFollowsTrail'
  BY DEF MerkleInductiveInv, DigestFollowsTrail, Height
<1>5. DigestOffTree'
  BY DEF MerkleInductiveInv, DigestOffTree, Leaves, leafs, Nodes
<1>6. PhasesInOrder'
  BY DEF MerkleInductiveInv, PhasesInOrder
<1>7. QED
  BY <1>1, <1>2, <1>3, <1>4, <1>5, <1>6 DEF MerkleInductiveInv

\* Tree construction, walk and circuit loop keep their invariants, whatever
\* the depth, the leaves and the proofs made up (shared/merkle.ts and
\* merkleProofValidation).
THEOREM MerkleInvariance == MerkleSpec => []MerkleInductiveInv
<1>1. MerkleInductiveInv /\ [MerkleNext]_merkleVars => MerkleInductiveInv'
  <2> SUFFICES ASSUME MerkleInductiveInv, [MerkleNext]_merkleVars
               PROVE  MerkleInductiveInv'
    OBVIOUS
  <2>1. CASE BuildLevel
    BY <2>1, BuildLevelInv
  <2>2. CASE TreeBuilt
    BY <2>2, TreeBuiltInv
  <2>3. CASE \E i \in Nodes(DEPTH) : GetProof(i)
    BY <2>3, GetProofInv
  <2>4. CASE \E parent \in 1 .. Width[DEPTH], which \in {"Left", "Right"} : Climb(parent, which)
    BY <2>4, ClimbInv
  <2>5. CASE Deliver
    BY <2>5, DeliverInv
  <2>6. CASE \E hash \in Candidates, directions \in [1 .. DEPTH -> BOOLEAN],
                path \in [1 .. DEPTH -> Candidates] : MakeUp(hash, directions, path)
    BY <2>6, MakeUpInv
  <2>7. CASE Fold
    BY <2>7, FoldInv
  <2>8. CASE Finish
    BY <2>8, FinishInv
  <2>9. CASE UNCHANGED merkleVars
    BY <2>9, MerkleStutterInv
  <2>10. QED
    BY <2>1, <2>2, <2>3, <2>4, <2>5, <2>6, <2>7, <2>8, <2>9 DEF MerkleNext
<1>2. QED
  BY <1>1, MerkleInitInv, PTL DEF MerkleSpec

\* For every depth the circuit accepts the proof of every leaf, duplicates
\* included (getProof, which and select fit together).
THEOREM LeafProofsAreAccepted == MerkleSpec => []ProofsOfLeavesAccepted
<1>1. MerkleInductiveInv => ProofsOfLeavesAccepted
  <2> SUFFICES ASSUME MerkleInductiveInv, pc = "verify", trail # << >>, LoopDone
               PROVE  digest = root
    BY DEF ProofsOfLeavesAccepted, Accepted
  <2>1. Height = DEPTH /\ digest = allNodes[DEPTH - step][trail[step + 1]] /\ step = DEPTH
    BY DEF MerkleInductiveInv, DigestFollowsTrail, LoopDone
  <2>2. Len(trail) = DEPTH + 1
    BY <2>1, DepthAssumption DEF MerkleInductiveInv, MerkleTypeOK, Height
  <2>3. trail[DEPTH + 1] \in Nodes(0)
    BY <2>2, DepthAssumption DEF MerkleInductiveInv, TrailHashes
  <2>4. trail[DEPTH + 1] = 1
    BY <2>3, WidthAssumption DEF Nodes
  <2>5. QED
    BY <2>1, <2>4, DepthAssumption DEF root
<1>2. QED
  BY <1>1, MerkleInvariance, PTL

\* For every depth no proof makes the circuit accept what is not a leaf of
\* the tree (merkleProofValidation against buildTree): a root stands for the
\* set of keys in its tree.
THEOREM NothingButLeavesIsAccepted == MerkleSpec => []OnlyLeavesAccepted
<1>1. MerkleInductiveInv => OnlyLeavesAccepted
  <2> SUFFICES ASSUME MerkleInductiveInv, Accepted, key \notin Leaves
               PROVE  FALSE
    BY DEF OnlyLeavesAccepted
  <2>1. 1 \in Nodes(0) /\ DEPTH - step = 0
    BY WidthAssumption, DepthAssumption DEF Accepted, LoopDone, Nodes
  <2>2. digest # allNodes[0][1]
    BY <2>1 DEF MerkleInductiveInv, DigestOffTree, Accepted
  <2>3. QED
    BY <2>2 DEF Accepted, root
<1>2. QED
  BY <1>1, MerkleInvariance, PTL

=============================================================================
