CONSTANTS
  h1 = h1
  h2 = h2
  h3 = h3
  LeafHashes <- MCLeafHashes
  Candidates <- MCCandidates
  DEPTH = 2
  Width <- MCWidth
SPECIFICATION MerkleSpec
INVARIANTS
  ProofsOfLeavesAccepted
  OnlyLeavesAccepted
