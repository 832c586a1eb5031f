CONSTANTS
  r1 = r1
  r2 = r2
  k1 = k1
  k2 = k2
  Accounts = {a1, a2}
  Roots <- MCRoots
  NoRoot = NoRoot
  VoterKeys <- MCKeys
  Leaves <- MCLeaves
  Names = {n1}
  SLOTS = 4
  MaxPeriod = 3
  MaxPetitions = 2
SPECIFICATION VotingSpec
INVARIANTS
  CurrentRootsRetrievable
  SlotsTraceToEvents
  SignersCountVoters
  SignaturesUnlinkable
  PublishedKeysCanSign
PROPERTIES
  ImplementsRootLog
  ImplementsBallot
