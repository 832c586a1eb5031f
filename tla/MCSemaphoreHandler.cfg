CONSTANTS
  Accounts = {a1}
  Names = {n1}
  MaxPeriod = 1
  MaxPetitions = 2
  Commitments = {"1", "01", "2", "0"}
  BigInt <- MCBigInt
  Leaves = {1, 2}
  Identities = {i1, i2}
  None = None
  MaxRequests = 2
  MaxOpen = 2
  MaxCrashes = 1
SPECIFICATION SemaphoreServerFairSpec
INVARIANTS
  GroupsAreConsistent
  OneMemberPerIdentity
  SemaphoreSignersCountMembers
PROPERTIES
  WaitingAreAdded
CHECK_DEADLOCK FALSE
