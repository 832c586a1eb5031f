CONSTANTS
  a1 = a1
  a2 = a2
  Accounts = {a1, a2}
  Keys = {"a1", "A1", "aX"}
  Address <- MCAddress
  Names = {n1}
  MaxPeriod = 2
  MaxPetitions = 1
  Identities = {i1, i2}
  None = None
  Server = a2
  MaxRequests = 2
  MaxOpen = 2
  MaxCrashes = 1
SPECIFICATION NaiveServerFairSpec
INVARIANTS
  ServedAreAuthorized
  RightsAreRegistered
PROPERTIES
  ImplementsTimelyBallot
  WaitingAreAuthorized
