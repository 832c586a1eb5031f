CONSTANTS
  Accounts = {a1}
  Names = {n1}
  MaxPeriod = 1
  MaxPetitions = 2
  Identities = {i1, i2}
  None = None
  MaxRequests = 3
  MaxOpen = 3
  MaxCrashes = 1
SPECIFICATION PSSFairSpec
INVARIANTS
  OneSignaturePerIdentity
PROPERTIES
  ImplementsProvider
  StoredRegistrationsServed
CHECK_DEADLOCK FALSE
