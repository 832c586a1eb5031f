CONSTANTS
  Accounts = {server}
  Roots <- MCRoots
  NoRoot = NoRoot
  None = None
  SLOTS = 4
  MaxPeriod = 2
  Identities = {i1, i2}
  Keys = {"a1", "A1", "b2"}
  Lower <- MCLower
  CAP = 2
  MaxRequests = 2
  MaxOpen = 2
  MaxTrees = 3
  MaxCrashes = 2
SPECIFICATION ServerFairSpec
INVARIANTS
  ServedProofsUsable
  SubmittedOnce
PROPERTIES
  ImplementsProvider
  RegisteredEventuallyServed
CHECK_DEADLOCK FALSE
