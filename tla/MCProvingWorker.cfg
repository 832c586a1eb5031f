CONSTANTS
  Jobs = {j1, j2, j3}
  Petitions = {p1, p2}
  MaxErrors = 1
  None = None
SPECIFICATION WorkerFairSpec
INVARIANTS
  OneProofAtATime
  HelperInitialised
PROPERTIES
  PageReturns
CHECK_DEADLOCK FALSE
