CONSTANTS
  MaxPeriod = 2
  MaxPetitions = 1
  MaxRuns = 2
  MaxTicks = 0
  MaxFailures = 1
SPECIFICATION ClientStateSpec
INVARIANTS
  OverlayHasReason
  SignedNotOffered
CHECK_DEADLOCK FALSE
