CONSTANTS
  MaxPeriod = 2
  MaxPetitions = 0
  MaxRuns = 1
  MaxTicks = 2
  MaxFailures = 1
SPECIFICATION ClientStateFairSpec
INVARIANTS
  DatesFitPeriod
PROPERTIES
  PeriodCatchesUp
CHECK_DEADLOCK FALSE
