CONSTANTS
  MaxClicks = 2
  Names = {n1, n2}
  Nil = Nil
  MaxManagers = 6
  MaxChanges = 1
  MaxFailures = 1
SPECIFICATION ConnectionFairSpec
INVARIANTS
  ConnectionFits
PROPERTIES
  AppGetsReady
CHECK_DEADLOCK FALSE
