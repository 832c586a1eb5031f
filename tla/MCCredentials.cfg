CONSTANTS
  Modes = {"zk", "naive", "pss", "semaphore"}
  Accounts = {a1, a2}
  Me = Me
  Imported = Imported
  Calls = {c1, c2}
  Periods = {1, 2}
  None = None
  Refused = Refused
  NotReady = NotReady
  MaxTries = 1
  MaxKeys = 2
  MaxDoubles = 1
  MaxReloads = 1
  MaxLosses = 1
SPECIFICATION PatientSpec
INVARIANTS
  RegisteredKeysSaved
  ProofBelongsToKey
  OneRequestPerPeriod
  WorkingHasReason
PROPERTIES
  TokensKept
  RetryHelps
