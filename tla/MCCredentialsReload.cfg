CONSTANTS
  Modes = {"semaphore"}
  Accounts = {a1}
  Me = Me
  Imported = Imported
  Calls = {c1}
  Periods = {1}
  None = None
  Refused = Refused
  NotReady = NotReady
  MaxTries = 1
  MaxKeys = 1
  MaxDoubles = 0
  MaxReloads = 1
  MaxLosses = 0
SPECIFICATION ClientSpec
INVARIANT KeysHaveTheirType
