SPECIFICATION AccountsSpec
CONSTANTS
  Requests = {r1, r2}
  Users = {"admin", "root"}
  Passwords = {"p1"}
  Short = "short"
  Generated = "generated"
  Configs <- SmallConfigs
  MaxStarts = 3
  None = None
  Resets = {s1, s2, s3}
  Usernames = {admin, second, nobody}
  Admins = {admin, second}
  Initial = Initial
  TTL = 1
  MaxTime = 3
INVARIANTS PoolOutlivesUsers ServingHasAdmin GuestNeedsGuestMode OkMeansStored
PROPERTIES OnlyHolderOrRestore SuccessIsFinal TokenComesBack
CHECK_DEADLOCK FALSE
