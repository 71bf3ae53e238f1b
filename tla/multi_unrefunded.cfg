CONSTANTS
  u1 = u1
  k1 = k1
  o1 = o1
  r1 = r1
  Users = {u1, u2}
  Options = {o1, o2}
  Requests = {r1, r2}
  Keys = {k1, k2}
  Elsewhere = o3
  Amounts = {1}
  SeedKes = 1
  MAX_OPTIMISTIC_LOCK_RETRIES = 2
  MaxCrashes = 1
  Wishes <- MCWishes
  FaultModels = {{}}
SPECIFICATION Spec
INVARIANT HoldersAreRefunded
CHECK_DEADLOCK FALSE
