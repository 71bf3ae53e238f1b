CONSTANTS
  Users = {u1}
  Requests = {r1, r2}
  Keys = {k1, k2}
  Amounts = {10}
  SeedKes = 10
  OpeningBalance = 20
  SHARE_PRICE_KES = 10
  MAX_OPTIMISTIC_LOCK_RETRIES = 2
  MAX_RELEASE_ATTEMPTS = 2
  Faults = {"unreachable", "lost", "publish"}
SPECIFICATION FairSpec
CHECK_DEADLOCK FALSE
INVARIANTS ConfirmedIsPaid
PROPERTIES Answered
