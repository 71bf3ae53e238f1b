CONSTANTS
  Users = {u1}
  Calls = {c1, c2, c3}
  Ops = {"settle", "deposit", "debit", "reserve"}
  Amounts = {1, 2}
  Refs = {r1, r2}
  OpeningBalance = 2
  MAX_OPTIMISTIC_LOCK_RETRIES = 2
  MaxDeliveries = 2
SYMMETRY CallSymmetry
SPECIFICATION Spec
CHECK_DEADLOCK FALSE
INVARIANTS PaidOnce NoMoneyCreated
