CONSTANTS
  Users = {u1}
  Calls = {c1, c2, c3}
  Ops = {"register", "view", "deposit", "refund", "debit", "reserve", "release"}
  Amounts = {1, 2}
  Refs = {r1}
  OpeningBalance = 2
  MAX_OPTIMISTIC_LOCK_RETRIES = 2
  MaxDeliveries = 2
SYMMETRY CallSymmetry
SPECIFICATION Spec
CHECK_DEADLOCK FALSE
INVARIANTS TypeOK NeverOverspent LedgerExplainsWallet GivesUpOnlyUnderContention
PROPERTIES ImplementsAtomicWallet
