CONSTANTS
  Withdrawals = {w1, w2}
  Callbacks = {c1}
  Amount = 2
  OpeningBalance = 6
  DailyLimit = 4
  MaxTransfers = 2
  MaxCallbacks = 2
  FaultModels = {{"unreachable", "wallet", "database"},
                 {"unreachable", "lost", "duplicate"},
                 {"wallet", "duplicate"},
                 {"publish", "late"}}
SPECIFICATION Spec
CHECK_DEADLOCK FALSE
INVARIANTS TypeOK PaidAndDebitedOnce StatusIsTrue PendingIsReserved
