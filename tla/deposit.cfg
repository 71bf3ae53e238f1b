CONSTANTS
  Deposits = {d1, d2}
  Callbacks = {c1, c2}
  Amount = 2
  DailyLimit = 3
  MaxCallbacks = 2
  FaultModels = {{"publish", "spoofed", "throws"},
                 {"unreachable", "lost", "spoofed"},
                 {"spoofed", "overlap", "redelivery"}}
SPECIFICATION FairSpec
CHECK_DEADLOCK FALSE
INVARIANTS TypeOK CreditsMatchPayments
PROPERTIES FinalIsFinal CompletedIsCredited
