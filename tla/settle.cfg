CONSTANTS
  Users = {u1, u2}
  Verdicts = {"YES", "CANCEL"}
  MaxStake = 2
  Pot = 60
  MaxLateTrades = 1
  MaxCrashes = 1
  FaultModels = {{"throw", "publish", "crash"}, {"late"}, {}}
SPECIFICATION FairSpec
CHECK_DEADLOCK FALSE
INVARIANTS TypeOK PaidAsRecorded
PROPERTIES HoldersGetTheirDue
