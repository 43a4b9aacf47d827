SPECIFICATION FairSpec
CONSTANTS
  Deposits = {"upiIn", "gateIn"}
  Withdrawals = {}
  Amount <- MCAmount
  Bonus = 7
  Stake = 20
  InitBalance = 20
  Manual = {"upiIn"}
  Requests = {"a", "b"}
  LowBalance = 5
  DailyLimit = 2
  MaxSent = 3
  FaultKinds = {"rollback"}
  MaxFaults = 1
  Assumed = {"alone", "ordered", "once"}
PROPERTIES BookSpec DepositDecided PaidIsCredited
CHECK_DEADLOCK FALSE
