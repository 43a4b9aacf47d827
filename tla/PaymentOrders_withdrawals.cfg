SPECIFICATION FairSpec
CONSTANTS
  Deposits = {"upiIn"}
  Withdrawals = {"upiOut", "gateOut"}
  Amount <- MCAmount
  Bonus = 7
  Stake = 20
  InitBalance = 110
  Manual = {"upiIn", "upiOut"}
  Requests = {"a", "b", "c"}
  LowBalance = 5
  DailyLimit = 2
  MaxSent = 3
  FaultKinds = {"rollback"}
  MaxFaults = 1
  Assumed = {"alone", "ordered"}
INVARIANTS NeverPaidAndReturned
PROPERTIES BookSpec PayoutReported
CHECK_DEADLOCK FALSE
