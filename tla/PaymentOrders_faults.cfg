SPECIFICATION Spec
CONSTANTS
  Deposits = {"gateIn"}
  Withdrawals = {"gateOut"}
  Amount <- MCAmount
  Bonus = 7
  Stake = 60
  InitBalance = 60
  Manual = {}
  Requests = {"a", "b"}
  LowBalance = 5
  DailyLimit = 2
  MaxSent = 2
  FaultKinds = {"rollback", "wager", "gateway", "crash"}
  MaxFaults = 1
  Assumed = {}
INVARIANTS NothingLost
PROPERTIES FrozenUntilWagered
CHECK_DEADLOCK FALSE
