\* One account, two instants, two requirements.
SPECIFICATION Spec
CONSTANTS
  r1 = r1
  t1 = t1
  Rounds <- MCRounds
  Markets <- MCMarkets
  Spent <- MCSpent
  Begun <- MCBegun
  FiveDResults <- FiveDSamples
  Amounts = {1}
  WagerFactors = {1, 2}
  RewardFactor = 1
  PenaltyBase = 2
  MaxFactor = 4
  LowBalance = 1
  InitBalance = 3
  MaxRows = 2
  MaxTime = 1
  Tx <- MCTx
  VendorStake = 2
  Results = {0, 3}
  Corrections <- MCCorrections
  MaxRequests = 6
  CallWeight = 2
  MaxFaults = 1
CHECK_DEADLOCK FALSE
INVARIANTS PenaltiesBacked VendorBooks IllegalAsPaid HouseKeepsWhole
PROPERTIES WithdrawalEarned
