SPECIFICATION FairSpec
CONSTANTS
  Users = {"alice"}
  Numbers <- MCNumbers
  Bets <- OnePlayer
  Stake = 100
  InitBalance = 200
  NoResult = NoResult
  MaxSlot = 0
  SlotLen = 3
  LockLen = 2
  FreezeLen = 1
  MaxTime = 4
  FaultKinds = {"settle"}
  MaxFaults = 1
  Prompt = {}
PROPERTIES OutcomeFinal BetsSettled
