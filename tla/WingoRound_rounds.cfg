SPECIFICATION Spec
CONSTANTS
  Users = {"alice"}
  Numbers <- MCNumbers
  Bets <- Rounds
  Stake = 100
  InitBalance = 100
  NoResult = NoResult
  MaxSlot = 1
  SlotLen = 3
  LockLen = 2
  FreezeLen = 1
  MaxTime = 7
  FaultKinds = {"crash", "handoff", "prepare", "draw", "redis", "settle", "bet"}
  MaxFaults = 1
  Prompt = {"bet", "prepare", "admin"}
INVARIANTS PublishedIsStored ResolvedIsSettled AdminObeyed
PROPERTIES BookClosedAtDraw LedgerSpec
