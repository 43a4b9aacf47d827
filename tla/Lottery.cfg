\* Two slots, two bets that the user can pay, any one failure.
SPECIFICATION FairSpec
CONSTANTS
  Games = {"k3", "5d", "moto", "trx"}
  u1 = u1
  low = low
  high = high
  none = none
  Users <- MCUsers
  Numbers <- MCNumbers
  Bets <- MCBets
  Digit <- MCDigit
  TipTolerance = 1
  NoResult = none
  Stake = 1
  InitBalance = 2
  MaxSlot = 1
  SlotLen = 3
  LockLen = 2
  DrawOffset = 1
  MaxTime = 6
  FaultKinds = {"crash", "clock", "end", "create", "draw", "redis", "settle", "pay", "resolve", "bet", "tron"}
  MaxFaults = 1
  Prompt = {"bet", "admin"}
INVARIANTS ResolvedOwesNothing DrawnFromSource
PROPERTIES LedgerSpec NoReopenAfterDraw ShownIsFinal BetsPaid
