\* 5D alone, one payment or process may fail.
SPECIFICATION Spec
CONSTANTS
  Games = {"5d"}
  u1 = u1
  low = low
  high = high
  none = none
  Users <- MCUsers
  Numbers <- MCNumbers
  Bets <- MCBets
  Digit <- MCDigit
  TipTolerance = 1
  NoResult = none
  Stake = 1
  InitBalance = 1
  MaxSlot = 0
  SlotLen = 3
  LockLen = 2
  DrawOffset = 1
  MaxTime = 4
  FaultKinds = {"pay"}
  MaxFaults = 1
  Prompt = {"bet", "admin"}
INVARIANTS WonIsPaid
