\* Two requests in flight, three days.
SPECIFICATION Spec
CONSTANTS
  u1 = u1
  u2 = u2
  g1 = g1
  g2 = g2
  Schemes = {"gifts", "spins", "DAILY", "INVITATION", "ATTENDENCE", "FIRST_DEPOSIT", "streak", "vip", "self-rebate",
             "salary", "auto-salary"}
  MaxDay = 2
  MaxRequests = 6
  MaxCalls = 2
  Users <- MCUsers
  Gifts <- MCGifts
  TotalRedeemable = 1
  ClaimsPerDay = 1
  Deposits = {1, 2}
  InviteRules <- MCInviteRules
  LuckyRules <- MCLuckyRules
  MaxDeposits = 2
  Levels = {1, 2}
  Winnings = {1}
  StreakFrom = 2
  MaxBonuses = 3
  MaxWins = 4
  VipLevels <- MCVipLevels
  Requires <- MCRequires
  MaxXp = 3
  MaxBets = 2
  MaxPayments = {0, 1, 2}
  Slabs <- MCSlabs
  Teams <- MCTeams
  chief = chief
  agent = agent
  player = player
  novice = novice
  Nobody = Nobody
  Members <- MCMembers
  Trees <- MCTrees
  Demos <- NoDemo
  Staff <- MCStaff
  Newcomers <- MCNewcomers
  MaxLayer = 2
  Rates <- MCRates
  Requirements <- MCRequirements
  Stakes = {1}
  MaxEvents = 2
CHECK_DEADLOCK FALSE
INVARIANTS GiftsWithinLimits SpinsEarned BonusesPaidOnce WinsAndRebatesCountOnce VipRewardedOnce SalariesPaidOnce
