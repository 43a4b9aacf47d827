------------------------------ MODULE CacheCatalog -------------------------------
(***************************************************************************)
(* What is cached and who drops it: the GET handlers that answer from      *)
(* Redis, each with its key, the way it stores an answer, the seconds it   *)
(* keeps it and the tables it reads, and the operations that change those  *)
(* tables, each with the keys it deletes afterwards.  A key that names a   *)
(* user stands for the key of the user concerned.                          *)
(***************************************************************************)
EXTENDS Integers

\* store: "value" for Cache.get/set, "hash" for Cache.hget/hset.
View(key, store, ttl, reads) ==
  [key |-> key, store |-> store, ttl |-> ttl, part |-> "page", reads |-> reads]

Write(writes, drops) == [writes |-> writes, drops |-> drops]

\* A bet with its result row, whichever the game.
BetTables == {"WingoBet", "K3Bet", "FiveDBet", "MotoBet", "TrxWingoBet", "InoutBet"}
LotteryBets == BetTables \ {"InoutBet"}

--------------------------------------------------------------------------------
(* Players' views                                                           *)

WingoBetsView    == View("wingoBets", "hash", 15, {"WingoBet"})
K3BetsView       == View("k3Bets", "hash", 15, {"K3Bet"})
FiveDBetsView    == View("fiveDBets", "hash", 15, {"FiveDBet"})
MotoBetsView     == View("motoBets", "hash", 15, {"MotoBet"})
TrxBetsView      == View("trxWingoBets", "hash", 15, {"TrxWingoBet"})
GameHistoryView  == View("gameHistory", "hash", 120, BetTables)
WithdrawalsForever == View("userWithdrawals", "hash", 0, {"Withdraw"})
WithdrawalsView  == View("userWithdrawals", "hash", 30, {"Withdraw"})
QueriesView      == View("userQueries", "hash", 1200, {"UserQuery"})
NotificationsView == View("userNotifications", "value", 300, {"Notification"})
VipRequirementsView == View("vipRequirements", "value", 3600, {"VipLevelRequirement"})
VipClaimsView    == View("vipRewardClaims", "hash", 900, {"VipRewardClaim"})
CommissionRatesView == View("commissionRates", "value", 3600, {"CommissionRateConfig"})
CommissionBreakdownView == View("commissionBreakdown", "hash", 120, {"Commission"})
DailyCommissionView == View("dailyCommission", "hash", 600, {"Commission", "DailyCommissionSummary"})
RebateRatesView  == View("rebateRates", "value", 3600, {"RebateRateConfig"})
RebateHistoryView == View("rebateHistory", "hash", 60, {"Rebate"})
RebatePeopleView == View("rebatePeople", "hash", 20, {"Rebate", "User"})
RebateDayTotalsView == View("rebateDayTotals", "hash", 30, {"Rebate"})
TeamOverviewView == View("teamOverview", "value", 30, BetTables \cup {"Deposit", "Rebate", "User"})
TeamMembersView  == View("teamMembers", "hash", 20, BetTables \cup {"Deposit", "Rebate", "User"})
AgencyHubView    == View("agencyHub", "value", 30, BetTables \cup {"Deposit", "Rebate", "User"})
SalaryReportView == View("salaryReport", "value", 10, BetTables \cup {"Deposit", "Withdraw", "User"})
SalaryDashboardView == View("salaryDashboard", "value", 60,
  {"AutoSalaryClaim", "Deposit", "User", "Bank", "IllegalBet"} \cup BetTables)
SalaryHistoryView == View("userSalaryHistory", "hash", 120, {"AutoSalaryClaim", "SalaryPayment"})
InoutGamesView   == View("inoutGames", "hash", 3600, {"InoutGame"})
\* The gate of every request that is no admin's (maintenanceMiddleware).
MaintenanceView  == View("maintenance", "value", 30, {"Maintenance"})

--------------------------------------------------------------------------------
(* Admins' views                                                            *)

UsersView        == View("adminUsers", "hash", 180, {"User"})
UserStatsView    == View("adminUserStats", "value", 300,
  {"User", "Bank", "UserVipLevel", "Rebate", "SalaryPayment", "AutoSalaryClaim"})
YesterdayStatsView == View("yesterdayStats", "value", 300, {"User", "Deposit", "Withdraw"} \cup BetTables)
TeamDayView      == View("teamDayAnalysis", "value", 300, {"User", "Deposit", "Withdraw"} \cup BetTables)
BonusHistoryView == View("adminActivityBonusHistory", "hash", 900, {"ActivityBonus", "User"})
BalanceHistoryView == View("adminBalanceTransactions", "hash", 18000, {"AdminBalanceUpdateTransaction", "User"})
CommissionHistoryView == View("adminCommissionHistory", "hash", 900, {"Commission", "User"})
DepositsView     == View("adminDeposits", "hash", 120, {"Deposit", "User"})
AdminWithdrawalsView == View("adminWithdrawals", "hash", 120, {"Withdraw", "User"})
AdminGameHistoryView == View("adminGameHistory", "value", 5, BetTables \cup {"User"})
AdminRebateHistoryView == View("adminRebateHistory", "hash", 900, {"Rebate", "User"})
AdminCommissionRatesView == View("commissionRates", "value", 3600, {"CommissionRateConfig"})
AdminNotificationsView == View("adminNotifications", "hash", 300, {"Notification"})
EarningsView     == View("adminDashboardEarnings", "value", 2,
  {"Rebate", "SalaryPayment", "AutoSalaryClaim", "User", "Deposit"} \cup BetTables)
RecentWinsView   == View("recentWins", "value", 2, {"WingoBet", "TrxWingoBet"})
TopUsersView     == View("topUsers", "value", 5, {"User", "Withdraw"})
AgentsView       == View("adminAgents", "hash", 300, {"User"})
AgentDetailsView == View("adminAgentPerformance", "hash", 300, {"User"})
AgentPerformanceView == View("adminAgentPerformance", "value", 300,
  {"User", "Deposit", "Withdraw", "Commission"} \cup LotteryBets)
IpsView          == View("adminIps", "hash", 180, {"Ip", "IpActivity", "User"})
IpStatisticsView == View("ipStatistics", "value", 300, {"Ip", "User"})
SubAdminsView    == View("adminSubAdmins", "hash", 300, {"User"})
ProfitLossView   == [View("adminProfitLoss", "hash", 120, BetTables) EXCEPT !.part = "dashboard"]
GameStatsView    == [View("adminProfitLoss", "hash", 120, BetTables) EXCEPT !.part = "game-stats"]
SalaryStatsView  == View("adminSalaryStats", "value", 300, {"SalaryRule", "SalaryPayment"})
TopPerformanceView == View("adminTopPerformance", "hash", 60, {"User", "Deposit", "Withdraw"} \cup BetTables)
OverviewView     == View("adminOverview", "value", 120, {"User", "Deposit", "Withdraw"} \cup BetTables)
IllegalBetsView  == View("illegalBets", "hash", 120, {"IllegalBet", "User"})
IllegalBetStatsView == View("illegalBetsStatistics", "value", 300, {"IllegalBet", "User"})
GiftsView        == View("adminGifts", "hash", 300, {"Gift"})
AdminQueriesView == View("adminQueries", "hash", 120, {"UserQuery", "User"})

Views == {
  WingoBetsView, K3BetsView, FiveDBetsView, MotoBetsView, TrxBetsView, GameHistoryView,
  WithdrawalsView, QueriesView, NotificationsView, VipRequirementsView, VipClaimsView,
  CommissionRatesView, CommissionBreakdownView, DailyCommissionView, RebateRatesView,
  RebateHistoryView, RebatePeopleView, RebateDayTotalsView, TeamOverviewView, TeamMembersView,
  AgencyHubView, SalaryReportView, SalaryDashboardView, SalaryHistoryView, InoutGamesView,
  MaintenanceView, UsersView, UserStatsView, YesterdayStatsView, TeamDayView, BonusHistoryView,
  BalanceHistoryView, CommissionHistoryView, DepositsView, AdminWithdrawalsView,
  AdminGameHistoryView, AdminRebateHistoryView, AdminCommissionRatesView, AdminNotificationsView,
  EarningsView, RecentWinsView, TopUsersView, AgentsView, AgentDetailsView, AgentPerformanceView,
  IpsView, IpStatisticsView, SubAdminsView, ProfitLossView, GameStatsView, SalaryStatsView,
  TopPerformanceView, OverviewView, IllegalBetsView, IllegalBetStatsView, GiftsView,
  AdminQueriesView}

Keys == {v.key : v \in Views}

--------------------------------------------------------------------------------
(* Operations that change what is cached                                    *)

\* invalidateUserGameCaches: the history and the list of the game.
GameCaches(list) == {"gameHistory", list}

WingoBetting == Write({"WingoBet", "User"}, GameCaches("wingoBets"))
K3Betting    == Write({"K3Bet", "User"}, GameCaches("k3Bets"))
FiveDBetting == Write({"FiveDBet", "User"}, GameCaches("fiveDBets"))
MotoBetting  == Write({"MotoBet", "User"}, GameCaches("motoBets"))
TrxBetting   == Write({"TrxWingoBet", "User"}, GameCaches("trxWingoBets"))
InoutBetting == Write({"InoutBet", "User"}, GameCaches("inoutBets"))

DepositRequest   == Write({"Deposit"}, {"userDeposits", "adminDeposits"})
GatewayDeposit   == Write({"Deposit"}, {"userDeposits"})
GatewayCallback  == Write({"Deposit", "User"}, {"userDeposits"})
PayoutCallback   == Write({"Withdraw", "User"}, {})
DepositTimeout   == Write({"Deposit"}, {})
ManageDeposit    == Write({"Deposit", "User"}, {"adminDeposits"})
WithdrawRequest  == Write({"Withdraw", "User"}, {"userWithdrawals", "adminWithdrawals", "adminUserStats"})
RefundWithdrawal == Write({"Withdraw", "User"}, {"adminWithdrawals", "userWithdrawals"})
ManageWithdrawal == Write({"Withdraw"}, {"adminWithdrawals"})

NotificationCreate == Write({"Notification"}, {"adminNotifications", "userNotifications"})
NotificationUpdate == Write({"Notification"}, {"adminNotifications", "userNotifications"})
NotificationDeleteAdminOnly == Write({"Notification"}, {"adminNotifications"})
NotificationDelete == Write({"Notification"}, {"adminNotifications", "userNotifications"})
CommissionRateUpdate == Write({"CommissionRateConfig"}, {"commissionRates"})
ConfigUpdate     == Write({"Maintenance"}, {"maintenance"})
InoutGamesUpdate == Write({"InoutGame"}, {"inoutGames"})
VipRuleEdit      == Write({"VipLevelRequirement"}, {})
VipClaim         == Write({"VipRewardClaim", "User"}, {"vipStatus", "vipRewardClaims"})
QueryCreate      == Write({"UserQuery"}, {"userQueries"})
QueryUpdate      == Write({"UserQuery"}, {"adminQueries", "userQueries"})
GiftCreate       == Write({"Gift"}, {"adminGifts"})
GiftUpdate       == Write({"Gift"}, {"adminGifts"})
GiftRedeem       == Write({"Gift", "User"}, {})

UserCreate       == Write({"User"}, {"adminUsers"})
UserUpdate       == Write({"User"}, {"adminUsers", "adminUserStats"})
BalanceUpdate    == Write({"User", "AdminBalanceUpdateTransaction"},
                          {"adminUserStats", "adminUsers", "adminBalanceTransactions"})
AgentCreate      == Write({"User"}, {"adminAgents"})
SubAdminCreate   == Write({"User"}, {"adminSubAdmins"})
IpBlacklist      == Write({"Ip"}, {"adminIps"})
IpWhitelist      == Write({"Ip"}, {"adminIps"})

SalaryKeys == {"adminSalaryRules", "adminSalaryStats", "userSalaryHistory"}
SalaryRuleCreate == Write({"SalaryRule", "SalaryPayment", "User", "Deposit"},
                          SalaryKeys \cup {"adminUserStats", "adminDashboardEarnings"})
SalaryRuleUpdate == Write({"SalaryRule"}, SalaryKeys)
SalaryRuleDelete == Write({"SalaryRule", "SalaryPayment"}, SalaryKeys)
SalaryRun        == Write({"SalaryRule", "SalaryPayment", "User", "Deposit"},
                          SalaryKeys \cup {"adminUserStats", "adminDashboardEarnings"})
AutoSalaryPay    == Write({"AutoSalaryClaim", "User", "AdminBalanceUpdateTransaction"},
                          {"salaryDashboard", "userSalaryHistory", "adminUserStats", "adminDashboardEarnings"})
RebateClose      == Write({"Rebate", "User"}, {"adminUserStats", "adminDashboardEarnings"})
\* A round found illegal raises the player's penalty.
PenaltyChange    == Write({"User", "IllegalBet"}, {"adminUserStats", "adminUsers"})

Writes == {
  WingoBetting, K3Betting, FiveDBetting, MotoBetting, TrxBetting, InoutBetting, DepositRequest,
  GatewayDeposit, GatewayCallback, PayoutCallback, DepositTimeout, ManageDeposit, WithdrawRequest,
  RefundWithdrawal, ManageWithdrawal, NotificationCreate, NotificationUpdate, NotificationDelete,
  CommissionRateUpdate, ConfigUpdate, InoutGamesUpdate, VipRuleEdit, VipClaim, QueryCreate,
  QueryUpdate, GiftCreate, GiftUpdate, GiftRedeem, UserCreate, UserUpdate, BalanceUpdate,
  AgentCreate, SubAdminCreate, IpBlacklist, IpWhitelist, SalaryRuleCreate, SalaryRuleUpdate,
  SalaryRuleDelete, SalaryRun, AutoSalaryPay, RebateClose, PenaltyChange}

================================================================================
