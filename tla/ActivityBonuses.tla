----------------------------- MODULE ActivityBonuses -----------------------------
(***************************************************************************)
(* The activity bonuses of one user (packages/activity-bonus and           *)
(* user/activity/claim.ts): tiers are unlocked as rows, rows are claimed   *)
(* or expire, and a lost bet ends a win streak with a bonus.  A tier is    *)
(* known by its position in the sorted list, which an admin can change.    *)
(***************************************************************************)
EXTENDS RewardDesk

CONSTANTS
  Levels,     \* what a tier asks for, a tier of the same type paying as much
  Winnings,   \* what a won bet pays
  StreakFrom, \* WinStreakRule.consecutiveWins, of the one rule
  MaxBonuses, \* bound on the rows
  MaxWins     \* bound on the bets won

ASSUME BonusAssumption ==
  /\ Levels \subseteq Nat \ {0} /\ IsFiniteSet(Levels) /\ Levels # {} /\ Winnings \subseteq Nat \ {0} /\ StreakFrom \in Nat \ {0}
  /\ MaxBonuses \in Nat /\ MaxWins \in Nat

VARIABLES
  tiers,     \* the ActivityBonusTier rows of a type
  reached,   \* what the user has reached: of the day, of the invitees, the login streak
  deposited, \* how many deposits of the user succeeded
  lastLogin, \* User.lastLoginDate, -1 before the first
  bonuses,   \* the ActivityBonus rows, oldest first
  paid,      \* how often a row was credited (for properties)
  retiered,  \* whether the tiers changed (for properties)
  streak,    \* the UserWinStreak row
  wins,      \* what the won bets paid, in the order of settlement (for properties)
  bonused,   \* how often a win was counted in a streak bonus (for properties)
  unreset    \* how many losses ended without their reset (for properties)

tierVars == <<tiers, reached, deposited, lastLogin, bonuses, paid, retiered>>
streakVars == <<streak, wins, bonused, unreset>>

Types == {"DAILY", "INVITATION", "ATTENDENCE", "FIRST_DEPOSIT"}
Expiring == {"ATTENDENCE"}

TiersInit ==
  /\ tiers = [t \in Types |-> Levels]
  /\ reached = [t \in Types |-> 0]
  /\ deposited = 0
  /\ lastLogin = -1
  /\ bonuses = <<>>
  /\ paid = <<>>
  /\ retiered = FALSE

StreakInit ==
  /\ streak = [currentStreak |-> 0, streakWinAmount |-> 0]
  /\ wins = <<>>
  /\ bonused = <<>>
  /\ unreset = 0

--------------------------------------------------------------------------------
(* Unlocking tiers                                                          *)

\* metadata.tier: the position among the rows sorted by what they ask for.
Index(t, level) == Cardinality({l \in tiers[t] : l < level})
Unlocked(t) == {l \in tiers[t] : l <= reached[t]}

Bonus(t, tier, level, d) ==
  [type |-> t, tier |-> tier, amount |-> level, createdAt |-> d,
   expiresAt |-> IF t \in Expiring THEN d + 1 ELSE MaxDay + 1,
   status |-> "COMPLETED_UNCOLLECTED", claimAt |-> -1]

RowsOf(t) == {i \in DOMAIN bonuses : bonuses[i].type = t}
TierRow(t, tier) == \E i \in RowsOf(t) : bonuses[i].tier = tier
AddBonus(b) == bonuses' = Append(bonuses, b) /\ paid' = Append(paid, 0)
Room == Len(bonuses) < MaxBonuses

\* Bets, deposits and invitees take a user one tier further.
Achieve(t) ==
  /\ t \in {"DAILY", "INVITATION"}
  /\ reached[t] < Max(Levels)
  /\ AtOnce
  /\ reached' = [reached EXCEPT ![t] = @ + 1]
  /\ UNCHANGED <<tiers, deposited, lastLogin, bonuses, paid, retiered>>

\* checkAndCreateDailyBonuses(), checkAndCreateAttendanceBonus(): one tier of the
\* loop; a DAILY row of an earlier day does not count.
MissingRow(t, tier, d) ==
  ~\E i \in RowsOf(t) : bonuses[i].tier = tier /\ (t = "DAILY" => bonuses[i].createdAt = d)
TierRead(t, level) ==
  /\ t \in {"DAILY", "ATTENDENCE"}
  /\ level \in Unlocked(t)
  /\ MissingRow(t, Index(t, level), day)
  /\ Begin([made |-> made, pc |-> "tier create", type |-> t, tier |-> Index(t, level), level |-> level])
  /\ UNCHANGED tierVars

TierCreate(c) ==
  /\ c.pc = "tier create"
  /\ Room
  /\ AddBonus(Bonus(c.type, c.tier, c.level, day))
  /\ Finish(c)
  /\ UNCHANGED <<tiers, reached, deposited, lastLogin, retiered>>

\* checkAndCreateInvitationBonuses(): the tiers are read first, their rows are
\* looked for under the lock of the inviter.
InvitationRead ==
  /\ Unlocked("INVITATION") # {}
  /\ Begin([made |-> made, pc |-> "invitation create",
            eligible |-> {[tier |-> Index("INVITATION", l), level |-> l] : l \in Unlocked("INVITATION")}])
  /\ UNCHANGED tierVars

NotYetGivenUnlocked(e) == TRUE
NotYetGiven(e) == ~TierRow("INVITATION", e.tier)

InvitationCreate(c) ==
  LET new == {e \in c.eligible : NotYetGiven(e)}
      nth(i) == CHOOSE e \in new : Cardinality({f \in new : f.tier < e.tier}) = i - 1
      rows == [i \in 1 .. Cardinality(new) |-> Bonus("INVITATION", nth(i).tier, nth(i).level, day)]
  IN /\ c.pc = "invitation create"
     /\ Len(bonuses) + Len(rows) <= MaxBonuses
     /\ bonuses' = bonuses \o rows
     /\ paid' = paid \o [i \in DOMAIN rows |-> 0]
     /\ (IF rows = <<>> THEN Drop(c) ELSE Finish(c))
     /\ UNCHANGED <<tiers, reached, deposited, lastLogin, retiered>>

\* A deposit succeeds; the check comes after it, when another may have succeeded.
Deposit(level) ==
  /\ deposited < 2
  /\ AtOnce
  /\ deposited' = deposited + 1
  /\ reached' = [reached EXCEPT !["FIRST_DEPOSIT"] = level]
  /\ UNCHANGED <<tiers, lastLogin, bonuses, paid, retiered>>

\* checkAndCreateFirstDepositBonus(): the highest tier of the only deposit.
FirstDepositRead ==
  LET level == Max(Unlocked("FIRST_DEPOSIT"))
  IN /\ RowsOf("FIRST_DEPOSIT") = {}
     /\ deposited = 1
     /\ Unlocked("FIRST_DEPOSIT") # {}
     /\ Begin([made |-> made, pc |-> "tier create", type |-> "FIRST_DEPOSIT",
               tier |-> Index("FIRST_DEPOSIT", level), level |-> level])
     /\ UNCHANGED tierVars

\* updateLoginStreak(): reads, then writes.
LoginRead ==
  /\ lastLogin # day
  /\ Begin([made |-> made, pc |-> "login write", day |-> day,
            loginStreak |-> IF lastLogin >= 0 /\ lastLogin = day - 1 THEN reached["ATTENDENCE"] + 1
                            ELSE 1])
  /\ UNCHANGED tierVars

LoginWrite(c) ==
  /\ c.pc = "login write"
  /\ Finish(c)
  /\ lastLogin' = c.day
  /\ reached' = [reached EXCEPT !["ATTENDENCE"] = c.loginStreak]
  /\ UNCHANGED <<tiers, deposited, bonuses, paid, retiered>>

\* POST and DELETE of activityBonusSettings.ts
AdminTier(t, level) ==
  /\ AtOnce
  /\ tiers' = [tiers EXCEPT ![t] = IF level \in @ THEN @ \ {level} ELSE @ \cup {level}]
  /\ retiered' = TRUE
  /\ UNCHANGED <<reached, deposited, lastLogin, bonuses, paid>>

--------------------------------------------------------------------------------
(* Claims and expiry                                                        *)

Uncollected(i) == bonuses[i].status = "COMPLETED_UNCOLLECTED"
ExpiredBy(i, d) == bonuses[i].type \in Expiring /\ bonuses[i].expiresAt < d

ClaimRead(i) ==
  /\ Uncollected(i)
  /\ Begin([made |-> made, pc |-> IF ExpiredBy(i, day) THEN "claim expire" ELSE "claim credit", bonus |-> i])
  /\ UNCHANGED tierVars

ClaimExpire(c) ==
  /\ c.pc = "claim expire"
  /\ bonuses' = IF Uncollected(c.bonus) THEN [bonuses EXCEPT ![c.bonus] = [@ EXCEPT !.status = "EXPIRED"]] ELSE bonuses
  /\ Finish(c)
  /\ UNCHANGED <<tiers, reached, deposited, lastLogin, paid, retiered>>

\* The row is reserved, on the same conditions again, before it is credited.
ReservableChecked(i) == ~ExpiredBy(i, day)
Reservable(i) == Uncollected(i) /\ ~ExpiredBy(i, day)

ClaimCredit(c) ==
  /\ c.pc = "claim credit"
  /\ IF Reservable(c.bonus)
     THEN /\ Finish(c)
          /\ bonuses' = [bonuses EXCEPT ![c.bonus] = [@ EXCEPT !.status = "COLLECTED", !.claimAt = day]]
          /\ paid' = [paid EXCEPT ![c.bonus] = @ + 1]
     ELSE Drop(c) /\ UNCHANGED <<bonuses, paid>>
  /\ UNCHANGED <<tiers, reached, deposited, lastLogin, retiered>>

\* expireOldBonuses(), every hour
ExpireOldBonuses ==
  /\ \E i \in DOMAIN bonuses : Uncollected(i) /\ ExpiredBy(i, day)
  /\ AtOnce
  /\ bonuses' = [i \in DOMAIN bonuses |->
                   IF Uncollected(i) /\ ExpiredBy(i, day) THEN [bonuses[i] EXCEPT !.status = "EXPIRED"]
                   ELSE bonuses[i]]
  /\ UNCHANGED <<tiers, reached, deposited, lastLogin, paid, retiered>>

BonusNewDay ==
  /\ NewDay
  /\ reached' = [reached EXCEPT !["DAILY"] = 0]
  /\ UNCHANGED <<tiers, deposited, lastLogin, bonuses, paid, retiered>>

TierStep(c) == TierCreate(c) \/ InvitationCreate(c) \/ LoginWrite(c) \/ ClaimExpire(c) \/ ClaimCredit(c)

TierNext ==
  /\ scheme \in Types
  /\ \/ Achieve(scheme)
     \/ \E l \in Levels : TierRead(scheme, l) \/ AdminTier(scheme, l)
     \/ scheme = "FIRST_DEPOSIT" /\ \E l \in Levels : Deposit(l)
     \/ scheme = "ATTENDENCE" /\ LoginRead
     \/ InvitationRead \/ FirstDepositRead \/ ExpireOldBonuses
     \/ \E i \in DOMAIN bonuses : ClaimRead(i)
     \/ \E c \in calls : TierStep(c)
     \/ BonusNewDay

--------------------------------------------------------------------------------
(* processWinStreakForBet(), once for every bet settled                     *)

\* A win counts at once ...
Win(a) ==
  /\ Len(wins) < MaxWins
  /\ AtOnce
  /\ streak' = [currentStreak |-> streak.currentStreak + 1, streakWinAmount |-> streak.streakWinAmount + a]
  /\ wins' = Append(wins, a)
  /\ bonused' = Append(bonused, 0)
  /\ UNCHANGED unreset

\* ... a loss reads the streak, pays a share of its winnings, and resets it.
\* The wins it read are the latest ones.
LossRead ==
  /\ Begin([made |-> made, pc |-> IF streak.currentStreak >= StreakFrom THEN "streak pay" ELSE "streak reset",
            from |-> Len(wins) - streak.currentStreak + 1, to |-> Len(wins)])
  /\ UNCHANGED streakVars

StreakPay(c) ==
  /\ c.pc = "streak pay"
  /\ MoveOn(c, "streak reset")
  /\ bonused' = [w \in DOMAIN bonused |-> bonused[w] + (IF w \in c.from .. c.to THEN 1 ELSE 0)]
  /\ UNCHANGED <<streak, wins, unreset>>

StreakLeft == streak
NoStreak == [currentStreak |-> 0, streakWinAmount |-> 0]
StreakReset(c) ==
  /\ c.pc = "streak reset"
  /\ Finish(c)
  /\ streak' = NoStreak
  /\ UNCHANGED <<wins, bonused, unreset>>

\* An error is caught and logged, and the process may die: the rest does not happen,
\* and a streak that was paid for may go on.
StreakFails(c) ==
  /\ c.pc \in {"streak pay", "streak reset"}
  /\ Drop(c)
  /\ unreset' = unreset + (IF c.pc = "streak reset" THEN 1 ELSE 0)
  /\ UNCHANGED <<streak, wins, bonused>>

StreakStep(c) == StreakPay(c) \/ StreakReset(c) \/ StreakFails(c)

StreakNext ==
  /\ scheme = "streak"
  /\ \/ \E a \in Winnings : Win(a)
     \/ LossRead
     \/ \E c \in calls : StreakStep(c)

================================================================================
