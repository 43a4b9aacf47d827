---------------------------- MODULE VipAndSelfRebate ----------------------------
(***************************************************************************)
(* The XP level of one user and the rewards claimed for it (user/vip.ts,   *)
(* vipLevelService.ts), and the rebate on the user's own bets              *)
(* (packages/rebate, user/rebate/selfRebate.ts).  A day of the model is an *)
(* IST month for the first and an IST day for the second.                  *)
(***************************************************************************)
EXTENDS RewardDesk

CONSTANTS
  VipLevels, \* levels above 0, which have rewards
  Requires,  \* the values expRequired takes: functions on VipLevels, rising
  MaxXp,     \* bound on User.xp
  MaxBets    \* bound on the bets a rebate accrues for

ASSUME VipAssumption ==
  /\ VipLevels \subseteq Nat \ {0} /\ IsFiniteSet(VipLevels) /\ MaxXp \in Nat /\ MaxBets \in Nat
  /\ Requires \subseteq [VipLevels -> Nat] /\ Requires # {}

VARIABLES
  xp,           \* User.xp
  expRequired,  \* VipLevelRequirement.expRequired
  userVip,      \* the UserVipLevel row
  vipClaims,    \* the VipRewardClaim rows, oldest first
  topLevel,     \* the highest level a sync has written (for properties)
  selfRebates,  \* the SelfRebate rows, oldest first
  rebatePaid    \* how often a row was credited (for properties)

vipVars == <<xp, expRequired, userVip, vipClaims, topLevel>>
rebateVars == <<selfRebates, rebatePaid>>

VipInit ==
  /\ xp = 0
  /\ expRequired = CHOOSE f \in Requires : TRUE
  /\ userVip = [exists |-> FALSE, currentLevel |-> 0, createdAt |-> 0]
  /\ vipClaims = <<>>
  /\ topLevel = 0

SelfRebateInit == selfRebates = <<>> /\ rebatePaid = <<>>

--------------------------------------------------------------------------------
(* The level                                                                *)

\* calculateXpVipLevel(): the highest level whose requirement is met.
Qualified == Max({0} \cup {l \in VipLevels : xp >= expRequired[l]})
MaxOf(a, b) == IF a > b THEN a ELSE b
StickyDropped == Qualified
Sticky == MaxOf(userVip.currentLevel, Qualified)

Bet ==
  /\ xp < MaxXp
  /\ AtOnce
  /\ xp' = xp + 1
  /\ UNCHANGED <<expRequired, userVip, vipClaims, topLevel>>

\* PUT /admin/vip-rules: a level may come to ask for more.
AdminVipRule(f) ==
  /\ f # expRequired
  /\ AtOnce
  /\ expRequired' = f
  /\ UNCHANGED <<xp, userVip, vipClaims, topLevel>>

\* syncLevelFromXp(): XP and row are read, the row is written later.
SyncRead ==
  /\ Begin([made |-> made, pc |-> "vip sync", level |-> Sticky, claim |-> "none"])
  /\ UNCHANGED vipVars

\* claimVipRewardRoute starts with a sync of its own.
ClaimSync(level, type) ==
  /\ Begin([made |-> made, pc |-> "vip sync", level |-> Sticky, claim |-> type, for |-> level])
  /\ UNCHANGED vipVars

VipSync(c) ==
  /\ c.pc = "vip sync"
  /\ userVip' = [userVip EXCEPT !.exists = TRUE, !.currentLevel = c.level,
                                !.createdAt = IF userVip.exists THEN @ ELSE day]
  /\ topLevel' = MaxOf(topLevel, c.level)
  /\ (IF c.claim # "none" /\ c.for <= c.level THEN MoveOn(c, "vip check") ELSE Finish(c))
  /\ UNCHANGED <<xp, expRequired, vipClaims>>

--------------------------------------------------------------------------------
(* The rewards                                                              *)

ClaimsFor(type) == {i \in DOMAIN vipClaims : vipClaims[i].type = type}
LevelClaims(level) == {i \in ClaimsFor("LEVEL_UP") : vipClaims[i].level = level}

\* resolveMonthlyClaimWindow(): from the month after the last monthly claim, else
\* after the level-up claim of this level, else after the level row was made.
HoldFrom(level) ==
  IF ClaimsFor("MONTHLY") # {} THEN vipClaims[Max(ClaimsFor("MONTHLY"))].month
  ELSE IF LevelClaims(level) # {} THEN vipClaims[Max(LevelClaims(level))].month
  ELSE userVip.createdAt

ClaimedIgnored(level, type) == FALSE
AlreadyClaimed(level, type) ==
  IF type = "LEVEL_UP" THEN LevelClaims(level) # {}
  ELSE \E i \in ClaimsFor("MONTHLY") : vipClaims[i].month = day

MayClaim(c) ==
  /\ c.claim = "MONTHLY" => (c.for = c.level /\ day > HoldFrom(c.level))
  /\ ~AlreadyClaimed(c.for, c.claim)

VipCheck(c) ==
  /\ c.pc = "vip check"
  /\ IF MayClaim(c)
     THEN /\ calls' = (calls \ {c}) \cup {[made |-> c.made, pc |-> "vip credit", level |-> c.level, claim |-> c.claim,
                                           for |-> c.for, month |-> day]}
          /\ UNCHANGED <<scheme, day, made, overlapped>>
     ELSE Drop(c)
  /\ UNCHANGED vipVars

\* The key (userId, level, type, monthYear) stops a second monthly row of a level;
\* a level-up row has no monthYear, and two without one do not collide.
Collides(c) ==
  c.claim = "MONTHLY" /\
    \E i \in ClaimsFor("MONTHLY") : vipClaims[i].level = c.for /\ vipClaims[i].month = c.month

VipCredit(c) ==
  /\ c.pc = "vip credit"
  /\ IF Collides(c) THEN Drop(c) /\ UNCHANGED vipClaims
     ELSE /\ Finish(c)
          /\ vipClaims' = Append(vipClaims, [level |-> c.for, type |-> c.claim, month |-> c.month])
  /\ UNCHANGED <<xp, expRequired, userVip, topLevel>>

VipStep(c) == VipSync(c) \/ VipCheck(c) \/ VipCredit(c)

VipNext ==
  /\ scheme = "vip"
  /\ \/ Bet
     \/ SyncRead
     \/ \E f \in Requires : AdminVipRule(f)
     \/ \E l \in VipLevels, type \in {"LEVEL_UP", "MONTHLY"} : ClaimSync(l, type)
     \/ \E c \in calls : VipStep(c)
     \/ NewDay /\ UNCHANGED vipVars

--------------------------------------------------------------------------------
(* The rebate on own bets                                                   *)

\* accrueForBet(), not awaited by the bet
Accrue ==
  /\ Len(selfRebates) < MaxBets
  /\ AtOnce
  /\ selfRebates' = Append(selfRebates, [date |-> day, claimed |-> FALSE, expired |-> FALSE])
  /\ rebatePaid' = Append(rebatePaid, 0)

\* POST /claim: the rows of today ...
Unclaimed == {i \in DOMAIN selfRebates :
                selfRebates[i].date = day /\ ~selfRebates[i].claimed /\ ~selfRebates[i].expired}

RebateRead ==
  /\ Unclaimed # {}
  /\ Begin([made |-> made, pc |-> "rebate credit", ids |-> Unclaimed])
  /\ UNCHANGED rebateVars

\* ... are marked and credited, whatever they are by then.
ClaimedUnmarked(row) == row
ClaimedRow(row) == [row EXCEPT !.claimed = TRUE]

RebateCredit(c) ==
  /\ c.pc = "rebate credit"
  /\ Finish(c)
  /\ selfRebates' = [i \in DOMAIN selfRebates |->
                       IF i \in c.ids THEN ClaimedRow(selfRebates[i]) ELSE selfRebates[i]]
  /\ rebatePaid' = [i \in DOMAIN rebatePaid |-> rebatePaid[i] + (IF i \in c.ids THEN 1 ELSE 0)]

\* expireUnclaimed(), at 01:00
ExpireUnclaimed ==
  LET old == {i \in DOMAIN selfRebates :
                selfRebates[i].date < day /\ ~selfRebates[i].claimed /\ ~selfRebates[i].expired}
  IN /\ old # {}
     /\ AtOnce
     /\ selfRebates' = [i \in DOMAIN selfRebates |->
                          IF i \in old THEN [selfRebates[i] EXCEPT !.expired = TRUE] ELSE selfRebates[i]]
     /\ UNCHANGED rebatePaid

SelfRebateNext ==
  /\ scheme = "self-rebate"
  /\ \/ Accrue
     \/ RebateRead
     \/ ExpireUnclaimed
     \/ \E c \in calls : RebateCredit(c)
     \/ NewDay /\ UNCHANGED rebateVars

================================================================================
