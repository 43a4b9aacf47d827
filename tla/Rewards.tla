--------------------------------- MODULE Rewards ---------------------------------
(***************************************************************************)
(* The reward schemes together, and what keeps each from paying twice.     *)
(* Where the code decides under a lock, a unique key or a condition on the *)
(* row, a property holds for every interleaving; where it reads first and  *)
(* writes later, it is stated for requests that do not overlap.            *)
(***************************************************************************)
EXTENDS GiftsAndSpins, ActivityBonuses, VipAndSelfRebate, Salaries, TeamRebate

vars == <<deskVars, giftVars, spinVars, tierVars, streakVars, vipVars, rebateVars, ruleVars, claimVars, teamVars>>

Init ==
  /\ DeskInit /\ GiftsInit /\ SpinsInit
  /\ TiersInit /\ StreakInit /\ VipInit /\ SelfRebateInit
  /\ RuleInit /\ ClaimInit /\ TeamInit

Next ==
  \/ GiftNext /\ UNCHANGED <<spinVars, tierVars, streakVars, vipVars, rebateVars, ruleVars, claimVars, teamVars>>
  \/ SpinNext /\ UNCHANGED <<giftVars, tierVars, streakVars, vipVars, rebateVars, ruleVars, claimVars, teamVars>>
  \/ TierNext /\ UNCHANGED <<giftVars, spinVars, streakVars, vipVars, rebateVars, ruleVars, claimVars, teamVars>>
  \/ StreakNext /\ UNCHANGED <<giftVars, spinVars, tierVars, vipVars, rebateVars, ruleVars, claimVars, teamVars>>
  \/ VipNext /\ UNCHANGED <<giftVars, spinVars, tierVars, streakVars, rebateVars, ruleVars, claimVars, teamVars>>
  \/ SelfRebateNext /\ UNCHANGED <<giftVars, spinVars, tierVars, streakVars, vipVars, ruleVars, claimVars, teamVars>>
  \/ SalaryNext /\ UNCHANGED <<giftVars, spinVars, tierVars, streakVars, vipVars, rebateVars, claimVars, teamVars>>
  \/ AutoSalaryNext /\ UNCHANGED <<giftVars, spinVars, tierVars, streakVars, vipVars, rebateVars, ruleVars, teamVars>>
  \/ TeamNext /\ UNCHANGED <<giftVars, spinVars, tierVars, streakVars, vipVars, rebateVars, ruleVars, claimVars>>

Spec == Init /\ [][Next]_vars

--------------------------------------------------------------------------------

\* A user is credited for a gift once, however requests interleave.  When they do
\* not, a gift is redeemed as often as it counts and never more often than it may
\* be, and a user does not pass the claims of a day.
GiftsWithinLimits ==
  /\ \A u \in Users, g \in Gifts : credited[u][g] <= 1
  /\ ~overlapped =>
       /\ \A g \in Gifts : /\ Cardinality(Redemptions(g)) = gift[g].totalRedeemed
                           /\ gift[g].totalRedeemed <= TotalRedeemable
                           /\ gift[g].exaushted <=> gift[g].totalRedeemed = TotalRedeemable
       /\ \A u \in Users, d \in 0 .. MaxDay : Cardinality(ClaimsOf(u, d)) <= ClaimsPerDay

\* Without overlap no more spins are used in a day than its deposits earned: all
\* tiers of the sum on one wheel, the best tier of each deposit, as it was first
\* seen, on the other.  One invite spin comes with a row made by the lucky page.
SpinsEarned ==
  ~overlapped =>
    /\ used.invite <= ExtraSpins(Cumulative) + (IF freeSpin THEN 1 ELSE 0)
    /\ used.lucky <= SumFunction([i \in DOMAIN deposits |-> AtLeastZero(deposits[i].awarded)])
    /\ wheel.availableSpins >= 0 /\ wheel.luckyAvailableSpins >= 0

SameTier(i, j) ==
  /\ i # j
  /\ bonuses[i].type = bonuses[j].type
  /\ bonuses[i].type = "DAILY" => bonuses[i].createdAt = bonuses[j].createdAt

\* A row is credited once and only when it is COLLECTED, never after it expired; no
\* tier of the invitations has two rows, in every interleaving.  Without overlap, and
\* while no admin touches the tiers, no reward is unlocked twice: tiers are compared
\* by position, so that a changed list unlocks some again.
BonusesPaidOnce ==
  /\ \A i \in DOMAIN bonuses :
       /\ paid[i] = (IF bonuses[i].status = "COLLECTED" THEN 1 ELSE 0)
       /\ bonuses[i].claimAt <= bonuses[i].expiresAt
  /\ \A i, j \in RowsOf("INVITATION") : i # j => bonuses[i].tier # bonuses[j].tier
  /\ (~overlapped /\ ~retiered) =>
       \A i, j \in DOMAIN bonuses : SameTier(i, j) =>
         /\ bonuses[i].amount # bonuses[j].amount
         /\ bonuses[i].type # "FIRST_DEPOSIT"

\* Without overlap a win counts towards one streak bonus at most, and one more for
\* every loss whose reset failed; a rebate row is credited exactly when it is marked,
\* and once.
WinsAndRebatesCountOnce ==
  ~overlapped =>
    /\ \A w \in DOMAIN wins : bonused[w] <= 1 + unreset
    /\ \A i \in DOMAIN selfRebates : rebatePaid[i] = (IF selfRebates[i].claimed THEN 1 ELSE 0)

\* A level is rewarded once a month in every interleaving; without overlap a user
\* has one monthly reward a month whatever the level, one level-up reward a level,
\* and never loses a level to a requirement that was raised.
VipRewardedOnce ==
  /\ \A i, j \in ClaimsFor("MONTHLY") :
       (i # j /\ vipClaims[i].month = vipClaims[j].month) => vipClaims[i].level # vipClaims[j].level
  /\ ~overlapped =>
       /\ \A i, j \in ClaimsFor("MONTHLY") : i # j => vipClaims[i].month # vipClaims[j].month
       /\ \A l \in VipLevels : Cardinality(LevelClaims(l)) <= 1
       /\ userVip.currentLevel = topLevel

\* A rule counts its payments, whatever an admin changes while the job runs, and is
\* paid once for a due day unless it ever was a ONE_TIME rule or an admin reopened it
\* on a day already paid, and never more often than the largest number it was allowed.
\* Without overlap an automatic salary is credited once, exactly when the claim is APPROVED, and
\* with its amount; an agent whose dashboard says "paid" has got the amount it shows,
\* and the history adds up to what was credited until an admin deletes the rule.
SalariesPaidOnce ==
  /\ Kept => rule.paidCount = Len(payments)
  /\ ~reopened => \A i, j \in DOMAIN payments : i # j => payments[i] # payments[j]
  /\ mostPaid >= 0 => Len(payments) <= mostPaid
  /\ ~overlapped => autoPaid = (IF claim.status = "APPROVED" THEN <<claim.amount>> ELSE <<>>)
  /\ (~overlapped /\ Shown.status = "paid") => autoPaid = <<Shown.willReceive>>
  /\ (~overlapped /\ rule.life # "deleted") => TotalReceived = Len(payments) + SumFunction(autoPaid)

\* No demo account between an agent and a member of the tree below.
Plain(u) == \A m \in Members, l \in Layers : Upline(m, l) = u => \A n \in 1 .. l : Upline(m, n) \notin demo
RowsFor(u, d) == {r \in RowsOfDay(d) : rebates[r].user = u}
Earned(u, d) == SumFunction([r \in RowsFor(u, d) |-> rebates[r].amount])

\* However often the engine dies, starts again or fails to credit, a bet earns an
\* upline one row at most and a row is credited exactly when it is settled, once.
\* A day that a close has settled pays every agent what the preview of that day
\* shows, when nothing of the day changed after its close had begun.
ClosePaysPreview ==
  /\ \A r, q \in DOMAIN rebates :
       (r # q /\ rebates[r].bet = rebates[q].bet) => rebates[r].user # rebates[q].user
  /\ \A r \in DOMAIN rebates : credits[r] = (IF rebates[r].settled THEN 1 ELSE 0)
  /\ \A d \in closed \ late :
       /\ Unsettled(d) = {}
       /\ \A u \in Members \ demo : Plain(u) => Earned(u, d) = Preview(u, d)

\* The admin's total, summed from events up the chains, is the sum of what the
\* users see, summed from the users down their teams.  No row is paid for a day that
\* is still running, so an agent who lists the members one by one, today live and
\* the days before from paid rows, sees each bet once when these days are closed.
PreviewsAddUp ==
  /\ \A d \in 0 .. day :
       PreviewTotal(d) = SumFunction([u \in Members \ (demo \cup Staff) |-> Preview(u, d)])
  /\ RowsOfDay(day) = {}
  /\ 0 .. day - 1 \subseteq closed \ late =>
       \A u \in Members \ demo : Plain(u) =>
         SumFunction([m \in Members |-> PersonBets(u, m)]) = SumFunction([d \in 0 .. day |-> Preview(u, d)])

================================================================================
