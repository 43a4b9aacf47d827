------------------------------ MODULE GiftsAndSpins ------------------------------
(***************************************************************************)
(* Gift codes (gift/redeem.ts, admin/gift.ts) and the two wheels           *)
(* (user/activity/spinWheel.ts, luckySpin.ts).  Both check what is left    *)
(* before the transaction that takes it.                                   *)
(***************************************************************************)
EXTENDS RewardDesk

CONSTANTS
  Users, Gifts,
  TotalRedeemable, \* of every gift
  ClaimsPerDay,    \* GIFT_CLAIMS_PER_IST_DAY
  Deposits,        \* amounts of deposits
  InviteRules,     \* LuckySpinRule rows of kind INVITE: [minDeposit, spinChances]
  LuckyRules,      \* the values of the rows of kind LUCKY an admin switches between
  MaxDeposits      \* bound on the deposits of a day

ASSUME GiftAssumption ==
  /\ TotalRedeemable \in Nat \ {0} /\ ClaimsPerDay \in Nat \ {0}
  /\ Deposits \subseteq Nat \ {0} /\ MaxDeposits \in Nat
  /\ IsFiniteSet(InviteRules) /\ InviteRules \subseteq [minDeposit : Nat, spinChances : Nat]
  /\ LuckyRules # {}
  /\ \A rules \in LuckyRules :
       IsFiniteSet(rules) /\ rules \subseteq [minDeposit : Nat, spinChances : Nat]

VARIABLES
  gift,        \* the Gift row of a code
  redemptions, \* the GiftRedemption rows
  credited,    \* how often a user was credited for a gift (for properties)
  wheel,       \* the user's SpinWheel row
  deposits,    \* the SUCCESS deposits of the day, with metadata.luckySpinsAwarded
  luckyRules,  \* the LUCKY rows in force (some always are: the defaults without are left out)
  used,        \* the SPIN_WHEEL bonuses of the day, by wheel
  freeSpin     \* whether the lucky page made the row today (for properties)

giftVars == <<gift, redemptions, credited>>
spinVars == <<wheel, deposits, luckyRules, used, freeSpin>>

NoWheel == [exists |-> FALSE, fresh |-> FALSE, availableSpins |-> 0, luckyAvailableSpins |-> 0,
            dailyCumulativeDeposit |-> 0]

GiftsInit ==
  /\ gift = [g \in Gifts |-> [isActive |-> TRUE, totalRedeemed |-> 0, exaushted |-> FALSE]]
  /\ redemptions = {}
  /\ credited = [u \in Users |-> [g \in Gifts |-> 0]]

SpinsInit ==
  /\ wheel = NoWheel
  /\ deposits = <<>>
  /\ luckyRules = CHOOSE rules \in LuckyRules : TRUE
  /\ used = [invite |-> 0, lucky |-> 0]
  /\ freeSpin = FALSE

--------------------------------------------------------------------------------
(* Gift codes                                                               *)

Redemptions(g) == {r \in redemptions : r.gift = g}
ClaimsOf(u, d) == {r \in redemptions : r.user = u /\ r.day = d}
RedeemedIgnored(u, g) == FALSE
Redeemed(u, g) == \E r \in redemptions : r.user = u /\ r.gift = g

RedeemRead(u, g) ==
  /\ gift[g].isActive
  /\ ~gift[g].exaushted
  /\ ~Redeemed(u, g)
  /\ Begin([made |-> made, pc |-> "gift count", user |-> u, gift |-> g, day |-> day,
            totalRedeemed |-> gift[g].totalRedeemed])
  /\ UNCHANGED giftVars

\* The transaction counts the claims of the day it read before ...
RedeemCount(c) ==
  /\ c.pc = "gift count"
  /\ IF Cardinality(ClaimsOf(c.user, c.day)) >= ClaimsPerDay THEN Drop(c)
     ELSE Move(c, "gift credit") /\ UNCHANGED <<scheme, day, made, overlapped>>
  /\ UNCHANGED giftVars

\* ... and credits, with the total it read before; a second row of the user for
\* the gift breaks the unique key and takes the credit back.
RedeemCommit(c) ==
  LET total == c.totalRedeemed + 1
  IN /\ c.pc = "gift credit"
     /\ IF Redeemed(c.user, c.gift) THEN Drop(c) /\ UNCHANGED giftVars
        ELSE /\ Finish(c)
             /\ credited' = [credited EXCEPT ![c.user][c.gift] = @ + 1]
             /\ gift' = [gift EXCEPT ![c.gift].totalRedeemed = total,
                                     ![c.gift].exaushted = total >= TotalRedeemable]
             /\ redemptions' = redemptions \cup {[user |-> c.user, gift |-> c.gift, day |-> day]}

\* PATCH /admin/gift/:giftId
GiftActive(g) ==
  /\ AtOnce
  /\ gift' = [gift EXCEPT ![g].isActive = ~@]
  /\ UNCHANGED <<redemptions, credited>>

GiftStep(c) == RedeemCount(c) \/ RedeemCommit(c)

GiftNext ==
  /\ scheme = "gifts"
  /\ \/ \E u \in Users, g \in Gifts : RedeemRead(u, g)
     \/ \E g \in Gifts : GiftActive(g)
     \/ \E c \in calls : GiftStep(c)
     \/ NewDay /\ UNCHANGED giftVars

--------------------------------------------------------------------------------
(* The wheels                                                               *)

\* A deposit of the day is approved.
DepositSucceeds(a) ==
  /\ Len(deposits) < MaxDeposits
  /\ AtOnce
  /\ deposits' = Append(deposits, [amount |-> a, awarded |-> -1])
  /\ UNCHANGED <<wheel, luckyRules, used, freeSpin>>

Cumulative == SumFunction([i \in DOMAIN deposits |-> deposits[i].amount])

\* calculateExtraSpins(): every rule that is met counts ...
ExtraSpins(amount) ==
  SumFunction([r \in {r \in InviteRules : amount >= r.minDeposit} |-> r.spinChances])

\* ... spinsForDepositAmount(): the highest one only.
SpinsFor(amount, rules) ==
  LET met == {r \in rules : amount >= r.minDeposit}
  IN IF met = {} THEN 0
     ELSE (CHOOSE r \in met : \A q \in met : q.minDeposit <= r.minDeposit).spinChances

AtLeastZero(n) == IF n > 0 THEN n ELSE 0

\* getOrUpdateSpinWheel(): a new day starts over, a day that runs never takes
\* spins away again.
InviteTotal ==
  LET total == ExtraSpins(Cumulative) IN IF total > wheel.availableSpins THEN total ELSE wheel.availableSpins
InviteLeft ==
  LET calculated == AtLeastZero(ExtraSpins(Cumulative) - used.invite)
  IN IF calculated > wheel.availableSpins THEN calculated ELSE wheel.availableSpins
InviteSpins == IF wheel.exists /\ wheel.fresh THEN InviteLeft ELSE ExtraSpins(Cumulative)

InviteRead(spin) ==
  /\ Begin([made |-> made,
            pc |-> IF /\ wheel.exists /\ wheel.fresh
                      /\ wheel.availableSpins = InviteSpins
                      /\ wheel.dailyCumulativeDeposit = Cumulative
                   THEN "invite spin" ELSE "invite row",
            spin |-> spin, creates |-> ~wheel.exists, spins |-> InviteSpins, deposit |-> Cumulative])
  /\ UNCHANGED spinVars

Spins(c) == c.spin /\ c.spins > 0

\* The row is written as it was computed; userId is unique.
InviteRow(c) ==
  /\ c.pc = "invite row"
  /\ IF c.creates /\ wheel.exists THEN Drop(c) /\ UNCHANGED spinVars
     ELSE /\ wheel' = [wheel EXCEPT !.exists = TRUE, !.fresh = TRUE, !.availableSpins = c.spins,
                                    !.dailyCumulativeDeposit = c.deposit]
          /\ (IF Spins(c) THEN MoveOn(c, "invite spin") ELSE Finish(c))
          /\ UNCHANGED <<deposits, luckyRules, used, freeSpin>>

\* The transaction of a spin takes one off whatever is there by then.
InviteSpin(c) ==
  /\ c.pc = "invite spin"
  /\ IF Spins(c)
     THEN /\ Finish(c)
          /\ used' = [used EXCEPT !.invite = @ + 1]
          /\ wheel' = [wheel EXCEPT !.availableSpins = @ - 1]
     ELSE Drop(c) /\ UNCHANGED <<wheel, used>>
  /\ UNCHANGED <<deposits, luckyRules, freeSpin>>

\* getOrUpdateLuckySpins(): a deposit is stamped with its spins when first seen.
Stamped(d) == IF d.awarded >= 0 THEN d.awarded ELSE SpinsFor(d.amount, luckyRules)
LuckyAwarded == SumFunction([i \in DOMAIN deposits |-> Stamped(deposits[i])])

\* The row is written when its numbers changed.
LuckyDiffers(spins) ==
  ~wheel.exists \/ wheel.luckyAvailableSpins # spins \/ wheel.dailyCumulativeDeposit # Cumulative

LuckyRead(spin) ==
  LET spins == AtLeastZero(LuckyAwarded - used.lucky)
      unstamped == {i \in DOMAIN deposits : deposits[i].awarded < 0}
      next == IF LuckyDiffers(spins) THEN "lucky row" ELSE "lucky spin"
  IN /\ Begin([made |-> made, pc |-> IF unstamped = {} THEN next ELSE "lucky stamp",
               next |-> next, spin |-> spin, day |-> day,
               creates |-> ~wheel.exists, spins |-> spins, deposit |-> Cumulative,
               stamps |-> [i \in unstamped |-> Stamped(deposits[i])]])
     /\ UNCHANGED spinVars

LuckyStamp(c) ==
  /\ c.pc = "lucky stamp"
  /\ deposits' = [i \in DOMAIN deposits |->
                    IF c.day = day /\ i \in DOMAIN c.stamps THEN [deposits[i] EXCEPT !.awarded = c.stamps[i]]
                    ELSE deposits[i]]
  /\ MoveOn(c, c.next)
  /\ UNCHANGED <<wheel, luckyRules, used, freeSpin>>

\* The row the lucky page makes has an invite spin in it.
LuckyRow(c) ==
  /\ c.pc = "lucky row"
  /\ IF c.creates /\ wheel.exists THEN Drop(c) /\ UNCHANGED spinVars
     ELSE /\ wheel' = [wheel EXCEPT !.exists = TRUE, !.fresh = @ \/ c.creates,
                                    !.availableSpins = IF c.creates THEN 1 ELSE @,
                                    !.luckyAvailableSpins = c.spins,
                                    !.dailyCumulativeDeposit = c.deposit]
          /\ freeSpin' = (freeSpin \/ c.creates)
          /\ (IF Spins(c) THEN MoveOn(c, "lucky spin") ELSE Finish(c))
          /\ UNCHANGED <<deposits, luckyRules, used>>

LuckySpin(c) ==
  /\ c.pc = "lucky spin"
  /\ IF Spins(c)
     THEN /\ Finish(c)
          /\ used' = [used EXCEPT !.lucky = @ + 1]
          /\ wheel' = [wheel EXCEPT !.luckyAvailableSpins = @ - 1]
     ELSE Drop(c) /\ UNCHANGED <<wheel, used>>
  /\ UNCHANGED <<deposits, luckyRules, freeSpin>>

\* POST, PATCH and DELETE /admin/lucky-spin/rules
AdminLuckyRules(rules) ==
  /\ rules # luckyRules
  /\ AtOnce
  /\ luckyRules' = rules
  /\ UNCHANGED <<wheel, deposits, used, freeSpin>>

\* What belongs to the day before is not read any more.
SpinNewDay ==
  /\ NewDay
  /\ deposits' = <<>>
  /\ used' = [invite |-> 0, lucky |-> 0]
  /\ wheel' = [wheel EXCEPT !.fresh = FALSE]
  /\ freeSpin' = FALSE
  /\ UNCHANGED luckyRules

SpinStep(c) == InviteRow(c) \/ InviteSpin(c) \/ LuckyStamp(c) \/ LuckyRow(c) \/ LuckySpin(c)

SpinNext ==
  /\ scheme = "spins"
  /\ \/ \E a \in Deposits : DepositSucceeds(a)
     \/ \E spin \in BOOLEAN : InviteRead(spin) \/ LuckyRead(spin)
     \/ \E rules \in LuckyRules : AdminLuckyRules(rules)
     \/ \E c \in calls : SpinStep(c)
     \/ SpinNewDay

================================================================================
