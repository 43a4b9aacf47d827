------------------------------ MODULE RewardsProofs ------------------------------
(***************************************************************************)
(* The schemes of Rewards, for every number of users, gifts, tiers, days,  *)
(* deposits, wins and requests.                                            *)
(*                                                                         *)
(* DeskInv is what the schemes share: an overlap is never forgotten, and   *)
(* who writes without one was the only request in flight.  Each scheme has *)
(* an invariant of its own: the types of its rows and of its requests,     *)
(* what holds in every interleaving, and, as long as nothing overlaps,     *)
(* what holds of the rows together with what the request in flight has     *)
(* read, which is still so.  Steps of the other schemes leave it alone.    *)
(* The team rebate is apart: the engine runs one close at a time, and      *)
(* what TeamInv says of the rows of a day needs no absence of overlap.     *)
(***************************************************************************)
EXTENDS Rewards, Sums, SequenceTheorems, TLAPS

--------------------------------------------------------------------------------
(* The desk                                                                 *)

DeskInv ==
  /\ day \in 0 .. MaxDay
  /\ made \in Nat
  /\ overlapped \in BOOLEAN

\* What no step does to the desk: change the scheme, forget an overlap.
DeskStep ==
  /\ scheme' = scheme
  /\ overlapped => overlapped'
  /\ day' \in 0 .. MaxDay /\ day' >= day
  /\ made' \in Nat
  /\ overlapped' \in BOOLEAN

\* What the ways to move the desk have in common.
LEMMA DeskSteps ==
  ASSUME DeskInv, NEW c
  PROVE  /\ Begin(c) => DeskStep
         /\ \A pc : Move(c, pc) /\ UNCHANGED <<scheme, day, made, overlapped>> => DeskStep
         /\ UNCHANGED <<scheme, day, made, overlapped>> => DeskStep
         /\ \A pc : MoveOn(c, pc) => DeskStep
         /\ Finish(c) => DeskStep
         /\ Drop(c) => DeskStep
         /\ AtOnce => DeskStep
         /\ NewDay => DeskStep
<1> USE DeskAssumption DEF DeskAssumption, DeskInv, DeskStep
<1>1. Begin(c) => DeskStep
  BY DEF Begin
<1>2. UNCHANGED <<scheme, day, made, overlapped>> => DeskStep
  OBVIOUS
<1>3. Interferes(c) => (overlapped => overlapped') /\ overlapped' \in BOOLEAN
  BY DEF Interferes
<1>4. ASSUME UNCHANGED <<scheme, day, made>>, Interferes(c) PROVE DeskStep
  BY <1>3, <1>4
<1>5. AtOnce => DeskStep
  BY DEF AtOnce
<1>6. NewDay => DeskStep
  BY DEF NewDay
<1>7. Drop(c) => DeskStep
  BY <1>2 DEF Drop
<1>8. Finish(c) => DeskStep
  BY <1>4 DEF Finish
<1>9. \A pc : MoveOn(c, pc) => DeskStep
  BY <1>4 DEF MoveOn
<1> HIDE DEF DeskStep
<1> QED BY <1>1, <1>2, <1>5, <1>6, <1>7, <1>8, <1>9

\* What is written alone, and when no overlap is on record after it.
LEMMA Alone ==
  ASSUME NEW c \in calls
  PROVE  /\ Finish(c) /\ ~overlapped' => ~overlapped /\ calls = {c} /\ calls' = {}
         /\ \A pc : MoveOn(c, pc) /\ ~overlapped' =>
              ~overlapped /\ calls = {c} /\ calls' = {[c EXCEPT !.pc = pc]}
BY DEF Finish, MoveOn, End, Move, Interferes

LEMMA AloneAtOnce ==
  /\ AtOnce /\ ~overlapped' => ~overlapped /\ calls = {} /\ calls' = {}
  /\ NewDay /\ ~overlapped' => ~overlapped /\ calls = {} /\ calls' = {}
BY DEF AtOnce, NewDay

--------------------------------------------------------------------------------
LEMMA GiftsDesk == DeskInv /\ GiftNext => DeskStep
<1> SUFFICES ASSUME DeskInv, GiftNext PROVE DeskStep
  OBVIOUS
<1>1. ASSUME NEW u \in Users, NEW g \in Gifts, RedeemRead(u, g) PROVE DeskStep
  BY <1>1, DeskSteps DEF RedeemRead
<1>2. ASSUME NEW g \in Gifts, GiftActive(g) PROVE DeskStep
  BY <1>2, DeskSteps DEF GiftActive
<1>3. ASSUME NEW c \in calls, GiftStep(c) PROVE DeskStep
  <2>1. RedeemCount(c) => Drop(c) \/ UNCHANGED <<scheme, day, made, overlapped>>
    BY DEF RedeemCount
  <2>2. RedeemCommit(c) => Drop(c) \/ Finish(c)
    BY DEF RedeemCommit
  <2> QED BY <1>3, <2>1, <2>2, DeskSteps DEF GiftStep
<1>4. NewDay => DeskStep
  BY DeskSteps
<1> QED BY <1>1, <1>2, <1>3, <1>4 DEF GiftNext

LEMMA SpinsDesk == DeskInv /\ SpinNext => DeskStep
<1> SUFFICES ASSUME DeskInv, SpinNext PROVE DeskStep
  OBVIOUS
<1>1. ASSUME NEW a \in Deposits, DepositSucceeds(a) PROVE DeskStep
  BY <1>1, DeskSteps DEF DepositSucceeds
<1>2. ASSUME NEW spin \in BOOLEAN, InviteRead(spin) \/ LuckyRead(spin) PROVE DeskStep
  BY <1>2, DeskSteps DEF InviteRead, LuckyRead
<1>3. ASSUME NEW rules \in LuckyRules, AdminLuckyRules(rules) PROVE DeskStep
  BY <1>3, DeskSteps DEF AdminLuckyRules
<1>4. ASSUME NEW c \in calls, SpinStep(c) PROVE DeskStep
  <2>1. SpinStep(c) => Drop(c) \/ Finish(c) \/ \E pc : MoveOn(c, pc)
    BY Zenon DEF SpinStep, InviteRow, InviteSpin, LuckyStamp, LuckyRow, LuckySpin
  <2> QED BY <1>4, <2>1, DeskSteps
<1>5. SpinNewDay => DeskStep
  BY DeskSteps DEF SpinNewDay
<1> QED BY <1>1, <1>2, <1>3, <1>4, <1>5 DEF SpinNext

LEMMA TiersDesk == DeskInv /\ TierNext => DeskStep
<1> SUFFICES ASSUME DeskInv, TierNext PROVE DeskStep
  OBVIOUS
<1>1. ASSUME NEW t, Achieve(t) PROVE DeskStep
  BY <1>1, DeskSteps DEF Achieve
<1>2. ASSUME NEW t, NEW l, TierRead(t, l) PROVE DeskStep
  BY <1>2, DeskSteps, Zenon DEF TierRead
<1>3. ASSUME NEW t, NEW l, AdminTier(t, l) PROVE DeskStep
  BY <1>3, DeskSteps, Zenon DEF AdminTier
<1>4. ASSUME NEW l, Deposit(l) PROVE DeskStep
  BY <1>4, DeskSteps, Zenon DEF Deposit
<1>5. ASSUME LoginRead \/ InvitationRead \/ FirstDepositRead PROVE DeskStep
  BY <1>5, DeskSteps, Zenon DEF LoginRead, InvitationRead, FirstDepositRead
<1>6. ExpireOldBonuses => DeskStep
  BY DeskSteps, Zenon DEF ExpireOldBonuses
<1>7. ASSUME NEW i, ClaimRead(i) PROVE DeskStep
  BY <1>7, DeskSteps, Zenon DEF ClaimRead
<1>8. ASSUME NEW c \in calls, TierStep(c) PROVE DeskStep
  <2>1. TierStep(c) => Drop(c) \/ Finish(c)
    BY Zenon DEF TierStep, TierCreate, InvitationCreate, LoginWrite, ClaimExpire, ClaimCredit
  <2> QED BY <1>8, <2>1, DeskSteps
<1>9. BonusNewDay => DeskStep
  BY DeskSteps, Zenon DEF BonusNewDay
<1> QED BY <1>1, <1>2, <1>3, <1>4, <1>5, <1>6, <1>7, <1>8, <1>9, Zenon DEF TierNext

LEMMA StreakDesk == DeskInv /\ StreakNext => DeskStep
<1> SUFFICES ASSUME DeskInv, StreakNext PROVE DeskStep
  OBVIOUS
<1>1. ASSUME NEW a, Win(a) PROVE DeskStep
  BY <1>1, DeskSteps, Zenon DEF Win
<1>2. LossRead => DeskStep
  BY DeskSteps, Zenon DEF LossRead
<1>3. ASSUME NEW c \in calls, StreakStep(c) PROVE DeskStep
  BY <1>3, DeskSteps, Zenon DEF StreakStep, StreakPay, StreakReset, StreakFails
<1> QED BY <1>1, <1>2, <1>3, Zenon DEF StreakNext

LEMMA VipDesk == DeskInv /\ VipNext => DeskStep
<1> SUFFICES ASSUME DeskInv, VipNext PROVE DeskStep
  OBVIOUS
<1>1. Bet => DeskStep
  BY DeskSteps, Zenon DEF Bet
<1>2. SyncRead => DeskStep
  BY DeskSteps, Zenon DEF SyncRead
<1>3. ASSUME NEW f, AdminVipRule(f) PROVE DeskStep
  BY <1>3, DeskSteps, Zenon DEF AdminVipRule
<1>4. ASSUME NEW l, NEW type, ClaimSync(l, type) PROVE DeskStep
  BY <1>4, DeskSteps, Zenon DEF ClaimSync
<1>5. ASSUME NEW c \in calls, VipStep(c) PROVE DeskStep
  <2>1. VipStep(c) => \/ Drop(c) \/ Finish(c) \/ (\E pc : MoveOn(c, pc))
                      \/ UNCHANGED <<scheme, day, made, overlapped>>
    BY Zenon DEF VipStep, VipSync, VipCheck, VipCredit
  <2> QED BY <1>5, <2>1, DeskSteps
<1>6. NewDay => DeskStep
  BY DeskSteps
<1> QED BY <1>1, <1>2, <1>3, <1>4, <1>5, <1>6, Zenon DEF VipNext

LEMMA SelfRebateDesk == DeskInv /\ SelfRebateNext => DeskStep
<1> SUFFICES ASSUME DeskInv, SelfRebateNext PROVE DeskStep
  OBVIOUS
<1>1. Accrue \/ ExpireUnclaimed => DeskStep
  BY DeskSteps, Zenon DEF Accrue, ExpireUnclaimed
<1>2. RebateRead => DeskStep
  BY DeskSteps, Zenon DEF RebateRead
<1>3. ASSUME NEW c \in calls, RebateCredit(c) PROVE DeskStep
  BY <1>3, DeskSteps, Zenon DEF RebateCredit
<1>4. NewDay => DeskStep
  BY DeskSteps
<1> QED BY <1>1, <1>2, <1>3, <1>4, Zenon DEF SelfRebateNext

LEMMA SalaryDesk == DeskInv /\ SalaryNext => DeskStep
<1> SUFFICES ASSUME DeskInv, SalaryNext PROVE DeskStep
  OBVIOUS
<1>1. ASSUME NEW f, NEW max, NEW b, CreateRule(f, max, b) \/ UpdateRule(f, max, b) PROVE DeskStep
  BY <1>1, DeskSteps, Zenon DEF CreateRule, UpdateRule
<1>2. DeleteRule => DeskStep
  BY DeskSteps, Zenon DEF DeleteRule
<1>3. RunRead => DeskStep
  BY DeskSteps, Zenon DEF RunRead
<1>4. ASSUME NEW c \in calls, RunPay(c) \/ RunFails(c) PROVE DeskStep
  <2>1. RunPay(c) \/ RunFails(c) => Drop(c)
    BY Zenon DEF RunPay, RunFails, Drop
  <2> QED BY <1>4, <2>1, DeskSteps
<1>5. NewDay => DeskStep
  BY DeskSteps
<1> QED BY <1>1, <1>2, <1>3, <1>4, <1>5, Zenon DEF SalaryNext

LEMMA AutoSalaryDesk == DeskInv /\ AutoSalaryNext => DeskStep
<1> SUFFICES ASSUME DeskInv, AutoSalaryNext PROVE DeskStep
  OBVIOUS
<1>1. ASSUME NEW t, TeamActs(t) PROVE DeskStep
  BY <1>1, DeskSteps, Zenon DEF TeamActs
<1>2. GenerateRead => DeskStep
  BY DeskSteps, Zenon DEF GenerateRead
<1>3. ASSUME NEW verdict, ReviewRead(verdict) PROVE DeskStep
  BY <1>3, DeskSteps, Zenon DEF ReviewRead
<1>4. ASSUME NEW c \in calls, ClaimStep(c) PROVE DeskStep
  <2>1. ClaimStep(c) => Drop(c) \/ Finish(c)
    BY Zenon DEF ClaimStep, GenerateWrite, Approve, Reject
  <2> QED BY <1>4, <2>1, DeskSteps
<1>5. NewDay => DeskStep
  BY DeskSteps
<1> QED BY <1>1, <1>2, <1>3, <1>4, <1>5, Zenon DEF AutoSalaryNext

LEMMA TeamDesk == DeskInv /\ TeamNext => DeskStep
<1> SUFFICES ASSUME DeskInv, TeamNext PROVE DeskStep
  OBVIOUS
<1>1. ASSUME NEW m, Join(m) PROVE DeskStep
  BY <1>1, DeskSteps, Zenon DEF Join
<1>2. ASSUME NEW kind, NEW m, NEW a, NEW d, Record(kind, m, a, d) PROVE DeskStep
  BY <1>2, DeskSteps, Zenon DEF Record
<1>3. ASSUME NEW i, RollBack(i) PROVE DeskStep
  BY <1>3, DeskSteps, Zenon DEF RollBack
<1>4. CloseDay \/ UNCHANGED <<deskVars, begun>> => DeskStep
  BY DeskSteps, Zenon DEF CloseDay, deskVars
<1>5. CronClose \/ EngineStarts => DeskStep
  BY <1>4, Zenon DEF CronClose, EngineStarts
<1>6. EngineDies => DeskStep
  BY DeskSteps, Zenon DEF EngineDies
<1>7. Midnight => DeskStep
  BY DeskSteps, Zenon DEF Midnight
<1>8. ASSUME NEW c \in calls, CloseStep(c) PROVE DeskStep
  BY <1>8, DeskSteps, Zenon DEF CloseStep, AccrueRow, SettleRead, CloseEnd, SettleUser, SettleUserFails
<1> QED BY <1>1, <1>2, <1>3, <1>5, <1>6, <1>7, <1>8, Zenon DEF TeamNext

\* Every step of the rewards moves the desk that way, or not at all.
LEMMA DeskMoves == DeskInv /\ [Next]_vars => DeskStep /\ DeskInv'
<1> SUFFICES ASSUME DeskInv, [Next]_vars PROVE DeskStep
  BY DEF DeskStep, DeskInv
<1>1. CASE UNCHANGED vars
  BY <1>1, DeskSteps DEF vars, deskVars
<1>2. CASE Next
  BY <1>2, GiftsDesk, SpinsDesk, TiersDesk, StreakDesk, VipDesk, SelfRebateDesk, SalaryDesk, AutoSalaryDesk, TeamDesk, Zenon DEF Next
<1> QED BY <1>1, <1>2

LEMMA DeskHolds == Spec => []DeskInv
<1>1. Init => DeskInv
  <2> SUFFICES ASSUME DeskInit PROVE DeskInv
    BY DEF Init
  <2>1. day \in 0 .. MaxDay /\ made \in Nat
    <3>1. day = 0 /\ made = 0 /\ MaxDay \in Nat
      BY DeskAssumption, Zenon DEF DeskAssumption, DeskInit
    <3> QED BY <3>1
  <2>2. overlapped \in BOOLEAN
    BY Zenon DEF DeskInit
  <2> QED BY <2>1, <2>2, Zenon DEF DeskInv
<1>2. DeskInv /\ [Next]_vars => DeskInv'
  BY DeskMoves
<1> QED BY <1>1, <1>2, PTL DEF Spec

GiftCalls ==
  [made : Nat, pc : {"gift count", "gift credit"}, user : Users, gift : Gifts, day : Int,
   totalRedeemed : Int]

\* While nothing overlaps, what a redemption in flight has read is still so.
GiftRead(c) ==
  /\ c.day = day
  /\ c.totalRedeemed = gift[c.gift].totalRedeemed
  /\ ~gift[c.gift].exaushted
  /\ c.pc = "gift credit" => Cardinality(ClaimsOf(c.user, c.day)) < ClaimsPerDay

GiftsTyped ==
  /\ gift \in [Gifts -> [isActive : BOOLEAN, totalRedeemed : Int, exaushted : BOOLEAN]]
  /\ redemptions \subseteq [user : Users, gift : Gifts, day : Int] /\ IsFiniteSet(redemptions)
  /\ credited \in [Users -> [Gifts -> Nat]]
  /\ scheme = "gifts" => calls \subseteq GiftCalls

CreditedOnce == \A u \in Users, g \in Gifts : credited[u][g] = IF Redeemed(u, g) THEN 1 ELSE 0

\* What a gift counts, what a user has claimed and what calls have read.
GiftCounts(g) ==
  /\ Cardinality(Redemptions(g)) = gift[g].totalRedeemed
  /\ gift[g].totalRedeemed <= TotalRedeemable
  /\ gift[g].exaushted <=> gift[g].totalRedeemed = TotalRedeemable

GiftsAlone ==
  ~overlapped =>
    /\ \A g \in Gifts : GiftCounts(g)
    /\ \A u \in Users, d \in Int : Cardinality(ClaimsOf(u, d)) <= ClaimsPerDay
    /\ scheme = "gifts" => \A c \in calls : GiftRead(c)

GiftsInv == GiftsTyped /\ CreditedOnce /\ GiftsAlone

\* A gift counts its redemptions, and what a redemption leaves of it.
LEMMA GiftsStart == Init => GiftsInv
<1> SUFFICES ASSUME Init PROVE GiftsInv
  OBVIOUS
<1> USE DEF Init, DeskInit, GiftsInit
<1>1. redemptions = {} /\ calls = {} /\ IsFiniteSet(redemptions)
  BY FS_EmptySet
<1>2. GiftsTyped
  BY <1>1 DEF GiftsTyped
<1>3. CreditedOnce
  BY <1>1 DEF CreditedOnce, Redeemed
<1>4. \A g, u, d : Redemptions(g) = {} /\ ClaimsOf(u, d) = {}
  BY <1>1 DEF Redemptions, ClaimsOf
<1>5. Cardinality({}) = 0
  BY FS_EmptySet
<1>6. TotalRedeemable \in Nat /\ TotalRedeemable # 0 /\ ClaimsPerDay \in Nat
  BY GiftAssumption DEF GiftAssumption
<1>7. \A g \in Gifts : gift[g].totalRedeemed = 0 /\ ~gift[g].exaushted
  OBVIOUS
<1>8. GiftsAlone
  <2>0. (\A g : Cardinality(Redemptions(g)) = 0) /\ (\A u, d : Cardinality(ClaimsOf(u, d)) = 0)
    BY <1>4, <1>5, Zenon
  <2> HIDE DEF Init, DeskInit, GiftsInit
  <2>1. \A g \in Gifts : GiftCounts(g)
    BY <1>6, <1>7, <2>0 DEF GiftCounts
  <2>2. \A u \in Users, d \in Int : Cardinality(ClaimsOf(u, d)) <= ClaimsPerDay
    BY <1>6, <2>0
  <2> QED BY <1>1, <2>1, <2>2, Zenon DEF GiftsAlone
<1> QED BY <1>2, <1>3, <1>8 DEF GiftsInv

\* A step that leaves the gifts alone, and the calls on them.
LEMMA GiftsElsewhere ==
  ASSUME DeskInv, GiftsInv, DeskStep, UNCHANGED giftVars,
         scheme = "gifts" /\ ~overlapped' => day' = day,
         scheme = "gifts" => \A c \in calls' : c \in calls \/ (c \in GiftCalls /\ (~overlapped' => GiftRead(c)'))
  PROVE  GiftsInv'
<1> USE DEF giftVars, DeskInv
<1>1. GiftsTyped'
  BY DEF GiftsInv, GiftsTyped, DeskStep
<1>2. CreditedOnce'
  BY DEF GiftsInv, CreditedOnce, Redeemed
<1>3. GiftsAlone'
  <2> SUFFICES ASSUME ~overlapped' PROVE GiftsAlone!2'
    BY DEF GiftsAlone
  <2>1. ~overlapped /\ scheme' = scheme
    BY DEF DeskStep
  <2>2. \A g \in Gifts : GiftCounts(g)'
    BY <2>1 DEF GiftsInv, GiftsAlone, GiftCounts, Redemptions
  <2>3. \A u \in Users, d \in Int : (Cardinality(ClaimsOf(u, d)) <= ClaimsPerDay)'
    BY <2>1 DEF GiftsInv, GiftsAlone, ClaimsOf
  <2>4. ASSUME scheme = "gifts", NEW c \in calls' PROVE GiftRead(c)'
    <3>1. CASE c \in calls
      <4>1. GiftRead(c) /\ day' = day
        BY <2>1, <2>4, <3>1 DEF GiftsInv, GiftsAlone
      <4> QED BY <4>1 DEF GiftRead, ClaimsOf
    <3>2. CASE c \notin calls
      BY <2>4, <3>2
    <3> QED BY <3>1, <3>2
  <2> QED BY <2>1, <2>2, <2>3, <2>4
<1> QED BY <1>1, <1>2, <1>3 DEF GiftsInv

\* What a redemption adds.
LEMMA OneRedemption ==
  ASSUME GiftsTyped, NEW u \in Users, NEW g \in Gifts, NEW d \in Int, ~Redeemed(u, g),
         redemptions' = redemptions \cup {[user |-> u, gift |-> g, day |-> d]}
  PROVE  /\ redemptions' \subseteq [user : Users, gift : Gifts, day : Int] /\ IsFiniteSet(redemptions')
         /\ \A v \in Users, h \in Gifts : Redeemed(v, h)' <=> (Redeemed(v, h) \/ (v = u /\ h = g))
         /\ \A h \in Gifts : Cardinality(Redemptions(h)') =
              Cardinality(Redemptions(h)) + (IF h = g THEN 1 ELSE 0)
         /\ \A v \in Users, e \in Int : Cardinality(ClaimsOf(v, e)') =
              Cardinality(ClaimsOf(v, e)) + (IF v = u /\ e = d THEN 1 ELSE 0)
<1> DEFINE r == [user |-> u, gift |-> g, day |-> d]
<1>0. r \in [user : Users, gift : Gifts, day : Int] /\ r.user = u /\ r.gift = g /\ r.day = d
  OBVIOUS
<1>1. redemptions \subseteq [user : Users, gift : Gifts, day : Int] /\ IsFiniteSet(redemptions)
  BY DEF GiftsTyped
<1>2. r \notin redemptions /\ redemptions' = redemptions \cup {r}
  BY <1>0 DEF Redeemed
<1> HIDE DEF r
<1>3. IsFiniteSet(redemptions') /\ redemptions' \subseteq [user : Users, gift : Gifts, day : Int]
  BY <1>0, <1>1, <1>2, FS_AddElement
<1>4. \A v \in Users, h \in Gifts : Redeemed(v, h)' <=> (Redeemed(v, h) \/ (v = u /\ h = g))
  BY <1>0, <1>2 DEF Redeemed
<1>5. ASSUME NEW h \in Gifts
      PROVE  Cardinality(Redemptions(h)') = Cardinality(Redemptions(h)) + (IF h = g THEN 1 ELSE 0)
  <2>1. IsFiniteSet(Redemptions(h)) /\ r \notin Redemptions(h)
    BY <1>1, <1>2, FS_Subset DEF Redemptions
  <2>2. Cardinality(Redemptions(h)) \in Nat
    BY <2>1, FS_CardinalityType
  <2>3. CASE h = g
    <3>1. Redemptions(h)' = Redemptions(h) \cup {r}
      BY <1>0, <1>2, <2>3 DEF Redemptions
    <3> QED BY <2>1, <2>2, <2>3, <3>1, FS_AddElement
  <2>4. CASE h # g
    <3>1. Redemptions(h)' = Redemptions(h)
      BY <1>0, <1>2, <2>4 DEF Redemptions
    <3> QED BY <2>2, <2>4, <3>1
  <2> QED BY <2>3, <2>4
<1>6. ASSUME NEW v \in Users, NEW e \in Int
      PROVE  Cardinality(ClaimsOf(v, e)') =
               Cardinality(ClaimsOf(v, e)) + (IF v = u /\ e = d THEN 1 ELSE 0)
  <2>1. IsFiniteSet(ClaimsOf(v, e)) /\ r \notin ClaimsOf(v, e)
    BY <1>1, <1>2, FS_Subset DEF ClaimsOf
  <2>2. Cardinality(ClaimsOf(v, e)) \in Nat
    BY <2>1, FS_CardinalityType
  <2>3. CASE v = u /\ e = d
    <3>1. ClaimsOf(v, e)' = ClaimsOf(v, e) \cup {r}
      BY <1>0, <1>2, <2>3 DEF ClaimsOf
    <3> QED BY <2>1, <2>2, <2>3, <3>1, FS_AddElement
  <2>4. CASE ~(v = u /\ e = d)
    <3>1. ClaimsOf(v, e)' = ClaimsOf(v, e)
      BY <1>0, <1>2, <2>4 DEF ClaimsOf
    <3> QED BY <2>2, <2>4, <3>1
  <2> QED BY <2>3, <2>4
<1> QED BY <1>3, <1>4, <1>5, <1>6

LEMMA RedemptionKeeps ==
  ASSUME DeskInv, GiftsInv, scheme = "gifts", NEW c \in calls, RedeemCommit(c), ~Redeemed(c.user, c.gift)
  PROVE  GiftsInv'
<1> DEFINE total == c.totalRedeemed + 1
<1>1. /\ Finish(c)
      /\ credited' = [credited EXCEPT ![c.user][c.gift] = @ + 1]
      /\ gift' = [gift EXCEPT ![c.gift].totalRedeemed = total,
                              ![c.gift].exaushted = total >= TotalRedeemable]
      /\ redemptions' = redemptions \cup {[user |-> c.user, gift |-> c.gift, day |-> day]}
  BY DEF RedeemCommit
<1>2. GiftsTyped /\ c \in GiftCalls /\ c.pc = "gift credit" /\ calls' \subseteq calls /\ scheme' = scheme
  BY <1>1 DEF RedeemCommit, GiftsInv, GiftsTyped, Finish, End
<1>3. c.user \in Users /\ c.gift \in Gifts /\ total \in Int /\ day \in Int
  <2>1. day \in Int
    BY DEF DeskInv
  <2>2. c.user \in Users /\ c.gift \in Gifts /\ c.totalRedeemed \in Int
    BY <1>2 DEF GiftCalls
  <2> QED BY <2>1, <2>2
<1>4. /\ redemptions' \subseteq [user : Users, gift : Gifts, day : Int] /\ IsFiniteSet(redemptions')
      /\ \A v \in Users, h \in Gifts : Redeemed(v, h)' <=> (Redeemed(v, h) \/ (v = c.user /\ h = c.gift))
      /\ \A h \in Gifts : Cardinality(Redemptions(h)') =
           Cardinality(Redemptions(h)) + (IF h = c.gift THEN 1 ELSE 0)
      /\ \A v \in Users, e \in Int : Cardinality(ClaimsOf(v, e)') =
           Cardinality(ClaimsOf(v, e)) + (IF v = c.user /\ e = day THEN 1 ELSE 0)
  BY <1>1, <1>2, <1>3, OneRedemption
<1>5. \A g \in Gifts : gift[g] \in [isActive : BOOLEAN, totalRedeemed : Int, exaushted : BOOLEAN]
  BY <1>2 DEF GiftsTyped
<1>6. TotalRedeemable \in Nat /\ ClaimsPerDay \in Nat
  BY GiftAssumption DEF GiftAssumption
<1>7. GiftsTyped'
  <2>1. gift' \in [Gifts -> [isActive : BOOLEAN, totalRedeemed : Int, exaushted : BOOLEAN]]
    <3> DEFINE gone == total >= TotalRedeemable
    <3>1. gone \in BOOLEAN
      OBVIOUS
    <3>2. gift' = [gift EXCEPT ![c.gift] = [gift[c.gift] EXCEPT !.totalRedeemed = total, !.exaushted = gone]]
      BY <1>1, <1>2 DEF GiftsTyped
    <3> HIDE DEF total, gone
    <3>3. gift \in [Gifts -> [isActive : BOOLEAN, totalRedeemed : Int, exaushted : BOOLEAN]]
      BY <1>2 DEF GiftsTyped
    <3>4. [gift[c.gift] EXCEPT !.totalRedeemed = total, !.exaushted = gone]
            \in [isActive : BOOLEAN, totalRedeemed : Int, exaushted : BOOLEAN]
      BY <1>3, <1>5, <3>1
    <3> QED BY <1>3, <3>2, <3>3, <3>4
  <2>2. credited' \in [Users -> [Gifts -> Nat]]
    <3>1. credited \in [Users -> [Gifts -> Nat]]
      BY <1>2 DEF GiftsTyped
    <3>2. credited[c.user] \in [Gifts -> Nat] /\ credited[c.user][c.gift] \in Nat
      BY <1>3, <3>1
    <3> DEFINE n == credited[c.user][c.gift] + 1
    <3>3. credited' = [credited EXCEPT ![c.user] = [credited[c.user] EXCEPT ![c.gift] = n]]
      BY <1>1, <3>1
    <3>4. n \in Nat
      BY <3>2
    <3> HIDE DEF n
    <3>5. [credited[c.user] EXCEPT ![c.gift] = n] \in [Gifts -> Nat]
      BY <1>3, <3>2, <3>4
    <3> QED BY <1>3, <3>1, <3>3, <3>5
  <2>3. scheme' = "gifts" => calls' \subseteq GiftCalls
    BY <1>2 DEF GiftsTyped
  <2> QED BY <1>4, <2>1, <2>2, <2>3 DEF GiftsTyped
<1>8. CreditedOnce'
  <2>1. ASSUME NEW u \in Users, NEW g \in Gifts
        PROVE  credited'[u][g] = IF Redeemed(u, g)' THEN 1 ELSE 0
    <3>0. credited \in [Users -> [Gifts -> Nat]] /\ credited[u][g] = IF Redeemed(u, g) THEN 1 ELSE 0
      BY <1>2 DEF GiftsInv, GiftsTyped, CreditedOnce
    <3>1. CASE u = c.user /\ g = c.gift
      <4>1. credited'[u][g] = credited[u][g] + 1 /\ ~Redeemed(u, g) /\ Redeemed(u, g)'
        BY <1>1, <1>3, <1>4, <3>0, <3>1
      <4> QED BY <3>0, <4>1
    <3>2. CASE ~(u = c.user /\ g = c.gift)
      <4>1. credited'[u][g] = credited[u][g] /\ (Redeemed(u, g)' <=> Redeemed(u, g))
        BY <1>1, <1>3, <1>4, <3>0, <3>2
      <4> QED BY <3>0, <4>1
    <3> QED BY <3>1, <3>2
  <2> QED BY <2>1 DEF CreditedOnce
<1>9. GiftsAlone'
  <2> SUFFICES ASSUME ~overlapped' PROVE GiftsAlone!2'
    BY DEF GiftsAlone
  <2>1. ~overlapped /\ calls' = {}
    BY <1>1, Alone
  <2>2. GiftRead(c) /\ (\A g \in Gifts : GiftCounts(g))
        /\ (\A u \in Users, d \in Int : Cardinality(ClaimsOf(u, d)) <= ClaimsPerDay)
    BY <2>1 DEF GiftsInv, GiftsAlone
  <2>3. \A g \in Gifts : Cardinality(Redemptions(g)) \in Int
    <3>1. \A g \in Gifts : IsFiniteSet(Redemptions(g))
      BY <1>2, FS_Subset DEF Redemptions, GiftsTyped
    <3> QED BY <3>1, FS_CardinalityType
  <2>4. \A u \in Users, d \in Int : Cardinality(ClaimsOf(u, d)) \in Int
    <3>1. \A u \in Users, d \in Int : IsFiniteSet(ClaimsOf(u, d))
      BY <1>2, FS_Subset DEF ClaimsOf, GiftsTyped
    <3> QED BY <3>1, FS_CardinalityType
  <2>5. ASSUME NEW g \in Gifts PROVE GiftCounts(g)'
    <3>0. GiftCounts(g) /\ Cardinality(Redemptions(g)) \in Int
      BY <2>2, <2>3
    <3>1. CASE g = c.gift
      <4>1. gift'[g].totalRedeemed = total /\ (gift'[g].exaushted <=> total >= TotalRedeemable)
        BY <1>1, <1>2, <1>3, <3>1 DEF GiftsTyped
      <4>2. Cardinality(Redemptions(g)') = Cardinality(Redemptions(g)) + 1
        BY <1>4, <3>1
      <4>3. gift[g].totalRedeemed = c.totalRedeemed /\ ~gift[g].exaushted
        BY <2>2, <3>1 DEF GiftRead
      <4> QED BY <1>3, <1>6, <3>0, <4>1, <4>2, <4>3 DEF GiftCounts
    <3>2. CASE g # c.gift
      <4>1. gift'[g] = gift[g]
        BY <1>1, <1>2, <3>2 DEF GiftsTyped
      <4>2. Cardinality(Redemptions(g)') = Cardinality(Redemptions(g))
        BY <1>4, <3>0, <3>2
      <4> QED BY <3>0, <4>1, <4>2 DEF GiftCounts
    <3> QED BY <3>1, <3>2
  <2>6. ASSUME NEW u \in Users, NEW d \in Int PROVE (Cardinality(ClaimsOf(u, d)) <= ClaimsPerDay)'
    <3>0. Cardinality(ClaimsOf(u, d)) \in Int /\ Cardinality(ClaimsOf(u, d)) <= ClaimsPerDay
      BY <2>2, <2>4
    <3>1. CASE u = c.user /\ d = day
      <4>1. Cardinality(ClaimsOf(u, d)) < ClaimsPerDay
        BY <1>2, <2>2, <3>1 DEF GiftRead
      <4>2. Cardinality(ClaimsOf(u, d)') = Cardinality(ClaimsOf(u, d)) + 1
        BY <1>4, <3>1
      <4> QED BY <1>6, <3>0, <4>1, <4>2
    <3>2. CASE ~(u = c.user /\ d = day)
      <4>1. Cardinality(ClaimsOf(u, d)') = Cardinality(ClaimsOf(u, d))
        BY <1>4, <3>0, <3>2
      <4> QED BY <3>0, <4>1
    <3> QED BY <3>1, <3>2
  <2> QED BY <2>1, <2>5, <2>6
<1> QED BY <1>7, <1>8, <1>9 DEF GiftsInv

LEMMA GiftsStep ==
  ASSUME DeskInv, GiftsInv, GiftNext
  PROVE  GiftsInv'
<1>0. DeskStep /\ scheme = "gifts"
  BY GiftsDesk DEF GiftNext
<1>1. ASSUME NEW u \in Users, NEW g \in Gifts, RedeemRead(u, g) PROVE GiftsInv'
  <2>0. PICK c : c = [made |-> made, pc |-> "gift count", user |-> u, gift |-> g, day |-> day,
                      totalRedeemed |-> gift[g].totalRedeemed]
    OBVIOUS
  <2>1. /\ gift[g].isActive /\ ~gift[g].exaushted
        /\ calls' = calls \cup {c} /\ UNCHANGED <<scheme, day, overlapped>> /\ UNCHANGED giftVars
    BY <1>1, <2>0 DEF RedeemRead, Begin
  <2>2. c \in GiftCalls
    <3>1. gift[g].totalRedeemed \in Int
      BY DEF GiftsInv, GiftsTyped
    <3>2. made \in Nat /\ day \in Int
      BY DEF DeskInv
    <3> QED BY <2>0, <3>1, <3>2 DEF GiftCalls
  <2>3. GiftRead(c)'
    BY <2>0, <2>1 DEF GiftRead, giftVars
  <2>4. \A b \in calls' : b \in calls \/ (b \in GiftCalls /\ (~overlapped' => GiftRead(b)'))
    BY <2>1, <2>2, <2>3
  <2>5. day' = day /\ UNCHANGED giftVars
    BY <2>1
  <2> QED BY <1>0, <2>4, <2>5, GiftsElsewhere
<1>2. ASSUME NEW g \in Gifts, GiftActive(g) PROVE GiftsInv'
  <2>1. AtOnce /\ gift' = [gift EXCEPT ![g].isActive = ~@] /\ UNCHANGED <<redemptions, credited>>
    BY <1>2 DEF GiftActive
  <2>2. scheme' = scheme /\ calls' = calls /\ (~overlapped' => calls' = {} /\ ~overlapped)
    BY <2>1, AloneAtOnce DEF AtOnce
  <2>3. gift \in [Gifts -> [isActive : BOOLEAN, totalRedeemed : Int, exaushted : BOOLEAN]]
    BY DEF GiftsInv, GiftsTyped
  <2>4. \A h \in Gifts : gift[h] \in [isActive : BOOLEAN, totalRedeemed : Int, exaushted : BOOLEAN]
    BY <2>3
  <2>5. gift' \in [Gifts -> [isActive : BOOLEAN, totalRedeemed : Int, exaushted : BOOLEAN]]
    BY <2>1, <2>3, <2>4
  <2>6. \A h \in Gifts : gift'[h].totalRedeemed = gift[h].totalRedeemed /\ gift'[h].exaushted = gift[h].exaushted
    BY <2>1, <2>3, <2>4
  <2>7. GiftsTyped'
    BY <2>1, <2>2, <2>5 DEF GiftsInv, GiftsTyped
  <2>8. CreditedOnce'
    BY <2>1 DEF GiftsInv, CreditedOnce, Redeemed
  <2>9. GiftsAlone'
    <3> SUFFICES ASSUME ~overlapped' PROVE GiftsAlone!2'
      BY DEF GiftsAlone
    <3>1. \A h \in Gifts : GiftCounts(h)'
      <4>1. \A h \in Gifts : GiftCounts(h)
        BY <2>2 DEF GiftsInv, GiftsAlone
      <4> QED BY <2>1, <2>6, <4>1 DEF GiftCounts, Redemptions
    <3>2. \A u \in Users, d \in Int : (Cardinality(ClaimsOf(u, d)) <= ClaimsPerDay)'
      BY <2>1, <2>2 DEF GiftsInv, GiftsAlone, ClaimsOf
    <3> QED BY <2>2, <3>1, <3>2
  <2> QED BY <2>7, <2>8, <2>9 DEF GiftsInv
<1>3. ASSUME NEW c \in calls, GiftStep(c) PROVE GiftsInv'
  <2>0. c \in GiftCalls
    BY <1>0 DEF GiftsInv, GiftsTyped
  <2>1. ASSUME Drop(c), UNCHANGED giftVars PROVE GiftsInv'
    <3>1. calls' \subseteq calls /\ day' = day
      BY <2>1 DEF Drop, End
    <3> QED BY <1>0, <2>1, <3>1, GiftsElsewhere
  <2>2. CASE RedeemCount(c)
    <3>1. CASE Cardinality(ClaimsOf(c.user, c.day)) >= ClaimsPerDay
      BY <2>1, <2>2, <3>1 DEF RedeemCount
    <3>2. CASE ~(Cardinality(ClaimsOf(c.user, c.day)) >= ClaimsPerDay)
      <4> DEFINE e == [c EXCEPT !.pc = "gift credit"]
      <4>1. /\ calls' = (calls \ {c}) \cup {e} /\ UNCHANGED <<scheme, day, made, overlapped>>
            /\ UNCHANGED giftVars
        BY <2>2, <3>2 DEF RedeemCount, Move
      <4>2. /\ e \in GiftCalls /\ e.user = c.user /\ e.day = c.day /\ e.gift = c.gift
            /\ e.totalRedeemed = c.totalRedeemed
        BY <2>0 DEF GiftCalls
      <4> HIDE DEF e
      <4>3. Cardinality(ClaimsOf(c.user, c.day)) < ClaimsPerDay
        <5>1. IsFiniteSet(ClaimsOf(c.user, c.day))
          BY FS_Subset DEF ClaimsOf, GiftsInv, GiftsTyped
        <5>2. Cardinality(ClaimsOf(c.user, c.day)) \in Int /\ ClaimsPerDay \in Int
          BY <5>1, FS_CardinalityType, GiftAssumption DEF GiftAssumption
        <5> QED BY <3>2, <5>2
      <4>4. ~overlapped' => GiftRead(e)'
        <5>1. ~overlapped' => GiftRead(c)
          BY <1>0, <4>1 DEF GiftsInv, GiftsAlone
        <5> QED BY <4>1, <4>2, <4>3, <5>1 DEF GiftRead, giftVars, ClaimsOf
      <4>5. \A b \in calls' : b \in calls \/ (b \in GiftCalls /\ (~overlapped' => GiftRead(b)'))
        BY <4>1, <4>2, <4>4
      <4> QED BY <1>0, <4>1, <4>5, GiftsElsewhere
    <3> QED BY <3>1, <3>2
  <2>3. CASE RedeemCommit(c)
    <3>1. CASE Redeemed(c.user, c.gift)
      BY <2>1, <2>3, <3>1 DEF RedeemCommit
    <3>2. CASE ~Redeemed(c.user, c.gift)
      BY <1>0, <2>3, <3>2, RedemptionKeeps
    <3> QED BY <3>1, <3>2
  <2> QED BY <1>3, <2>2, <2>3 DEF GiftStep
<1>4. ASSUME NewDay, UNCHANGED giftVars PROVE GiftsInv'
  <2>1. calls' = calls /\ scheme' = scheme
    BY <1>4 DEF NewDay
  <2>2. GiftsTyped'
    BY <1>4, <2>1 DEF GiftsInv, GiftsTyped, giftVars
  <2>3. CreditedOnce'
    BY <1>4 DEF GiftsInv, CreditedOnce, Redeemed, giftVars
  <2>4. GiftsAlone'
    <3> SUFFICES ASSUME ~overlapped' PROVE GiftsAlone!2'
      BY DEF GiftsAlone
    <3>1. ~overlapped /\ calls' = {}
      BY <1>4, AloneAtOnce
    <3> QED BY <1>4, <3>1 DEF GiftsInv, GiftsAlone, GiftCounts, Redemptions, ClaimsOf, giftVars
  <2> QED BY <2>2, <2>3, <2>4 DEF GiftsInv
<1> QED BY <1>1, <1>2, <1>3, <1>4 DEF GiftNext

LEMMA GiftsKept == DeskInv /\ GiftsInv /\ [Next]_vars => GiftsInv'
<1> SUFFICES ASSUME DeskInv, GiftsInv, [Next]_vars PROVE GiftsInv'
  OBVIOUS
<1>1. DeskStep
  BY DeskMoves
<1>2. CASE GiftNext
  BY <1>2, GiftsStep
<1>3. ASSUME UNCHANGED giftVars, scheme # "gifts" PROVE GiftsInv'
  BY <1>1, <1>3, GiftsElsewhere
<1>4. ASSUME UNCHANGED vars PROVE GiftsInv'
  <2>1. UNCHANGED giftVars /\ day' = day /\ calls' = calls
    BY <1>4 DEF vars, deskVars, giftVars
  <2> QED BY <1>1, <2>1, GiftsElsewhere
<1>5. SpinNext => scheme # "gifts"
  BY DEF SpinNext
<1>6. TierNext => scheme # "gifts"
  BY DEF TierNext, Types
<1>7. StreakNext \/ VipNext \/ SelfRebateNext \/ SalaryNext \/ AutoSalaryNext \/ TeamNext => scheme # "gifts"
  BY DEF TeamNext, SalaryNext, AutoSalaryNext, StreakNext, VipNext, SelfRebateNext
<1> QED BY <1>2, <1>3, <1>4, <1>5, <1>6, <1>7, Zenon DEF Next

\* A user is credited once for a gift; without overlap a gift counts its redemptions,
\* none beyond what it has, and nobody passes the claims of a day.
THEOREM GiftsRedeemedWithinLimits == Spec => []GiftsWithinLimits
<1>1. Init => GiftsInv
  BY GiftsStart
<1>2. DeskInv /\ GiftsInv /\ [Next]_vars => GiftsInv'
  BY GiftsKept
<1>3. DeskInv /\ GiftsInv => GiftsWithinLimits
  <2> SUFFICES ASSUME DeskInv, GiftsInv PROVE GiftsWithinLimits
    OBVIOUS
  <2>1. \A u \in Users, g \in Gifts : credited[u][g] <= 1
    BY DEF GiftsInv, CreditedOnce
  <2>2. \A d \in 0 .. MaxDay : d \in Int
    BY DeskAssumption DEF DeskAssumption
  <2> QED BY <2>1, <2>2 DEF GiftsInv, GiftsAlone, GiftCounts, GiftsWithinLimits
<1> QED BY <1>1, <1>2, <1>3, DeskHolds, PTL DEF Spec

--------------------------------------------------------------------------------
(* The largest of a set                                                     *)

LEMMA MaxIsLargest ==
  ASSUME NEW S, IsFiniteSet(S), S \subseteq Int, S # {}
  PROVE  Max(S) \in S /\ \A x \in S : x <= Max(S)
<1>1. PICK v : v = [x \in S |-> x]
  OBVIOUS
<1>2. \A x \in S : v[x] \in Int /\ v[x] = x
  BY <1>1
<1>3. \E m \in S : \A x \in S : v[x] <= v[m]
  BY ONLY IsFiniteSet(S), S # {}, <1>2, LargestValue
<1>4. \E m \in S : \A x \in S : m >= x
  <2>1. PICK m \in S : \A x \in S : v[x] <= v[m]
    BY <1>3
  <2>2. \A x \in S : m >= x
    BY <1>2, <2>1
  <2> QED BY <2>2
<1>5. Max(S) \in S /\ \A x \in S : Max(S) >= x
  BY <1>4, Zenon DEF Max
<1> QED BY <1>5

--------------------------------------------------------------------------------
(* The rebate on own bets                                                   *)

RebateRow == [date : Int, claimed : BOOLEAN, expired : BOOLEAN]
RebateCalls == [made : Nat, pc : {"rebate credit"}, ids : SUBSET Int]

RebatesTyped ==
  /\ selfRebates \in Seq(RebateRow) /\ rebatePaid \in Seq(Int)
  /\ Len(rebatePaid) = Len(selfRebates)
  /\ scheme = "self-rebate" => calls \subseteq RebateCalls

\* While nothing overlaps, the rows of a claim in flight are still unclaimed.
StillUnclaimed(c) == \A i \in c.ids : i \in DOMAIN selfRebates => ~selfRebates[i].claimed

RebatesAlone ==
  ~overlapped =>
    /\ \A i \in DOMAIN selfRebates : rebatePaid[i] = (IF selfRebates[i].claimed THEN 1 ELSE 0)
    /\ scheme = "self-rebate" => \A c \in calls : StillUnclaimed(c)

RebatesInv == RebatesTyped /\ RebatesAlone

LEMMA RebatesStart == Init => RebatesInv
<1> SUFFICES ASSUME Init PROVE RebatesInv
  OBVIOUS
<1>1. selfRebates = <<>> /\ rebatePaid = <<>> /\ calls = {}
  BY DEF Init, DeskInit, SelfRebateInit
<1>2. <<>> \in Seq(RebateRow) /\ <<>> \in Seq(Int) /\ DOMAIN <<>> = {}
  BY EmptySeq
<1> QED BY <1>1, <1>2 DEF RebatesInv, RebatesTyped, RebatesAlone

LEMMA RebatesElsewhere ==
  ASSUME RebatesInv, DeskStep, UNCHANGED rebateVars,
         scheme = "self-rebate" =>
           \A c \in calls' : c \in calls \/ (c \in RebateCalls /\ StillUnclaimed(c))
  PROVE  RebatesInv'
<1>1. RebatesTyped'
  BY DEF RebatesInv, RebatesTyped, DeskStep, rebateVars
<1>2. RebatesAlone'
  <2> SUFFICES ASSUME ~overlapped' PROVE RebatesAlone!2'
    BY DEF RebatesAlone
  <2>1. ~overlapped /\ scheme' = scheme /\ selfRebates' = selfRebates /\ rebatePaid' = rebatePaid
    BY DEF DeskStep, rebateVars
  <2> QED BY <2>1 DEF RebatesInv, RebatesAlone, StillUnclaimed
<1> QED BY <1>1, <1>2 DEF RebatesInv

LEMMA RebatesStep ==
  ASSUME DeskInv, RebatesInv, SelfRebateNext
  PROVE  RebatesInv'
<1>0. DeskStep /\ scheme = "self-rebate" /\ scheme' = scheme
  BY SelfRebateDesk DEF SelfRebateNext, DeskStep
<1>1. /\ selfRebates \in Seq(RebateRow) /\ rebatePaid \in Seq(Int) /\ Len(rebatePaid) = Len(selfRebates)
      /\ Len(selfRebates) \in Nat /\ DOMAIN selfRebates = 1 .. Len(selfRebates)
      /\ DOMAIN rebatePaid = DOMAIN selfRebates
      /\ \A i \in DOMAIN selfRebates : selfRebates[i] \in RebateRow /\ rebatePaid[i] \in Int
  <2>1. selfRebates \in Seq(RebateRow) /\ rebatePaid \in Seq(Int) /\ Len(rebatePaid) = Len(selfRebates)
    BY DEF RebatesInv, RebatesTyped
  <2>2. /\ Len(selfRebates) \in Nat /\ selfRebates \in [1 .. Len(selfRebates) -> RebateRow]
        /\ rebatePaid \in [1 .. Len(rebatePaid) -> Int]
    BY <2>1, LenProperties
  <2> QED BY <2>1, <2>2
<1>2. CASE Accrue
  <2> DEFINE row == [date |-> day, claimed |-> FALSE, expired |-> FALSE]
  <2>1. /\ selfRebates' = Append(selfRebates, row) /\ rebatePaid' = Append(rebatePaid, 0)
        /\ calls' = calls /\ (~overlapped' => ~overlapped /\ calls' = {})
    BY <1>2, AloneAtOnce DEF Accrue, AtOnce
  <2>2. row \in RebateRow /\ ~row.claimed
    BY DEF RebateRow, DeskInv
  <2> HIDE DEF row
  <2>3. /\ selfRebates' \in Seq(RebateRow) /\ Len(selfRebates') = Len(selfRebates) + 1
        /\ DOMAIN selfRebates' = 1 .. Len(selfRebates) + 1
        /\ \A i \in 1 .. Len(selfRebates) : selfRebates'[i] = selfRebates[i]
        /\ selfRebates'[Len(selfRebates) + 1] = row
    BY <1>1, <2>1, <2>2, Appended
  <2>4. /\ rebatePaid' \in Seq(Int) /\ Len(rebatePaid') = Len(selfRebates) + 1
        /\ \A i \in 1 .. Len(selfRebates) : rebatePaid'[i] = rebatePaid[i]
        /\ rebatePaid'[Len(selfRebates) + 1] = 0
    BY <1>1, <2>1, Appended
  <2>5. RebatesTyped'
    BY <1>0, <2>1, <2>3, <2>4 DEF RebatesInv, RebatesTyped
  <2>6. RebatesAlone'
    <3> SUFFICES ASSUME ~overlapped' PROVE RebatesAlone!2'
      BY DEF RebatesAlone
    <3>1. \A i \in DOMAIN selfRebates : rebatePaid[i] = (IF selfRebates[i].claimed THEN 1 ELSE 0)
      BY <2>1 DEF RebatesInv, RebatesAlone
    <3>2. ASSUME NEW i \in DOMAIN selfRebates'
          PROVE  rebatePaid'[i] = (IF selfRebates'[i].claimed THEN 1 ELSE 0)
      <4>1. CASE i = Len(selfRebates) + 1
        BY <2>2, <2>3, <2>4, <4>1
      <4>2. CASE i # Len(selfRebates) + 1
        <5>1. i \in 1 .. Len(selfRebates)
          BY <1>1, <2>3, <4>2
        <5> QED BY <1>1, <2>3, <2>4, <3>1, <5>1
      <4> QED BY <4>1, <4>2
    <3> QED BY <2>1, <3>2
  <2> QED BY <2>5, <2>6 DEF RebatesInv
<1>3. CASE RebateRead
  <2>0. PICK c : c = [made |-> made, pc |-> "rebate credit", ids |-> Unclaimed]
    OBVIOUS
  <2>1. calls' = calls \cup {c} /\ UNCHANGED rebateVars
    BY <1>3, <2>0 DEF RebateRead, Begin
  <2>2. c \in RebateCalls /\ StillUnclaimed(c)
    <3>1. Unclaimed \subseteq Int /\ \A i \in Unclaimed : ~selfRebates[i].claimed
      BY <1>1 DEF Unclaimed
    <3>2. made \in Nat
      BY DEF DeskInv
    <3> QED BY <2>0, <3>1, <3>2 DEF RebateCalls, StillUnclaimed
  <2>3. \A b \in calls' : b \in calls \/ (b \in RebateCalls /\ StillUnclaimed(b))
    BY <2>1, <2>2
  <2> QED BY <1>0, <2>1, <2>3, RebatesElsewhere
<1>4. CASE ExpireUnclaimed
  <2> DEFINE row(i) == [selfRebates[i] EXCEPT !.expired = TRUE]
  <2>1. PICK old : /\ AtOnce
                   /\ selfRebates' = [i \in DOMAIN selfRebates |-> IF i \in old THEN row(i) ELSE selfRebates[i]]
                   /\ rebatePaid' = rebatePaid
    BY <1>4 DEF ExpireUnclaimed
  <2>2. calls' = calls /\ (~overlapped' => ~overlapped /\ calls' = {})
    BY <2>1, AloneAtOnce DEF AtOnce
  <2>3. \A i \in DOMAIN selfRebates : row(i) \in RebateRow /\ row(i).claimed = selfRebates[i].claimed
    BY <1>1 DEF RebateRow
  <2> HIDE DEF row
  <2>4. \A i \in DOMAIN selfRebates :
          selfRebates'[i] \in RebateRow /\ selfRebates'[i].claimed = selfRebates[i].claimed
    BY <1>1, <2>1, <2>3
  <2>5. selfRebates' = [i \in DOMAIN selfRebates |-> selfRebates'[i]]
    BY <2>1
  <2>6. selfRebates' \in Seq(RebateRow) /\ Len(selfRebates') = Len(selfRebates)
        /\ DOMAIN selfRebates' = DOMAIN selfRebates
    BY <1>1, <2>4, <2>5, RowByRow
  <2>7. RebatesTyped'
    BY <1>0, <1>1, <2>1, <2>2, <2>6 DEF RebatesInv, RebatesTyped
  <2>8. RebatesAlone'
    <3> SUFFICES ASSUME ~overlapped' PROVE RebatesAlone!2'
      BY DEF RebatesAlone
    <3>1. \A i \in DOMAIN selfRebates : rebatePaid[i] = (IF selfRebates[i].claimed THEN 1 ELSE 0)
      BY <2>2 DEF RebatesInv, RebatesAlone
    <3> QED BY <2>1, <2>2, <2>4, <2>6, <3>1
  <2> QED BY <2>7, <2>8 DEF RebatesInv
<1>5. ASSUME NEW c \in calls, RebateCredit(c) PROVE RebatesInv'
  <2>1. /\ selfRebates' = [i \in DOMAIN selfRebates |->
                             IF i \in c.ids THEN ClaimedRow(selfRebates[i]) ELSE selfRebates[i]]
        /\ rebatePaid' = [i \in DOMAIN rebatePaid |-> rebatePaid[i] + (IF i \in c.ids THEN 1 ELSE 0)]
        /\ calls' \subseteq calls /\ (~overlapped' => ~overlapped /\ calls' = {})
    BY <1>5, Alone DEF RebateCredit, Finish, End
  <2>2. \A i \in DOMAIN selfRebates :
          ClaimedRow(selfRebates[i]) \in RebateRow /\ ClaimedRow(selfRebates[i]).claimed = TRUE
    BY <1>1 DEF RebateRow, ClaimedRow
  <2>3. /\ \A i \in DOMAIN selfRebates : selfRebates'[i] \in RebateRow
        /\ \A i \in DOMAIN selfRebates : i \in c.ids => selfRebates'[i].claimed = TRUE
        /\ \A i \in DOMAIN selfRebates : i \notin c.ids => selfRebates'[i] = selfRebates[i]
    BY <1>1, <2>1, <2>2
  <2>4. selfRebates' = [i \in DOMAIN selfRebates |-> selfRebates'[i]]
        /\ rebatePaid' = [i \in DOMAIN rebatePaid |-> rebatePaid'[i]]
    BY <2>1
  <2>5. \A i \in DOMAIN selfRebates :
          rebatePaid'[i] = rebatePaid[i] + (IF i \in c.ids THEN 1 ELSE 0) /\ rebatePaid'[i] \in Int
    BY <1>1, <2>1
  <2>6. selfRebates' \in Seq(RebateRow) /\ Len(selfRebates') = Len(selfRebates)
        /\ DOMAIN selfRebates' = DOMAIN selfRebates
    BY <1>1, <2>3, <2>4, RowByRow
  <2>7. rebatePaid' \in Seq(Int) /\ Len(rebatePaid') = Len(rebatePaid)
    <3>1. rebatePaid \in Seq(Int) /\ \A i \in DOMAIN rebatePaid : rebatePaid'[i] \in Int
      BY <1>1, <2>5
    <3>2. rebatePaid' = [i \in DOMAIN rebatePaid |-> rebatePaid'[i]]
      BY <2>4
    <3> QED BY ONLY <3>1, <3>2, RowByRow
  <2>8. RebatesTyped'
    BY <1>0, <1>1, <2>1, <2>6, <2>7 DEF RebatesInv, RebatesTyped
  <2>9. RebatesAlone'
    <3> SUFFICES ASSUME ~overlapped' PROVE RebatesAlone!2'
      BY DEF RebatesAlone
    <3>1. /\ \A i \in DOMAIN selfRebates : rebatePaid[i] = (IF selfRebates[i].claimed THEN 1 ELSE 0)
          /\ StillUnclaimed(c)
      BY <1>0, <2>1 DEF RebatesInv, RebatesAlone
    <3>2. ASSUME NEW i \in DOMAIN selfRebates
          PROVE  rebatePaid'[i] = (IF selfRebates'[i].claimed THEN 1 ELSE 0)
      <4>1. CASE i \in c.ids
        <5>1. rebatePaid[i] = 0 /\ selfRebates'[i].claimed = TRUE
          BY <2>3, <3>1, <4>1 DEF StillUnclaimed
        <5>2. rebatePaid'[i] = 1
          BY <2>5, <4>1, <5>1
        <5> QED BY <5>1, <5>2
      <4>2. CASE i \notin c.ids
        BY <1>1, <2>3, <2>5, <3>1, <4>2
      <4> QED BY <4>1, <4>2
    <3> QED BY <2>1, <2>6, <3>2
  <2> QED BY <2>8, <2>9 DEF RebatesInv
<1>6. ASSUME NewDay, UNCHANGED rebateVars PROVE RebatesInv'
  <2>1. calls' = calls
    BY <1>6 DEF NewDay
  <2> QED BY <1>0, <1>6, <2>1, RebatesElsewhere
<1> QED BY <1>2, <1>3, <1>4, <1>5, <1>6 DEF SelfRebateNext

LEMMA RebatesKept == DeskInv /\ RebatesInv /\ [Next]_vars => RebatesInv'
<1> SUFFICES ASSUME DeskInv, RebatesInv, [Next]_vars PROVE RebatesInv'
  OBVIOUS
<1>1. DeskStep
  BY DeskMoves
<1>2. CASE SelfRebateNext
  BY <1>2, RebatesStep
<1>3. ASSUME UNCHANGED rebateVars, scheme # "self-rebate" PROVE RebatesInv'
  BY <1>1, <1>3, RebatesElsewhere
<1>4. ASSUME UNCHANGED vars PROVE RebatesInv'
  <2>1. UNCHANGED rebateVars /\ calls' = calls
    BY <1>4 DEF vars, deskVars, rebateVars
  <2> QED BY <1>1, <2>1, RebatesElsewhere
<1>5. GiftNext \/ SpinNext \/ StreakNext \/ VipNext \/ SalaryNext \/ AutoSalaryNext \/ TeamNext => scheme # "self-rebate"
  BY DEF TeamNext, SalaryNext, AutoSalaryNext, GiftNext, SpinNext, StreakNext, VipNext
<1>6. TierNext => scheme # "self-rebate"
  BY DEF TierNext, Types
<1> QED BY <1>2, <1>3, <1>4, <1>5, <1>6, Zenon DEF Next

LEMMA RebatesHold == Spec => []RebatesInv
<1>1. Init => RebatesInv
  BY RebatesStart
<1>2. DeskInv /\ RebatesInv /\ [Next]_vars => RebatesInv'
  BY RebatesKept
<1> QED BY <1>1, <1>2, DeskHolds, PTL DEF Spec

--------------------------------------------------------------------------------
(* The win streak                                                           *)

StreakCalls == [made : Nat, pc : {"streak pay", "streak reset"}, from : Int, to : Int]

StreakTyped ==
  /\ streak \in [currentStreak : Int, streakWinAmount : Int]
  /\ wins \in Seq(Int) /\ bonused \in Seq(Int) /\ Len(bonused) = Len(wins)
  /\ unreset \in Nat
  /\ scheme = "streak" => calls \subseteq StreakCalls

\* A loss that will pay has read the streak as it is ...
StreakRead(c) == c.pc = "streak pay" => c.from = Len(wins) - streak.currentStreak + 1

\* ... and the wins of the streak are unpaid, but between a bonus and its reset and
\* for the resets that failed.
Unpaid ==
  \A w \in DOMAIN bonused : w > Len(wins) - streak.currentStreak => bonused[w] <= unreset
CountedOnce == \A w \in DOMAIN bonused : bonused[w] <= 1 + unreset

StreakAlone ==
  ~overlapped =>
    /\ CountedOnce
    /\ scheme = "streak" => /\ \A c \in calls : StreakRead(c)
                            /\ Unpaid \/ \E c \in calls : c.pc = "streak reset"

StreakInv == StreakTyped /\ StreakAlone

LEMMA StreakStart == Init => StreakInv
<1> SUFFICES ASSUME Init PROVE StreakInv
  OBVIOUS
<1>1. /\ wins = <<>> /\ bonused = <<>> /\ calls = {} /\ unreset = 0
      /\ streak = [currentStreak |-> 0, streakWinAmount |-> 0]
  BY DEF Init, DeskInit, StreakInit
<1>2. <<>> \in Seq(Int) /\ DOMAIN <<>> = {}
  BY EmptySeq
<1> QED BY <1>1, <1>2 DEF StreakInv, StreakTyped, StreakAlone, Unpaid, CountedOnce

LEMMA StreakElsewhere ==
  ASSUME StreakInv, DeskStep, UNCHANGED streakVars,
         scheme = "streak" =>
           calls \subseteq calls' /\ \A c \in calls' : c \in calls \/ (c \in StreakCalls /\ StreakRead(c))
  PROVE  StreakInv'
<1>1. StreakTyped'
  BY DEF StreakInv, StreakTyped, DeskStep, streakVars
<1>2. StreakAlone'
  <2> SUFFICES ASSUME ~overlapped' PROVE StreakAlone!2'
    BY DEF StreakAlone
  <2>1. ~overlapped /\ scheme' = scheme /\ wins' = wins /\ bonused' = bonused /\ streak' = streak
      /\ unreset' = unreset
    BY DEF DeskStep, streakVars
  <2> QED BY <2>1 DEF StreakInv, StreakAlone, StreakRead, Unpaid, CountedOnce
<1> QED BY <1>1, <1>2 DEF StreakInv

LEMMA StreakKeeps ==
  ASSUME DeskInv, StreakInv, StreakNext
  PROVE  StreakInv'
<1>0. DeskStep /\ scheme = "streak" /\ scheme' = scheme
  BY StreakDesk DEF StreakNext, DeskStep
<1>1. /\ streak.currentStreak \in Int /\ streak.streakWinAmount \in Int
      /\ wins \in Seq(Int) /\ bonused \in Seq(Int) /\ Len(bonused) = Len(wins)
      /\ Len(wins) \in Nat /\ DOMAIN bonused = 1 .. Len(wins)
      /\ \A w \in DOMAIN bonused : bonused[w] \in Int
      /\ unreset \in Nat
  <2>1. /\ streak \in [currentStreak : Int, streakWinAmount : Int] /\ unreset \in Nat
        /\ wins \in Seq(Int) /\ bonused \in Seq(Int) /\ Len(bonused) = Len(wins)
    BY DEF StreakInv, StreakTyped
  <2>2. Len(wins) \in Nat /\ bonused \in [1 .. Len(bonused) -> Int]
    BY <2>1, LenProperties
  <2> QED BY <2>1, <2>2
<1>2. ASSUME NEW a \in Winnings, Win(a) PROVE StreakInv'
  <2>1. /\ streak' = [currentStreak |-> streak.currentStreak + 1, streakWinAmount |-> streak.streakWinAmount + a]
        /\ wins' = Append(wins, a) /\ bonused' = Append(bonused, 0)
        /\ calls' = calls /\ (~overlapped' => ~overlapped /\ calls = {})
        /\ unreset' = unreset
    BY <1>2, AloneAtOnce DEF Win, AtOnce
  <2>2. a \in Int
    BY BonusAssumption DEF BonusAssumption
  <2>3. wins' \in Seq(Int) /\ Len(wins') = Len(wins) + 1
    BY <1>1, <2>1, <2>2, Appended
  <2>4. /\ bonused' \in Seq(Int) /\ Len(bonused') = Len(wins) + 1 /\ DOMAIN bonused' = 1 .. Len(wins) + 1
        /\ \A w \in 1 .. Len(wins) : bonused'[w] = bonused[w]
        /\ bonused'[Len(wins) + 1] = 0
    BY <1>1, <2>1, Appended
  <2>5. StreakTyped'
    BY <1>0, <1>1, <2>1, <2>2, <2>3, <2>4 DEF StreakInv, StreakTyped
  <2>6. StreakAlone'
    <3> SUFFICES ASSUME ~overlapped' PROVE StreakAlone!2'
      BY DEF StreakAlone
    <3>1. calls = {} /\ Unpaid /\ CountedOnce
      BY <1>0, <2>1 DEF StreakInv, StreakAlone
    <3>2. \A w \in DOMAIN bonused' : w \in DOMAIN bonused \/ w = Len(wins) + 1
      BY <1>1, <2>4
    <3>3. CountedOnce'
      BY <1>1, <2>1, <2>4, <3>1, <3>2 DEF CountedOnce
    <3>4. streak'.currentStreak = streak.currentStreak + 1
      BY <2>1
    <3>5. ASSUME NEW w \in DOMAIN bonused', w > Len(wins') - streak'.currentStreak
          PROVE  bonused'[w] <= unreset'
      <4>1. w \in DOMAIN bonused => w > Len(wins) - streak.currentStreak
        BY <1>1, <2>3, <3>4, <3>5
      <4> QED BY <1>1, <2>1, <2>4, <3>1, <3>2, <4>1 DEF Unpaid
    <3>6. Unpaid'
      BY <3>5 DEF Unpaid
    <3> QED BY <2>1, <3>1, <3>3, <3>6
  <2> QED BY <2>5, <2>6 DEF StreakInv
<1>3. CASE LossRead
  <2>0. PICK c : c = [made |-> made,
                      pc |-> IF streak.currentStreak >= StreakFrom THEN "streak pay" ELSE "streak reset",
                      from |-> Len(wins) - streak.currentStreak + 1, to |-> Len(wins)]
    OBVIOUS
  <2>1. calls' = calls \cup {c} /\ UNCHANGED streakVars
    BY <1>3, <2>0 DEF LossRead, Begin
  <2>2. c \in StreakCalls /\ StreakRead(c)
    <3>1. made \in Nat /\ Len(wins) - streak.currentStreak + 1 \in Int /\ Len(wins) \in Int
      BY <1>1 DEF DeskInv
    <3> QED BY <2>0, <3>1 DEF StreakCalls, StreakRead
  <2> QED BY <1>0, <2>1, <2>2, StreakElsewhere
<1>4. ASSUME NEW c \in calls, StreakPay(c) PROVE StreakInv'
  <2>1. /\ c.pc = "streak pay" /\ MoveOn(c, "streak reset")
        /\ bonused' = [w \in DOMAIN bonused |-> bonused[w] + (IF w \in c.from .. c.to THEN 1 ELSE 0)]
        /\ streak' = streak /\ wins' = wins /\ unreset' = unreset
    BY <1>4 DEF StreakPay
  <2>2. c \in StreakCalls
    BY <1>0 DEF StreakInv, StreakTyped
  <2>3. PICK d : d = [c EXCEPT !.pc = "streak reset"]
    OBVIOUS
  <2>4. d \in StreakCalls /\ d.pc = "streak reset"
    BY <2>2, <2>3 DEF StreakCalls
  <2>5. calls' = (calls \ {c}) \cup {d} /\ (~overlapped' => ~overlapped /\ calls = {c} /\ calls' = {d})
    BY <2>1, <2>3, Alone DEF MoveOn, Move
  <2>6. c.from \in Int /\ c.to \in Int
    BY <2>2 DEF StreakCalls
  <2>7. \A w \in DOMAIN bonused :
          /\ bonused'[w] = bonused[w] + (IF w \in c.from .. c.to THEN 1 ELSE 0)
          /\ bonused'[w] \in Int
    <3>1. ASSUME NEW w \in DOMAIN bonused
          PROVE  bonused'[w] = bonused[w] + (IF w \in c.from .. c.to THEN 1 ELSE 0)
      BY <2>1
    <3>2. \A w \in DOMAIN bonused : (IF w \in c.from .. c.to THEN 1 ELSE 0) \in Int
      OBVIOUS
    <3> QED BY <1>1, <3>1, <3>2
  <2>8. bonused' = [w \in DOMAIN bonused |-> bonused'[w]]
    BY <2>1
  <2>9. bonused' \in Seq(Int) /\ Len(bonused') = Len(bonused) /\ DOMAIN bonused' = DOMAIN bonused
    <3>1. bonused \in Seq(Int) /\ \A w \in DOMAIN bonused : bonused'[w] \in Int
      BY <1>1, <2>7
    <3> QED BY <2>8, <3>1, RowByRow, Zenon
  <2>10. StreakTyped'
    <3>1. calls' \subseteq StreakCalls
      BY <1>0, <2>4, <2>5 DEF StreakInv, StreakTyped
    <3> QED BY <1>1, <2>1, <2>9, <3>1 DEF StreakInv, StreakTyped
  <2>11. StreakAlone'
    <3> SUFFICES ASSUME ~overlapped' PROVE StreakAlone!2'
      BY DEF StreakAlone
    <3>1. ~overlapped /\ calls = {c} /\ calls' = {d}
      BY <2>5
    <3>2. Unpaid /\ StreakRead(c) /\ CountedOnce
      BY <1>0, <2>1, <3>1 DEF StreakInv, StreakAlone
    <3>3. ASSUME NEW w \in DOMAIN bonused PROVE bonused'[w] <= 1 + unreset
      <4>1. CASE w \in c.from .. c.to
        <5>0. c.from = Len(wins) - streak.currentStreak + 1 /\ w \in Int /\ w >= c.from
          <6>1. c.from = Len(wins) - streak.currentStreak + 1
            BY <2>1, <3>2 DEF StreakRead
          <6>2. w \in Int /\ w >= c.from
            BY <2>6, <4>1
          <6> QED BY <6>1, <6>2
        <5>1. w > Len(wins) - streak.currentStreak
          BY <1>1, <5>0
        <5>2. bonused[w] <= unreset
          BY <3>2, <5>1 DEF Unpaid
        <5> QED BY <1>1, <2>7, <4>1, <5>2
      <4>2. CASE w \notin c.from .. c.to
        <5>1. bonused'[w] = bonused[w] /\ bonused[w] <= 1 + unreset
          BY <1>1, <2>7, <3>2, <4>2 DEF CountedOnce
        <5> QED BY <5>1
      <4> QED BY <4>1, <4>2
    <3>4. CountedOnce'
      BY <2>1, <2>9, <3>3 DEF CountedOnce
    <3> QED BY <2>4, <3>1, <3>4 DEF StreakRead
  <2> QED BY <2>10, <2>11 DEF StreakInv
<1>5. ASSUME NEW c \in calls, StreakReset(c) PROVE StreakInv'
  <2>1. /\ streak' = NoStreak /\ wins' = wins /\ bonused' = bonused /\ unreset' = unreset
        /\ calls' \subseteq calls /\ (~overlapped' => ~overlapped /\ calls' = {})
    BY <1>5, Alone DEF StreakReset, Finish, End
  <2>2. NoStreak \in [currentStreak : Int, streakWinAmount : Int] /\ NoStreak.currentStreak = 0
    BY DEF NoStreak
  <2>3. StreakTyped'
    BY <1>0, <1>1, <2>1, <2>2 DEF StreakInv, StreakTyped
  <2>4. StreakAlone'
    <3> SUFFICES ASSUME ~overlapped' PROVE StreakAlone!2'
      BY DEF StreakAlone
    <3>1. Unpaid'
      BY <1>1, <2>1, <2>2 DEF Unpaid
    <3>2. CountedOnce'
      BY <2>1 DEF StreakInv, StreakAlone, CountedOnce
    <3> QED BY <2>1, <3>1, <3>2
  <2> QED BY <2>3, <2>4 DEF StreakInv
<1>6. ASSUME NEW c \in calls, StreakFails(c) PROVE StreakInv'
  <2>1. /\ streak' = streak /\ wins' = wins /\ bonused' = bonused /\ calls' = calls \ {c}
        /\ overlapped' = overlapped
        /\ unreset' = unreset + (IF c.pc = "streak reset" THEN 1 ELSE 0)
    BY <1>6 DEF StreakFails, Drop, End
  <2>2. unreset \in Nat /\ unreset' \in Nat /\ (unreset' = unreset \/ unreset' = unreset + 1)
    <3>1. unreset \in Nat
      BY <1>1
    <3>2. unreset' = unreset \/ unreset' = unreset + 1
      <4>1. CASE c.pc = "streak reset"
        BY <2>1, <4>1
      <4>2. CASE c.pc # "streak reset"
        <5>1. unreset' = unreset + 0
          BY <2>1, <4>2
        <5> QED BY <3>1, <5>1
      <4> QED BY <4>1, <4>2
    <3> QED BY <3>1, <3>2
  <2>3. c.pc = "streak reset" => unreset' = unreset + 1
    BY <2>1
  <2>4. StreakTyped'
    BY <1>0, <2>2, <2>1 DEF StreakInv, StreakTyped
  <2>5. StreakAlone'
    <3> SUFFICES ASSUME ~overlapped' PROVE StreakAlone!2'
      BY DEF StreakAlone
    <3>1. /\ CountedOnce /\ (Unpaid \/ \E d \in calls : d.pc = "streak reset")
          /\ \A d \in calls : StreakRead(d)
      BY <1>0, <2>1 DEF StreakInv, StreakAlone
    <3>2. ASSUME NEW w \in DOMAIN bonused
          PROVE  /\ bonused[w] <= 1 + unreset'
                 /\ bonused[w] <= unreset => bonused[w] <= unreset'
                 /\ unreset' = unreset + 1 => bonused[w] <= unreset'
      <4>1. bonused[w] \in Int /\ bonused[w] <= 1 + unreset
        BY <1>1, <3>1 DEF CountedOnce
      <4> QED BY <2>2, <4>1
    <3>3. CountedOnce' /\ (Unpaid => Unpaid')
      BY <2>1, <3>2 DEF CountedOnce, Unpaid
    <3>4. c.pc = "streak reset" => Unpaid'
      BY <2>1, <2>3, <3>2 DEF Unpaid
    <3>5. \A d \in calls' : StreakRead(d)'
      BY <2>1, <3>1 DEF StreakRead
    <3> QED BY <2>1, <3>1, <3>3, <3>4, <3>5
  <2> QED BY <2>4, <2>5 DEF StreakInv
<1> QED BY <1>2, <1>3, <1>4, <1>5, <1>6 DEF StreakNext, StreakStep

LEMMA StreakKept == DeskInv /\ StreakInv /\ [Next]_vars => StreakInv'
<1> SUFFICES ASSUME DeskInv, StreakInv, [Next]_vars PROVE StreakInv'
  OBVIOUS
<1>1. DeskStep
  BY DeskMoves
<1>2. CASE StreakNext
  BY <1>2, StreakKeeps
<1>3. ASSUME UNCHANGED streakVars, scheme # "streak" PROVE StreakInv'
  BY <1>1, <1>3, StreakElsewhere
<1>4. ASSUME UNCHANGED vars PROVE StreakInv'
  <2>1. UNCHANGED streakVars /\ calls' = calls
    BY <1>4 DEF vars, deskVars, streakVars
  <2> QED BY <1>1, <2>1, StreakElsewhere
<1>5. GiftNext \/ SpinNext \/ SelfRebateNext \/ VipNext \/ SalaryNext \/ AutoSalaryNext \/ TeamNext => scheme # "streak"
  BY DEF TeamNext, SalaryNext, AutoSalaryNext, GiftNext, SpinNext, SelfRebateNext, VipNext
<1>6. TierNext => scheme # "streak"
  BY DEF TierNext, Types
<1> QED BY <1>2, <1>3, <1>4, <1>5, <1>6, Zenon DEF Next

LEMMA StreakHolds == Spec => []StreakInv
<1>1. Init => StreakInv
  BY StreakStart
<1>2. DeskInv /\ StreakInv /\ [Next]_vars => StreakInv'
  BY StreakKept
<1> QED BY <1>1, <1>2, DeskHolds, PTL DEF Spec

\* Without overlap a win counts towards one streak bonus at most, and one more for
\* every loss whose reset failed; a rebate row is credited exactly when it is marked,
\* and once.
THEOREM WinsAndRebatesCounted == Spec => []WinsAndRebatesCountOnce
<1>1. StreakInv /\ RebatesInv => WinsAndRebatesCountOnce
  <2> SUFFICES ASSUME StreakInv, RebatesInv, ~overlapped PROVE WinsAndRebatesCountOnce!2
    BY DEF WinsAndRebatesCountOnce
  <2>1. wins \in Seq(Int) /\ bonused \in Seq(Int) /\ Len(bonused) = Len(wins)
    BY DEF StreakInv, StreakTyped
  <2>2. DOMAIN wins = DOMAIN bonused
    BY <2>1, LenProperties
  <2> QED BY <2>2 DEF StreakInv, StreakAlone, CountedOnce, RebatesInv, RebatesAlone
<1> QED BY <1>1, StreakHolds, RebatesHold, PTL

--------------------------------------------------------------------------------
(* The VIP rewards                                                          *)

VipTypes == {"LEVEL_UP", "MONTHLY"}
VipClaim == [level : Int, type : VipTypes, month : Int]

VipCalls ==
  [made : Nat, pc : {"vip sync"}, level : Int, claim : {"none"}]
    \cup [made : Nat, pc : {"vip sync", "vip check"}, level : Int, claim : VipTypes, for : Int]
    \cup [made : Nat, pc : {"vip credit"}, level : Int, claim : VipTypes, for : Int, month : Int]

VipTyped ==
  /\ userVip \in [exists : BOOLEAN, currentLevel : Int, createdAt : Int]
  /\ vipClaims \in Seq(VipClaim)
  /\ topLevel \in Int
  /\ scheme = "vip" => calls \subseteq VipCalls

\* The unique key of the claims.
MonthlyKey ==
  \A i, j \in DOMAIN vipClaims :
    (/\ i # j
     /\ vipClaims[i].type = "MONTHLY" /\ vipClaims[j].type = "MONTHLY"
     /\ vipClaims[i].month = vipClaims[j].month)
    => vipClaims[i].level # vipClaims[j].level

\* A claim that a second one would repeat: same month, or same level.
Repeats(a, b) ==
  /\ a.type = b.type
  /\ a.type = "MONTHLY" => a.month = b.month
  /\ a.type = "LEVEL_UP" => a.level = b.level

\* A sync in flight has the level of now, a credit the month, and nothing to repeat.
VipRead(c) ==
  /\ c.pc = "vip sync" => c.level = Sticky
  /\ c.pc = "vip credit" => c.month = day /\ ~AlreadyClaimed(c.for, c.claim)

VipAlone ==
  ~overlapped =>
    /\ \A i, j \in DOMAIN vipClaims : i # j => ~Repeats(vipClaims[i], vipClaims[j])
    /\ userVip.currentLevel = topLevel
    /\ scheme = "vip" => \A c \in calls : VipRead(c)

VipInv == VipTyped /\ MonthlyKey /\ VipAlone

LEMMA VipStart == Init => VipInv
<1> SUFFICES ASSUME Init PROVE VipInv
  OBVIOUS
<1>1. /\ userVip = [exists |-> FALSE, currentLevel |-> 0, createdAt |-> 0]
      /\ vipClaims = <<>> /\ topLevel = 0 /\ calls = {}
  BY DEF Init, DeskInit, VipInit
<1>2. <<>> \in Seq(VipClaim) /\ DOMAIN <<>> = {}
  BY EmptySeq
<1>3. FALSE \in BOOLEAN
  OBVIOUS
<1>4. userVip \in [exists : BOOLEAN, currentLevel : Int, createdAt : Int]
  BY <1>1, <1>3
<1> QED BY <1>1, <1>2, <1>4 DEF VipInv, VipTyped, MonthlyKey, VipAlone

\* The level a user qualifies for is a number: there are finitely many.
LEMMA LevelIsANumber == Qualified \in Int
<1> DEFINE met == {l \in VipLevels : xp >= expRequired[l]}
<1>1. met \subseteq VipLevels /\ IsFiniteSet(VipLevels) /\ VipLevels \subseteq Nat
  BY VipAssumption DEF VipAssumption
<1> HIDE DEF met
<1>2. IsFiniteSet(met)
  BY <1>1, FS_Subset
<1>3. IsFiniteSet({0} \cup met)
  BY <1>2, FS_Singleton, FS_Union
<1>4. {0} \cup met \subseteq Int /\ {0} \cup met # {}
  BY <1>1
<1>5. Max({0} \cup met) \in {0} \cup met
  BY ONLY <1>3, <1>4, MaxIsLargest
<1> QED BY <1>4, <1>5 DEF Qualified, met

LEMMA VipElsewhere ==
  ASSUME VipInv, DeskStep, UNCHANGED <<userVip, vipClaims, topLevel>>,
         scheme = "vip" =>
           calls' \subseteq VipCalls /\ (~overlapped' => \A c \in calls' : VipRead(c)')
  PROVE  VipInv'
<1>1. VipTyped' /\ MonthlyKey'
  BY DEF VipInv, VipTyped, MonthlyKey, DeskStep
<1>2. VipAlone'
  <2> SUFFICES ASSUME ~overlapped' PROVE VipAlone!2'
    BY DEF VipAlone
  <2>1. ~overlapped /\ scheme' = scheme
    BY DEF DeskStep
  <2>2. /\ \A i, j \in DOMAIN vipClaims : i # j => ~Repeats(vipClaims[i], vipClaims[j])
        /\ userVip.currentLevel = topLevel
    BY <2>1 DEF VipInv, VipAlone
  <2> QED BY <2>1, <2>2
<1> QED BY <1>1, <1>2 DEF VipInv

\* A request that begins has read the level of now.
LEMMA VipBegins ==
  ASSUME VipInv, DeskStep, scheme = "vip", UNCHANGED vipVars, day' = day, overlapped' = overlapped,
         NEW c, calls' = calls \cup {c}, c \in VipCalls, VipRead(c)
  PROVE  VipInv'
<1>1. calls \subseteq VipCalls /\ (~overlapped => \A b \in calls : VipRead(b))
  BY DEF VipInv, VipTyped, VipAlone
<1>2. UNCHANGED <<xp, expRequired, userVip, vipClaims, topLevel>>
  BY DEF vipVars
<1>3. \A b : VipRead(b)' <=> VipRead(b)
  BY <1>2 DEF VipRead, Sticky, MaxOf, Qualified, AlreadyClaimed, LevelClaims, ClaimsFor
<1>4. ~overlapped' => \A b \in calls' : VipRead(b)'
  BY <1>1, <1>3
<1> QED BY <1>1, <1>2, <1>4, VipElsewhere

LEMMA VipSyncs ==
  ASSUME DeskInv, VipInv, DeskStep, scheme = "vip", NEW c \in calls, VipSync(c)
  PROVE  VipInv'
<1>1. /\ c \in VipCalls /\ calls \subseteq VipCalls
      /\ userVip \in [exists : BOOLEAN, currentLevel : Int, createdAt : Int]
      /\ vipClaims \in Seq(VipClaim) /\ topLevel \in Int
  BY DEF VipInv, VipTyped
<1>2. c.pc = "vip sync" /\ c.level \in Int
  BY <1>1 DEF VipCalls, VipSync
<1>3. PICK d : d = [c EXCEPT !.pc = "vip check"]
  OBVIOUS
<1>4. /\ calls' = calls \ {c} \/ (c.claim # "none" /\ calls' = (calls \ {c}) \cup {d})
      /\ ~overlapped' => ~overlapped /\ calls = {c} /\ (calls' = {} \/ calls' = {d})
  <2>1. CASE MoveOn(c, "vip check") /\ c.claim # "none"
    BY <2>1, <1>3, Alone DEF MoveOn, Move
  <2>2. CASE Finish(c)
    BY <2>2, Alone DEF Finish, End
  <2> QED BY <2>1, <2>2 DEF VipSync
<1>5. c.claim # "none" => d \in VipCalls /\ d.pc = "vip check"
  BY <1>1, <1>2, <1>3 DEF VipCalls, VipTypes
<1>6. calls' \subseteq VipCalls
  BY <1>1, <1>4, <1>5
<1>7. /\ userVip' = [userVip EXCEPT !.exists = TRUE, !.currentLevel = c.level,
                                    !.createdAt = IF userVip.exists THEN @ ELSE day]
      /\ topLevel' = MaxOf(topLevel, c.level) /\ vipClaims' = vipClaims
  BY DEF VipSync
<1>8. userVip' \in [exists : BOOLEAN, currentLevel : Int, createdAt : Int] /\ userVip'.currentLevel = c.level
  <2>1. PICK t : t = (IF userVip.exists THEN userVip.createdAt ELSE day)
    OBVIOUS
  <2>2. t \in Int
    BY <1>1, <2>1 DEF DeskInv
  <2>3. userVip' = [userVip EXCEPT !.exists = TRUE, !.currentLevel = c.level, !.createdAt = t]
    BY <1>7, <2>1
  <2> QED BY <1>1, <1>2, <2>2, <2>3
<1>9. topLevel' \in Int
  BY <1>1, <1>2, <1>7 DEF MaxOf
<1>10. VipTyped'
  BY <1>1, <1>6, <1>7, <1>8, <1>9 DEF VipTyped
<1>11. MonthlyKey'
  BY <1>7 DEF VipInv, MonthlyKey
<1>12. VipAlone'
  <2> SUFFICES ASSUME ~overlapped' PROVE VipAlone!2'
    BY DEF VipAlone
  <2>1. c.level = Sticky /\ userVip.currentLevel = topLevel
    BY <1>2, <1>4 DEF VipInv, VipAlone, VipRead
  <2>2. userVip'.currentLevel = topLevel'
    BY <1>1, <1>2, <1>7, <1>8, <2>1, LevelIsANumber DEF Sticky, MaxOf
  <2>3. \A b \in calls' : VipRead(b)'
    <3>1. ASSUME NEW b \in calls' PROVE b.pc = "vip check"
      BY <1>4, <1>5, <3>1
    <3> QED BY <3>1 DEF VipRead
  <2>4. \A i, j \in DOMAIN vipClaims' : i # j => ~Repeats(vipClaims'[i], vipClaims'[j])
    BY <1>4, <1>7 DEF VipInv, VipAlone
  <2> QED BY <2>2, <2>3, <2>4
<1> QED BY <1>10, <1>11, <1>12 DEF VipInv

LEMMA VipChecks ==
  ASSUME DeskInv, VipInv, DeskStep, scheme = "vip", NEW c \in calls, VipCheck(c)
  PROVE  VipInv'
<1>1. c \in VipCalls /\ calls \subseteq VipCalls /\ day \in Int
  BY DEF VipInv, VipTyped, DeskInv
<1>2. UNCHANGED <<xp, expRequired, userVip, vipClaims, topLevel>> /\ day' = day /\ overlapped' = overlapped
  BY DEF VipCheck, vipVars, Drop
<1>3. PICK d : d = [made |-> c.made, pc |-> "vip credit", level |-> c.level, claim |-> c.claim,
                    for |-> c.for, month |-> day]
  OBVIOUS
<1>4. calls' = calls \ {c} \/ (MayClaim(c) /\ calls' = (calls \ {c}) \cup {d})
  BY <1>3 DEF VipCheck, Drop, End
<1>5. d \in VipCalls /\ d.pc = "vip credit" /\ d.month = day /\ d.for = c.for /\ d.claim = c.claim
  BY <1>1, <1>3 DEF VipCalls, VipCheck
<1>6. MayClaim(c) => VipRead(d)
  BY <1>5 DEF MayClaim, VipRead
<1>7. \A b : VipRead(b)' <=> VipRead(b)
  BY <1>2 DEF VipRead, Sticky, MaxOf, Qualified, AlreadyClaimed, LevelClaims, ClaimsFor
<1>8. ~overlapped' => \A b \in calls' : VipRead(b)'
  BY <1>2, <1>4, <1>6, <1>7 DEF VipInv, VipAlone
<1>9. calls' \subseteq VipCalls
  BY <1>1, <1>4, <1>5
<1> QED BY <1>2, <1>8, <1>9, VipElsewhere

LEMMA VipCredits ==
  ASSUME DeskInv, VipInv, DeskStep, scheme = "vip", NEW c \in calls, VipCredit(c)
  PROVE  VipInv'
<1>1. /\ c \in VipCalls /\ calls \subseteq VipCalls
      /\ vipClaims \in Seq(VipClaim) /\ Len(vipClaims) \in Nat
      /\ DOMAIN vipClaims = 1 .. Len(vipClaims)
      /\ \A i \in DOMAIN vipClaims : vipClaims[i] \in VipClaim
  <2>1. vipClaims \in Seq(VipClaim)
    BY DEF VipInv, VipTyped
  <2>2. vipClaims \in [1 .. Len(vipClaims) -> VipClaim] /\ Len(vipClaims) \in Nat
    BY <2>1, LenProperties
  <2> QED BY <2>1, <2>2 DEF VipInv, VipTyped
<1>2. CASE Collides(c)
  <2>1. UNCHANGED <<xp, expRequired, userVip, vipClaims, topLevel>> /\ day' = day /\ overlapped' = overlapped
        /\ calls' = calls \ {c}
    BY <1>2 DEF VipCredit, Drop, End
  <2>2. \A b : VipRead(b)' <=> VipRead(b)
    BY <2>1 DEF VipRead, Sticky, MaxOf, Qualified, AlreadyClaimed, LevelClaims, ClaimsFor
  <2>3. ~overlapped' => \A b \in calls' : VipRead(b)'
    BY <2>1, <2>2 DEF VipInv, VipAlone
  <2> QED BY <1>1, <2>1, <2>3, VipElsewhere
<1>3. CASE ~Collides(c)
  <2>1. PICK row : row = [level |-> c.for, type |-> c.claim, month |-> c.month]
    OBVIOUS
  <2>2. /\ vipClaims' = Append(vipClaims, row) /\ userVip' = userVip /\ topLevel' = topLevel
        /\ calls' \subseteq calls /\ (~overlapped' => ~overlapped /\ calls = {c} /\ calls' = {})
    BY <1>3, <2>1, Alone DEF VipCredit, Finish, End
  <2>3. /\ c.pc = "vip credit" /\ c.for \in Int /\ c.claim \in VipTypes /\ c.month \in Int
    BY <1>1 DEF VipCredit, VipCalls
  <2>4. row \in VipClaim /\ row.level = c.for /\ row.type = c.claim /\ row.month = c.month
    BY <2>1, <2>3 DEF VipClaim
  <2>5. /\ vipClaims' \in Seq(VipClaim) /\ Len(vipClaims') = Len(vipClaims) + 1
        /\ DOMAIN vipClaims' = 1 .. Len(vipClaims) + 1
        /\ \A i \in 1 .. Len(vipClaims) : vipClaims'[i] = vipClaims[i]
        /\ vipClaims'[Len(vipClaims) + 1] = row
    BY <1>1, <2>2, <2>4, Appended
  <2>6. \A i \in DOMAIN vipClaims' :
          \/ i \in DOMAIN vipClaims /\ vipClaims'[i] = vipClaims[i]
          \/ i = Len(vipClaims) + 1 /\ vipClaims'[i] = row
    <3>1. \A i \in DOMAIN vipClaims' : i \in DOMAIN vipClaims \/ i = Len(vipClaims) + 1
      BY <1>1, <2>5
    <3> QED BY <1>1, <2>5, <3>1
  <2>7. VipTyped'
    BY <1>1, <2>2, <2>5 DEF VipInv, VipTyped, DeskStep
  <2>8. \A i \in DOMAIN vipClaims :
          (vipClaims[i].type = "MONTHLY" /\ row.type = "MONTHLY" /\ vipClaims[i].month = row.month)
            => vipClaims[i].level # row.level
    BY <1>3, <2>4 DEF Collides, ClaimsFor
  <2>9. MonthlyKey'
    <3>1. MonthlyKey
      BY DEF VipInv
    <3> QED BY <2>6, <2>8, <3>1 DEF MonthlyKey
  <2>10. VipAlone'
    <3> SUFFICES ASSUME ~overlapped' PROVE VipAlone!2'
      BY DEF VipAlone
    <3>1. /\ VipRead(c) /\ userVip.currentLevel = topLevel
          /\ \A i, j \in DOMAIN vipClaims : i # j => ~Repeats(vipClaims[i], vipClaims[j])
      BY <2>2 DEF VipInv, VipAlone
    <3>2. c.month = day /\ ~AlreadyClaimed(c.for, c.claim)
      BY <2>3, <3>1 DEF VipRead
    <3>3. \A i \in DOMAIN vipClaims : ~Repeats(vipClaims[i], row) /\ ~Repeats(row, vipClaims[i])
      <4>1. CASE c.claim = "LEVEL_UP"
        BY <2>4, <3>2, <4>1 DEF Repeats, AlreadyClaimed, LevelClaims, ClaimsFor
      <4>2. CASE c.claim = "MONTHLY"
        BY <2>4, <3>2, <4>2 DEF Repeats, AlreadyClaimed, ClaimsFor
      <4> QED BY <2>3, <4>1, <4>2 DEF VipTypes
    <3>4. \A i, j \in DOMAIN vipClaims' : i # j => ~Repeats(vipClaims'[i], vipClaims'[j])
      BY <2>6, <3>1, <3>3
    <3> QED BY <2>2, <3>1, <3>4
  <2> QED BY <2>7, <2>9, <2>10 DEF VipInv
<1> QED BY <1>2, <1>3

LEMMA VipKeeps ==
  ASSUME DeskInv, VipInv, VipNext
  PROVE  VipInv'
<1>1. DeskStep /\ scheme = "vip" /\ made \in Nat /\ calls \subseteq VipCalls
  BY VipDesk DEF VipNext, DeskInv, VipInv, VipTyped
<1>2. userVip.currentLevel \in Int /\ Sticky \in Int
  <2>1. userVip.currentLevel \in Int
    BY DEF VipInv, VipTyped
  <2> QED BY <2>1, LevelIsANumber DEF Sticky, MaxOf
<1>3. ASSUME AtOnce, UNCHANGED <<userVip, vipClaims, topLevel>> PROVE VipInv'
  <2>1. calls' = calls /\ (~overlapped' => calls' = {})
    BY <1>3, AloneAtOnce DEF AtOnce
  <2> QED BY <1>1, <1>3, <2>1, VipElsewhere
<1>4. Bet => VipInv'
  BY <1>3 DEF Bet
<1>5. ASSUME NEW f, AdminVipRule(f) PROVE VipInv'
  BY <1>3, <1>5 DEF AdminVipRule
<1>6. CASE SyncRead
  <2>1. PICK c : c = [made |-> made, pc |-> "vip sync", level |-> Sticky, claim |-> "none"]
    OBVIOUS
  <2>2. calls' = calls \cup {c} /\ day' = day /\ overlapped' = overlapped /\ UNCHANGED vipVars
    BY <1>6, <2>1 DEF SyncRead, Begin
  <2>3. c \in VipCalls /\ VipRead(c)
    BY <1>1, <1>2, <2>1 DEF VipCalls, VipRead
  <2> QED BY <1>1, <2>2, <2>3, VipBegins
<1>7. ASSUME NEW l \in VipLevels, NEW type \in VipTypes, ClaimSync(l, type) PROVE VipInv'
  <2>1. PICK c : c = [made |-> made, pc |-> "vip sync", level |-> Sticky, claim |-> type, for |-> l]
    OBVIOUS
  <2>2. calls' = calls \cup {c} /\ day' = day /\ overlapped' = overlapped /\ UNCHANGED vipVars
    BY <1>7, <2>1 DEF ClaimSync, Begin
  <2>3. l \in Int
    BY VipAssumption DEF VipAssumption
  <2>4. c \in VipCalls /\ VipRead(c)
    BY <1>1, <1>2, <2>1, <2>3 DEF VipCalls, VipRead
  <2> QED BY <1>1, <2>2, <2>4, VipBegins
<1>8. ASSUME NEW c \in calls, VipStep(c) PROVE VipInv'
  BY <1>1, <1>8, VipSyncs, VipChecks, VipCredits DEF VipStep
<1>9. ASSUME NewDay, UNCHANGED vipVars PROVE VipInv'
  <2>1. calls' = calls /\ (~overlapped' => calls' = {}) /\ UNCHANGED <<userVip, vipClaims, topLevel>>
    BY <1>9, AloneAtOnce DEF NewDay, vipVars
  <2> QED BY <1>1, <2>1, VipElsewhere
<1> QED BY <1>4, <1>5, <1>6, <1>7, <1>8, <1>9, Zenon DEF VipNext, VipTypes

LEMMA VipKept == DeskInv /\ VipInv /\ [Next]_vars => VipInv'
<1> SUFFICES ASSUME DeskInv, VipInv, [Next]_vars PROVE VipInv'
  OBVIOUS
<1>1. DeskStep
  BY DeskMoves
<1>2. CASE VipNext
  BY <1>2, VipKeeps
<1>3. ASSUME UNCHANGED vipVars, scheme # "vip" PROVE VipInv'
  <2>1. UNCHANGED <<userVip, vipClaims, topLevel>>
    BY <1>3 DEF vipVars
  <2> QED BY <1>1, <1>3, <2>1, VipElsewhere
<1>4. CASE UNCHANGED vars
  <2>1. UNCHANGED <<xp, expRequired, userVip, vipClaims, topLevel>> /\ UNCHANGED <<scheme, day, calls, overlapped>>
    BY <1>4 DEF vars, deskVars, vipVars
  <2>2. \A b : VipRead(b)' <=> VipRead(b)
    BY <2>1 DEF VipRead, Sticky, MaxOf, Qualified, AlreadyClaimed, LevelClaims, ClaimsFor
  <2>3. scheme = "vip" => calls' \subseteq VipCalls /\ (~overlapped' => \A b \in calls' : VipRead(b)')
    BY <2>1, <2>2 DEF VipInv, VipTyped, VipAlone
  <2> QED BY <1>1, <2>1, <2>3, VipElsewhere
<1>5. GiftNext \/ SpinNext \/ SelfRebateNext \/ StreakNext \/ SalaryNext \/ AutoSalaryNext \/ TeamNext => scheme # "vip"
  BY DEF TeamNext, SalaryNext, AutoSalaryNext, GiftNext, SpinNext, SelfRebateNext, StreakNext
<1>6. TierNext => scheme # "vip"
  BY DEF TierNext, Types
<1> QED BY <1>2, <1>3, <1>4, <1>5, <1>6, Zenon DEF Next

\* A level is rewarded once a month in every interleaving; without overlap a user
\* has one monthly reward a month whatever the level, one level-up reward a level,
\* and never loses a level to a requirement that was raised.
THEOREM VipRewards == Spec => []VipRewardedOnce
<1>1. VipInv => VipRewardedOnce
  <2> SUFFICES ASSUME VipInv PROVE VipRewardedOnce
    OBVIOUS
  <2>1. VipRewardedOnce!1
    BY DEF VipInv, MonthlyKey, ClaimsFor
  <2>2. ASSUME ~overlapped, NEW l \in VipLevels PROVE Cardinality(LevelClaims(l)) <= 1
    <3>1. \A i, j \in LevelClaims(l) : i = j
      BY <2>2 DEF VipInv, VipAlone, Repeats, LevelClaims, ClaimsFor
    <3>2. CASE LevelClaims(l) = {}
      BY <3>2, FS_EmptySet
    <3>3. CASE LevelClaims(l) # {}
      <4>1. PICK i : LevelClaims(l) = {i}
        BY <3>1, <3>3
      <4>2. Cardinality({i}) = 1
        BY FS_Singleton
      <4> QED BY <4>1, <4>2
    <3> QED BY <3>2, <3>3
  <2>3. ASSUME ~overlapped
        PROVE  \A i, j \in ClaimsFor("MONTHLY") : i # j => vipClaims[i].month # vipClaims[j].month
    BY <2>3 DEF VipInv, VipAlone, Repeats, ClaimsFor
  <2>4. ~overlapped => userVip.currentLevel = topLevel
    BY DEF VipInv, VipAlone
  <2> QED BY <2>1, <2>2, <2>3, <2>4 DEF VipRewardedOnce
<1>2. Init => VipInv
  BY VipStart
<1>3. DeskInv /\ VipInv /\ [Next]_vars => VipInv'
  BY VipKept
<1> QED BY <1>1, <1>2, <1>3, DeskHolds, PTL DEF Spec

--------------------------------------------------------------------------------
(* Counting what is smaller                                                 *)

\* The more there is below, the higher the count.
LEMMA CountBelow ==
  ASSUME NEW S, IsFiniteSet(S), S \subseteq Int, NEW a \in S, NEW b \in Int, a < b
  PROVE  Cardinality({x \in S : x < a}) < Cardinality({x \in S : x < b})
<1> DEFINE A == {x \in S : x < a}
           B == {x \in S : x < b}
<1>1. A \subseteq B /\ B \subseteq S /\ a \in B /\ a \notin A
  <2>1. \A x \in S : (x < a => x < b) /\ ~(a < a)
    OBVIOUS
  <2> QED BY <2>1
<1> HIDE DEF A, B
<1>2. IsFiniteSet(B)
  BY <1>1, FS_Subset
<1>3. Cardinality(A) <= Cardinality(B) /\ (Cardinality(A) = Cardinality(B) => A = B)
  BY <1>1, <1>2, FS_Subset
<1>4. Cardinality(A) \in Nat /\ Cardinality(B) \in Nat
  BY <1>1, <1>2, FS_Subset, FS_CardinalityType
<1>5. Cardinality(A) < Cardinality(B)
  BY <1>1, <1>3, <1>4
<1> QED BY <1>5 DEF A, B

\* Of n elements with distinct values, one has i - 1 below it, for every i up to n.
LEMMA EveryRank ==
  ASSUME NEW S, IsFiniteSet(S), NEW v \in [S -> Int], \A e, f \in S : v[e] = v[f] => e = f
  PROVE  \A i \in 1 .. Cardinality(S) : \E e \in S : Cardinality({f \in S : v[f] < v[e]}) = i - 1
<1> DEFINE below(e) == {f \in S : v[f] < v[e]}
           n == Cardinality(S)
           r == [e \in S |-> Cardinality(below(e))]
<1>1. n \in Nat
  BY FS_CardinalityType
<1>2. \A e \in S : below(e) \subseteq S /\ e \notin below(e)
  OBVIOUS
<1>3. \A e, f \in S : v[e] < v[f] => below(e) \subseteq below(f) /\ e \in below(f)
  OBVIOUS
<1>4. \A e, f \in S : e # f => v[e] < v[f] \/ v[f] < v[e]
  OBVIOUS
<1> HIDE DEF below
<1>5. ASSUME NEW e \in S
      PROVE  IsFiniteSet(below(e)) /\ Cardinality(below(e)) \in Nat /\ Cardinality(below(e)) < n
  <2>1. IsFiniteSet(below(e)) /\ Cardinality(below(e)) <= n /\ (Cardinality(below(e)) = n => below(e) = S)
    BY <1>2, FS_Subset
  <2>2. Cardinality(below(e)) \in Nat
    BY <2>1, FS_CardinalityType
  <2>3. Cardinality(below(e)) # n
    BY <1>2, <2>1
  <2> HIDE DEF n
  <2> QED BY <1>1, <2>1, <2>2, <2>3
<1>6. ASSUME NEW e \in S, NEW f \in S, v[e] < v[f]
      PROVE  Cardinality(below(e)) # Cardinality(below(f))
  <2>1. Cardinality(below(e)) = Cardinality(below(f)) => below(e) = below(f)
    BY <1>3, <1>5, <1>6, FS_Subset
  <2> QED BY <1>2, <1>3, <1>6, <2>1
<1>7. r \in Injection(S, 0 .. (n - 1))
  <2>1. r \in [S -> 0 .. (n - 1)]
    <3>1. \A e \in S : Cardinality(below(e)) \in 0 .. (n - 1)
      <4> HIDE DEF n
      <4> QED BY <1>1, <1>5
    <3> QED BY <3>1
  <2>2. \A e, f \in S : r[e] = r[f] => e = f
    BY <1>4, <1>6
  <2> HIDE DEF r
  <2> QED BY <2>1, <2>2 DEF Injection, IsInjective
<1>8. IsFiniteSet(0 .. (n - 1)) /\ Cardinality(0 .. (n - 1)) = n
  <2> HIDE DEF n
  <2>1. 0 \in Int /\ n - 1 \in Int
    BY <1>1
  <2>2. IsFiniteSet(0 .. (n - 1)) /\ Cardinality(0 .. (n - 1)) = IF 0 > n - 1 THEN 0 ELSE (n - 1) - 0 + 1
    BY <2>1, FS_Interval
  <2> QED BY <1>1, <2>2
<1>9. r \in Surjection(S, 0 .. (n - 1))
  <2> HIDE DEF r
  <2>1. Cardinality(S) = Cardinality(0 .. (n - 1))
    BY <1>8
  <2> HIDE DEF n
  <2> QED BY ONLY <1>7, <1>8, <2>1, FS_Injection
<1>10. \A k \in 0 .. (n - 1) : \E e \in S : r[e] = k
  <2> HIDE DEF r
  <2> QED BY <1>9 DEF Surjection
<1>11. ASSUME NEW i \in 1 .. n PROVE \E e \in S : Cardinality({f \in S : v[f] < v[e]}) = i - 1
  <2>1. i - 1 \in 0 .. (n - 1)
    <3> HIDE DEF n
    <3> QED BY <1>1
  <2>2. PICK e \in S : r[e] = i - 1
    BY <1>10, <2>1
  <2>3. Cardinality(below(e)) = i - 1
    BY <2>2
  <2> QED BY <2>3 DEF below
<1> QED BY <1>11

LEMMA Tabulated ==
  ASSUME NEW n \in Nat, NEW S, NEW f, f = [i \in 1 .. n |-> f[i]], \A i \in 1 .. n : f[i] \in S
  PROVE  f \in Seq(S) /\ Len(f) = n /\ DOMAIN f = 1 .. n
<1>1. f \in [1 .. n -> S]
  OBVIOUS
<1>2. f \in Seq(S)
  BY <1>1, SeqDef
<1>3. DOMAIN f = 1 .. n /\ Len(f) = n
  BY <1>1, <1>2, LenProperties
<1> QED BY <1>2, <1>3

LEMMA Concatenated ==
  ASSUME NEW S, NEW s \in Seq(S), NEW t \in Seq(S)
  PROVE  /\ s \o t \in Seq(S) /\ Len(s \o t) = Len(s) + Len(t)
         /\ DOMAIN s = 1 .. Len(s) /\ DOMAIN (s \o t) = 1 .. Len(s) + Len(t)
         /\ Len(s) \in Nat /\ Len(t) \in Nat
         /\ \A i \in 1 .. Len(s) : (s \o t)[i] = s[i]
         /\ \A i \in 1 .. Len(t) : (s \o t)[Len(s) + i] = t[i]
<1>1. Len(s) \in Nat /\ Len(t) \in Nat /\ DOMAIN s = 1 .. Len(s)
  BY LenProperties
<1>2. PICK u : u = s \o t
  OBVIOUS
<1>3. /\ u \in Seq(S) /\ Len(u) = Len(s) + Len(t)
      /\ \A i \in 1 .. Len(s) + Len(t) : u[i] = IF i <= Len(s) THEN s[i] ELSE t[i - Len(s)]
  BY <1>2, ConcatProperties
<1>4. DOMAIN u = 1 .. Len(s) + Len(t)
  BY <1>3, LenProperties
<1>5. \A i \in 1 .. Len(s) : u[i] = s[i]
  BY <1>1, <1>3
<1>6. ASSUME NEW i \in 1 .. Len(t) PROVE u[Len(s) + i] = t[i]
  <2>1. Len(s) + i \in 1 .. Len(s) + Len(t) /\ ~(Len(s) + i <= Len(s)) /\ (Len(s) + i) - Len(s) = i
    BY <1>1
  <2> QED BY <1>3, <2>1
<1> QED BY <1>1, <1>2, <1>3, <1>4, <1>5, <1>6

--------------------------------------------------------------------------------
(* The activity bonuses                                                     *)

BonusStatus == {"COMPLETED_UNCOLLECTED", "COLLECTED", "EXPIRED"}
BonusRow ==
  [type : Types, tier : Nat, amount : Levels, createdAt : Int, expiresAt : Int,
   status : BonusStatus, claimAt : Int]

TiersTyped ==
  /\ tiers \in [Types -> SUBSET Levels] /\ retiered \in BOOLEAN
  /\ bonuses \in Seq(BonusRow) /\ paid \in Seq(Int) /\ Len(paid) = Len(bonuses)

\* What a request in flight carries: invitation tiers are told apart by their position.
TierCall(c) ==
  /\ c.pc = "tier create" => c.type \in Types \ {"INVITATION"} /\ c.tier \in Nat /\ c.level \in Levels
  /\ c.pc = "invitation create" =>
       /\ IsFiniteSet(c.eligible) /\ c.eligible \subseteq [tier : Nat, level : Levels]
       /\ \A e, f \in c.eligible : e.tier = f.tier => e = f

\* A row and how often it was credited.
RowSound(b, p) ==
  /\ p = IF b.status = "COLLECTED" THEN 1 ELSE 0
  /\ b.claimAt <= b.expiresAt
  /\ b.type \notin Expiring => b.expiresAt = MaxDay + 1

SameInvitation(a, b) == a.type = "INVITATION" /\ b.type = "INVITATION" /\ a.tier = b.tier

RowsSound ==
  /\ \A i \in DOMAIN bonuses : RowSound(bonuses[i], paid[i])
  /\ \A i, j \in DOMAIN bonuses : i # j => ~SameInvitation(bonuses[i], bonuses[j])

\* The position of a tier in the list no admin has touched, and two rows of one reward.
Rank(level) == Cardinality({l \in Levels : l < level})
Doubles(a, b) ==
  /\ a.type = b.type
  /\ \/ a.type = "FIRST_DEPOSIT"
     \/ a.tier = b.tier /\ (a.type = "DAILY" => a.createdAt = b.createdAt)

\* What a request has read is still so.
TierFresh(c) ==
  /\ c.pc = "tier create" =>
       /\ c.tier = Rank(c.level)
       /\ MissingRow(c.type, c.tier, day)
       /\ c.type = "FIRST_DEPOSIT" => RowsOf("FIRST_DEPOSIT") = {}
  /\ c.pc = "invitation create" => \A e \in c.eligible : e.tier = Rank(e.level)

Calm == ~overlapped /\ ~retiered

TiersCalm ==
  Calm =>
    /\ \A t \in Types : tiers[t] = Levels
    /\ \A i \in DOMAIN bonuses : bonuses[i].tier = Rank(bonuses[i].amount)
    /\ \A i, j \in DOMAIN bonuses : i # j => ~Doubles(bonuses[i], bonuses[j])
    /\ scheme \in Types => \A c \in calls : TierFresh(c)

TiersInv ==
  /\ TiersTyped
  /\ scheme \in Types => \A c \in calls : TierCall(c)
  /\ RowsSound
  /\ TiersCalm

LEMMA TiersStart == Init => TiersInv
<1> SUFFICES ASSUME Init PROVE TiersInv
  OBVIOUS
<1>1. /\ tiers = [t \in Types |-> Levels] /\ retiered = FALSE
      /\ bonuses = <<>> /\ paid = <<>> /\ calls = {}
  BY DEF Init, DeskInit, TiersInit
<1>2. <<>> \in Seq(BonusRow) /\ <<>> \in Seq(Int) /\ DOMAIN <<>> = {}
  BY EmptySeq
<1>3. tiers \in [Types -> SUBSET Levels] /\ \A t \in Types : tiers[t] = Levels
  BY <1>1
<1>4. retiered \in BOOLEAN
  BY <1>1, Zenon
<1> QED BY <1>1, <1>2, <1>3, <1>4 DEF TiersInv, TiersTyped, RowsSound, TiersCalm

\* Steps that touch no row.
LEMMA TiersElsewhere ==
  ASSUME TiersInv, DeskStep, UNCHANGED <<bonuses, paid>>,
         tiers' \in [Types -> SUBSET Levels], retiered' \in BOOLEAN,
         ~retiered' => ~retiered /\ tiers' = tiers,
         scheme \in Types => \A c \in calls' : TierCall(c),
         scheme \in Types /\ Calm' => \A c \in calls' : TierFresh(c)'
  PROVE  TiersInv'
<1>1. TiersTyped' /\ RowsSound'
  BY DEF TiersInv, TiersTyped, RowsSound
<1>2. scheme' \in Types => \A c \in calls' : TierCall(c)
  BY DEF DeskStep
<1>3. TiersCalm'
  <2> SUFFICES ASSUME Calm' PROVE TiersCalm!2'
    BY DEF TiersCalm
  <2>1. Calm /\ tiers' = tiers /\ bonuses' = bonuses /\ scheme' = scheme
    BY DEF Calm, DeskStep
  <2> QED BY <2>1 DEF TiersInv, TiersCalm
<1>4. (\A c : TierCall(c)' <=> TierCall(c))
  BY DEF TierCall
<1> QED BY <1>1, <1>2, <1>3, <1>4 DEF TiersInv

\* A request that has read begins.
LEMMA TiersBegin ==
  ASSUME TiersInv, DeskStep, UNCHANGED tierVars, day' = day, overlapped' = overlapped, scheme \in Types,
         NEW c, calls' = calls \cup {c}, TierCall(c), Calm => TierFresh(c)
  PROVE  TiersInv'
<1>1. UNCHANGED <<tiers, bonuses, paid, retiered>>
  BY DEF tierVars
<1>2. \A b : TierFresh(b)' <=> TierFresh(b)
  BY <1>1 DEF TierFresh, MissingRow, RowsOf, Rank
<1>3. \A b \in calls' : TierCall(b)
  BY DEF TiersInv
<1>4. Calm' => \A b \in calls' : TierFresh(b)'
  BY <1>1, <1>2 DEF TiersInv, TiersCalm, Calm
<1>5. tiers' \in [Types -> SUBSET Levels] /\ retiered' \in BOOLEAN
  BY <1>1 DEF TiersInv, TiersTyped
<1> QED BY <1>1, <1>3, <1>4, <1>5, TiersElsewhere

\* What is written at once touches no row, and the tiers only as an admin does.
LEMMA TiersAtOnce ==
  ASSUME TiersInv, DeskStep, scheme \in Types, UNCHANGED <<bonuses, paid>>,
         calls' \subseteq calls, ~overlapped' => calls' = {},
         tiers' \in [Types -> SUBSET Levels], retiered' \in BOOLEAN,
         ~retiered' => ~retiered /\ tiers' = tiers
  PROVE  TiersInv'
<1>1. \A c \in calls' : TierCall(c)
  BY DEF TiersInv
<1>2. Calm' => calls' = {}
  BY DEF Calm
<1> QED BY <1>1, <1>2, TiersElsewhere

\* Rows change what became of them, and not what they are for.
LEMMA TiersRestate ==
  ASSUME TiersInv, DeskStep, UNCHANGED <<tiers, retiered>>, scheme \in Types,
         calls' \subseteq calls, ~overlapped' => calls' = {},
         bonuses' \in Seq(BonusRow), Len(bonuses') = Len(bonuses),
         paid' \in Seq(Int), Len(paid') = Len(paid),
         \A i \in DOMAIN bonuses :
           /\ RowSound(bonuses'[i], paid'[i])
           /\ bonuses'[i].type = bonuses[i].type /\ bonuses'[i].tier = bonuses[i].tier
           /\ bonuses'[i].amount = bonuses[i].amount /\ bonuses'[i].createdAt = bonuses[i].createdAt
  PROVE  TiersInv'
<1>1. TiersTyped' /\ bonuses \in Seq(BonusRow)
  BY DEF TiersInv, TiersTyped
<1>2. DOMAIN bonuses' = DOMAIN bonuses
  BY <1>1, LenProperties
<1>3. RowsSound'
  BY <1>2 DEF TiersInv, RowsSound, SameInvitation, RowSound
<1>4. TiersCalm'
  <2> SUFFICES ASSUME Calm' PROVE TiersCalm!2'
    BY DEF TiersCalm
  <2>1. Calm /\ calls' = {} /\ tiers' = tiers
    BY DEF Calm, DeskStep
  <2>2. \A i, j \in DOMAIN bonuses : i # j => ~Doubles(bonuses'[i], bonuses'[j])
    BY <2>1 DEF TiersInv, TiersCalm, Doubles
  <2>3. \A i \in DOMAIN bonuses : bonuses'[i].tier = Rank(bonuses'[i].amount)
    BY <2>1 DEF TiersInv, TiersCalm
  <2>4. \A t \in Types : tiers'[t] = Levels
    BY <2>1 DEF TiersInv, TiersCalm
  <2> QED BY <1>2, <2>1, <2>2, <2>3, <2>4 DEF Rank
<1>5. \A c \in calls' : TierCall(c)
  BY DEF TiersInv
<1> QED BY <1>1, <1>3, <1>4, <1>5 DEF TiersInv, TierCall

\* Rows are added that repeat none.
LEMMA TiersGrow ==
  ASSUME TiersInv, DeskStep, UNCHANGED <<tiers, retiered>>, scheme \in Types,
         calls' \subseteq calls, ~overlapped' => calls' = {},
         bonuses' \in Seq(BonusRow), paid' \in Seq(Int), Len(paid') = Len(bonuses'),
         NEW new, DOMAIN bonuses' \subseteq DOMAIN bonuses \cup new,
         \A i \in DOMAIN bonuses : bonuses'[i] = bonuses[i] /\ paid'[i] = paid[i],
         \A i \in new : RowSound(bonuses'[i], paid'[i]),
         \A i \in DOMAIN bonuses', j \in new :
           i # j => /\ ~SameInvitation(bonuses'[i], bonuses'[j])
                    /\ Calm' => ~Doubles(bonuses'[i], bonuses'[j]),
         Calm' => \A i \in new : bonuses'[i].tier = Rank(bonuses'[i].amount)
  PROVE  TiersInv'
<1>1. TiersTyped'
  BY DEF TiersInv, TiersTyped
<1>2. RowsSound'
  <2>1. \A i \in DOMAIN bonuses' : RowSound(bonuses'[i], paid'[i])
    BY DEF TiersInv, RowsSound
  <2>2. ASSUME NEW i \in DOMAIN bonuses', NEW j \in DOMAIN bonuses', i # j
        PROVE  ~SameInvitation(bonuses'[i], bonuses'[j])
    <3>1. CASE i \in new \/ j \in new
      BY <2>2, <3>1 DEF SameInvitation
    <3>2. CASE i \in DOMAIN bonuses /\ j \in DOMAIN bonuses
      BY <2>2, <3>2 DEF TiersInv, RowsSound
    <3> QED BY <3>1, <3>2
  <2> QED BY <2>1, <2>2 DEF RowsSound, RowSound, SameInvitation
<1>3. TiersCalm'
  <2> SUFFICES ASSUME Calm' PROVE TiersCalm!2'
    BY DEF TiersCalm
  <2>1. Calm /\ calls' = {} /\ tiers' = tiers
    BY DEF Calm, DeskStep
  <2>2. ASSUME NEW i \in DOMAIN bonuses', NEW j \in DOMAIN bonuses', i # j
        PROVE  ~Doubles(bonuses'[i], bonuses'[j])
    <3>1. CASE i \in new \/ j \in new
      BY <2>2, <3>1 DEF Doubles
    <3>2. CASE i \in DOMAIN bonuses /\ j \in DOMAIN bonuses
      BY <2>1, <2>2, <3>2 DEF TiersInv, TiersCalm
    <3> QED BY <3>1, <3>2
  <2>3. \A i \in DOMAIN bonuses' : bonuses'[i].tier = Rank(bonuses'[i].amount)
    BY <2>1 DEF TiersInv, TiersCalm
  <2>4. \A t \in Types : tiers'[t] = Levels
    BY <2>1 DEF TiersInv, TiersCalm
  <2> QED BY <2>1, <2>2, <2>3, <2>4 DEF Rank, Doubles
<1>4. \A c \in calls' : TierCall(c)
  BY DEF TiersInv
<1> QED BY <1>1, <1>2, <1>3, <1>4 DEF TiersInv, TierCall

--------------------------------------------------------------------------------
\* A new row is owed to nobody yet.
LEMMA NewBonus ==
  ASSUME DeskInv, NEW t \in Types, NEW tier \in Nat, NEW level \in Levels, NEW b, b = Bonus(t, tier, level, day)
  PROVE  /\ b \in BonusRow
         /\ b.type = t /\ b.tier = tier /\ b.amount = level /\ b.createdAt = day
         /\ RowSound(b, 0)
<1>1. PICK e : e = IF t \in Expiring THEN day + 1 ELSE MaxDay + 1
  OBVIOUS
<1>2. MaxDay \in Nat /\ day \in Int /\ day >= 0
  BY DeskAssumption DEF DeskAssumption, DeskInv
<1>3. e \in Int /\ -1 <= e /\ (t \notin Expiring => e = MaxDay + 1)
  BY <1>1, <1>2
<1>4. b = [type |-> t, tier |-> tier, amount |-> level, createdAt |-> day, expiresAt |-> e,
           status |-> "COMPLETED_UNCOLLECTED", claimAt |-> -1]
  BY <1>1 DEF Bonus
<1> QED BY <1>2, <1>3, <1>4 DEF BonusRow, BonusStatus, RowSound

\* Positions are numbers, and tell tiers apart.
LEMMA Positions ==
  ASSUME TiersTyped, NEW t \in Types
  PROVE  /\ Unlocked(t) \subseteq Levels
         /\ \A l \in Levels : Index(t, l) \in Nat
         /\ \A k, l \in Unlocked(t) : Index(t, k) = Index(t, l) => k = l
<1>1. /\ tiers[t] \subseteq Levels /\ IsFiniteSet(Levels) /\ Levels \subseteq Nat
      /\ Unlocked(t) \subseteq tiers[t]
  BY BonusAssumption DEF BonusAssumption, TiersTyped, Unlocked
<1>2. IsFiniteSet(tiers[t]) /\ tiers[t] \subseteq Int
  <2>1. tiers[t] \in SUBSET Levels
    BY <1>1
  <2>0. \A T \in SUBSET Levels : IsFiniteSet(T)
    BY <1>1, FS_Subset
  <2>2. IsFiniteSet(tiers[t])
    BY <2>0, <2>1, Zenon
  <2>3. tiers[t] \subseteq Nat
    BY <1>1, Zenon
  <2> QED BY <2>2, <2>3
<1>3. ASSUME NEW l \in Levels PROVE Index(t, l) \in Nat
  <2>1. IsFiniteSet({k \in tiers[t] : k < l})
    BY <1>2, FS_Subset
  <2> QED BY <2>1, FS_CardinalityType DEF Index
<1>4. ASSUME NEW k \in tiers[t], NEW l \in tiers[t], k < l PROVE Index(t, k) # Index(t, l)
  <2>1. l \in Int
    BY <1>2
  <2>2. Cardinality({x \in tiers[t] : x < k}) < Cardinality({x \in tiers[t] : x < l})
    BY ONLY <1>2, <1>4, <2>1, CountBelow
  <2>3. Index(t, k) < Index(t, l) /\ Index(t, k) \in Nat /\ Index(t, l) \in Nat
    BY <1>1, <1>3, <2>2 DEF Index
  <2> QED BY <2>3
<1>5. \A k, l \in tiers[t] : k = l \/ k < l \/ l < k
  BY <1>2
<1> QED BY <1>1, <1>3, <1>4, <1>5

LEMMA TierReads ==
  ASSUME DeskInv, TiersInv, DeskStep, scheme \in Types,
         NEW t \in Types, NEW l \in Levels, TierRead(t, l)
  PROVE  TiersInv'
<1>1. PICK c : c = [made |-> made, pc |-> "tier create", type |-> t, tier |-> Index(t, l), level |-> l]
  OBVIOUS
<1>2. calls' = calls \cup {c} /\ UNCHANGED tierVars /\ day' = day /\ overlapped' = overlapped
      /\ t \in {"DAILY", "ATTENDENCE"} /\ MissingRow(t, Index(t, l), day)
  BY <1>1 DEF TierRead, Begin
<1>3. TierCall(c)
  BY <1>1, <1>2, Positions DEF TierCall, TiersInv
<1>4. ASSUME Calm PROVE TierFresh(c)
  <2>1. Index(t, l) = Rank(l)
    BY <1>4 DEF TiersInv, TiersCalm, Index, Rank
  <2> QED BY <1>1, <1>2, <2>1 DEF TierFresh
<1> QED BY <1>2, <1>3, <1>4, TiersBegin

LEMMA FirstDepositReads ==
  ASSUME DeskInv, TiersInv, DeskStep, scheme \in Types, FirstDepositRead
  PROVE  TiersInv'
<1> DEFINE t == "FIRST_DEPOSIT"
<1>1. PICK l : l = Max(Unlocked(t))
  OBVIOUS
<1>2. PICK c : c = [made |-> made, pc |-> "tier create", type |-> t, tier |-> Index(t, l), level |-> l]
  OBVIOUS
<1>3. calls' = calls \cup {c} /\ UNCHANGED tierVars /\ day' = day /\ overlapped' = overlapped
      /\ RowsOf("FIRST_DEPOSIT") = {} /\ Unlocked(t) # {}
  BY <1>1, <1>2 DEF FirstDepositRead, Begin
<1>4. t \in Types /\ TiersTyped
  BY DEF TiersInv, Types
<1>5. Unlocked(t) \subseteq Levels /\ \A k \in Levels : Index(t, k) \in Nat
  BY <1>4, Positions
<1>6. l \in Levels
  <2>1. IsFiniteSet(Unlocked(t)) /\ Unlocked(t) \subseteq Int
    <3>1. Unlocked(t) \in SUBSET Levels /\ IsFiniteSet(Levels) /\ Levels \subseteq Int
      BY <1>5, BonusAssumption DEF BonusAssumption
    <3>2. IsFiniteSet(Unlocked(t))
      BY ONLY <3>1, FS_Subset
    <3> QED BY <3>1, <3>2
  <2>2. Max(Unlocked(t)) \in Unlocked(t)
    BY ONLY <1>3, <2>1, MaxIsLargest
  <2> QED BY <1>1, <1>5, <2>2
<1>7. TierCall(c)
  BY <1>2, <1>4, <1>5, <1>6 DEF TierCall
<1>8. ASSUME Calm PROVE TierFresh(c)
  <2>1. Index(t, l) = Rank(l)
    BY <1>4, <1>8 DEF TiersInv, TiersCalm, Index, Rank
  <2>2. MissingRow(t, Index(t, l), day)
    BY <1>3 DEF MissingRow
  <2> QED BY <1>2, <1>3, <2>1, <2>2 DEF TierFresh
<1> QED BY <1>3, <1>7, <1>8, TiersBegin

LEMMA InvitationReads ==
  ASSUME DeskInv, TiersInv, DeskStep, scheme \in Types, InvitationRead
  PROVE  TiersInv'
<1> DEFINE t == "INVITATION"
           of(l) == [tier |-> Index("INVITATION", l), level |-> l]
<1>1. PICK els : els = {of(l) : l \in Unlocked(t)}
  OBVIOUS
<1>2. PICK c : c = [made |-> made, pc |-> "invitation create", eligible |-> els]
  OBVIOUS
<1>3. calls' = calls \cup {c} /\ UNCHANGED tierVars /\ day' = day /\ overlapped' = overlapped
  BY <1>1, <1>2 DEF InvitationRead, Begin
<1>4. t \in Types /\ TiersTyped
  BY DEF TiersInv, Types
<1>5. /\ Unlocked(t) \subseteq Levels /\ \A l \in Levels : Index(t, l) \in Nat
      /\ \A k, l \in Unlocked(t) : Index(t, k) = Index(t, l) => k = l
  BY <1>4, Positions
<1>6. \A l \in Unlocked(t) : of(l) \in [tier : Nat, level : Levels] /\ of(l).tier = Index(t, l) /\ of(l).level = l
  BY <1>5
<1>7. els \subseteq [tier : Nat, level : Levels]
  <2> HIDE DEF of
  <2> QED BY <1>1, <1>6
<1>8. \A e \in els : \E l \in Unlocked(t) : e = of(l) /\ e.tier = Index(t, l) /\ e.level = l
  <2> HIDE DEF of
  <2> QED BY <1>1, <1>6
<1>9. \A e, f \in els : e.tier = f.tier => e = f
  <2> HIDE DEF of
  <2> QED BY <1>5, <1>8
<1>10. IsFiniteSet(els)
  <2>1. \A e, f \in els : e.level = f.level => e = f
    <3> HIDE DEF of
    <3> QED BY <1>8
  <2>2. \A e \in els : e.level \in Levels
    BY <1>7
  <2>3. PICK g : g = [e \in els |-> e.level]
    OBVIOUS
  <2>4. g \in [els -> Levels] /\ \A e, f \in els : g[e] = g[f] => e = f
    BY <2>1, <2>2, <2>3
  <2>5. g \in Injection(els, Levels)
    BY <2>4 DEF Injection, IsInjective
  <2> QED BY <2>5, FS_Injection, BonusAssumption DEF BonusAssumption
<1>11. TierCall(c)
  BY <1>2, <1>7, <1>9, <1>10 DEF TierCall
<1>12. ASSUME Calm PROVE TierFresh(c)
  <2>1. \A l : Index(t, l) = Rank(l)
    BY <1>4, <1>12 DEF TiersInv, TiersCalm, Index, Rank
  <2>2. \A e \in els : e.tier = Rank(e.level)
    BY <1>8, <2>1
  <2> QED BY <1>2, <2>2 DEF TierFresh
<1> QED BY <1>3, <1>4, <1>11, <1>12, TiersBegin

LEMMA TierCreates ==
  ASSUME DeskInv, TiersInv, DeskStep, scheme \in Types, NEW c \in calls, TierCreate(c)
  PROVE  TiersInv'
<1>1. PICK b : b = Bonus(c.type, c.tier, c.level, day)
  OBVIOUS
<1>2. /\ bonuses' = Append(bonuses, b) /\ paid' = Append(paid, 0) /\ UNCHANGED <<tiers, retiered>>
      /\ calls' \subseteq calls /\ (~overlapped' => ~overlapped /\ calls = {c} /\ calls' = {})
      /\ c.pc = "tier create"
  BY <1>1, Alone DEF TierCreate, AddBonus, Finish, End
<1>3. c.type \in Types \ {"INVITATION"} /\ c.tier \in Nat /\ c.level \in Levels
  BY <1>2 DEF TiersInv, TierCall
<1>4. /\ b \in BonusRow /\ RowSound(b, 0)
      /\ b.type = c.type /\ b.tier = c.tier /\ b.amount = c.level /\ b.createdAt = day
  BY <1>1, <1>3, NewBonus
<1>5. bonuses \in Seq(BonusRow) /\ paid \in Seq(Int) /\ Len(paid) = Len(bonuses)
  BY DEF TiersInv, TiersTyped
<1>6. PICK n : n = Len(bonuses) + 1
  OBVIOUS
<1>7. /\ bonuses' \in Seq(BonusRow) /\ Len(bonuses') = n /\ Len(bonuses) \in Nat
      /\ DOMAIN bonuses = 1 .. Len(bonuses) /\ DOMAIN bonuses' = 1 .. n
      /\ \A i \in 1 .. Len(bonuses) : bonuses'[i] = bonuses[i]
      /\ bonuses'[n] = b
  <2>1. bonuses \in Seq(BonusRow) /\ b \in BonusRow
    BY <1>4, <1>5
  <2>2. bonuses' = Append(bonuses, b)
    BY <1>2
  <2> QED BY ONLY <1>6, <2>1, <2>2, Appended
<1>8. /\ paid' \in Seq(Int) /\ Len(paid') = n /\ paid'[n] = 0
      /\ \A i \in 1 .. Len(bonuses) : paid'[i] = paid[i]
  <2>1. paid \in Seq(Int) /\ 0 \in Int /\ Len(paid) = Len(bonuses)
    BY <1>5
  <2>2. paid' = Append(paid, 0)
    BY <1>2
  <2> QED BY ONLY <1>6, <2>1, <2>2, Appended
<1>0. PICK new : new = {n}
  OBVIOUS
<1>9. DOMAIN bonuses' \subseteq DOMAIN bonuses \cup new
  BY <1>0, <1>6, <1>7
<1>10. ASSUME NEW i \in DOMAIN bonuses', i # n
       PROVE  /\ ~SameInvitation(bonuses'[i], b)
              /\ Calm' => ~Doubles(bonuses'[i], b)
  <2>1. i \in DOMAIN bonuses /\ bonuses'[i] = bonuses[i]
    BY <1>0, <1>7, <1>9, <1>10
  <2>2. ~SameInvitation(bonuses'[i], b)
    BY <1>3, <1>4 DEF SameInvitation
  <2>3. ASSUME Calm' PROVE ~Doubles(bonuses[i], b)
    <3>1. TierFresh(c)
      BY <1>2, <2>3 DEF TiersInv, TiersCalm, Calm
    <3>2. MissingRow(c.type, c.tier, day) /\ (c.type = "FIRST_DEPOSIT" => RowsOf("FIRST_DEPOSIT") = {})
      BY <1>2, <3>1 DEF TierFresh
    <3> QED BY <1>4, <2>1, <3>2 DEF Doubles, MissingRow, RowsOf
  <2> QED BY <2>1, <2>2, <2>3
<1>11. ASSUME Calm' PROVE b.tier = Rank(b.amount)
  <2>1. TierFresh(c)
    BY <1>2, <1>11 DEF TiersInv, TiersCalm, Calm
  <2> QED BY <1>2, <1>4, <2>1 DEF TierFresh
<1>12. \A i \in DOMAIN bonuses : bonuses'[i] = bonuses[i] /\ paid'[i] = paid[i]
  BY <1>7, <1>8
<1>13. \A i \in new : RowSound(bonuses'[i], paid'[i])
  BY <1>0, <1>4, <1>7, <1>8
<1>14. \A i \in DOMAIN bonuses', j \in new :
         i # j => /\ ~SameInvitation(bonuses'[i], bonuses'[j])
                  /\ Calm' => ~Doubles(bonuses'[i], bonuses'[j])
  BY <1>0, <1>7, <1>10
<1>15. Calm' => \A i \in new : bonuses'[i].tier = Rank(bonuses'[i].amount)
  BY <1>0, <1>7, <1>11
<1>16. (~overlapped' => calls' = {}) /\ UNCHANGED <<tiers, retiered>> /\ calls' \subseteq calls
  BY <1>2
<1>17. Len(paid') = Len(bonuses')
  BY <1>7, <1>8
<1> QED BY ONLY TiersInv, DeskStep, scheme \in Types, <1>7, <1>8, <1>9, <1>12, <1>13, <1>14, <1>15,
                <1>16, <1>17, TiersGrow

--------------------------------------------------------------------------------
\* The new rows take the eligible tiers that have none, each once.
LEMMA NewInvitations ==
  ASSUME NEW new, IsFiniteSet(new), new \subseteq [tier : Nat, level : Levels],
         \A e, f \in new : e.tier = f.tier => e = f,
         NEW nth,
         \A i \in 1 .. Cardinality(new) :
           nth[i] = CHOOSE e \in new : Cardinality({f \in new : f.tier < e.tier}) = i - 1
  PROVE  \A i \in 1 .. Cardinality(new) :
           /\ nth[i] \in new
           /\ \A j \in 1 .. Cardinality(new) : i # j => nth[i].tier # nth[j].tier
<1>1. PICK v : v = [e \in new |-> e.tier]
  OBVIOUS
<1>2. v \in [new -> Int] /\ \A e \in new : v[e] = e.tier
  BY <1>1
<1>3. \A i \in 1 .. Cardinality(new) : \E e \in new : Cardinality({f \in new : v[f] < v[e]}) = i - 1
  <2>1. \A e, f \in new : v[e] = v[f] => e = f
    BY <1>2
  <2> QED BY ONLY <1>2, <2>1, EveryRank, IsFiniteSet(new)
<1>4. ASSUME NEW e \in new PROVE {f \in new : v[f] < v[e]} = {f \in new : f.tier < e.tier}
  BY <1>2
<1>5. ASSUME NEW i \in 1 .. Cardinality(new)
      PROVE  nth[i] \in new /\ Cardinality({f \in new : f.tier < nth[i].tier}) = i - 1
  <2>1. \E e \in new : Cardinality({f \in new : f.tier < e.tier}) = i - 1
    <3>1. PICK e \in new : Cardinality({f \in new : v[f] < v[e]}) = i - 1
      BY <1>3
    <3>2. Cardinality({f \in new : f.tier < e.tier}) = i - 1
      BY <1>4, <3>1
    <3> QED BY <3>2
  <2>2. nth[i] = CHOOSE e \in new : Cardinality({f \in new : f.tier < e.tier}) = i - 1
    OBVIOUS
  <2> QED BY ONLY <2>1, <2>2, Zenon
<1>6. ASSUME NEW i \in 1 .. Cardinality(new), NEW j \in 1 .. Cardinality(new), nth[i].tier = nth[j].tier
      PROVE  i = j
  <2>1. {f \in new : f.tier < nth[i].tier} = {f \in new : f.tier < nth[j].tier}
    BY <1>6
  <2>2. i - 1 = j - 1
    BY <1>5, <2>1
  <2>3. Cardinality(new) \in Nat
    BY FS_CardinalityType
  <2> QED BY <2>2, <2>3
<1> QED BY <1>5, <1>6

LEMMA InvitationCreates ==
  ASSUME DeskInv, TiersInv, DeskStep, scheme \in Types, NEW c \in calls, InvitationCreate(c)
  PROVE  TiersInv'
<1> DEFINE new == {e \in c.eligible : NotYetGiven(e)}
           pick(i) == CHOOSE e \in new : Cardinality({f \in new : f.tier < e.tier}) = i - 1
           rows == [i \in 1 .. Cardinality(new) |-> Bonus("INVITATION", pick(i).tier, pick(i).level, day)]
           zeros == [i \in DOMAIN rows |-> 0]
           nth == [i \in 1 .. Cardinality(new) |-> pick(i)]
<1>1. /\ c.pc = "invitation create" /\ bonuses' = bonuses \o rows /\ paid' = paid \o zeros
      /\ (IF rows = <<>> THEN Drop(c) ELSE Finish(c)) /\ UNCHANGED <<tiers, retiered>>
  BY DEF InvitationCreate
<1>2. /\ IsFiniteSet(c.eligible) /\ c.eligible \subseteq [tier : Nat, level : Levels]
      /\ \A e, f \in c.eligible : e.tier = f.tier => e = f
  BY <1>1 DEF TiersInv, TierCall
<1>3. /\ new \subseteq c.eligible /\ new \subseteq [tier : Nat, level : Levels]
      /\ \A e \in new : NotYetGiven(e)
      /\ \A e, f \in new : e.tier = f.tier => e = f
  BY <1>2
<1>4. \A i \in 1 .. Cardinality(new) :
        nth[i] = CHOOSE e \in new : Cardinality({f \in new : f.tier < e.tier}) = i - 1
  <2> HIDE DEF new
  <2> QED OBVIOUS
<1>5. \A i \in 1 .. Cardinality(new) :
        zeros[i] = 0 /\ rows[i] = Bonus("INVITATION", nth[i].tier, nth[i].level, day)
  <2> HIDE DEF new, pick
  <2> QED OBVIOUS
<1>6. rows = [i \in 1 .. Cardinality(new) |-> rows[i]] /\ zeros = [i \in 1 .. Cardinality(new) |-> zeros[i]]
  <2> HIDE DEF new, pick
  <2> QED OBVIOUS
<1> HIDE DEF new, pick, rows, zeros, nth
<1>7. IsFiniteSet(new) /\ Cardinality(new) \in Nat
  <2>1. new \in SUBSET c.eligible
    BY <1>3
  <2>2. IsFiniteSet(new)
    BY ONLY <1>2, <2>1, FS_Subset
  <2> QED BY <2>2, FS_CardinalityType
<1>8. \A i \in 1 .. Cardinality(new) :
        nth[i] \in new /\ \A j \in 1 .. Cardinality(new) : i # j => nth[i].tier # nth[j].tier
  BY ONLY <1>3, <1>4, <1>7, NewInvitations
<1>9. ASSUME NEW i \in 1 .. Cardinality(new)
      PROVE  /\ rows[i] \in BonusRow /\ RowSound(rows[i], zeros[i])
             /\ rows[i].type = "INVITATION" /\ rows[i].tier = nth[i].tier
             /\ rows[i].amount = nth[i].level
  <2>1. nth[i].tier \in Nat /\ nth[i].level \in Levels
    BY <1>3, <1>8
  <2>2. "INVITATION" \in Types
    BY DEF Types
  <2>3. zeros[i] = 0 /\ rows[i] = Bonus("INVITATION", nth[i].tier, nth[i].level, day)
    BY <1>5
  <2> QED BY <2>1, <2>2, <2>3, NewBonus
<1>10. rows \in Seq(BonusRow) /\ Len(rows) = Cardinality(new) /\ DOMAIN rows = 1 .. Cardinality(new)
  <2>1. \A i \in 1 .. Cardinality(new) : rows[i] \in BonusRow
    BY <1>9
  <2> QED BY ONLY <1>6, <1>7, <2>1, Tabulated
<1>11. zeros \in Seq(Int) /\ Len(zeros) = Cardinality(new)
  <2>1. \A i \in 1 .. Cardinality(new) : zeros[i] \in Int
    BY <1>5
  <2> QED BY ONLY <1>6, <1>7, <2>1, Tabulated
<1>12. bonuses \in Seq(BonusRow) /\ paid \in Seq(Int) /\ Len(paid) = Len(bonuses)
  BY DEF TiersInv, TiersTyped
<1>13. CASE rows = <<>>
  <2>1. zeros = <<>>
    <3>1. Len(<<>>) = 0
      BY EmptySeq
    <3>2. Len(zeros) = 0
      BY <1>10, <1>11, <1>13, <3>1
    <3> QED BY <1>11, <3>2, EmptySeq
  <2>2. bonuses' = bonuses /\ paid' = paid
    BY <1>1, <1>12, <1>13, <2>1, ConcatEmptySeq
  <2>3. UNCHANGED <<tiers, retiered>> /\ day' = day /\ overlapped' = overlapped /\ calls' \subseteq calls
    BY <1>1, <1>13 DEF Drop, End
  <2>4. \A b : TierFresh(b)' <=> TierFresh(b)
    BY <2>2, <2>3 DEF TierFresh, MissingRow, RowsOf, Rank
  <2>5. Calm' => \A b \in calls' : TierFresh(b)'
    BY <2>3, <2>4 DEF TiersInv, TiersCalm, Calm
  <2>6. \A b \in calls' : TierCall(b)
    BY <2>3 DEF TiersInv
  <2>7. tiers' \in [Types -> SUBSET Levels] /\ retiered' \in BOOLEAN
    BY <2>3 DEF TiersInv, TiersTyped
  <2> QED BY <2>2, <2>3, <2>5, <2>6, <2>7, TiersElsewhere
<1>14. CASE rows # <<>>
  <2>1. calls' \subseteq calls /\ (~overlapped' => ~overlapped /\ calls = {c} /\ calls' = {})
    BY <1>1, <1>14, Alone DEF Finish, End
  <2>2. /\ bonuses' \in Seq(BonusRow) /\ Len(bonuses') = Len(bonuses) + Cardinality(new)
        /\ DOMAIN bonuses = 1 .. Len(bonuses) /\ DOMAIN bonuses' = 1 .. Len(bonuses) + Cardinality(new)
        /\ Len(bonuses) \in Nat
        /\ \A i \in 1 .. Len(bonuses) : bonuses'[i] = bonuses[i]
        /\ \A i \in 1 .. Cardinality(new) : bonuses'[Len(bonuses) + i] = rows[i]
    <3>1. bonuses' = bonuses \o rows
      BY <1>1
    <3>2. bonuses \in Seq(BonusRow) /\ rows \in Seq(BonusRow)
      BY <1>10, <1>12
    <3>3. /\ bonuses \o rows \in Seq(BonusRow) /\ Len(bonuses \o rows) = Len(bonuses) + Len(rows)
          /\ DOMAIN bonuses = 1 .. Len(bonuses) /\ DOMAIN (bonuses \o rows) = 1 .. Len(bonuses) + Len(rows)
          /\ Len(bonuses) \in Nat
          /\ \A i \in 1 .. Len(bonuses) : (bonuses \o rows)[i] = bonuses[i]
          /\ \A i \in 1 .. Len(rows) : (bonuses \o rows)[Len(bonuses) + i] = rows[i]
      BY ONLY <3>2, Concatenated
    <3> QED BY <1>10, <3>1, <3>3
  <2>3. /\ paid' \in Seq(Int) /\ Len(paid') = Len(bonuses) + Cardinality(new)
        /\ \A i \in 1 .. Len(bonuses) : paid'[i] = paid[i]
        /\ \A i \in 1 .. Cardinality(new) : paid'[Len(bonuses) + i] = zeros[i]
    <3>1. paid' = paid \o zeros
      BY <1>1
    <3>2. paid \in Seq(Int) /\ zeros \in Seq(Int)
      BY <1>11, <1>12
    <3>3. /\ paid \o zeros \in Seq(Int) /\ Len(paid \o zeros) = Len(paid) + Len(zeros)
          /\ \A i \in 1 .. Len(paid) : (paid \o zeros)[i] = paid[i]
          /\ \A i \in 1 .. Len(zeros) : (paid \o zeros)[Len(paid) + i] = zeros[i]
      BY ONLY <3>2, Concatenated
    <3> QED BY <1>11, <1>12, <3>1, <3>3
  <2>4. PICK added : added = (Len(bonuses) + 1) .. (Len(bonuses) + Cardinality(new))
    OBVIOUS
  <2>5. ASSUME NEW j \in added
        PROVE  \E k \in 1 .. Cardinality(new) :
                 j = Len(bonuses) + k /\ bonuses'[j] = rows[k] /\ paid'[j] = zeros[k]
    <3>1. j - Len(bonuses) \in 1 .. Cardinality(new) /\ j = Len(bonuses) + (j - Len(bonuses))
      BY <1>7, <2>2, <2>4
    <3> QED BY <2>2, <2>3, <3>1
  <2>6. DOMAIN bonuses' \subseteq DOMAIN bonuses \cup added
    BY <1>7, <2>2, <2>4
  <2>7. \A i \in added : RowSound(bonuses'[i], paid'[i])
    BY <1>9, <2>5
  <2>8. ASSUME NEW i \in DOMAIN bonuses', NEW j \in added, i # j
        PROVE  bonuses'[i].type # "INVITATION" \/ bonuses'[i].tier # bonuses'[j].tier
    <3>1. PICK k \in 1 .. Cardinality(new) : j = Len(bonuses) + k /\ bonuses'[j] = rows[k]
      BY <2>5
    <3>2. nth[k] \in new /\ bonuses'[j].tier = nth[k].tier
      BY <1>8, <1>9, <3>1
    <3>3. CASE i \in added
      <4>1. PICK m \in 1 .. Cardinality(new) : i = Len(bonuses) + m /\ bonuses'[i] = rows[m]
        BY <2>5, <3>3
      <4>2. m # k
        BY <2>8, <3>1, <4>1
      <4>3. bonuses'[i].tier = nth[m].tier
        BY <1>9, <4>1
      <4> QED BY <1>8, <3>2, <4>2, <4>3
    <3>4. CASE i \in DOMAIN bonuses
      <4>1. bonuses'[i] = bonuses[i]
        BY <2>2, <3>4
      <4>2. ~TierRow("INVITATION", nth[k].tier)
        BY <1>3, <3>2 DEF NotYetGiven
      <4> QED BY <3>2, <3>4, <4>1, <4>2 DEF TierRow, RowsOf
    <3> QED BY <2>6, <3>3, <3>4
  <2>9. \A j \in added : bonuses'[j].type = "INVITATION"
    BY <1>9, <2>5
  <2>10. \A i \in DOMAIN bonuses', j \in added :
           i # j => /\ ~SameInvitation(bonuses'[i], bonuses'[j])
                    /\ Calm' => ~Doubles(bonuses'[i], bonuses'[j])
    BY <2>8, <2>9 DEF SameInvitation, Doubles
  <2>11. ASSUME Calm', NEW j \in added PROVE bonuses'[j].tier = Rank(bonuses'[j].amount)
    <3>1. TierFresh(c)
      BY <1>1, <2>1, <2>11 DEF TiersInv, TiersCalm, Calm
    <3>2. PICK k \in 1 .. Cardinality(new) : bonuses'[j] = rows[k]
      BY <2>5
    <3>3. nth[k] \in c.eligible
      BY <1>3, <1>8
    <3> QED BY <1>1, <1>9, <3>1, <3>2, <3>3 DEF TierFresh
  <2>12. \A i \in DOMAIN bonuses : bonuses'[i] = bonuses[i] /\ paid'[i] = paid[i]
    BY <2>2, <2>3
  <2>13. (~overlapped' => calls' = {}) /\ UNCHANGED <<tiers, retiered>> /\ calls' \subseteq calls
    BY <1>1, <2>1
  <2>14. Len(paid') = Len(bonuses')
    BY <2>2, <2>3
  <2> QED BY ONLY TiersInv, DeskStep, scheme \in Types, <2>2, <2>3, <2>6, <2>7, <2>10, <2>11, <2>12, <2>13,
                  <2>14, TiersGrow
<1> QED BY <1>13, <1>14

--------------------------------------------------------------------------------
\* What a step makes of a row, when it writes the status of one.
LEMMA OneRow ==
  ASSUME TiersInv, NEW b \in DOMAIN bonuses, NEW row \in BonusRow, NEW p \in Int,
         RowSound(row, p),
         row.type = bonuses[b].type, row.tier = bonuses[b].tier,
         row.amount = bonuses[b].amount, row.createdAt = bonuses[b].createdAt,
         NEW bs, bs = [i \in DOMAIN bonuses |-> bs[i]],
         \A i \in DOMAIN bonuses : bs[i] = IF i = b THEN row ELSE bonuses[i],
         NEW ps, ps = [i \in DOMAIN paid |-> ps[i]],
         \A i \in DOMAIN paid : ps[i] = IF i = b THEN p ELSE paid[i]
  PROVE  /\ bs \in Seq(BonusRow) /\ Len(bs) = Len(bonuses)
         /\ ps \in Seq(Int) /\ Len(ps) = Len(paid)
         /\ \A i \in DOMAIN bonuses :
              /\ RowSound(bs[i], ps[i])
              /\ bs[i].type = bonuses[i].type /\ bs[i].tier = bonuses[i].tier
              /\ bs[i].amount = bonuses[i].amount /\ bs[i].createdAt = bonuses[i].createdAt
<1>1. bonuses \in Seq(BonusRow) /\ paid \in Seq(Int) /\ Len(paid) = Len(bonuses)
  BY DEF TiersInv, TiersTyped
<1>2. DOMAIN bonuses = 1 .. Len(bonuses) /\ DOMAIN paid = 1 .. Len(paid)
  BY <1>1, LenProperties
<1>3. (\A i \in DOMAIN bonuses : bonuses[i] \in BonusRow) /\ (\A i \in DOMAIN paid : paid[i] \in Int)
  BY <1>1, <1>2, LenProperties
<1>4. bs \in Seq(BonusRow) /\ Len(bs) = Len(bonuses)
  <2>1. \A i \in DOMAIN bonuses : bs[i] \in BonusRow
    BY <1>3
  <2> QED BY <1>1, <2>1, RowByRow
<1>5. ps \in Seq(Int) /\ Len(ps) = Len(paid) /\ DOMAIN paid = DOMAIN bonuses
  <2>1. \A i \in DOMAIN paid : ps[i] \in Int
    BY <1>3
  <2> QED BY <1>1, <1>2, <2>1, RowByRow
<1>6. \A i \in DOMAIN bonuses : RowSound(bonuses[i], paid[i])
  BY DEF TiersInv, RowsSound
<1>7. ASSUME NEW i \in DOMAIN bonuses
      PROVE  /\ RowSound(bs[i], ps[i])
             /\ bs[i].type = bonuses[i].type /\ bs[i].tier = bonuses[i].tier
             /\ bs[i].amount = bonuses[i].amount /\ bs[i].createdAt = bonuses[i].createdAt
  <2>1. CASE i = b
    BY <1>5, <2>1
  <2>2. CASE i # b
    BY <1>5, <1>6, <2>2
  <2> QED BY <2>1, <2>2
<1> QED BY <1>4, <1>5, <1>7

LEMMA RowFacts ==
  ASSUME TiersInv
  PROVE  /\ \A i \in DOMAIN bonuses : bonuses[i] \in BonusRow /\ RowSound(bonuses[i], paid[i])
         /\ DOMAIN paid = DOMAIN bonuses
         /\ bonuses \in Seq(BonusRow) /\ paid \in Seq(Int) /\ Len(paid) = Len(bonuses)
<1>1. bonuses \in Seq(BonusRow) /\ paid \in Seq(Int) /\ Len(paid) = Len(bonuses)
  BY DEF TiersInv, TiersTyped
<1>2. /\ DOMAIN bonuses = 1 .. Len(bonuses) /\ DOMAIN paid = 1 .. Len(paid)
      /\ \A i \in 1 .. Len(bonuses) : bonuses[i] \in BonusRow
  BY <1>1, LenProperties
<1> QED BY <1>1, <1>2 DEF TiersInv, RowsSound

\* A row that is written off or paid out.
LEMMA Uncollecteds ==
  ASSUME TiersInv, DeskInv, NEW b \in DOMAIN bonuses, Uncollected(b)
  PROVE  /\ \A row : row = [bonuses[b] EXCEPT !.status = "EXPIRED"] =>
              /\ row \in BonusRow /\ RowSound(row, 0) /\ paid[b] = 0
              /\ row.type = bonuses[b].type /\ row.tier = bonuses[b].tier
              /\ row.amount = bonuses[b].amount /\ row.createdAt = bonuses[b].createdAt
         /\ ~ExpiredBy(b, day) =>
              \A row : row = [bonuses[b] EXCEPT !.status = "COLLECTED", !.claimAt = day] =>
                /\ row \in BonusRow /\ RowSound(row, 1)
                /\ row.type = bonuses[b].type /\ row.tier = bonuses[b].tier
                /\ row.amount = bonuses[b].amount /\ row.createdAt = bonuses[b].createdAt
<1>1. /\ bonuses[b] \in BonusRow /\ RowSound(bonuses[b], paid[b])
      /\ bonuses[b].status = "COMPLETED_UNCOLLECTED"
  BY RowFacts DEF Uncollected
<1>2. paid[b] = 0 /\ bonuses[b].claimAt <= bonuses[b].expiresAt
      /\ (bonuses[b].type \notin Expiring => bonuses[b].expiresAt = MaxDay + 1)
  BY <1>1 DEF RowSound
<1>3. ASSUME NEW row, row = [bonuses[b] EXCEPT !.status = "EXPIRED"]
      PROVE  /\ row \in BonusRow /\ RowSound(row, 0)
             /\ row.type = bonuses[b].type /\ row.tier = bonuses[b].tier
             /\ row.amount = bonuses[b].amount /\ row.createdAt = bonuses[b].createdAt
  BY <1>1, <1>2, <1>3 DEF BonusRow, BonusStatus, RowSound
<1>4. ASSUME ~ExpiredBy(b, day), NEW row, row = [bonuses[b] EXCEPT !.status = "COLLECTED", !.claimAt = day]
      PROVE  /\ row \in BonusRow /\ RowSound(row, 1)
             /\ row.type = bonuses[b].type /\ row.tier = bonuses[b].tier
             /\ row.amount = bonuses[b].amount /\ row.createdAt = bonuses[b].createdAt
  <2>1. day \in Int /\ day <= MaxDay /\ MaxDay \in Nat /\ bonuses[b].expiresAt \in Int
    BY <1>1, DeskAssumption DEF DeskInv, DeskAssumption, BonusRow
  <2>2. day <= bonuses[b].expiresAt
    <3>1. CASE bonuses[b].type \notin Expiring
      BY <1>2, <2>1, <3>1
    <3>2. CASE bonuses[b].type \in Expiring
      BY <1>4, <2>1, <3>2 DEF ExpiredBy
    <3> QED BY <3>1, <3>2
  <2>3. /\ row \in BonusRow /\ row.status = "COLLECTED" /\ row.claimAt = day
        /\ row.expiresAt = bonuses[b].expiresAt
        /\ row.type = bonuses[b].type /\ row.tier = bonuses[b].tier
        /\ row.amount = bonuses[b].amount /\ row.createdAt = bonuses[b].createdAt
    BY <1>1, <1>4, <2>1 DEF BonusRow, BonusStatus
  <2>4. RowSound(row, 1)
    BY <1>2, <2>2, <2>3 DEF RowSound
  <2> QED BY <2>3, <2>4
<1> QED BY <1>2, <1>3, <1>4

LEMMA ClaimExpires ==
  ASSUME DeskInv, TiersInv, DeskStep, scheme \in Types, NEW c \in calls, ClaimExpire(c)
  PROVE  TiersInv'
<1>1. /\ UNCHANGED <<tiers, retiered, paid>> /\ calls' \subseteq calls /\ (~overlapped' => calls' = {})
      /\ bonuses' = IF Uncollected(c.bonus) THEN [bonuses EXCEPT ![c.bonus] = [@ EXCEPT !.status = "EXPIRED"]] ELSE bonuses
  BY Alone DEF ClaimExpire, Finish, End
<1>2. tiers' \in [Types -> SUBSET Levels] /\ retiered' \in BOOLEAN /\ tiers' = tiers /\ retiered' = retiered
  BY <1>1 DEF TiersInv, TiersTyped
<1>3. CASE bonuses' = bonuses
  BY <1>1, <1>2, <1>3, TiersAtOnce
<1>4. CASE c.bonus \in DOMAIN bonuses /\ Uncollected(c.bonus)
  <2>1. PICK b : b = c.bonus
    OBVIOUS
  <2>2. PICK row : row = [bonuses[b] EXCEPT !.status = "EXPIRED"]
    OBVIOUS
  <2>3. bonuses' = [bonuses EXCEPT ![b] = row]
    BY <1>1, <1>4, <2>1, <2>2
  <2>4. /\ row \in BonusRow /\ RowSound(row, 0) /\ paid[b] = 0
        /\ row.type = bonuses[b].type /\ row.tier = bonuses[b].tier
        /\ row.amount = bonuses[b].amount /\ row.createdAt = bonuses[b].createdAt
    BY <1>4, <2>1, <2>2, Uncollecteds
  <2>5. paid' = [paid EXCEPT ![b] = 0]
    <3>1. paid' = paid /\ paid \in Seq(Int)
      BY <1>1, RowFacts
    <3>2. paid \in [1 .. Len(paid) -> Int]
      BY <3>1, LenProperties
    <3> QED BY <2>4, <3>1, <3>2
  <2>6. /\ bonuses' \in Seq(BonusRow) /\ Len(bonuses') = Len(bonuses)
        /\ paid' \in Seq(Int) /\ Len(paid') = Len(paid)
        /\ \A i \in DOMAIN bonuses :
             /\ RowSound(bonuses'[i], paid'[i])
             /\ bonuses'[i].type = bonuses[i].type /\ bonuses'[i].tier = bonuses[i].tier
             /\ bonuses'[i].amount = bonuses[i].amount /\ bonuses'[i].createdAt = bonuses[i].createdAt
    <3>0. PICK p : p = 0
      OBVIOUS
    <3>1. b \in DOMAIN bonuses /\ p \in Int /\ RowSound(row, p) /\ paid' = [paid EXCEPT ![b] = p]
      BY <1>4, <2>1, <2>4, <2>5, <3>0
    <3>2. PICK bs : bs = bonuses'
      OBVIOUS
    <3>3. PICK ps : ps = paid'
      OBVIOUS
    <3>4. /\ bs = [i \in DOMAIN bonuses |-> bs[i]]
          /\ \A i \in DOMAIN bonuses : bs[i] = IF i = b THEN row ELSE bonuses[i]
          /\ ps = [i \in DOMAIN paid |-> ps[i]]
          /\ \A i \in DOMAIN paid : ps[i] = IF i = b THEN p ELSE paid[i]
      BY <2>3, <3>1, <3>2, <3>3
    <3>5. /\ bs \in Seq(BonusRow) /\ Len(bs) = Len(bonuses)
          /\ ps \in Seq(Int) /\ Len(ps) = Len(paid)
          /\ \A i \in DOMAIN bonuses :
               /\ RowSound(bs[i], ps[i])
               /\ bs[i].type = bonuses[i].type /\ bs[i].tier = bonuses[i].tier
               /\ bs[i].amount = bonuses[i].amount /\ bs[i].createdAt = bonuses[i].createdAt
      BY ONLY TiersInv, <2>4, <3>1, <3>4, OneRow
    <3> QED BY <3>2, <3>3, <3>5
  <2> QED BY ONLY TiersInv, DeskStep, scheme \in Types, <1>1, <2>6, TiersRestate
<1>5. CASE c.bonus \notin DOMAIN bonuses
  <2>1. bonuses \in [DOMAIN bonuses -> BonusRow]
    BY RowFacts, LenProperties
  <2>2. bonuses' = bonuses
    BY <1>1, <1>5, <2>1
  <2> QED BY <1>3, <2>2
<1>6. ~Uncollected(c.bonus) => bonuses' = bonuses
  BY <1>1
<1> QED BY <1>3, <1>4, <1>5, <1>6

LEMMA ClaimCredits ==
  ASSUME DeskInv, TiersInv, DeskStep, scheme \in Types, NEW c \in calls, ClaimCredit(c)
  PROVE  TiersInv'
<1>1. CASE Reservable(c.bonus)
  <2>1. /\ UNCHANGED <<tiers, retiered>> /\ calls' \subseteq calls /\ (~overlapped' => calls' = {})
        /\ bonuses' = [bonuses EXCEPT ![c.bonus] = [@ EXCEPT !.status = "COLLECTED", !.claimAt = day]]
        /\ paid' = [paid EXCEPT ![c.bonus] = @ + 1]
        /\ Uncollected(c.bonus) /\ ~ExpiredBy(c.bonus, day)
    BY <1>1, Alone DEF ClaimCredit, Finish, End, Reservable
  <2>2. CASE c.bonus \in DOMAIN bonuses
    <3>1. PICK b : b = c.bonus
      OBVIOUS
    <3>2. PICK row : row = [bonuses[b] EXCEPT !.status = "COLLECTED", !.claimAt = day]
      OBVIOUS
    <3>3. bonuses' = [bonuses EXCEPT ![b] = row]
      BY <2>1, <2>2, <3>1, <3>2
    <3>4. /\ row \in BonusRow /\ RowSound(row, 1)
          /\ row.type = bonuses[b].type /\ row.tier = bonuses[b].tier
          /\ row.amount = bonuses[b].amount /\ row.createdAt = bonuses[b].createdAt
      BY <2>1, <2>2, <3>1, <3>2, Uncollecteds
    <3>5. paid[b] = 0
      BY <2>1, <2>2, <3>1, Uncollecteds
    <3>6. paid' = [paid EXCEPT ![b] = 1]
      BY <2>1, <3>1, <3>5
    <3>7. /\ bonuses' \in Seq(BonusRow) /\ Len(bonuses') = Len(bonuses)
          /\ paid' \in Seq(Int) /\ Len(paid') = Len(paid)
          /\ \A i \in DOMAIN bonuses :
               /\ RowSound(bonuses'[i], paid'[i])
               /\ bonuses'[i].type = bonuses[i].type /\ bonuses'[i].tier = bonuses[i].tier
               /\ bonuses'[i].amount = bonuses[i].amount /\ bonuses'[i].createdAt = bonuses[i].createdAt
      <4>0. PICK p : p = 1
        OBVIOUS
      <4>1. b \in DOMAIN bonuses /\ p \in Int /\ RowSound(row, p) /\ paid' = [paid EXCEPT ![b] = p]
        BY <2>2, <3>1, <3>4, <3>6, <4>0
      <4>2. PICK bs : bs = bonuses'
        OBVIOUS
      <4>3. PICK ps : ps = paid'
        OBVIOUS
      <4>4. /\ bs = [i \in DOMAIN bonuses |-> bs[i]]
            /\ \A i \in DOMAIN bonuses : bs[i] = IF i = b THEN row ELSE bonuses[i]
            /\ ps = [i \in DOMAIN paid |-> ps[i]]
            /\ \A i \in DOMAIN paid : ps[i] = IF i = b THEN p ELSE paid[i]
        BY <3>3, <4>1, <4>2, <4>3
      <4>5. /\ bs \in Seq(BonusRow) /\ Len(bs) = Len(bonuses)
            /\ ps \in Seq(Int) /\ Len(ps) = Len(paid)
            /\ \A i \in DOMAIN bonuses :
                 /\ RowSound(bs[i], ps[i])
                 /\ bs[i].type = bonuses[i].type /\ bs[i].tier = bonuses[i].tier
                 /\ bs[i].amount = bonuses[i].amount /\ bs[i].createdAt = bonuses[i].createdAt
        BY ONLY TiersInv, <3>4, <4>1, <4>4, OneRow
      <4> QED BY <4>2, <4>3, <4>5
    <3> QED BY ONLY TiersInv, DeskStep, scheme \in Types, <2>1, <3>7, TiersRestate
  <2>3. CASE c.bonus \notin DOMAIN bonuses
    <3>1. bonuses \in [DOMAIN bonuses -> BonusRow] /\ paid \in [DOMAIN paid -> Int] /\ DOMAIN paid = DOMAIN bonuses
      BY RowFacts, LenProperties
    <3>2. bonuses' = bonuses /\ paid' = paid
      BY <2>1, <2>3, <3>1
    <3>3. tiers' \in [Types -> SUBSET Levels] /\ retiered' \in BOOLEAN /\ tiers' = tiers /\ retiered' = retiered
      BY <2>1 DEF TiersInv, TiersTyped
    <3> QED BY <2>1, <3>2, <3>3, TiersAtOnce
  <2> QED BY <2>2, <2>3
<1>2. CASE ~Reservable(c.bonus)
  <2>1. UNCHANGED <<tiers, retiered, bonuses, paid>> /\ day' = day /\ overlapped' = overlapped /\ calls' \subseteq calls
    BY <1>2 DEF ClaimCredit, Drop, End
  <2>2. \A b : TierFresh(b)' <=> TierFresh(b)
    BY <2>1 DEF TierFresh, MissingRow, RowsOf, Rank
  <2>3. Calm' => \A b \in calls' : TierFresh(b)'
    BY <2>1, <2>2 DEF TiersInv, TiersCalm, Calm
  <2>4. \A b \in calls' : TierCall(b)
    BY <2>1 DEF TiersInv
  <2>5. tiers' \in [Types -> SUBSET Levels] /\ retiered' \in BOOLEAN
    BY <2>1 DEF TiersInv, TiersTyped
  <2> QED BY <2>1, <2>3, <2>4, <2>5, TiersElsewhere
<1> QED BY <1>1, <1>2

--------------------------------------------------------------------------------
LEMMA ExpiresOld ==
  ASSUME DeskInv, TiersInv, DeskStep, scheme \in Types, ExpireOldBonuses
  PROVE  TiersInv'
<1> DEFINE out(i) == Uncollected(i) /\ ExpiredBy(i, day)
           row(i) == [bonuses[i] EXCEPT !.status = "EXPIRED"]
<1>1. /\ UNCHANGED <<tiers, retiered, paid>> /\ calls' \subseteq calls /\ (~overlapped' => calls' = {})
      /\ bonuses' = [i \in DOMAIN bonuses |-> IF out(i) THEN row(i) ELSE bonuses[i]]
  BY AloneAtOnce DEF ExpireOldBonuses, AtOnce
<1>2. ASSUME NEW i \in DOMAIN bonuses, out(i)
      PROVE  /\ row(i) \in BonusRow /\ RowSound(row(i), 0) /\ paid[i] = 0
             /\ row(i).type = bonuses[i].type /\ row(i).tier = bonuses[i].tier
             /\ row(i).amount = bonuses[i].amount /\ row(i).createdAt = bonuses[i].createdAt
  BY <1>2, Uncollecteds
<1> HIDE DEF out, row
<1>3. ASSUME NEW i \in DOMAIN bonuses
      PROVE  /\ bonuses'[i] \in BonusRow /\ RowSound(bonuses'[i], paid[i])
             /\ bonuses'[i].type = bonuses[i].type /\ bonuses'[i].tier = bonuses[i].tier
             /\ bonuses'[i].amount = bonuses[i].amount /\ bonuses'[i].createdAt = bonuses[i].createdAt
  <2>1. CASE out(i)
    BY <1>1, <1>2, <2>1
  <2>2. CASE ~out(i)
    BY <1>1, <2>2, RowFacts
  <2> QED BY <2>1, <2>2
<1>4. bonuses' = [i \in DOMAIN bonuses |-> bonuses'[i]]
  BY <1>1
<1>5. bonuses' \in Seq(BonusRow) /\ Len(bonuses') = Len(bonuses)
  <2>1. bonuses \in Seq(BonusRow) /\ \A i \in DOMAIN bonuses : bonuses'[i] \in BonusRow
    BY <1>3, RowFacts
  <2> QED BY ONLY <1>4, <2>1, RowByRow
<1>6. /\ paid' \in Seq(Int) /\ Len(paid') = Len(paid)
      /\ \A i \in DOMAIN bonuses :
           /\ RowSound(bonuses'[i], paid'[i])
           /\ bonuses'[i].type = bonuses[i].type /\ bonuses'[i].tier = bonuses[i].tier
           /\ bonuses'[i].amount = bonuses[i].amount /\ bonuses'[i].createdAt = bonuses[i].createdAt
  BY <1>1, <1>3, RowFacts
<1> QED BY ONLY TiersInv, DeskStep, scheme \in Types, <1>1, <1>5, <1>6, TiersRestate

LEMMA TiersKeeps ==
  ASSUME DeskInv, TiersInv, TierNext
  PROVE  TiersInv'
<1>1. DeskStep /\ scheme \in Types /\ tiers \in [Types -> SUBSET Levels] /\ retiered \in BOOLEAN
  BY TiersDesk DEF TierNext, TiersInv, TiersTyped
<1>2. ASSUME AtOnce \/ NewDay, UNCHANGED <<bonuses, paid, tiers, retiered>> PROVE TiersInv'
  <2>1. calls' \subseteq calls /\ (~overlapped' => calls' = {})
    BY <1>2, AloneAtOnce DEF AtOnce, NewDay
  <2> QED BY <1>1, <1>2, <2>1, TiersAtOnce
<1>3. ASSUME NEW t, Achieve(t) PROVE TiersInv'
  BY <1>2, <1>3 DEF Achieve
<1>4. ASSUME NEW l \in Levels, TierRead(scheme, l) PROVE TiersInv'
  BY <1>1, <1>4, TierReads
<1>5. ASSUME NEW l \in Levels, AdminTier(scheme, l) PROVE TiersInv'
  <2>1. /\ UNCHANGED <<bonuses, paid>> /\ retiered' = TRUE
        /\ tiers' = [tiers EXCEPT ![scheme] = IF l \in @ THEN @ \ {l} ELSE @ \cup {l}]
        /\ calls' \subseteq calls /\ (~overlapped' => calls' = {})
    BY <1>5, AloneAtOnce DEF AdminTier, AtOnce
  <2>2. PICK s : s = IF l \in tiers[scheme] THEN tiers[scheme] \ {l} ELSE tiers[scheme] \cup {l}
    OBVIOUS
  <2>3. s \in SUBSET Levels /\ tiers' = [tiers EXCEPT ![scheme] = s]
    BY <1>1, <2>1, <2>2
  <2>4. tiers' \in [Types -> SUBSET Levels]
    BY <1>1, <2>3
  <2>5. retiered' \in BOOLEAN /\ retiered'
    BY <2>1, Zenon
  <2> QED BY <1>1, <2>1, <2>4, <2>5, TiersAtOnce
<1>6. ASSUME NEW l, Deposit(l) PROVE TiersInv'
  BY <1>2, <1>6 DEF Deposit
<1>7. CASE LoginRead
  <2>1. PICK c : c = [made |-> made, pc |-> "login write", day |-> day,
            loginStreak |-> IF lastLogin >= 0 /\ lastLogin = day - 1 THEN reached["ATTENDENCE"] + 1 ELSE 1]
    OBVIOUS
  <2>2. calls' = calls \cup {c} /\ UNCHANGED tierVars /\ day' = day /\ overlapped' = overlapped
    BY <1>7, <2>1 DEF LoginRead, Begin
  <2>3. TierCall(c) /\ TierFresh(c)
    BY <2>1 DEF TierCall, TierFresh
  <2> QED BY <1>1, <2>2, <2>3, TiersBegin
<1>8. CASE InvitationRead
  BY <1>1, <1>8, InvitationReads
<1>9. CASE FirstDepositRead
  BY <1>1, <1>9, FirstDepositReads
<1>10. CASE ExpireOldBonuses
  BY <1>1, <1>10, ExpiresOld
<1>11. ASSUME NEW i, ClaimRead(i) PROVE TiersInv'
  <2>1. PICK c : c = [made |-> made, pc |-> IF ExpiredBy(i, day) THEN "claim expire" ELSE "claim credit", bonus |-> i]
    OBVIOUS
  <2>2. calls' = calls \cup {c} /\ UNCHANGED tierVars /\ day' = day /\ overlapped' = overlapped
    BY <1>11, <2>1 DEF ClaimRead, Begin
  <2>3. TierCall(c) /\ TierFresh(c)
    BY <2>1 DEF TierCall, TierFresh
  <2> QED BY <1>1, <2>2, <2>3, TiersBegin
<1>12. ASSUME NEW c \in calls, LoginWrite(c) PROVE TiersInv'
  <2>1. /\ UNCHANGED <<bonuses, paid, tiers, retiered>> /\ calls' \subseteq calls /\ (~overlapped' => calls' = {})
    BY <1>12, Alone DEF LoginWrite, Finish, End
  <2> QED BY <1>1, <2>1, TiersAtOnce
<1>13. ASSUME NEW c \in calls, TierStep(c) PROVE TiersInv'
  BY <1>1, <1>12, <1>13, TierCreates, InvitationCreates, ClaimExpires, ClaimCredits DEF TierStep
<1>14. CASE BonusNewDay
  BY <1>2, <1>14 DEF BonusNewDay
<1> QED BY <1>3, <1>4, <1>5, <1>6, <1>7, <1>8, <1>9, <1>10, <1>11, <1>13, <1>14, Zenon DEF TierNext

LEMMA TiersKept == DeskInv /\ TiersInv /\ [Next]_vars => TiersInv'
<1> SUFFICES ASSUME DeskInv, TiersInv, [Next]_vars PROVE TiersInv'
  OBVIOUS
<1>1. DeskStep /\ tiers \in [Types -> SUBSET Levels] /\ retiered \in BOOLEAN
  BY DeskMoves DEF TiersInv, TiersTyped
<1>2. CASE TierNext
  BY <1>2, TiersKeeps
<1>3. ASSUME UNCHANGED tierVars, scheme \notin Types PROVE TiersInv'
  <2>1. UNCHANGED <<bonuses, paid, tiers, retiered>>
    BY <1>3 DEF tierVars
  <2> QED BY <1>1, <1>3, <2>1, TiersElsewhere
<1>4. CASE UNCHANGED vars
  <2>1. UNCHANGED <<bonuses, paid, tiers, retiered>> /\ UNCHANGED <<scheme, day, calls, overlapped>>
    BY <1>4 DEF vars, deskVars, tierVars
  <2>2. \A b : TierFresh(b)' <=> TierFresh(b)
    BY <2>1 DEF TierFresh, MissingRow, RowsOf, Rank
  <2>3. scheme \in Types /\ Calm' => \A b \in calls' : TierFresh(b)'
    BY <2>1, <2>2 DEF TiersInv, TiersCalm, Calm
  <2>4. scheme \in Types => \A b \in calls' : TierCall(b)
    BY <2>1 DEF TiersInv
  <2> QED BY <1>1, <2>1, <2>3, <2>4, TiersElsewhere
<1>5. GiftNext \/ SpinNext \/ SelfRebateNext \/ StreakNext \/ VipNext \/ SalaryNext \/ AutoSalaryNext \/ TeamNext => scheme \notin Types
  BY DEF TeamNext, SalaryNext, AutoSalaryNext, GiftNext, SpinNext, SelfRebateNext, StreakNext, VipNext, Types
<1> QED BY <1>2, <1>3, <1>4, <1>5, Zenon DEF Next

\* A row is credited once and only when it is COLLECTED, never after it expired; no
\* tier of the invitations has two rows, in every interleaving.  Without overlap, and
\* while no admin touches the tiers, no reward is unlocked twice.
THEOREM BonusesPaid == Spec => []BonusesPaidOnce
<1>1. TiersInv => BonusesPaidOnce
  <2> SUFFICES ASSUME TiersInv PROVE BonusesPaidOnce
    OBVIOUS
  <2>1. \A i \in DOMAIN bonuses :
          /\ paid[i] = (IF bonuses[i].status = "COLLECTED" THEN 1 ELSE 0)
          /\ bonuses[i].claimAt <= bonuses[i].expiresAt
    BY DEF TiersInv, RowsSound, RowSound
  <2>2. \A i, j \in RowsOf("INVITATION") : i # j => bonuses[i].tier # bonuses[j].tier
    BY DEF TiersInv, RowsSound, SameInvitation, RowsOf
  <2>3. ASSUME ~overlapped, ~retiered, NEW i \in DOMAIN bonuses, NEW j \in DOMAIN bonuses, SameTier(i, j)
        PROVE  bonuses[i].amount # bonuses[j].amount /\ bonuses[i].type # "FIRST_DEPOSIT"
    <3>1. /\ ~Doubles(bonuses[i], bonuses[j])
          /\ bonuses[i].tier = Rank(bonuses[i].amount) /\ bonuses[j].tier = Rank(bonuses[j].amount)
      BY <2>3 DEF TiersInv, TiersCalm, Calm, SameTier
    <3> QED BY <2>3, <3>1 DEF Doubles, SameTier
  <2> QED BY <2>1, <2>2, <2>3 DEF BonusesPaidOnce
<1>2. DeskInv /\ TiersInv /\ [Next]_vars => TiersInv'
  BY TiersKept
<1> QED BY <1>1, <1>2, TiersStart, DeskHolds, PTL DEF Spec

--------------------------------------------------------------------------------
(* What the deposits earn                                                   *)

\* A larger deposit meets the rules a smaller one meets.
LEMMA ExtraSpinsGrow ==
  ASSUME NEW a \in Int, NEW b \in Int, a <= b
  PROVE  ExtraSpins(a) \in Nat /\ ExtraSpins(b) \in Nat /\ ExtraSpins(a) <= ExtraSpins(b)
<1>1. PICK f : f = [r \in {r \in InviteRules : a >= r.minDeposit} |-> r.spinChances]
  OBVIOUS
<1>2. PICK g : g = [r \in {r \in InviteRules : b >= r.minDeposit} |-> r.spinChances]
  OBVIOUS
<1>3. IsFiniteSet(InviteRules) /\ \A r \in InviteRules : r.minDeposit \in Nat /\ r.spinChances \in Nat
  BY GiftAssumption DEF GiftAssumption
<1>4. DOMAIN f \subseteq DOMAIN g /\ DOMAIN g \in SUBSET InviteRules
  BY <1>1, <1>2, <1>3
<1>5. IsFiniteSet(DOMAIN g)
  BY ONLY <1>3, <1>4, FS_Subset
<1>6. /\ \A x \in DOMAIN g : g[x] \in Nat
      /\ \A x \in DOMAIN f : f[x] \in Nat /\ f[x] <= g[x]
  BY <1>1, <1>2, <1>3
<1>7. SumFunction(f) \in Nat /\ SumFunction(g) \in Nat /\ SumFunction(f) <= SumFunction(g)
  BY ONLY <1>4, <1>5, <1>6, SumGrows
<1> QED BY <1>1, <1>2, <1>7 DEF ExtraSpins

\* What the lucky rules give for a deposit is a number of spins.
LEMMA SpinsForNat ==
  ASSUME NEW rules \in LuckyRules, NEW amount
  PROVE  SpinsFor(amount, rules) \in Nat
<1>1. PICK met : met = {r \in rules : amount >= r.minDeposit}
  OBVIOUS
<1>2. IsFiniteSet(rules) /\ \A r \in rules : r.minDeposit \in Nat /\ r.spinChances \in Nat
  BY GiftAssumption DEF GiftAssumption
<1>3. met \in SUBSET rules /\ IsFiniteSet(met)
  <2>1. met \in SUBSET rules
    BY <1>1
  <2> QED BY <1>2, <2>1, FS_Subset
<1>4. CASE met = {}
  BY <1>1, <1>4 DEF SpinsFor
<1>5. CASE met # {}
  <2>1. PICK v : v = [r \in met |-> r.minDeposit]
    OBVIOUS
  <2>2. \A r \in met : v[r] \in Int /\ v[r] = r.minDeposit
    BY <1>2, <1>3, <2>1
  <2>3. \E m \in met : \A x \in met : v[x] <= v[m]
    BY ONLY <1>3, <1>5, <2>2, LargestValue
  <2>4. \E m \in met : \A x \in met : x.minDeposit <= m.minDeposit
    BY <2>2, <2>3
  <2>5. PICK best : best = CHOOSE r \in met : \A q \in met : q.minDeposit <= r.minDeposit
    OBVIOUS
  <2>6. best \in met
    BY <2>4, <2>5, Zenon
  <2>7. SpinsFor(amount, rules) = best.spinChances
    BY <1>1, <1>5, <2>5 DEF SpinsFor
  <2> QED BY <1>2, <1>3, <2>6, <2>7
<1> QED BY <1>4, <1>5

DepositRow == [amount : Nat, awarded : Int]
AmountOf(ds) == SumFunction([i \in DOMAIN ds |-> ds[i].amount])
EarnedOf(ds) == SumFunction([i \in DOMAIN ds |-> AtLeastZero(ds[i].awarded)])

LEMMA DepositRows ==
  ASSUME NEW ds \in Seq(DepositRow)
  PROVE  /\ IsFiniteSet(DOMAIN ds)
         /\ \A i \in DOMAIN ds : /\ ds[i] \in DepositRow
                                 /\ ds[i].amount \in Nat /\ ds[i].awarded \in Int
                                 /\ AtLeastZero(ds[i].awarded) \in Nat
<1>1. DOMAIN ds = 1 .. Len(ds) /\ Len(ds) \in Nat /\ \A i \in 1 .. Len(ds) : ds[i] \in DepositRow
  BY LenProperties
<1>2. IsFiniteSet(1 .. Len(ds))
  BY <1>1, FS_Interval
<1>3. ASSUME NEW i \in DOMAIN ds
      PROVE  /\ ds[i] \in DepositRow
             /\ ds[i].amount \in Nat /\ ds[i].awarded \in Int
             /\ AtLeastZero(ds[i].awarded) \in Nat
  <2>1. ds[i] \in DepositRow /\ ds[i].amount \in Nat /\ ds[i].awarded \in Int
    BY <1>1 DEF DepositRow
  <2> QED BY <2>1 DEF AtLeastZero
<1> QED BY <1>1, <1>2, <1>3

\* More deposits, or deposits with more spins, add up to more.
LEMMA DepositsGrow ==
  ASSUME NEW ds \in Seq(DepositRow), NEW es \in Seq(DepositRow), DOMAIN ds \subseteq DOMAIN es,
         \A i \in DOMAIN ds : ds[i].amount = es[i].amount /\ AtLeastZero(ds[i].awarded) <= AtLeastZero(es[i].awarded)
  PROVE  /\ AmountOf(ds) \in Nat /\ AmountOf(es) \in Nat /\ AmountOf(ds) <= AmountOf(es)
         /\ EarnedOf(ds) \in Nat /\ EarnedOf(es) \in Nat /\ EarnedOf(ds) <= EarnedOf(es)
<1>1. PICK f : f = [i \in DOMAIN ds |-> ds[i].amount]
  OBVIOUS
<1>2. PICK g : g = [i \in DOMAIN es |-> es[i].amount]
  OBVIOUS
<1>3. PICK p : p = [i \in DOMAIN ds |-> AtLeastZero(ds[i].awarded)]
  OBVIOUS
<1>4. PICK q : q = [i \in DOMAIN es |-> AtLeastZero(es[i].awarded)]
  OBVIOUS
<1>5. /\ IsFiniteSet(DOMAIN es)
      /\ \A i \in DOMAIN es : es[i].amount \in Nat /\ AtLeastZero(es[i].awarded) \in Nat
      /\ \A i \in DOMAIN ds : ds[i].amount \in Nat /\ AtLeastZero(ds[i].awarded) \in Nat
  BY DepositRows
<1>6. SumFunction(f) \in Nat /\ SumFunction(g) \in Nat /\ SumFunction(f) <= SumFunction(g)
  <2>1. /\ IsFiniteSet(DOMAIN g) /\ DOMAIN f \subseteq DOMAIN g
        /\ \A x \in DOMAIN g : g[x] \in Nat
        /\ \A x \in DOMAIN f : f[x] \in Nat /\ f[x] <= g[x]
    BY <1>1, <1>2, <1>5
  <2> QED BY ONLY <2>1, SumGrows
<1>7. SumFunction(p) \in Nat /\ SumFunction(q) \in Nat /\ SumFunction(p) <= SumFunction(q)
  <2>1. /\ IsFiniteSet(DOMAIN q) /\ DOMAIN p \subseteq DOMAIN q
        /\ \A x \in DOMAIN q : q[x] \in Nat
        /\ \A x \in DOMAIN p : p[x] \in Nat /\ p[x] <= q[x]
    BY <1>3, <1>4, <1>5
  <2> QED BY ONLY <2>1, SumGrows
<1> QED BY <1>1, <1>2, <1>3, <1>4, <1>6, <1>7 DEF AmountOf, EarnedOf

\* What the rules of now would give to every deposit: at least what was given.
LEMMA LuckySums ==
  ASSUME deposits \in Seq(DepositRow), luckyRules \in LuckyRules
  PROVE  /\ \A i \in DOMAIN deposits : Stamped(deposits[i]) \in Nat
         /\ LuckyAwarded \in Nat
         /\ {i \in DOMAIN deposits : deposits[i].awarded < 0} = {} => LuckyAwarded = EarnedOf(deposits)
<1>1. ASSUME NEW i \in DOMAIN deposits PROVE Stamped(deposits[i]) \in Nat
  <2>1. deposits[i].awarded \in Int
    BY DepositRows
  <2> QED BY <2>1, SpinsForNat DEF Stamped
<1>2. PICK f : f = [i \in DOMAIN deposits |-> Stamped(deposits[i])]
  OBVIOUS
<1>3. LuckyAwarded = SumFunction(f)
  BY <1>2 DEF LuckyAwarded
<1>4. SumFunction(f) \in Nat
  <2>1. /\ IsFiniteSet(DOMAIN f) /\ DOMAIN f \subseteq DOMAIN f
        /\ \A x \in DOMAIN f : f[x] \in Nat
        /\ \A x \in DOMAIN f : f[x] \in Nat /\ f[x] <= f[x]
    BY <1>1, <1>2, DepositRows
  <2> QED BY ONLY <2>1, SumGrows
<1>5. ASSUME {i \in DOMAIN deposits : deposits[i].awarded < 0} = {}
      PROVE  LuckyAwarded = EarnedOf(deposits)
  <2>1. ASSUME NEW i \in DOMAIN deposits PROVE Stamped(deposits[i]) = AtLeastZero(deposits[i].awarded)
    <3>1. deposits[i].awarded \in Int /\ ~(deposits[i].awarded < 0)
      BY <1>5, DepositRows
    <3> QED BY <3>1 DEF Stamped, AtLeastZero
  <2>2. f = [i \in DOMAIN deposits |-> AtLeastZero(deposits[i].awarded)]
    BY <1>2, <2>1
  <2> QED BY <1>3, <2>2 DEF EarnedOf
<1> QED BY <1>1, <1>3, <1>4, <1>5

--------------------------------------------------------------------------------
(* The wheels                                                               *)

WheelRow ==
  [exists : BOOLEAN, fresh : BOOLEAN, availableSpins : Int, luckyAvailableSpins : Int,
   dailyCumulativeDeposit : Int]

Stamps == UNION {[D -> Int] : D \in SUBSET Nat}

InviteCalls ==
  [made : Nat, pc : {"invite row", "invite spin"}, spin : BOOLEAN, creates : BOOLEAN,
   spins : Int, deposit : Int]
LuckyCalls ==
  [made : Nat, pc : {"lucky stamp", "lucky row", "lucky spin"}, next : {"lucky row", "lucky spin"},
   spin : BOOLEAN, day : Int, creates : BOOLEAN, spins : Int, deposit : Int, stamps : Stamps]
SpinCalls == InviteCalls \cup LuckyCalls

SpinsTyped ==
  /\ wheel \in WheelRow /\ (wheel.fresh => wheel.exists)
  /\ deposits \in Seq(DepositRow)
  /\ luckyRules \in LuckyRules
  /\ used \in [invite : Int, lucky : Int]
  /\ freeSpin \in BOOLEAN
  /\ scheme = "spins" => calls \subseteq SpinCalls

Owed == ExtraSpins(Cumulative) + (IF freeSpin THEN 1 ELSE 0)
Unstamped == {i \in DOMAIN deposits : deposits[i].awarded < 0}

\* What a request has read is still so, and its spins are covered.
SpinRead(c) ==
  /\ c.pc = "invite row" => c.spins = InviteSpins
  /\ c.pc = "invite spin" => wheel.fresh /\ wheel.availableSpins = c.spins
  /\ c.pc = "lucky stamp" =>
       /\ c.day = day
       /\ c.stamps = [i \in Unstamped |-> Stamped(deposits[i])]
       /\ c.spins = AtLeastZero(LuckyAwarded - used.lucky)
       /\ c.next = "lucky spin" => wheel.luckyAvailableSpins = c.spins
  /\ c.pc \in {"lucky row", "lucky spin"} =>
       /\ c.spins >= 0
       /\ c.spins > 0 => c.spins + used.lucky <= EarnedOf(deposits)
  /\ c.pc = "lucky spin" => wheel.luckyAvailableSpins = c.spins

\* What is left and what was used today are covered by the deposits of the day.
Covered ==
  /\ wheel.availableSpins >= 0 /\ wheel.luckyAvailableSpins >= 0
  /\ wheel.fresh => wheel.availableSpins + used.invite <= Owed
  /\ ~wheel.fresh => used.invite = 0
  /\ used.lucky <= EarnedOf(deposits)

SpinsAlone ==
  ~overlapped => Covered /\ (scheme = "spins" => \A c \in calls : SpinRead(c))

SpinsInv == SpinsTyped /\ SpinsAlone

\* The wheels and their numbers are what the variables say.
LEMMA SpinsUnchanged ==
  ASSUME UNCHANGED spinVars
  PROVE  /\ Cumulative' = Cumulative /\ Owed' = Owed /\ Covered' = Covered
         /\ day' = day => \A c : SpinRead(c)' <=> SpinRead(c)
<1>1. UNCHANGED <<wheel, deposits, luckyRules, used, freeSpin>>
  BY DEF spinVars
<1>2. Cumulative' = Cumulative
  BY <1>1 DEF Cumulative
<1>3. Owed' = Owed
  BY <1>1, <1>2 DEF Owed, ExtraSpins
<1>4. Covered' = Covered
  BY <1>1, <1>3 DEF Covered, EarnedOf, AtLeastZero
<1>5. InviteSpins' = InviteSpins
  BY <1>1, <1>2 DEF InviteSpins, InviteLeft, ExtraSpins, AtLeastZero
<1>6. LuckyAwarded' = LuckyAwarded
  BY <1>1 DEF LuckyAwarded, Stamped, SpinsFor
<1>7. Unstamped' = Unstamped /\ \A d : Stamped(d)' = Stamped(d)
  BY <1>1 DEF Unstamped, Stamped, SpinsFor
<1>8. ASSUME day' = day, NEW c PROVE SpinRead(c)' <=> SpinRead(c)
  <2>1. EarnedOf(deposits)' = EarnedOf(deposits)
    BY <1>1 DEF EarnedOf, AtLeastZero
  <2>2. [i \in Unstamped |-> Stamped(deposits[i])]' = [i \in Unstamped |-> Stamped(deposits[i])]
    BY <1>1, <1>7
  <2> QED BY <1>1, <1>5, <1>6, <1>8, <2>1, <2>2 DEF SpinRead, AtLeastZero
<1> QED BY <1>2, <1>3, <1>4, <1>8

LEMMA SpinNumbers ==
  ASSUME SpinsTyped
  PROVE  /\ Cumulative \in Nat /\ ExtraSpins(Cumulative) \in Nat /\ Owed \in Nat
         /\ InviteSpins \in Int /\ LuckyAwarded \in Nat /\ EarnedOf(deposits) \in Nat
         /\ wheel.availableSpins \in Int /\ wheel.luckyAvailableSpins \in Int
         /\ used.invite \in Int /\ used.lucky \in Int
<1>1. /\ wheel.availableSpins \in Int /\ wheel.luckyAvailableSpins \in Int
      /\ used.invite \in Int /\ used.lucky \in Int
      /\ deposits \in Seq(DepositRow) /\ luckyRules \in LuckyRules
  BY DEF SpinsTyped, WheelRow
<1>2. AmountOf(deposits) \in Nat /\ EarnedOf(deposits) \in Nat
  <2>1. \A i \in DOMAIN deposits : AtLeastZero(deposits[i].awarded) <= AtLeastZero(deposits[i].awarded)
    BY <1>1, DepositRows
  <2> QED BY ONLY <1>1, <2>1, DepositsGrow
<1>3. Cumulative \in Nat
  BY <1>2 DEF Cumulative, AmountOf
<1>4. ExtraSpins(Cumulative) \in Nat
  BY <1>3, ExtraSpinsGrow
<1>5. Owed \in Nat
  BY <1>4 DEF Owed
<1>6. InviteSpins \in Int
  BY <1>1, <1>4 DEF InviteSpins, InviteLeft, AtLeastZero
<1>7. LuckyAwarded \in Nat
  BY <1>1, LuckySums
<1> QED BY <1>1, <1>2, <1>3, <1>4, <1>5, <1>6, <1>7

\* The spins of the invite wheel are covered.
LEMMA InviteCovered ==
  ASSUME SpinsTyped, Covered
  PROVE  InviteSpins >= 0 /\ InviteSpins + used.invite <= Owed
<1>1. /\ ExtraSpins(Cumulative) \in Nat /\ wheel.availableSpins \in Int /\ used.invite \in Int
      /\ wheel.availableSpins >= 0
  BY SpinNumbers DEF Covered
<1>2. ExtraSpins(Cumulative) <= Owed /\ Owed \in Int
  BY <1>1, SpinNumbers DEF Owed
<1>3. CASE wheel.fresh
  <2>1. wheel.exists /\ wheel.availableSpins + used.invite <= Owed
    BY <1>3 DEF SpinsTyped, Covered
  <2>2. InviteSpins = InviteLeft
    BY <1>3, <2>1 DEF InviteSpins
  <2>3. PICK k : k = AtLeastZero(ExtraSpins(Cumulative) - used.invite)
    OBVIOUS
  <2>4. k \in Int /\ (k = 0 \/ k + used.invite = ExtraSpins(Cumulative))
    BY <1>1, <2>3 DEF AtLeastZero
  <2>5. InviteLeft = IF k > wheel.availableSpins THEN k ELSE wheel.availableSpins
    BY <2>3 DEF InviteLeft
  <2> QED BY <1>1, <1>2, <2>1, <2>2, <2>4, <2>5
<1>4. CASE ~wheel.fresh
  BY <1>1, <1>2, <1>4 DEF InviteSpins, Covered
<1> QED BY <1>3, <1>4

LEMMA SpinsStart == Init => SpinsInv
<1> SUFFICES ASSUME Init PROVE SpinsInv
  OBVIOUS
<1>1. /\ wheel = NoWheel /\ deposits = <<>> /\ luckyRules = CHOOSE rules \in LuckyRules : TRUE
      /\ used = [invite |-> 0, lucky |-> 0] /\ freeSpin = FALSE /\ calls = {}
  BY DEF Init, DeskInit, SpinsInit
<1>2. FALSE \in BOOLEAN
  OBVIOUS
<1>3. wheel \in WheelRow /\ wheel.fresh = FALSE /\ wheel.availableSpins = 0 /\ wheel.luckyAvailableSpins = 0
  BY <1>1, <1>2 DEF NoWheel, WheelRow
<1>4. used \in [invite : Int, lucky : Int] /\ used.invite = 0 /\ used.lucky = 0
  BY <1>1
<1>5. deposits \in Seq(DepositRow)
  BY <1>1, EmptySeq
<1>6. luckyRules \in LuckyRules
  <2>1. LuckyRules # {}
    BY GiftAssumption DEF GiftAssumption
  <2> QED BY <1>1, <2>1, Zenon
<1>7. freeSpin \in BOOLEAN
  BY <1>1, Zenon
<1>8. SpinsTyped
  BY <1>1, <1>3, <1>4, <1>5, <1>6, <1>7 DEF SpinsTyped
<1>9. Covered
  BY <1>3, <1>4, <1>8, SpinNumbers DEF Covered
<1> QED BY <1>1, <1>8, <1>9 DEF SpinsInv, SpinsAlone

\* Steps that touch no wheel.
LEMMA SpinsElsewhere ==
  ASSUME SpinsInv, DeskStep, UNCHANGED spinVars,
         scheme = "spins" => /\ calls' \subseteq SpinCalls
                             /\ ~overlapped' => \A c \in calls' : SpinRead(c)'
  PROVE  SpinsInv'
<1>1. UNCHANGED <<wheel, deposits, luckyRules, used, freeSpin>> /\ scheme' = scheme
  BY DEF spinVars, DeskStep
<1>2. SpinsTyped'
  BY <1>1 DEF SpinsInv, SpinsTyped
<1>3. SpinsAlone'
  <2> SUFFICES ASSUME ~overlapped' PROVE SpinsAlone!2'
    BY DEF SpinsAlone
  <2>1. ~overlapped /\ Covered
    BY DEF DeskStep, SpinsInv, SpinsAlone
  <2>2. Covered'
    BY <2>1, SpinsUnchanged
  <2> QED BY <1>1, <2>2
<1> QED BY <1>2, <1>3 DEF SpinsInv

\* A request that has read begins, or ends without having written.
LEMMA SpinsQuiet ==
  ASSUME SpinsInv, DeskStep, UNCHANGED spinVars, day' = day, overlapped' = overlapped, scheme = "spins",
         NEW new, calls' \subseteq calls \cup new, new \subseteq SpinCalls,
         ~overlapped => \A c \in new : SpinRead(c)
  PROVE  SpinsInv'
<1>1. calls' \subseteq SpinCalls
  BY DEF SpinsInv, SpinsTyped
<1>2. ASSUME ~overlapped', NEW c \in calls' PROVE SpinRead(c)'
  <2>1. SpinRead(c)
    BY <1>2 DEF SpinsInv, SpinsAlone
  <2> QED BY <2>1, SpinsUnchanged
<1> QED BY <1>1, <1>2, SpinsElsewhere

--------------------------------------------------------------------------------
\* What a written wheel needs, when nothing overlaps, and what a request moves to.
LEMMA SpinsMove ==
  ASSUME SpinsInv, DeskStep, scheme = "spins",
         wheel' \in WheelRow, wheel'.fresh => wheel'.exists,
         deposits' \in Seq(DepositRow), luckyRules' \in LuckyRules,
         used' \in [invite : Int, lucky : Int], freeSpin' \in BOOLEAN,
         NEW new, calls' \subseteq calls \cup new, new \subseteq SpinCalls,
         ~overlapped' => Covered' /\ calls' \subseteq new /\ \A c \in new : SpinRead(c)'
  PROVE  SpinsInv'
<1>1. scheme' = scheme
  BY DEF DeskStep
<1>2. SpinsTyped'
  BY <1>1 DEF SpinsInv, SpinsTyped
<1>3. SpinsAlone'
  BY <1>1 DEF SpinsAlone
<1> QED BY <1>2, <1>3 DEF SpinsInv

LEMMA InviteReads ==
  ASSUME DeskInv, SpinsInv, DeskStep, scheme = "spins", NEW spin \in BOOLEAN, InviteRead(spin)
  PROVE  SpinsInv'
<1>1. PICK pc : pc = IF /\ wheel.exists /\ wheel.fresh
                        /\ wheel.availableSpins = InviteSpins
                        /\ wheel.dailyCumulativeDeposit = Cumulative
                     THEN "invite spin" ELSE "invite row"
  OBVIOUS
<1>2. PICK c : c = [made |-> made, pc |-> pc, spin |-> spin, creates |-> ~wheel.exists,
                    spins |-> InviteSpins, deposit |-> Cumulative]
  OBVIOUS
<1>3. calls' = calls \cup {c} /\ UNCHANGED spinVars /\ day' = day /\ overlapped' = overlapped
  BY <1>1, <1>2 DEF InviteRead, Begin
<1>4. /\ pc \in {"invite row", "invite spin"}
      /\ pc = "invite spin" => wheel.fresh /\ wheel.availableSpins = InviteSpins
  BY <1>1
<1>5. made \in Nat /\ InviteSpins \in Int /\ Cumulative \in Int
  BY SpinNumbers DEF DeskInv, SpinsInv
<1>6. (~wheel.exists) \in BOOLEAN
  BY Zenon
<1>7. c \in InviteCalls /\ c.pc = pc /\ c.spins = InviteSpins
  <2>1. PICK creates \in BOOLEAN : creates = ~wheel.exists
    BY <1>6
  <2>2. c = [made |-> made, pc |-> pc, spin |-> spin, creates |-> creates, spins |-> InviteSpins, deposit |-> Cumulative]
    BY <1>2, <2>1, Zenon
  <2> QED BY <1>4, <1>5, <2>2 DEF InviteCalls
<1>8. SpinRead(c)
  BY <1>4, <1>7 DEF SpinRead
<1>9. PICK new : new = {c}
  OBVIOUS
<1>10. new \subseteq SpinCalls /\ calls' \subseteq calls \cup new /\ \A b \in new : SpinRead(b)
  BY <1>3, <1>7, <1>8, <1>9 DEF SpinCalls
<1> QED BY ONLY SpinsInv, DeskStep, scheme = "spins", <1>3, <1>10, SpinsQuiet

LEMMA InviteRows ==
  ASSUME DeskInv, SpinsInv, DeskStep, scheme = "spins", NEW c \in calls, InviteRow(c)
  PROVE  SpinsInv'
<1>1. CASE Drop(c) /\ UNCHANGED spinVars
  <2>1. PICK new : new = {}
    OBVIOUS
  <2>2. day' = day /\ overlapped' = overlapped /\ calls' \subseteq calls \cup new
    BY <1>1 DEF Drop, End
  <2> QED BY <1>1, <2>1, <2>2, SpinsQuiet
<1>2. CASE ~(c.creates /\ wheel.exists)
  <2>1. /\ wheel' = [wheel EXCEPT !.exists = TRUE, !.fresh = TRUE, !.availableSpins = c.spins,
                                  !.dailyCumulativeDeposit = c.deposit]
        /\ (IF Spins(c) THEN MoveOn(c, "invite spin") ELSE Finish(c))
        /\ deposits' = deposits /\ luckyRules' = luckyRules /\ used' = used /\ freeSpin' = freeSpin
        /\ c.pc = "invite row"
    BY <1>2 DEF InviteRow
  <2>2. c \in InviteCalls
    <3>1. c \in SpinCalls
      BY DEF SpinsInv, SpinsTyped
    <3> QED BY <2>1, <3>1 DEF SpinCalls, LuckyCalls
  <2>3. PICK d : d = [c EXCEPT !.pc = "invite spin"]
    OBVIOUS
  <2>4. d \in InviteCalls /\ d.pc = "invite spin" /\ d.spins = c.spins /\ c.spins \in Int /\ c.deposit \in Int
    BY <2>2, <2>3 DEF InviteCalls
  <2>5. /\ calls' \subseteq (calls \ {c}) \cup {d}
        /\ ~overlapped' => ~overlapped /\ calls = {c} /\ calls' \subseteq {d}
    <3>1. CASE MoveOn(c, "invite spin")
      BY <2>3, <3>1, Alone DEF MoveOn, Move
    <3>2. CASE Finish(c)
      BY <3>2, Alone DEF Finish, End
    <3> QED BY <2>1, <3>1, <3>2
  <2>6. /\ wheel \in WheelRow /\ deposits \in Seq(DepositRow) /\ luckyRules \in LuckyRules
        /\ used \in [invite : Int, lucky : Int] /\ freeSpin \in BOOLEAN
    BY DEF SpinsInv, SpinsTyped
  <2>7. /\ wheel' \in WheelRow /\ wheel'.exists /\ wheel'.fresh
        /\ wheel'.availableSpins = c.spins /\ wheel'.luckyAvailableSpins = wheel.luckyAvailableSpins
    BY <2>1, <2>4, <2>6 DEF WheelRow
  <2>8. ASSUME ~overlapped' PROVE Covered' /\ SpinRead(d)'
    <3>1. Covered /\ SpinRead(c)
      BY <2>5, <2>8 DEF SpinsInv, SpinsAlone
    <3>2. c.spins = InviteSpins
      BY <2>1, <3>1 DEF SpinRead
    <3>3. c.spins >= 0 /\ c.spins + used.invite <= Owed
      BY <3>1, <3>2, InviteCovered DEF SpinsInv
    <3>4. Owed' = Owed /\ EarnedOf(deposits') = EarnedOf(deposits)
      BY <2>1 DEF Owed, Cumulative, ExtraSpins
    <3>5. Covered'
      BY <2>1, <2>7, <3>1, <3>3, <3>4 DEF Covered
    <3>6. SpinRead(d)'
      BY <2>4, <2>7 DEF SpinRead
    <3> QED BY <3>5, <3>6
  <2>9. PICK new : new = {d}
    OBVIOUS
  <2>10. /\ calls' \subseteq calls \cup new /\ new \subseteq SpinCalls
         /\ ~overlapped' => Covered' /\ calls' \subseteq new /\ \A b \in new : SpinRead(b)'
    BY <2>4, <2>5, <2>8, <2>9 DEF SpinCalls
  <2>11. /\ wheel' \in WheelRow /\ (wheel'.fresh => wheel'.exists)
         /\ deposits' \in Seq(DepositRow) /\ luckyRules' \in LuckyRules
         /\ used' \in [invite : Int, lucky : Int] /\ freeSpin' \in BOOLEAN
    BY <2>1, <2>6, <2>7
  <2> QED BY ONLY SpinsInv, DeskStep, scheme = "spins", <2>10, <2>11, SpinsMove
<1> QED BY <1>1, <1>2 DEF InviteRow

LEMMA InviteSpinsOne ==
  ASSUME DeskInv, SpinsInv, DeskStep, scheme = "spins", NEW c \in calls, InviteSpin(c)
  PROVE  SpinsInv'
<1>1. CASE ~Spins(c)
  <2>1. PICK new : new = {}
    OBVIOUS
  <2>2. UNCHANGED spinVars /\ day' = day /\ overlapped' = overlapped /\ calls' \subseteq calls \cup new
    BY <1>1 DEF InviteSpin, Drop, End, spinVars
  <2> QED BY <2>1, <2>2, SpinsQuiet
<1>2. CASE Spins(c)
  <2>1. /\ used' = [used EXCEPT !.invite = @ + 1]
        /\ wheel' = [wheel EXCEPT !.availableSpins = @ - 1]
        /\ deposits' = deposits /\ luckyRules' = luckyRules /\ freeSpin' = freeSpin
        /\ c.pc = "invite spin" /\ c.spins > 0
        /\ calls' \subseteq calls /\ (~overlapped' => ~overlapped /\ calls' = {})
    BY <1>2, Alone DEF InviteSpin, Spins, Finish, End
  <2>2. /\ wheel \in WheelRow /\ deposits \in Seq(DepositRow) /\ luckyRules \in LuckyRules
        /\ used \in [invite : Int, lucky : Int] /\ freeSpin \in BOOLEAN
        /\ (wheel.fresh => wheel.exists) /\ c \in SpinCalls
    BY DEF SpinsInv, SpinsTyped
  <2>3. /\ wheel' \in WheelRow /\ wheel'.exists = wheel.exists /\ wheel'.fresh = wheel.fresh
        /\ wheel'.availableSpins = wheel.availableSpins - 1
        /\ wheel'.luckyAvailableSpins = wheel.luckyAvailableSpins
        /\ wheel.availableSpins \in Int /\ c.spins \in Int
    <3>1. wheel.availableSpins \in Int
      BY <2>2 DEF WheelRow
    <3>2. PICK k : k = wheel.availableSpins - 1
      OBVIOUS
    <3>6. k \in Int
      BY <3>1, <3>2
    <3>7. wheel' = [wheel EXCEPT !.availableSpins = k]
      BY <2>1, <3>2, Zenon
    <3>3. k \in Int /\ wheel' = [wheel EXCEPT !.availableSpins = k]
      BY <3>6, <3>7
    <3>4. /\ wheel' \in WheelRow /\ wheel'.exists = wheel.exists /\ wheel'.fresh = wheel.fresh
          /\ wheel'.availableSpins = k /\ wheel'.luckyAvailableSpins = wheel.luckyAvailableSpins
      BY <2>2, <3>3 DEF WheelRow
    <3>5. c.spins \in Int
      BY <2>2 DEF SpinCalls, InviteCalls, LuckyCalls
    <3> QED BY <3>1, <3>2, <3>4, <3>5
  <2>4. /\ used' \in [invite : Int, lucky : Int] /\ used'.invite = used.invite + 1 /\ used'.lucky = used.lucky
        /\ used.invite \in Int
    <3>1. used.invite \in Int
      BY <2>2
    <3>2. PICK k : k = used.invite + 1
      OBVIOUS
    <3>5. k \in Int
      BY <3>1, <3>2
    <3>6. used' = [used EXCEPT !.invite = k]
      BY <2>1, <3>2, Zenon
    <3>3. k \in Int /\ used' = [used EXCEPT !.invite = k]
      BY <3>5, <3>6
    <3>4. used' \in [invite : Int, lucky : Int] /\ used'.invite = k /\ used'.lucky = used.lucky
      BY <2>2, <3>3
    <3> QED BY <3>1, <3>2, <3>4
  <2>5. ASSUME ~overlapped' PROVE Covered'
    <3>1. Covered /\ SpinRead(c)
      BY <2>1, <2>5 DEF SpinsInv, SpinsAlone
    <3>2. wheel.fresh /\ wheel.availableSpins = c.spins
      BY <2>1, <3>1 DEF SpinRead
    <3>3. Owed' = Owed /\ EarnedOf(deposits') = EarnedOf(deposits)
      BY <2>1 DEF Owed, Cumulative, ExtraSpins
    <3>4. wheel'.availableSpins >= 0
      <4>1. c.spins > 0 /\ c.spins \in Int
        BY <2>1, <2>3
      <4>2. wheel'.availableSpins = c.spins - 1
        BY <2>3, <3>2
      <4> QED BY <4>1, <4>2
    <3>5. wheel'.availableSpins + used'.invite = wheel.availableSpins + used.invite
      BY <2>3, <2>4
    <3> QED BY <2>3, <2>4, <3>1, <3>2, <3>3, <3>4, <3>5 DEF Covered
  <2>6. PICK new : new = {}
    OBVIOUS
  <2>7. /\ calls' \subseteq calls \cup new /\ new \subseteq SpinCalls
        /\ ~overlapped' => Covered' /\ calls' \subseteq new /\ \A b \in new : SpinRead(b)'
    BY <2>1, <2>5, <2>6
  <2>8. /\ wheel' \in WheelRow /\ (wheel'.fresh => wheel'.exists)
        /\ deposits' \in Seq(DepositRow) /\ luckyRules' \in LuckyRules
        /\ used' \in [invite : Int, lucky : Int] /\ freeSpin' \in BOOLEAN
    BY <2>1, <2>2, <2>3, <2>4
  <2> QED BY ONLY SpinsInv, DeskStep, scheme = "spins", <2>7, <2>8, SpinsMove
<1> QED BY <1>1, <1>2

--------------------------------------------------------------------------------
LEMMA LuckyReads ==
  ASSUME DeskInv, SpinsInv, DeskStep, scheme = "spins", NEW spin \in BOOLEAN, LuckyRead(spin)
  PROVE  SpinsInv'
<1>1. PICK spins : spins = AtLeastZero(LuckyAwarded - used.lucky)
  OBVIOUS
<1>2. PICK next : next = IF LuckyDiffers(spins) THEN "lucky row" ELSE "lucky spin"
  OBVIOUS
<1>3. PICK pc : pc = IF Unstamped = {} THEN next ELSE "lucky stamp"
  OBVIOUS
<1>4. PICK stamps : stamps = [i \in Unstamped |-> Stamped(deposits[i])]
  OBVIOUS
<1>5. PICK c : c = [made |-> made, pc |-> pc, next |-> next, spin |-> spin, day |-> day,
                    creates |-> ~wheel.exists, spins |-> spins, deposit |-> Cumulative, stamps |-> stamps]
  OBVIOUS
<1>6. calls' = calls \cup {c} /\ UNCHANGED spinVars /\ day' = day /\ overlapped' = overlapped
  BY <1>1, <1>2, <1>3, <1>4, <1>5 DEF LuckyRead, Begin, Unstamped
<1>7. /\ LuckyAwarded \in Nat /\ used.lucky \in Int /\ Cumulative \in Int
      /\ deposits \in Seq(DepositRow) /\ luckyRules \in LuckyRules
  BY SpinNumbers DEF SpinsInv, SpinsTyped
<1>8. spins \in Int /\ spins >= 0 /\ (spins > 0 => spins + used.lucky = LuckyAwarded)
  BY <1>1, <1>7 DEF AtLeastZero
<1>9. stamps \in Stamps
  <2>1. \A i \in DOMAIN deposits : Stamped(deposits[i]) \in Int
    BY <1>7, LuckySums
  <2>2. Unstamped \subseteq DOMAIN deposits /\ DOMAIN deposits \subseteq Nat
    BY <1>7, LenProperties DEF Unstamped
  <2>3. stamps \in [Unstamped -> Int]
    BY <1>4, <2>1, <2>2
  <2> QED BY <2>2, <2>3 DEF Stamps
<1>10. next \in {"lucky row", "lucky spin"} /\ pc \in {"lucky stamp", "lucky row", "lucky spin"}
  BY <1>2, <1>3
<1>11. c \in LuckyCalls /\ c.pc = pc /\ c.spins = spins /\ c.stamps = stamps /\ c.next = next /\ c.day = day
  <2>1. PICK creates \in BOOLEAN : creates = ~wheel.exists
    BY Zenon
  <2>2. c = [made |-> made, pc |-> pc, next |-> next, spin |-> spin, day |-> day,
             creates |-> creates, spins |-> spins, deposit |-> Cumulative, stamps |-> stamps]
    BY <1>5, <2>1, Zenon
  <2>3. made \in Nat /\ day \in Int
    BY DEF DeskInv
  <2> QED BY <1>7, <1>8, <1>9, <1>10, <2>2, <2>3 DEF LuckyCalls
<1>12. next = "lucky spin" => wheel.luckyAvailableSpins = spins
  BY <1>2 DEF LuckyDiffers
<1>13. Unstamped = {} => EarnedOf(deposits) = LuckyAwarded
  BY <1>7, LuckySums DEF Unstamped
<1>14. SpinRead(c)
  <2>1. CASE Unstamped = {}
    <3>1. pc = next
      BY <1>3, <2>1
    <3>2. spins > 0 => spins + used.lucky <= EarnedOf(deposits)
      BY <1>7, <1>8, <1>13, <2>1
    <3> QED BY <1>8, <1>10, <1>11, <1>12, <3>1, <3>2 DEF SpinRead
  <2>2. CASE Unstamped # {}
    <3>1. pc = "lucky stamp"
      BY <1>3, <2>2
    <3> QED BY <1>1, <1>4, <1>11, <1>12, <3>1 DEF SpinRead
  <2> QED BY <2>1, <2>2
<1>15. PICK new : new = {c}
  OBVIOUS
<1>16. new \subseteq SpinCalls /\ calls' \subseteq calls \cup new /\ \A b \in new : SpinRead(b)
  BY <1>6, <1>11, <1>14, <1>15 DEF SpinCalls
<1> QED BY ONLY SpinsInv, DeskStep, scheme = "spins", <1>6, <1>16, SpinsQuiet

LEMMA LuckyStamps ==
  ASSUME DeskInv, SpinsInv, DeskStep, scheme = "spins", NEW c \in calls, LuckyStamp(c)
  PROVE  SpinsInv'
<1> DEFINE row(i) == [deposits[i] EXCEPT !.awarded = c.stamps[i]]
<1>1. /\ c.pc = "lucky stamp" /\ MoveOn(c, c.next)
      /\ deposits' = [i \in DOMAIN deposits |->
                        IF c.day = day /\ i \in DOMAIN c.stamps THEN row(i) ELSE deposits[i]]
      /\ wheel' = wheel /\ luckyRules' = luckyRules /\ used' = used /\ freeSpin' = freeSpin
  BY DEF LuckyStamp
<1>2. /\ wheel \in WheelRow /\ deposits \in Seq(DepositRow) /\ luckyRules \in LuckyRules
      /\ used \in [invite : Int, lucky : Int] /\ freeSpin \in BOOLEAN
      /\ (wheel.fresh => wheel.exists) /\ c \in SpinCalls
  BY DEF SpinsInv, SpinsTyped
<1>3. c \in LuckyCalls
  BY <1>1, <1>2 DEF SpinCalls, InviteCalls
<1>4. PICK d : d = [c EXCEPT !.pc = c.next]
  OBVIOUS
<1>5. /\ d \in LuckyCalls /\ d.pc = c.next /\ d.spins = c.spins /\ c.spins \in Int
      /\ c.stamps \in Stamps /\ c.next \in {"lucky row", "lucky spin"}
  <2>1. /\ c.next \in {"lucky row", "lucky spin"} /\ c.spins \in Int /\ c.stamps \in Stamps
        /\ c.next \in {"lucky stamp", "lucky row", "lucky spin"}
    BY <1>3 DEF LuckyCalls
  <2> QED BY <1>3, <1>4, <2>1 DEF LuckyCalls
<1>6. calls' = (calls \ {c}) \cup {d} /\ (~overlapped' => ~overlapped /\ calls = {c} /\ calls' = {d})
  BY <1>1, <1>4, Alone DEF MoveOn, Move
<1>7. \A i \in DOMAIN c.stamps : c.stamps[i] \in Int
  BY <1>5 DEF Stamps
<1>8. \A i \in DOMAIN deposits : i \in DOMAIN c.stamps =>
         row(i) \in DepositRow /\ row(i).amount = deposits[i].amount /\ row(i).awarded = c.stamps[i]
  BY <1>2, <1>7, DepositRows DEF DepositRow
<1> HIDE DEF row
<1>9. ASSUME NEW i \in DOMAIN deposits
      PROVE  deposits'[i] \in DepositRow /\ deposits'[i].amount = deposits[i].amount
  <2>1. CASE c.day = day /\ i \in DOMAIN c.stamps
    BY <1>1, <1>8, <2>1
  <2>2. CASE ~(c.day = day /\ i \in DOMAIN c.stamps)
    BY <1>1, <1>2, <2>2, DepositRows
  <2> QED BY <2>1, <2>2
<1>10. deposits' \in Seq(DepositRow) /\ DOMAIN deposits' = DOMAIN deposits
  <2>1. deposits \in Seq(DepositRow) /\ \A i \in DOMAIN deposits : deposits'[i] \in DepositRow
    BY <1>2, <1>9
  <2>2. deposits' = [i \in DOMAIN deposits |-> deposits'[i]]
    BY <1>1
  <2> QED BY ONLY <2>1, <2>2, RowByRow
<1>11. ASSUME ~overlapped' PROVE Covered' /\ SpinRead(d)'
  <2>1. /\ Covered
        /\ c.day = day /\ c.stamps = [i \in Unstamped |-> Stamped(deposits[i])]
        /\ c.spins = AtLeastZero(LuckyAwarded - used.lucky)
        /\ c.next = "lucky spin" => wheel.luckyAvailableSpins = c.spins
    BY <1>1, <1>6, <1>11 DEF SpinsInv, SpinsAlone, SpinRead
  <2>2. /\ \A i \in DOMAIN deposits : Stamped(deposits[i]) \in Nat
        /\ LuckyAwarded \in Nat /\ used.lucky \in Int
    BY <1>2, LuckySums
  <2>3. ASSUME NEW i \in DOMAIN deposits
        PROVE  /\ AtLeastZero(deposits'[i].awarded) = Stamped(deposits[i])
               /\ AtLeastZero(deposits[i].awarded) <= AtLeastZero(deposits'[i].awarded)
    <3>1. deposits[i].awarded \in Int /\ Stamped(deposits[i]) \in Nat
      BY <1>2, <2>2, DepositRows
    <3>2. CASE deposits[i].awarded < 0
      <4>1. i \in DOMAIN c.stamps /\ c.stamps[i] = Stamped(deposits[i])
        BY <2>1, <3>2 DEF Unstamped
      <4>2. deposits'[i].awarded = Stamped(deposits[i])
        BY <1>1, <1>8, <2>1, <4>1
      <4> QED BY <3>1, <3>2, <4>2 DEF AtLeastZero
    <3>3. CASE ~(deposits[i].awarded < 0)
      <4>1. i \notin DOMAIN c.stamps
        BY <2>1, <3>3 DEF Unstamped
      <4>2. deposits'[i] = deposits[i]
        BY <1>1, <4>1
      <4>3. Stamped(deposits[i]) = deposits[i].awarded
        BY <3>1, <3>3 DEF Stamped
      <4> QED BY <3>1, <3>3, <4>2, <4>3 DEF AtLeastZero
    <3> QED BY <3>2, <3>3
  <2>4. EarnedOf(deposits') = LuckyAwarded
    <3>1. [i \in DOMAIN deposits' |-> AtLeastZero(deposits'[i].awarded)]
            = [i \in DOMAIN deposits |-> Stamped(deposits[i])]
      BY <1>10, <2>3
    <3> QED BY <3>1 DEF EarnedOf, LuckyAwarded
  <2>5. Cumulative' = Cumulative
    <3>1. [i \in DOMAIN deposits' |-> deposits'[i].amount] = [i \in DOMAIN deposits |-> deposits[i].amount]
      BY <1>9, <1>10
    <3> QED BY <3>1 DEF Cumulative
  <2>6. Owed' = Owed
    BY <1>1, <2>5 DEF Owed, ExtraSpins
  <2>7. EarnedOf(deposits) <= EarnedOf(deposits') /\ EarnedOf(deposits) \in Nat /\ EarnedOf(deposits') \in Nat
    <3>1. /\ deposits \in Seq(DepositRow) /\ deposits' \in Seq(DepositRow) /\ DOMAIN deposits \subseteq DOMAIN deposits'
          /\ \A i \in DOMAIN deposits : /\ deposits[i].amount = deposits'[i].amount
                                        /\ AtLeastZero(deposits[i].awarded) <= AtLeastZero(deposits'[i].awarded)
      BY <1>2, <1>9, <1>10, <2>3
    <3> QED BY ONLY <3>1, DepositsGrow
  <2>8. Covered'
    <3>1. used.lucky <= EarnedOf(deposits')
      <4>1. used.lucky <= EarnedOf(deposits)
        BY <2>1 DEF Covered
      <4> QED BY <2>2, <2>7, <4>1
    <3> QED BY <1>1, <2>1, <2>6, <3>1 DEF Covered
  <2>9. c.spins >= 0 /\ (c.spins > 0 => c.spins + used.lucky <= EarnedOf(deposits'))
    <3>1. PICK u : u = used.lucky
      OBVIOUS
    <3>2. PICK a : a = LuckyAwarded
      OBVIOUS
    <3>3. u \in Int /\ a \in Nat /\ c.spins = AtLeastZero(a - u)
      BY <2>1, <2>2, <3>1, <3>2
    <3>4. c.spins >= 0 /\ (c.spins > 0 => c.spins + u <= a)
      BY ONLY <3>3 DEF AtLeastZero
    <3> QED BY <2>4, <3>1, <3>2, <3>4
  <2>10. SpinRead(d)'
    BY <1>1, <1>5, <2>1, <2>9 DEF SpinRead
  <2> QED BY <2>8, <2>10
<1>12. PICK new : new = {d}
  OBVIOUS
<1>13. /\ calls' \subseteq calls \cup new /\ new \subseteq SpinCalls
       /\ ~overlapped' => Covered' /\ calls' \subseteq new /\ \A b \in new : SpinRead(b)'
  BY <1>5, <1>6, <1>11, <1>12 DEF SpinCalls
<1>14. /\ wheel' \in WheelRow /\ (wheel'.fresh => wheel'.exists)
       /\ deposits' \in Seq(DepositRow) /\ luckyRules' \in LuckyRules
       /\ used' \in [invite : Int, lucky : Int] /\ freeSpin' \in BOOLEAN
  BY <1>1, <1>2, <1>10
<1> QED BY ONLY SpinsInv, DeskStep, scheme = "spins", <1>13, <1>14, SpinsMove

--------------------------------------------------------------------------------
LEMMA LuckyRows ==
  ASSUME DeskInv, SpinsInv, DeskStep, scheme = "spins", NEW c \in calls, LuckyRow(c)
  PROVE  SpinsInv'
<1>1. CASE Drop(c) /\ UNCHANGED spinVars
  <2>1. PICK new : new = {}
    OBVIOUS
  <2>2. day' = day /\ overlapped' = overlapped /\ calls' \subseteq calls \cup new
    BY <1>1 DEF Drop, End
  <2> QED BY <1>1, <2>1, <2>2, SpinsQuiet
<1>2. CASE ~(c.creates /\ wheel.exists)
  <2>1. PICK fresh : fresh = (wheel.fresh \/ c.creates)
    OBVIOUS
  <2>2. PICK spins : spins = IF c.creates THEN 1 ELSE wheel.availableSpins
    OBVIOUS
  <2>3. /\ wheel' = [wheel EXCEPT !.exists = TRUE, !.fresh = fresh, !.availableSpins = spins,
                                  !.luckyAvailableSpins = c.spins, !.dailyCumulativeDeposit = c.deposit]
        /\ freeSpin' = (freeSpin \/ c.creates)
        /\ (IF Spins(c) THEN MoveOn(c, "lucky spin") ELSE Finish(c))
        /\ deposits' = deposits /\ luckyRules' = luckyRules /\ used' = used
        /\ c.pc = "lucky row"
    BY <1>2, <2>1, <2>2, Zenon DEF LuckyRow
  <2>4. /\ wheel \in WheelRow /\ deposits \in Seq(DepositRow) /\ luckyRules \in LuckyRules
        /\ used \in [invite : Int, lucky : Int] /\ freeSpin \in BOOLEAN
        /\ (wheel.fresh => wheel.exists) /\ c \in SpinCalls
    BY DEF SpinsInv, SpinsTyped
  <2>5. c \in LuckyCalls
    BY <2>3, <2>4 DEF SpinCalls, InviteCalls
  <2>6. PICK d : d = [c EXCEPT !.pc = "lucky spin"]
    OBVIOUS
  <2>7. /\ d \in LuckyCalls /\ d.pc = "lucky spin" /\ d.spins = c.spins
        /\ c.spins \in Int /\ c.deposit \in Int
    BY <2>5, <2>6 DEF LuckyCalls
  <2>8. c.creates \in BOOLEAN
    BY <2>5 DEF LuckyCalls
  <2>9. /\ calls' \subseteq (calls \ {c}) \cup {d}
        /\ ~overlapped' => ~overlapped /\ calls = {c} /\ calls' \subseteq {d}
    <3>1. CASE MoveOn(c, "lucky spin")
      BY <2>6, <3>1, Alone DEF MoveOn, Move
    <3>2. CASE Finish(c)
      BY <3>2, Alone DEF Finish, End
    <3> QED BY <2>3, <3>1, <3>2
  <2>10. fresh \in BOOLEAN /\ freeSpin' \in BOOLEAN
    BY <2>1, <2>3, Zenon
  <2>11. wheel.availableSpins \in Int /\ spins \in Int
    <3>1. wheel.availableSpins \in Int
      BY <2>4 DEF WheelRow
    <3> QED BY <2>2, <3>1
  <2>12. /\ wheel' \in WheelRow /\ wheel'.exists /\ wheel'.fresh = fresh
         /\ wheel'.availableSpins = spins /\ wheel'.luckyAvailableSpins = c.spins
    BY <2>3, <2>4, <2>7, <2>10, <2>11 DEF WheelRow
  <2>13. ASSUME ~overlapped' PROVE Covered' /\ SpinRead(d)'
    <3>1. Covered /\ SpinRead(c)
      BY <2>9, <2>13 DEF SpinsInv, SpinsAlone
    <3>2. c.spins >= 0 /\ (c.spins > 0 => c.spins + used.lucky <= EarnedOf(deposits))
      BY <2>3, <3>1 DEF SpinRead
    <3>3. EarnedOf(deposits') = EarnedOf(deposits) /\ ExtraSpins(Cumulative)' = ExtraSpins(Cumulative)
      BY <2>3 DEF Cumulative, ExtraSpins
    <3>4. /\ spins >= 0
          /\ fresh => spins + used.invite <= Owed'
          /\ ~fresh => used.invite = 0
      <4>1. CASE c.creates
        <5>1. ~wheel.fresh /\ spins = 1 /\ fresh /\ freeSpin'
          BY <1>2, <2>1, <2>2, <2>3, <2>4, <4>1
        <5>2. used.invite = 0
          BY <3>1, <5>1 DEF Covered
        <5>3. Owed' = ExtraSpins(Cumulative) + 1 /\ ExtraSpins(Cumulative) \in Nat
          BY <3>3, <5>1, SpinNumbers DEF Owed, SpinsInv
        <5> QED BY <5>1, <5>2, <5>3
      <4>2. CASE ~c.creates
        <5>1. spins = wheel.availableSpins /\ (fresh <=> wheel.fresh) /\ (freeSpin' <=> freeSpin)
          BY <2>1, <2>2, <2>3, <4>2
        <5>2. Owed' = Owed
          BY <3>3, <5>1 DEF Owed
        <5> QED BY <3>1, <5>1, <5>2 DEF Covered
      <4> QED BY <4>1, <4>2
    <3>5. Covered'
      BY <2>3, <2>12, <3>1, <3>2, <3>3, <3>4 DEF Covered
    <3>6. SpinRead(d)'
      BY <2>3, <2>7, <2>12, <3>2, <3>3 DEF SpinRead
    <3> QED BY <3>5, <3>6
  <2>14. PICK new : new = {d}
    OBVIOUS
  <2>15. /\ calls' \subseteq calls \cup new /\ new \subseteq SpinCalls
         /\ ~overlapped' => Covered' /\ calls' \subseteq new /\ \A b \in new : SpinRead(b)'
    BY <2>7, <2>9, <2>13, <2>14 DEF SpinCalls
  <2>16. /\ wheel' \in WheelRow /\ (wheel'.fresh => wheel'.exists)
         /\ deposits' \in Seq(DepositRow) /\ luckyRules' \in LuckyRules
         /\ used' \in [invite : Int, lucky : Int] /\ freeSpin' \in BOOLEAN
    BY <2>3, <2>4, <2>10, <2>12
  <2> QED BY ONLY SpinsInv, DeskStep, scheme = "spins", <2>15, <2>16, SpinsMove
<1> QED BY <1>1, <1>2 DEF LuckyRow

LEMMA LuckySpinsOne ==
  ASSUME DeskInv, SpinsInv, DeskStep, scheme = "spins", NEW c \in calls, LuckySpin(c)
  PROVE  SpinsInv'
<1>1. CASE ~Spins(c)
  <2>1. PICK new : new = {}
    OBVIOUS
  <2>2. UNCHANGED spinVars /\ day' = day /\ overlapped' = overlapped /\ calls' \subseteq calls \cup new
    BY <1>1 DEF LuckySpin, Drop, End, spinVars
  <2> QED BY <2>1, <2>2, SpinsQuiet
<1>2. CASE Spins(c)
  <2>1. /\ used' = [used EXCEPT !.lucky = @ + 1]
        /\ wheel' = [wheel EXCEPT !.luckyAvailableSpins = @ - 1]
        /\ deposits' = deposits /\ luckyRules' = luckyRules /\ freeSpin' = freeSpin
        /\ c.pc = "lucky spin" /\ c.spins > 0
        /\ calls' \subseteq calls /\ (~overlapped' => ~overlapped /\ calls' = {})
    BY <1>2, Alone DEF LuckySpin, Spins, Finish, End
  <2>2. /\ wheel \in WheelRow /\ deposits \in Seq(DepositRow) /\ luckyRules \in LuckyRules
        /\ used \in [invite : Int, lucky : Int] /\ freeSpin \in BOOLEAN
        /\ (wheel.fresh => wheel.exists) /\ c \in SpinCalls
    BY DEF SpinsInv, SpinsTyped
  <2>3. /\ wheel' \in WheelRow /\ wheel'.exists = wheel.exists /\ wheel'.fresh = wheel.fresh
        /\ wheel'.availableSpins = wheel.availableSpins
        /\ wheel'.luckyAvailableSpins = wheel.luckyAvailableSpins - 1
        /\ wheel.luckyAvailableSpins \in Int /\ c.spins \in Int
    <3>1. wheel.luckyAvailableSpins \in Int
      BY <2>2 DEF WheelRow
    <3>2. PICK k : k = wheel.luckyAvailableSpins - 1
      OBVIOUS
    <3>3. k \in Int
      BY <3>1, <3>2
    <3>4. wheel' = [wheel EXCEPT !.luckyAvailableSpins = k]
      BY <2>1, <3>2, Zenon
    <3>5. /\ wheel' \in WheelRow /\ wheel'.exists = wheel.exists /\ wheel'.fresh = wheel.fresh
          /\ wheel'.availableSpins = wheel.availableSpins /\ wheel'.luckyAvailableSpins = k
      BY <2>2, <3>3, <3>4 DEF WheelRow
    <3>6. c.spins \in Int
      BY <2>2 DEF SpinCalls, InviteCalls, LuckyCalls
    <3> QED BY <3>1, <3>2, <3>5, <3>6
  <2>4. /\ used' \in [invite : Int, lucky : Int] /\ used'.lucky = used.lucky + 1 /\ used'.invite = used.invite
        /\ used.lucky \in Int
    <3>1. used.lucky \in Int
      BY <2>2
    <3>2. PICK k : k = used.lucky + 1
      OBVIOUS
    <3>3. k \in Int
      BY <3>1, <3>2
    <3>4. used' = [used EXCEPT !.lucky = k]
      BY <2>1, <3>2, Zenon
    <3>5. used' \in [invite : Int, lucky : Int] /\ used'.lucky = k /\ used'.invite = used.invite
      BY <2>2, <3>3, <3>4
    <3> QED BY <3>1, <3>2, <3>5
  <2>5. ASSUME ~overlapped' PROVE Covered'
    <3>1. Covered /\ SpinRead(c)
      BY <2>1, <2>5 DEF SpinsInv, SpinsAlone
    <3>2. wheel.luckyAvailableSpins = c.spins /\ c.spins + used.lucky <= EarnedOf(deposits)
      BY <2>1, <3>1 DEF SpinRead
    <3>3. Owed' = Owed /\ EarnedOf(deposits') = EarnedOf(deposits)
      BY <2>1 DEF Owed, Cumulative, ExtraSpins
    <3>4. wheel'.luckyAvailableSpins >= 0
      <4>1. c.spins > 0 /\ c.spins \in Int
        BY <2>1, <2>3
      <4>2. wheel'.luckyAvailableSpins = c.spins - 1
        BY <2>3, <3>2
      <4> QED BY <4>1, <4>2
    <3>5. used'.lucky <= EarnedOf(deposits)
      <4>1. c.spins > 0 /\ c.spins \in Int /\ used.lucky \in Int /\ used'.lucky = used.lucky + 1
        BY <2>1, <2>3, <2>4
      <4>2. EarnedOf(deposits) \in Nat
        BY SpinNumbers DEF SpinsInv
      <4> QED BY ONLY <3>2, <4>1, <4>2
    <3> QED BY <2>3, <2>4, <3>1, <3>3, <3>4, <3>5 DEF Covered
  <2>6. PICK new : new = {}
    OBVIOUS
  <2>7. /\ calls' \subseteq calls \cup new /\ new \subseteq SpinCalls
        /\ ~overlapped' => Covered' /\ calls' \subseteq new /\ \A b \in new : SpinRead(b)'
    BY <2>1, <2>5, <2>6
  <2>8. /\ wheel' \in WheelRow /\ (wheel'.fresh => wheel'.exists)
        /\ deposits' \in Seq(DepositRow) /\ luckyRules' \in LuckyRules
        /\ used' \in [invite : Int, lucky : Int] /\ freeSpin' \in BOOLEAN
    BY <2>1, <2>2, <2>3, <2>4
  <2> QED BY ONLY SpinsInv, DeskStep, scheme = "spins", <2>7, <2>8, SpinsMove
<1> QED BY <1>1, <1>2

--------------------------------------------------------------------------------
\* A deposit earns more, and has no lucky spins yet.
LEMMA DepositsCome ==
  ASSUME DeskInv, SpinsInv, DeskStep, scheme = "spins", NEW a \in Deposits, DepositSucceeds(a)
  PROVE  SpinsInv'
<1>1. PICK row : row = [amount |-> a, awarded |-> -1]
  OBVIOUS
<1>2. /\ deposits' = Append(deposits, row)
      /\ wheel' = wheel /\ luckyRules' = luckyRules /\ used' = used /\ freeSpin' = freeSpin
      /\ calls' = calls /\ (~overlapped' => ~overlapped /\ calls = {})
  BY <1>1, AloneAtOnce DEF DepositSucceeds, AtOnce
<1>3. /\ wheel \in WheelRow /\ (wheel.fresh => wheel.exists)
      /\ deposits \in Seq(DepositRow) /\ luckyRules \in LuckyRules
      /\ used \in [invite : Int, lucky : Int] /\ freeSpin \in BOOLEAN
  BY DEF SpinsInv, SpinsTyped
<1>4. row \in DepositRow
  <2>1. a \in Nat
    BY GiftAssumption DEF GiftAssumption
  <2> QED BY <1>1, <2>1 DEF DepositRow
<1>5. PICK more : more = Append(deposits, row)
  OBVIOUS
<1>6. /\ more \in Seq(DepositRow) /\ DOMAIN deposits \subseteq DOMAIN more
      /\ \A i \in DOMAIN deposits : more[i] = deposits[i]
  <2>1. /\ Append(deposits, row) \in Seq(DepositRow) /\ Len(deposits) \in Nat
        /\ DOMAIN deposits = 1 .. Len(deposits) /\ DOMAIN Append(deposits, row) = 1 .. Len(deposits) + 1
        /\ \A i \in 1 .. Len(deposits) : Append(deposits, row)[i] = deposits[i]
    BY ONLY <1>3, <1>4, Appended
  <2> QED BY <1>5, <2>1
<1>7. /\ AmountOf(deposits) \in Nat /\ AmountOf(more) \in Nat /\ AmountOf(deposits) <= AmountOf(more)
      /\ EarnedOf(deposits) \in Nat /\ EarnedOf(more) \in Nat /\ EarnedOf(deposits) <= EarnedOf(more)
  <2>1. \A i \in DOMAIN deposits : /\ deposits[i].amount = more[i].amount
                                   /\ AtLeastZero(deposits[i].awarded) <= AtLeastZero(more[i].awarded)
    BY <1>3, <1>6, DepositRows
  <2> QED BY ONLY <1>3, <1>6, <2>1, DepositsGrow
<1>8. ASSUME ~overlapped' PROVE Covered'
  <2>1. Covered /\ wheel.availableSpins \in Int /\ used.invite \in Int /\ used.lucky \in Int
    BY <1>2, <1>8, SpinNumbers DEF SpinsInv, SpinsAlone
  <2>2. ExtraSpins(Cumulative) <= ExtraSpins(Cumulative)'
    <3>1. PICK m : m = AmountOf(deposits)
      OBVIOUS
    <3>2. PICK n : n = AmountOf(more)
      OBVIOUS
    <3>3. m \in Int /\ n \in Int /\ m <= n
      BY <1>7, <3>1, <3>2
    <3>4. ExtraSpins(m) <= ExtraSpins(n)
      BY ONLY <3>3, ExtraSpinsGrow
    <3>5. Cumulative = m /\ Cumulative' = n
      BY <1>2, <1>5, <3>1, <3>2 DEF Cumulative, AmountOf
    <3> QED BY <3>4, <3>5 DEF ExtraSpins
  <2>3. Owed <= Owed' /\ Owed \in Int /\ Owed' \in Int
    <3>1. ExtraSpins(Cumulative) \in Int
      BY SpinNumbers DEF SpinsInv
    <3>2. ExtraSpins(Cumulative)' \in Int
      <4>1. PICK n : n = AmountOf(more)
        OBVIOUS
      <4>2. ExtraSpins(n) \in Nat
        BY <1>7, <4>1, ExtraSpinsGrow
      <4>3. Cumulative' = n
        BY <1>2, <1>5, <4>1 DEF Cumulative, AmountOf
      <4> QED BY <4>2, <4>3 DEF ExtraSpins
    <3> QED BY <1>2, <2>2, <3>1, <3>2 DEF Owed
  <2>4. EarnedOf(deposits)' = EarnedOf(more)
    BY <1>2, <1>5 DEF EarnedOf, AtLeastZero
  <2>5. wheel.fresh => wheel.availableSpins + used.invite <= Owed'
    BY <2>1, <2>3 DEF Covered
  <2>6. used.lucky <= EarnedOf(more)
    BY <1>7, <2>1 DEF Covered
  <2> QED BY <1>2, <2>1, <2>4, <2>5, <2>6 DEF Covered
<1>9. PICK new : new = {}
  OBVIOUS
<1>10. /\ calls' \subseteq calls \cup new /\ new \subseteq SpinCalls
       /\ ~overlapped' => Covered' /\ calls' \subseteq new /\ \A b \in new : SpinRead(b)'
  BY <1>2, <1>8, <1>9
<1>11. /\ wheel' \in WheelRow /\ (wheel'.fresh => wheel'.exists)
       /\ deposits' \in Seq(DepositRow) /\ luckyRules' \in LuckyRules
       /\ used' \in [invite : Int, lucky : Int] /\ freeSpin' \in BOOLEAN
  BY <1>2, <1>3, <1>5, <1>6
<1> QED BY ONLY SpinsInv, DeskStep, scheme = "spins", <1>10, <1>11, SpinsMove

\* What was earned does not depend on the rules of now.
LEMMA RulesChange ==
  ASSUME DeskInv, SpinsInv, DeskStep, scheme = "spins", NEW rules \in LuckyRules, AdminLuckyRules(rules)
  PROVE  SpinsInv'
<1>1. /\ luckyRules' = rules /\ wheel' = wheel /\ deposits' = deposits /\ used' = used /\ freeSpin' = freeSpin
      /\ calls' = calls /\ (~overlapped' => ~overlapped /\ calls = {})
  BY AloneAtOnce DEF AdminLuckyRules, AtOnce
<1>2. /\ wheel \in WheelRow /\ (wheel.fresh => wheel.exists)
      /\ deposits \in Seq(DepositRow)
      /\ used \in [invite : Int, lucky : Int] /\ freeSpin \in BOOLEAN
  BY DEF SpinsInv, SpinsTyped
<1>3. ASSUME ~overlapped' PROVE Covered'
  <2>1. Covered
    BY <1>1, <1>3 DEF SpinsInv, SpinsAlone
  <2>2. Owed' = Owed
    BY <1>1 DEF Owed, Cumulative, ExtraSpins
  <2>3. EarnedOf(deposits)' = EarnedOf(deposits)
    BY <1>1 DEF EarnedOf, AtLeastZero
  <2> QED BY <1>1, <2>1, <2>2, <2>3 DEF Covered
<1>4. PICK new : new = {}
  OBVIOUS
<1>5. /\ calls' \subseteq calls \cup new /\ new \subseteq SpinCalls
      /\ ~overlapped' => Covered' /\ calls' \subseteq new /\ \A b \in new : SpinRead(b)'
  BY <1>1, <1>3, <1>4
<1>6. /\ wheel' \in WheelRow /\ (wheel'.fresh => wheel'.exists)
      /\ deposits' \in Seq(DepositRow) /\ luckyRules' \in LuckyRules
      /\ used' \in [invite : Int, lucky : Int] /\ freeSpin' \in BOOLEAN
  BY <1>1, <1>2
<1> QED BY ONLY SpinsInv, DeskStep, scheme = "spins", <1>5, <1>6, SpinsMove

\* A new day starts with nothing used, nothing earned, and a wheel to be computed again.
LEMMA DaysBegin ==
  ASSUME DeskInv, SpinsInv, DeskStep, scheme = "spins", SpinNewDay
  PROVE  SpinsInv'
<1>1. /\ deposits' = <<>> /\ used' = [invite |-> 0, lucky |-> 0]
      /\ wheel' = [wheel EXCEPT !.fresh = FALSE]
      /\ freeSpin' = FALSE /\ luckyRules' = luckyRules
      /\ calls' = calls /\ (~overlapped' => ~overlapped /\ calls = {})
  BY AloneAtOnce DEF SpinNewDay, NewDay
<1>2. wheel \in WheelRow /\ luckyRules \in LuckyRules
  BY DEF SpinsInv, SpinsTyped
<1>3. PICK off \in BOOLEAN : off = FALSE
  OBVIOUS
<1>4. /\ wheel' \in WheelRow /\ wheel'.fresh = FALSE
      /\ wheel'.availableSpins = wheel.availableSpins
      /\ wheel'.luckyAvailableSpins = wheel.luckyAvailableSpins
  <2>1. wheel' = [wheel EXCEPT !.fresh = off]
    BY <1>1, <1>3, Zenon
  <2>2. /\ wheel' \in WheelRow /\ wheel'.fresh = off
        /\ wheel'.availableSpins = wheel.availableSpins
        /\ wheel'.luckyAvailableSpins = wheel.luckyAvailableSpins
    BY <1>2, <2>1 DEF WheelRow
  <2> QED BY <1>3, <2>2, Zenon
<1>5. used' \in [invite : Int, lucky : Int] /\ used'.invite = 0 /\ used'.lucky = 0
  BY <1>1
<1>6. PICK none : none = <<>>
  OBVIOUS
<1>7. none \in Seq(DepositRow) /\ deposits' = none
  BY <1>1, <1>6, EmptySeq
<1>8. EarnedOf(none) \in Nat
  <2>1. \A i \in DOMAIN none : /\ none[i].amount = none[i].amount
                               /\ AtLeastZero(none[i].awarded) <= AtLeastZero(none[i].awarded)
    BY <1>7, DepositRows
  <2>2. DOMAIN none \subseteq DOMAIN none
    OBVIOUS
  <2> QED BY ONLY <1>7, <2>1, <2>2, DepositsGrow
<1>9. ASSUME ~overlapped' PROVE Covered'
  <2>1. wheel.availableSpins >= 0 /\ wheel.luckyAvailableSpins >= 0
    BY <1>1, <1>9 DEF SpinsInv, SpinsAlone, Covered
  <2>2. EarnedOf(deposits)' = EarnedOf(none)
    BY <1>7 DEF EarnedOf, AtLeastZero
  <2> QED BY <1>4, <1>5, <1>8, <2>1, <2>2 DEF Covered
<1>10. PICK new : new = {}
  OBVIOUS
<1>11. /\ calls' \subseteq calls \cup new /\ new \subseteq SpinCalls
       /\ ~overlapped' => Covered' /\ calls' \subseteq new /\ \A b \in new : SpinRead(b)'
  BY <1>1, <1>9, <1>10
<1>12. freeSpin' \in BOOLEAN
  BY <1>1, Zenon
<1>13. /\ wheel' \in WheelRow /\ (wheel'.fresh => wheel'.exists)
       /\ deposits' \in Seq(DepositRow) /\ luckyRules' \in LuckyRules
       /\ used' \in [invite : Int, lucky : Int] /\ freeSpin' \in BOOLEAN
  BY <1>1, <1>2, <1>4, <1>5, <1>7, <1>12
<1> QED BY ONLY SpinsInv, DeskStep, scheme = "spins", <1>11, <1>13, SpinsMove

LEMMA SpinsKeeps ==
  ASSUME DeskInv, SpinsInv, SpinNext
  PROVE  SpinsInv'
<1>1. DeskStep /\ scheme = "spins"
  BY SpinsDesk DEF SpinNext
<1>2. ASSUME NEW a \in Deposits, DepositSucceeds(a) PROVE SpinsInv'
  BY <1>1, <1>2, DepositsCome
<1>3. ASSUME NEW spin \in BOOLEAN, InviteRead(spin) \/ LuckyRead(spin) PROVE SpinsInv'
  BY <1>1, <1>3, InviteReads, LuckyReads
<1>4. ASSUME NEW rules \in LuckyRules, AdminLuckyRules(rules) PROVE SpinsInv'
  BY <1>1, <1>4, RulesChange
<1>5. ASSUME NEW c \in calls, SpinStep(c) PROVE SpinsInv'
  BY <1>1, <1>5, InviteRows, InviteSpinsOne, LuckyStamps, LuckyRows, LuckySpinsOne DEF SpinStep
<1>6. SpinNewDay => SpinsInv'
  BY <1>1, DaysBegin
<1> QED BY <1>2, <1>3, <1>4, <1>5, <1>6, Zenon DEF SpinNext

LEMMA SpinsKept == DeskInv /\ SpinsInv /\ [Next]_vars => SpinsInv'
<1> SUFFICES ASSUME DeskInv, SpinsInv, [Next]_vars PROVE SpinsInv'
  OBVIOUS
<1>1. DeskStep
  BY DeskMoves
<1>2. CASE SpinNext
  BY <1>2, SpinsKeeps
<1>3. ASSUME UNCHANGED spinVars, scheme # "spins" PROVE SpinsInv'
  BY <1>1, <1>3, SpinsElsewhere
<1>4. CASE UNCHANGED vars
  <2>1. UNCHANGED spinVars /\ UNCHANGED <<scheme, day, calls, overlapped>>
    BY <1>4 DEF vars, deskVars
  <2>2. \A b : SpinRead(b)' <=> SpinRead(b)
    BY <2>1, SpinsUnchanged
  <2>3. scheme = "spins" => calls' \subseteq SpinCalls /\ (~overlapped' => \A b \in calls' : SpinRead(b)')
    BY <2>1, <2>2 DEF SpinsInv, SpinsTyped, SpinsAlone
  <2> QED BY <1>1, <2>1, <2>3, SpinsElsewhere
<1>5. GiftNext \/ VipNext \/ SelfRebateNext \/ StreakNext \/ SalaryNext \/ AutoSalaryNext \/ TeamNext => scheme # "spins"
  BY DEF TeamNext, SalaryNext, AutoSalaryNext, GiftNext, VipNext, SelfRebateNext, StreakNext
<1>6. TierNext => scheme # "spins"
  BY DEF TierNext, Types
<1> QED BY <1>2, <1>3, <1>4, <1>5, <1>6, Zenon DEF Next

\* Without overlap no more spins are used in a day than its deposits earned: on the
\* invite wheel what all the tiers the sum of the day meets give together, with the one
\* spin of a row the lucky page made; on the lucky wheel what the best tier gave each
\* deposit when it was first seen, whatever the admin makes of the tiers later.
THEOREM SpinsAreEarned == Spec => []SpinsEarned
<1>1. SpinsInv => SpinsEarned
  <2> SUFFICES ASSUME SpinsInv, ~overlapped PROVE SpinsEarned!2
    BY DEF SpinsEarned
  <2>1. Covered /\ SpinsTyped
    BY DEF SpinsInv, SpinsAlone
  <2>2. Owed \in Nat /\ wheel.availableSpins \in Int /\ used.invite \in Int
    BY <2>1, SpinNumbers
  <2>3. used.invite <= Owed
    BY <2>1, <2>2 DEF Covered
  <2>4. used.lucky <= EarnedOf(deposits) /\ wheel.availableSpins >= 0 /\ wheel.luckyAvailableSpins >= 0
    BY <2>1 DEF Covered
  <2> QED BY <2>3, <2>4 DEF Owed, EarnedOf
<1>2. Init => SpinsInv
  BY SpinsStart
<1>3. DeskInv /\ SpinsInv /\ [Next]_vars => SpinsInv'
  BY SpinsKept
<1> QED BY <1>1, <1>2, <1>3, DeskHolds, PTL DEF Spec

--------------------------------------------------------------------------------
(* The salary rule                                                          *)

\* A rule as the database has it.
SalaryRow(r) ==
  /\ r = [life |-> r.life, frequency |-> r.frequency, maxPayments |-> r.maxPayments, paidCount |-> r.paidCount,
          isActive |-> r.isActive, nextPaymentAt |-> r.nextPaymentAt]
  /\ r.maxPayments \in Nat /\ r.paidCount \in Nat /\ r.nextPaymentAt \in Int

\* Every payment was due before the rule is due again, or, when it is over, by then.
Ahead(next) == \A i \in DOMAIN payments : payments[i] < next
Reached(next) == \A i \in DOMAIN payments : payments[i] <= next
Distinct == \A i, j \in DOMAIN payments : i # j => payments[i] # payments[j]

Allowed(max) == mostPaid >= 0 => max > 0 /\ max <= mostPaid

SalaryRule ==
  /\ SalaryRow(rule)
  /\ payments \in Seq(Int) /\ mostPaid \in Int /\ mostPaid >= -1
  /\ rule.paidCount = Len(payments)
  /\ rule.life = "none" => payments = <<>>
  /\ rule.life # "none" => Allowed(rule.maxPayments)
  /\ mostPaid >= 0 => Len(payments) <= mostPaid
  /\ ~reopened => /\ rule.frequency = "DAILY" /\ Distinct /\ Reached(rule.nextPaymentAt)
                  /\ rule.isActive => Ahead(rule.nextPaymentAt)

\* What the job has read of the rule is what its payment needs, whatever an admin
\* has made of the rule since.
SalaryRead(c) ==
  /\ c.pc = "salary pay" /\ SalaryRow(c.rule)
  /\ rule.life # "none"
  /\ c.rule.paidCount = Len(payments) /\ MayStillPay(c.rule)
  /\ Allowed(c.rule.maxPayments)
  /\ ~reopened => c.rule.frequency = "DAILY" /\ Ahead(c.rule.nextPaymentAt)

SalaryInv ==
  /\ SalaryRule
  /\ scheme = "salary" => /\ \A c \in calls : SalaryRead(c)
                          /\ \A a, b \in calls : a = b

LEMMA SalaryStart == Init => SalaryInv
<1> SUFFICES ASSUME Init PROVE SalaryInv
  OBVIOUS
<1>1. rule = NoRule /\ payments = <<>> /\ mostPaid = 0 /\ reopened = FALSE /\ calls = {}
  BY DEF Init, DeskInit, RuleInit
<1>2. payments \in Seq(Int) /\ Len(payments) = 0 /\ DOMAIN payments = {}
  BY <1>1, EmptySeq
<1>3. SalaryRow(rule) /\ rule.life = "none" /\ rule.paidCount = 0 /\ rule.frequency = "DAILY"
  BY <1>1 DEF NoRule, SalaryRow
<1>4. SalaryRule
  BY <1>1, <1>2, <1>3 DEF SalaryRule, Distinct, Reached, Ahead
<1> QED BY <1>1, <1>4 DEF SalaryInv

\* Steps that leave the rule alone, and at most end a request.
LEMMA SalaryElsewhere ==
  ASSUME SalaryInv, DeskStep, UNCHANGED ruleVars, scheme = "salary" => calls' \subseteq calls
  PROVE  SalaryInv'
<1>1. UNCHANGED <<rule, payments, mostPaid, reopened>> /\ scheme' = scheme
  BY DEF ruleVars, DeskStep
<1>2. SalaryRule'
  BY <1>1 DEF SalaryInv, SalaryRule, SalaryRow, Allowed, Distinct, Reached, Ahead
<1>3. \A c : SalaryRead(c) => SalaryRead(c)'
  BY <1>1 DEF SalaryRead, SalaryRow, Allowed, Ahead, MayStillPay
<1> QED BY <1>1, <1>2, <1>3 DEF SalaryInv

LEMMA RuleCreated ==
  ASSUME DeskInv, SalaryInv, DeskStep, scheme = "salary",
         NEW f \in {"DAILY", "ONE_TIME"}, NEW max \in MaxPayments, NEW b \in BOOLEAN, CreateRule(f, max, b)
  PROVE  SalaryInv'
<1>1. max \in Nat /\ day \in Int
  BY SalaryAssumption DEF SalaryAssumption, DeskInv
<1>2. rule.life = "none" /\ calls' = calls /\ scheme' = scheme
  BY DEF CreateRule, AtOnce
<1>3. calls = {}
  BY <1>2 DEF SalaryInv, SalaryRead
<1>4. PICK most : most = IF f = "ONE_TIME" THEN 1 ELSE max
  OBVIOUS
<1>5. most \in Nat /\ mostPaid' = Wider(0, most)
  BY <1>1, <1>4 DEF CreateRule
<1>6. /\ mostPaid' \in Int /\ mostPaid' >= -1
      /\ mostPaid' >= 0 => most > 0 /\ mostPaid' = most
  BY <1>5 DEF Wider
<1>7. CASE f = "ONE_TIME" \/ b
  <2>1. /\ rule' = [life |-> "kept", frequency |-> f, maxPayments |-> most, paidCount |-> 1,
                    isActive |-> f # "ONE_TIME", nextPaymentAt |-> IF f = "ONE_TIME" THEN day ELSE day + 1]
        /\ payments' = <<day>> /\ reopened' = (f = "ONE_TIME")
    BY <1>4, <1>7 DEF CreateRule, NextPayment
  <2>2. SalaryRow(rule)' /\ rule'.life = "kept" /\ rule'.maxPayments = most /\ rule'.paidCount = 1 /\ rule'.frequency = f
    BY <1>1, <1>5, <2>1 DEF SalaryRow
  <2>3. payments' \in Seq(Int) /\ Len(payments') = 1 /\ DOMAIN payments' = {1} /\ payments'[1] = day
    BY <1>1, <2>1
  <2>4. ~reopened' => rule'.frequency = "DAILY" /\ rule'.nextPaymentAt = day + 1
    BY <2>1
  <2>5. ~reopened' => Distinct' /\ Reached(rule.nextPaymentAt)' /\ Ahead(rule.nextPaymentAt)'
    BY <1>1, <2>3, <2>4 DEF Distinct, Reached, Ahead
  <2>6. SalaryRule'
    BY <1>5, <1>6, <2>2, <2>3, <2>4, <2>5 DEF SalaryRule, Allowed
  <2> QED BY <1>2, <1>3, <2>6 DEF SalaryInv
<1>8. CASE ~(f = "ONE_TIME" \/ b)
  <2>1. /\ rule' = [life |-> "kept", frequency |-> f, maxPayments |-> most, paidCount |-> 0,
                    isActive |-> TRUE, nextPaymentAt |-> day]
        /\ payments' = <<>>
    BY <1>4, <1>8 DEF CreateRule
  <2>2. SalaryRow(rule)' /\ rule'.life = "kept" /\ rule'.maxPayments = most /\ rule'.paidCount = 0 /\ rule'.frequency = "DAILY"
    BY <1>1, <1>5, <1>8, <2>1 DEF SalaryRow
  <2>3. payments' \in Seq(Int) /\ Len(payments') = 0 /\ DOMAIN payments' = {}
    BY <2>1, EmptySeq
  <2>4. SalaryRule'
    BY <1>5, <1>6, <2>2, <2>3 DEF SalaryRule, Allowed, Distinct, Reached, Ahead
  <2> QED BY <1>2, <1>3, <2>4 DEF SalaryInv
<1> QED BY <1>7, <1>8

LEMMA RuleUpdated ==
  ASSUME DeskInv, SalaryInv, DeskStep, scheme = "salary",
         NEW f \in {"DAILY", "ONE_TIME"}, NEW max \in MaxPayments, NEW b \in BOOLEAN, UpdateRule(f, max, b)
  PROVE  SalaryInv'
<1>1. /\ rule' = [rule EXCEPT !.frequency = f, !.maxPayments = max, !.isActive = b]
      /\ mostPaid' = Wider(mostPaid, max)
      /\ reopened' = (reopened \/ f = "ONE_TIME" \/ rule.nextPaymentAt \in Range(payments))
      /\ payments' = payments /\ rule.life = "kept" /\ calls' = calls /\ scheme' = scheme
  BY DEF UpdateRule, Kept, AtOnce
<1>2. max \in Nat /\ SalaryRow(rule) /\ payments \in Seq(Int) /\ mostPaid \in Int /\ mostPaid >= -1
  BY SalaryAssumption DEF SalaryAssumption, SalaryInv, SalaryRule
<1>3. /\ SalaryRow(rule)' /\ rule'.life = "kept" /\ rule'.maxPayments = max /\ rule'.frequency = f
      /\ rule'.paidCount = rule.paidCount /\ rule'.nextPaymentAt = rule.nextPaymentAt
  BY <1>1, <1>2 DEF SalaryRow
<1>4. /\ mostPaid' \in Int /\ mostPaid' >= -1
      /\ mostPaid' >= 0 => mostPaid >= 0 /\ mostPaid <= mostPaid' /\ max > 0 /\ max <= mostPaid'
  BY <1>1, <1>2 DEF Wider
<1>5. \A m \in Nat : Allowed(m) => Allowed(m)'
  BY <1>2, <1>4 DEF Allowed
<1>6. ~reopened' => /\ ~reopened /\ f = "DAILY"
                    /\ \A i \in DOMAIN payments : payments[i] # rule.nextPaymentAt
  BY <1>1 DEF Range
<1>7. ~reopened' => Distinct' /\ Reached(rule.nextPaymentAt)' /\ Ahead(rule.nextPaymentAt)'
  <2> SUFFICES ASSUME ~reopened' PROVE Distinct' /\ Reached(rule.nextPaymentAt)' /\ Ahead(rule.nextPaymentAt)'
    OBVIOUS
  <2>1. Distinct /\ Reached(rule.nextPaymentAt)
    BY <1>6 DEF SalaryInv, SalaryRule
  <2>2. rule.nextPaymentAt \in Int /\ \A i \in DOMAIN payments : payments[i] \in Int
    BY <1>2 DEF SalaryRow
  <2>3. Ahead(rule.nextPaymentAt)
    BY <1>6, <2>1, <2>2 DEF Ahead, Reached
  <2> QED BY <1>1, <1>3, <2>1, <2>3 DEF Distinct, Reached, Ahead
<1>8. SalaryRule'
  <2>1. rule.paidCount = Len(payments) /\ (mostPaid >= 0 => Len(payments) <= mostPaid) /\ Len(payments) \in Nat
    BY <1>2 DEF SalaryInv, SalaryRule
  <2>2. mostPaid' >= 0 => Len(payments) <= mostPaid'
    BY <1>2, <1>4, <2>1
  <2>3. mostPaid' >= 0 => rule'.maxPayments > 0 /\ rule'.maxPayments <= mostPaid'
    BY <1>3, <1>4 DEF Allowed
  <2>4. Allowed(rule.maxPayments)'
    BY <2>3 DEF Allowed
  <2> QED BY <1>1, <1>2, <1>3, <1>4, <1>6, <1>7, <2>1, <2>2, <2>4 DEF SalaryRule
<1>9. ASSUME NEW c \in calls PROVE SalaryRead(c)'
  <2>1. SalaryRead(c)
    BY <1>9 DEF SalaryInv
  <2>2. Allowed(c.rule.maxPayments)'
    BY <1>5, <2>1 DEF SalaryRead, SalaryRow
  <2>3. ~reopened' => c.rule.frequency = "DAILY" /\ Ahead(c.rule.nextPaymentAt)
    BY <1>6, <2>1 DEF SalaryRead
  <2> QED BY <1>1, <1>3, <2>1, <2>2, <2>3 DEF SalaryRead, SalaryRow, Ahead, MayStillPay
<1> QED BY <1>1, <1>8, <1>9 DEF SalaryInv

LEMMA RuleDeleted ==
  ASSUME DeskInv, SalaryInv, DeskStep, scheme = "salary", DeleteRule
  PROVE  SalaryInv'
<1>1. /\ rule' = [rule EXCEPT !.life = "deleted"] /\ UNCHANGED <<payments, mostPaid, reopened>>
      /\ rule.life = "kept" /\ calls' = calls /\ scheme' = scheme
  BY DEF DeleteRule, Kept, AtOnce
<1>2. SalaryRow(rule)
  BY DEF SalaryInv, SalaryRule
<1>3. /\ SalaryRow(rule)' /\ rule'.life = "deleted" /\ rule'.maxPayments = rule.maxPayments
      /\ rule'.frequency = rule.frequency /\ rule'.isActive = rule.isActive
      /\ rule'.paidCount = rule.paidCount /\ rule'.nextPaymentAt = rule.nextPaymentAt
  BY <1>1, <1>2 DEF SalaryRow
<1>4. SalaryRule'
  BY <1>1, <1>3 DEF SalaryInv, SalaryRule, Allowed, Distinct, Reached, Ahead
<1>5. \A c : SalaryRead(c) => SalaryRead(c)'
  BY <1>1, <1>3 DEF SalaryRead, SalaryRow, Allowed, Ahead, MayStillPay
<1> QED BY <1>1, <1>4, <1>5 DEF SalaryInv

LEMMA RunReads ==
  ASSUME DeskInv, SalaryInv, DeskStep, scheme = "salary", RunRead
  PROVE  SalaryInv'
<1>1. PICK c : c = [made |-> made, pc |-> "salary pay", rule |-> rule]
  OBVIOUS
<1>2. /\ calls = {} /\ calls' = {c} /\ UNCHANGED <<rule, payments, mostPaid, reopened>> /\ scheme' = scheme
      /\ rule.life = "kept" /\ rule.isActive /\ MayStillPay(rule)
  BY <1>1 DEF RunRead, Begin, DueRule, DueActive, Kept, ruleVars
<1>3. c.pc = "salary pay" /\ c.rule = rule
  BY <1>1
<1>4. SalaryRead(c)
  BY <1>2, <1>3 DEF SalaryInv, SalaryRule, SalaryRead
<1>5. SalaryRead(c)'
  BY <1>2, <1>4 DEF SalaryRead, SalaryRow, Allowed, Ahead, MayStillPay
<1>6. SalaryRule'
  BY <1>2 DEF SalaryInv, SalaryRule, SalaryRow, Allowed, Distinct, Reached, Ahead
<1> QED BY <1>2, <1>5, <1>6 DEF SalaryInv

LEMMA RunPays ==
  ASSUME DeskInv, SalaryInv, DeskStep, scheme = "salary", NEW c \in calls, RunPay(c)
  PROVE  SalaryInv'
<1>1. CASE ~Kept
  BY <1>1, SalaryElsewhere DEF RunPay, Drop, End, ruleVars
<1>2. CASE Kept
  <2>1. PICK done \in BOOLEAN : done = Completed(c.rule)
    BY Zenon DEF Completed
  <2>2. PICK next : next = IF done THEN c.rule.nextPaymentAt ELSE NextPayment(c.rule.nextPaymentAt, c.rule.frequency)
    OBVIOUS
  <2>3. PICK active : active = IF done THEN FALSE ELSE c.rule.isActive
    OBVIOUS
  <2>4. PICK count : count = c.rule.paidCount + 1
    OBVIOUS
  <2>5. rule' = [rule EXCEPT !.paidCount = count, !.isActive = active, !.nextPaymentAt = next]
    BY <1>2, <2>1, <2>2, <2>3, <2>4, Zenon DEF RunPay
  <2>6. /\ payments' = Append(payments, c.rule.nextPaymentAt)
        /\ calls' = calls \ {c} /\ UNCHANGED <<mostPaid, reopened>> /\ scheme' = scheme
    BY <1>2 DEF RunPay, End
  <2>7. /\ SalaryRead(c) /\ SalaryRow(c.rule) /\ SalaryRow(rule) /\ payments \in Seq(Int)
        /\ rule.life # "none" /\ calls' = {} /\ mostPaid \in Int
    BY <2>6 DEF SalaryInv, SalaryRule, SalaryRead
  <2>8. c.rule.nextPaymentAt \in Int /\ c.rule.maxPayments \in Nat /\ c.rule.paidCount = Len(payments)
    BY <2>7 DEF SalaryRow, SalaryRead
  <2>9. /\ payments' \in Seq(Int) /\ Len(payments') = Len(payments) + 1 /\ Len(payments) \in Nat
        /\ DOMAIN payments = 1 .. Len(payments) /\ DOMAIN payments' = 1 .. Len(payments) + 1
        /\ \A i \in 1 .. Len(payments) : payments'[i] = payments[i]
        /\ payments'[Len(payments) + 1] = c.rule.nextPaymentAt
    <3>1. PICK x \in Int : x = c.rule.nextPaymentAt
      BY <2>8
    <3>2. payments' = Append(payments, x)
      BY <2>6, <3>1
    <3> QED BY <2>7, <3>1, <3>2, Appended
  <2>10. count \in Nat /\ next \in Int /\ c.rule.nextPaymentAt <= next
    BY <2>2, <2>4, <2>8, <2>9 DEF NextPayment
  <2>11. /\ SalaryRow(rule)' /\ rule'.life = rule.life /\ rule'.maxPayments = rule.maxPayments
         /\ rule'.frequency = rule.frequency /\ rule'.isActive = active
         /\ rule'.paidCount = count /\ rule'.nextPaymentAt = next
    BY <2>5, <2>7, <2>10 DEF SalaryRow
  <2>12. mostPaid >= 0 => Len(payments) + 1 <= mostPaid
    <3>1. mostPaid >= 0 => c.rule.maxPayments > 0 /\ c.rule.maxPayments <= mostPaid
      BY <2>7 DEF SalaryRead, Allowed
    <3>2. c.rule.maxPayments > 0 => Len(payments) < c.rule.maxPayments
      BY <2>7, <2>8 DEF SalaryRead, MayStillPay
    <3> QED BY <2>7, <2>8, <2>9, <3>1, <3>2
  <2>13. ASSUME ~reopened'
         PROVE  /\ rule'.frequency = "DAILY" /\ Distinct' /\ Reached(rule.nextPaymentAt)'
                /\ rule'.isActive => Ahead(rule.nextPaymentAt)'
    <3>1. rule.frequency = "DAILY" /\ Distinct /\ c.rule.frequency = "DAILY" /\ Ahead(c.rule.nextPaymentAt)
      BY <2>6, <2>7, <2>13 DEF SalaryInv, SalaryRule, SalaryRead
    <3>2. \A i \in 1 .. Len(payments) : payments'[i] < c.rule.nextPaymentAt /\ payments'[i] \in Int
      BY <2>7, <2>9, <3>1 DEF Ahead
    <3>3. \A i \in 1 .. Len(payments) + 1 : payments'[i] <= c.rule.nextPaymentAt /\ payments'[i] \in Int
      BY <2>8, <2>9, <3>2
    <3>4. Reached(next)'
      BY <2>8, <2>9, <2>10, <3>3 DEF Reached
    <3>5. Distinct'
      BY <2>8, <2>9, <3>1, <3>2 DEF Distinct
    <3>6. active => Ahead(next)'
      <4>1. active => next = c.rule.nextPaymentAt + 1
        BY <2>1, <2>2, <2>3, <3>1 DEF NextPayment
      <4> QED BY <2>8, <2>9, <3>3, <4>1 DEF Ahead
    <3> QED BY <2>11, <3>1, <3>4, <3>5, <3>6 DEF Reached, Ahead
  <2>14. SalaryRule'
    <3>1. rule'.paidCount = Len(payments')
      BY <2>4, <2>8, <2>9, <2>11
    <3>2. Allowed(rule.maxPayments) /\ mostPaid >= -1
      BY <2>7 DEF SalaryInv, SalaryRule
    <3>3. mostPaid' >= 0 => rule'.maxPayments > 0 /\ rule'.maxPayments <= mostPaid'
      BY <2>6, <2>11, <3>2 DEF Allowed
    <3>4. mostPaid' >= 0 => Len(payments') <= mostPaid'
      BY <2>6, <2>9, <2>12
    <3>5. Allowed(rule.maxPayments)'
      BY <3>3 DEF Allowed
    <3>6. rule'.life # "none"
      BY <2>7, <2>11
    <3> QED BY <2>6, <2>7, <2>9, <2>11, <2>13, <3>1, <3>2, <3>4, <3>5, <3>6 DEF SalaryRule
  <2> QED BY <2>6, <2>7, <2>14 DEF SalaryInv
<1> QED BY <1>1, <1>2

LEMMA SalaryKept == DeskInv /\ SalaryInv /\ [Next]_vars => SalaryInv'
<1> SUFFICES ASSUME DeskInv, SalaryInv, [Next]_vars PROVE SalaryInv'
  OBVIOUS
<1>1. DeskStep
  BY DeskMoves
<1>2. CASE SalaryNext
  <2>1. scheme = "salary"
    BY <1>2 DEF SalaryNext
  <2>2. ASSUME NEW f \in {"DAILY", "ONE_TIME"}, NEW max \in MaxPayments, NEW b \in BOOLEAN,
               CreateRule(f, max, b) \/ UpdateRule(f, max, b)
        PROVE  SalaryInv'
    BY <1>1, <2>1, <2>2, RuleCreated, RuleUpdated
  <2>3. DeleteRule => SalaryInv'
    BY <1>1, <2>1, RuleDeleted
  <2>4. RunRead => SalaryInv'
    BY <1>1, <2>1, RunReads
  <2>5. ASSUME NEW c \in calls, RunPay(c) PROVE SalaryInv'
    BY <1>1, <2>1, <2>5, RunPays
  <2>6. ASSUME NEW c \in calls, RunFails(c) PROVE SalaryInv'
    BY <1>1, <2>6, SalaryElsewhere DEF RunFails, Drop, End
  <2>7. NewDay /\ UNCHANGED ruleVars => SalaryInv'
    BY <1>1, SalaryElsewhere DEF NewDay
  <2> QED BY <1>2, <2>2, <2>3, <2>4, <2>5, <2>6, <2>7, Zenon DEF SalaryNext
<1>3. ASSUME UNCHANGED ruleVars, scheme # "salary" PROVE SalaryInv'
  BY <1>1, <1>3, SalaryElsewhere
<1>4. ASSUME UNCHANGED vars PROVE SalaryInv'
  <2>1. UNCHANGED ruleVars /\ calls' = calls
    BY <1>4 DEF vars, deskVars
  <2> QED BY <1>1, <2>1, SalaryElsewhere
<1>5. GiftNext \/ SpinNext \/ SelfRebateNext \/ StreakNext \/ VipNext \/ AutoSalaryNext \/ TeamNext => scheme # "salary"
  BY DEF TeamNext, GiftNext, SpinNext, SelfRebateNext, StreakNext, VipNext, AutoSalaryNext
<1>6. TierNext => scheme # "salary"
  BY DEF TierNext, Types
<1> QED BY <1>2, <1>3, <1>4, <1>5, <1>6, Zenon DEF Next

--------------------------------------------------------------------------------
(* The claim of the automatic salary                                        *)

\* Without overlap, what a request has read of the claim is still so.
SalaryClaimRead(c) ==
  /\ c.amount \in Int
  /\ c.pc = "claim write" => claim.status # "APPROVED"
  /\ c.pc \in {"APPROVED", "REJECTED"} => claim.status = "PENDING" /\ c.amount = claim.amount

ClaimInv ==
  ~overlapped =>
    /\ claim = [status |-> claim.status, amount |-> claim.amount] /\ claim.amount \in Int
    /\ autoPaid = (IF claim.status = "APPROVED" THEN <<claim.amount>> ELSE <<>>)
    /\ scheme = "auto-salary" => \A c \in calls : SalaryClaimRead(c)

LEMMA ClaimStart == Init => ClaimInv
<1> SUFFICES ASSUME Init PROVE ClaimInv
  OBVIOUS
<1>1. claim = NoClaim /\ autoPaid = <<>> /\ calls = {}
  BY DEF Init, DeskInit, ClaimInit
<1> QED BY <1>1 DEF NoClaim, ClaimInv

LEMMA ClaimElsewhere ==
  ASSUME ClaimInv, DeskStep, UNCHANGED <<claim, autoPaid>>,
         scheme = "auto-salary" /\ ~overlapped' => calls' \subseteq calls
  PROVE  ClaimInv'
<1>1. (~overlapped' => ~overlapped) /\ scheme' = scheme
  BY DEF DeskStep
<1>2. \A c : SalaryClaimRead(c) => SalaryClaimRead(c)'
  BY DEF SalaryClaimRead
<1> QED BY <1>1, <1>2 DEF ClaimInv

\* A request is written alone over a claim that nobody has touched since it read it.
LEMMA ClaimAlone ==
  ASSUME ClaimInv, scheme = "auto-salary", NEW c \in calls, Finish(c), ~overlapped'
  PROVE  /\ SalaryClaimRead(c) /\ calls' = {}
         /\ claim = [status |-> claim.status, amount |-> claim.amount] /\ claim.amount \in Int
         /\ autoPaid = (IF claim.status = "APPROVED" THEN <<claim.amount>> ELSE <<>>)
BY Alone DEF ClaimInv

LEMMA HighestSlab == Match \in Int
<1> DEFINE S == SlabsMet
<1>1. Slabs \in Seq([reward : Nat \ {0}, direct : Nat, active : Nat, teamDeposit : Nat])
  BY SalaryAssumption DEF SalaryAssumption
<1>2. DOMAIN Slabs = 1 .. Len(Slabs) /\ Len(Slabs) \in Nat /\ \A i \in DOMAIN Slabs : Slabs[i].reward \in Int
  <2>1. PICK T : T = [reward : Nat \ {0}, direct : Nat, active : Nat, teamDeposit : Nat]
    OBVIOUS
  <2>2. Slabs \in Seq(T)
    BY <1>1, <2>1
  <2>3. DOMAIN Slabs = 1 .. Len(Slabs) /\ Len(Slabs) \in Nat /\ \A i \in DOMAIN Slabs : Slabs[i] \in T
    BY <2>2
  <2>4. \A s \in T : s.reward \in Int
    BY <2>1
  <2> QED BY <2>3, <2>4
<1>3. S \in SUBSET DOMAIN Slabs
  BY DEF SlabsMet
<1> HIDE DEF S
<1>4. IsFiniteSet(DOMAIN Slabs) /\ S \subseteq Int
  BY <1>2, <1>3, FS_Interval
<1>5. IsFiniteSet(S)
  BY ONLY <1>3, <1>4, FS_Subset
<1>6. S # {} => Max(S) \in S
  BY ONLY <1>4, <1>5, MaxIsLargest
<1> QED BY <1>2, <1>3, <1>6 DEF Match, S

LEMMA ClaimGenerated ==
  ASSUME ClaimInv, DeskStep, scheme = "auto-salary", GenerateRead
  PROVE  ClaimInv'
<1>1. PICK m \in Int : m = Match
  BY HighestSlab
<1>2. PICK new \in BOOLEAN : new = (claim.status = "NONE")
  BY Zenon
<1>3. PICK c : c = [made |-> made, pc |-> "claim write", amount |-> m, creates |-> new]
  OBVIOUS
<1>4. /\ calls' = calls \cup {c} /\ UNCHANGED <<claim, autoPaid, overlapped>> /\ scheme' = scheme
      /\ claim.status # "APPROVED"
  BY <1>1, <1>2, <1>3, Zenon DEF GenerateRead, Begin, claimVars, ApprovedAlready
<1>5. SalaryClaimRead(c)'
  BY <1>3, <1>4 DEF SalaryClaimRead
<1>6. \A d : SalaryClaimRead(d) => SalaryClaimRead(d)'
  BY <1>4 DEF SalaryClaimRead
<1> QED BY <1>4, <1>5, <1>6 DEF ClaimInv

LEMMA ReviewBegins ==
  ASSUME ClaimInv, DeskStep, scheme = "auto-salary", NEW verdict \in {"APPROVED", "REJECTED"}, ReviewRead(verdict)
  PROVE  ClaimInv'
<1>1. PICK c : c = [made |-> made, pc |-> verdict, amount |-> claim.amount]
  OBVIOUS
<1>2. /\ calls' = calls \cup {c} /\ UNCHANGED <<claim, autoPaid, overlapped>> /\ scheme' = scheme
      /\ claim.status = "PENDING"
  BY <1>1 DEF ReviewRead, Begin, claimVars
<1>3. c.pc = verdict /\ c.amount = claim.amount
  BY <1>1
<1>4. claim.amount \in Int => SalaryClaimRead(c)'
  BY <1>2, <1>3 DEF SalaryClaimRead
<1>5. \A d : SalaryClaimRead(d) => SalaryClaimRead(d)'
  BY <1>2 DEF SalaryClaimRead
<1> QED BY <1>2, <1>4, <1>5 DEF ClaimInv

LEMMA ClaimWritten ==
  ASSUME ClaimInv, DeskStep, scheme = "auto-salary", NEW c \in calls, ClaimStep(c)
  PROVE  ClaimInv'
<1>1. scheme' = scheme
  BY DEF DeskStep
<1>2. ASSUME GenerateWrite(c), ~(c.creates /\ claim.status # "NONE") PROVE ClaimInv'
  <2> SUFFICES ASSUME ~overlapped' PROVE ClaimInv'
    BY DEF ClaimInv
  <2>1. Finish(c) /\ c.pc = "claim write" /\ claim' = [status |-> "PENDING", amount |-> c.amount] /\ autoPaid' = autoPaid
    BY <1>2 DEF GenerateWrite
  <2>2. c.amount \in Int /\ calls' = {} /\ autoPaid = <<>>
    BY <2>1, ClaimAlone DEF SalaryClaimRead
  <2>3. claim'.status = "PENDING" /\ claim'.amount = c.amount
    BY <2>1
  <2> QED BY <2>1, <2>2, <2>3 DEF ClaimInv
<1>3. ASSUME GenerateWrite(c), c.creates /\ claim.status # "NONE" PROVE ClaimInv'
  BY <1>3, ClaimElsewhere DEF GenerateWrite, Drop, End
<1>4. ASSUME Approve(c) PROVE ClaimInv'
  <2> SUFFICES ASSUME ~overlapped' PROVE ClaimInv'
    BY DEF ClaimInv
  <2>1. /\ Finish(c) /\ c.pc = "APPROVED" /\ claim' = [claim EXCEPT !.status = "APPROVED"]
        /\ autoPaid' = Append(autoPaid, c.amount)
    BY <1>4 DEF Approve
  <2>2. /\ SalaryClaimRead(c) /\ calls' = {} /\ claim = [status |-> claim.status, amount |-> claim.amount]
        /\ claim.amount \in Int
        /\ autoPaid = (IF claim.status = "APPROVED" THEN <<claim.amount>> ELSE <<>>)
    BY <2>1, ClaimAlone
  <2>3. c.amount \in Int /\ c.amount = claim.amount /\ autoPaid = <<>>
    BY <2>1, <2>2 DEF SalaryClaimRead
  <2>4. claim'.status = "APPROVED" /\ claim'.amount = claim.amount
        /\ claim' = [status |-> claim'.status, amount |-> claim'.amount]
    BY <2>1, <2>2
  <2>5. autoPaid' = <<claim.amount>>
    BY <2>1, <2>3
  <2> QED BY <2>2, <2>4, <2>5 DEF ClaimInv
<1>5. ASSUME Reject(c) PROVE ClaimInv'
  <2> SUFFICES ASSUME ~overlapped' PROVE ClaimInv'
    BY DEF ClaimInv
  <2>1. /\ Finish(c) /\ c.pc = "REJECTED" /\ claim' = [claim EXCEPT !.status = "REJECTED"] /\ autoPaid' = autoPaid
    BY <1>5 DEF Reject
  <2>2. /\ SalaryClaimRead(c) /\ calls' = {} /\ claim = [status |-> claim.status, amount |-> claim.amount]
        /\ claim.amount \in Int
        /\ autoPaid = (IF claim.status = "APPROVED" THEN <<claim.amount>> ELSE <<>>)
    BY <2>1, ClaimAlone
  <2>3. autoPaid = <<>>
    BY <2>1, <2>2 DEF SalaryClaimRead
  <2>4. claim'.status = "REJECTED" /\ claim'.amount = claim.amount
        /\ claim' = [status |-> claim'.status, amount |-> claim'.amount]
    BY <2>1, <2>2
  <2> QED BY <2>1, <2>2, <2>3, <2>4 DEF ClaimInv
<1> QED BY <1>2, <1>3, <1>4, <1>5 DEF ClaimStep

LEMMA ClaimKept == DeskInv /\ ClaimInv /\ [Next]_vars => ClaimInv'
<1> SUFFICES ASSUME DeskInv, ClaimInv, [Next]_vars PROVE ClaimInv'
  OBVIOUS
<1>1. DeskStep
  BY DeskMoves
<1>2. CASE AutoSalaryNext
  <2>1. scheme = "auto-salary"
    BY <1>2 DEF AutoSalaryNext
  <2>2. ASSUME NEW t, TeamActs(t) PROVE ClaimInv'
    BY <1>1, <2>2, ClaimElsewhere DEF TeamActs, AtOnce
  <2>3. GenerateRead => ClaimInv'
    BY <1>1, <2>1, ClaimGenerated
  <2>4. ASSUME NEW verdict \in {"APPROVED", "REJECTED"}, ReviewRead(verdict) PROVE ClaimInv'
    BY <1>1, <2>1, <2>4, ReviewBegins
  <2>5. ASSUME NEW c \in calls, ClaimStep(c) PROVE ClaimInv'
    BY <1>1, <2>1, <2>5, ClaimWritten
  <2>6. NewDay /\ UNCHANGED claimVars => ClaimInv'
    BY <1>1, ClaimElsewhere DEF NewDay, claimVars
  <2> QED BY <1>2, <2>2, <2>3, <2>4, <2>5, <2>6, Zenon DEF AutoSalaryNext
<1>3. ASSUME UNCHANGED claimVars, scheme # "auto-salary" PROVE ClaimInv'
  BY <1>1, <1>3, ClaimElsewhere DEF claimVars
<1>4. ASSUME UNCHANGED vars PROVE ClaimInv'
  <2>1. UNCHANGED claimVars /\ calls' = calls
    BY <1>4 DEF vars, deskVars
  <2> QED BY <1>1, <2>1, ClaimElsewhere DEF claimVars
<1>5. GiftNext \/ SpinNext \/ SelfRebateNext \/ StreakNext \/ VipNext \/ SalaryNext \/ TeamNext => scheme # "auto-salary"
  BY DEF TeamNext, GiftNext, SpinNext, SelfRebateNext, StreakNext, VipNext, SalaryNext
<1>6. TierNext => scheme # "auto-salary"
  BY DEF TierNext, Types
<1> QED BY <1>2, <1>3, <1>4, <1>5, <1>6, Zenon DEF Next

\* The sum of what one payment, or none, has credited.
LEMMA SumOfNone == SumFunction(<<>>) = 0
BY SumEmpty DEF SumFunction

LEMMA SumOfOne ==
  ASSUME NEW a \in Int
  PROVE  SumFunction(<<a>>) = a
<1>1. PICK v : v = <<a>>
  OBVIOUS
<1>2. DOMAIN v = {1} /\ v[1] = a
  BY <1>1
<1>3. SumFunctionOnSet(v, {}) = 0
  BY SumEmpty
<1>4. SumFunctionOnSet(v, {} \cup {1}) = SumFunctionOnSet(v, {}) + v[1]
  <2>1. IsFiniteSet({}) /\ 1 \notin {} /\ v[1] \in Int /\ \A x \in {} : v[x] \in Int
    BY <1>2, FS_EmptySet
  <2> QED BY ONLY <2>1, SumOneMore
<1>5. SumFunctionOnSet(v, {1}) = a
  <2>1. {} \cup {1} = {1}
    OBVIOUS
  <2> QED BY <1>2, <1>3, <1>4, <2>1
<1> QED BY <1>1, <1>2, <1>5 DEF SumFunction

\* Salaries: a rule pays each due day once unless it was reopened, never more often
\* than it was allowed to, whatever an admin changes while the job runs; an automatic
\* salary is credited once, with what its claim says, when requests do not overlap.
THEOREM SalariesArePaidOnce == Spec => []SalariesPaidOnce
<1>1. DeskInv /\ SalaryInv /\ ClaimInv => SalariesPaidOnce
  <2> SUFFICES ASSUME DeskInv, SalaryInv, ClaimInv PROVE SalariesPaidOnce
    OBVIOUS
  <2>1. /\ Kept => rule.paidCount = Len(payments)
        /\ ~reopened => \A i, j \in DOMAIN payments : i # j => payments[i] # payments[j]
        /\ mostPaid >= 0 => Len(payments) <= mostPaid
    BY DEF SalaryInv, SalaryRule, Distinct
  <2>2. ~overlapped => autoPaid = (IF claim.status = "APPROVED" THEN <<claim.amount>> ELSE <<>>)
    BY DEF ClaimInv
  <2>3. ASSUME ~overlapped, Shown.status = "paid" PROVE autoPaid = <<Shown.willReceive>>
    <3>1. day <= 1 /\ claim.status = "APPROVED" /\ Shown.willReceive = claim.amount
      BY <2>3 DEF Shown
    <3> QED BY <2>2, <2>3, <3>1
  <2>4. ASSUME ~overlapped, rule.life # "deleted" PROVE TotalReceived = Len(payments) + SumFunction(autoPaid)
    <3>1. claim.amount \in Int
      BY <2>4 DEF ClaimInv
    <3>2. SumFunction(autoPaid) = IF claim.status = "APPROVED" THEN claim.amount ELSE 0
      BY <2>2, <2>4, <3>1, SumOfNone, SumOfOne
    <3> QED BY <2>4, <3>2 DEF TotalReceived
  <2> QED BY <2>1, <2>2, <2>3, <2>4 DEF SalariesPaidOnce
<1>2. Init => SalaryInv /\ ClaimInv
  BY SalaryStart, ClaimStart
<1>3. DeskInv /\ SalaryInv /\ [Next]_vars => SalaryInv'
  BY SalaryKept
<1>4. DeskInv /\ ClaimInv /\ [Next]_vars => ClaimInv'
  BY ClaimKept
<1> QED BY <1>1, <1>2, <1>3, <1>4, DeskHolds, PTL DEF Spec

--------------------------------------------------------------------------------
(* The tree of the uplines                                                  *)

\* The recursion over the layers has a solution: Ancestors is what it says.
LEMMA UplineIs ==
  ASSUME NEW n \in 0 .. MaxLayer, NEW m \in Members
  PROVE  Upline(m, n) = IF n = 0 THEN m ELSE Above(Upline(m, n - 1))
<1> DEFINE Row(g, i) == [x \in Members |-> IF i = 0 THEN x ELSE Above(g[i - 1][x])]
           Solves(g, k) == g = [i \in 0 .. k |-> Row(g, i)]
           G == {k \in 0 .. MaxLayer : \E g : Solves(g, k)}
<1>0. MaxLayer \in Nat
  BY RebateAssumption DEF RebateAssumption
<1>1. 0 \in G
  <2>1. PICK g : g = [i \in 0 .. 0 |-> [x \in Members |-> x]]
    OBVIOUS
  <2>2. Solves(g, 0)
    BY <2>1
  <2> QED BY <1>0, <2>2
<1>2. ASSUME NEW k \in 0 .. MaxLayer, k \in G, k + 1 <= MaxLayer PROVE k + 1 \in G
  <2>1. PICK g : Solves(g, k)
    BY <1>2
  <2>2. PICK h : h = [i \in 0 .. k + 1 |-> IF i <= k THEN g[i] ELSE [x \in Members |-> Above(g[k][x])]]
    OBVIOUS
  <2>3. \A i \in 0 .. k : h[i] = g[i] /\ g[i] = Row(g, i)
    BY <1>0, <2>1, <2>2
  <2>4. ASSUME NEW i \in 0 .. k + 1 PROVE h[i] = Row(h, i)
    <3>1. CASE i = 0
      BY <1>0, <2>3, <3>1
    <3>2. CASE i \in 1 .. k
      <4>1. i - 1 \in 0 .. k /\ i \in 0 .. k
        BY <1>0, <3>2
      <4>2. h[i - 1] = g[i - 1] /\ h[i] = Row(g, i)
        BY <2>3, <4>1
      <4> QED BY <4>2
    <3>3. CASE i = k + 1
      <4>1. h[i] = [x \in Members |-> Above(g[k][x])] /\ h[k] = g[k] /\ i - 1 = k /\ i # 0
        BY <1>0, <2>2, <2>3, <3>3
      <4> QED BY <4>1
    <3> QED BY <1>0, <3>1, <3>2, <3>3
  <2>5. Solves(h, k + 1)
    BY <2>2, <2>4
  <2> QED BY <1>0, <1>2, <2>5
<1>3. MaxLayer \in G
  <2> HIDE DEF G
  <2> QED BY <1>0, <1>1, <1>2, UpTo
<1>4. \E g : Solves(g, MaxLayer)
  BY <1>3
<1>5. Solves(Ancestors, MaxLayer)
  BY <1>4 DEF Ancestors
<1>6. PICK g : g = Ancestors
  OBVIOUS
<1>7. g = [i \in 0 .. MaxLayer |-> Row(g, i)]
  BY <1>5, <1>6
<1>8. g[n] = Row(g, n)
  BY <1>7
<1>9. g[n][m] = IF n = 0 THEN m ELSE Above(g[n - 1][m])
  BY <1>8
<1> QED BY <1>6, <1>9 DEF Upline

\* The higher upline joined before the lower one: nobody is met twice.
LEMMA UplinesDiffer ==
  ASSUME referredBy \in Trees, NEW m \in Members
  PROVE  /\ \A n \in 0 .. MaxLayer : Upline(m, n) \in Members \cup {Nobody}
         /\ \A k, l \in 0 .. MaxLayer : (Upline(m, k) # Nobody /\ Upline(m, k) = Upline(m, l)) => k = l
         /\ \A k, l \in 0 .. MaxLayer : (k <= l /\ Upline(m, l) # Nobody) => Upline(m, k) # Nobody
         /\ Upline(m, 0) = m
<1>0. /\ MaxLayer \in Nat /\ Nobody \notin Members /\ IsFiniteSet(Members)
      /\ referredBy \in [Members -> Members \cup {Nobody}] /\ Invited(referredBy)
  BY RebateAssumption DEF RebateAssumption
<1>1. Cardinality(Members) \in Nat
  BY <1>0, FS_CardinalityType
<1>2. PICK serial \in [Members -> 1 .. Cardinality(Members)] :
        \A x \in Members : referredBy[x] # Nobody => serial[referredBy[x]] < serial[x]
  BY <1>0, Zenon DEF Invited
<1>3. \A x \in Members : serial[x] \in Int
  BY <1>1, <1>2
<1> DEFINE Climbs(n) ==
             /\ Upline(m, n) \in Members \cup {Nobody}
             /\ Upline(m, n) # Nobody =>
                  \A k \in 0 .. n - 1 : /\ Upline(m, k) \in Members
                                        /\ serial[Upline(m, n)] < serial[Upline(m, k)]
           G == {n \in 0 .. MaxLayer : Climbs(n)}
<1>4. 0 \in G
  <2>1. Upline(m, 0) = m
    BY <1>0, UplineIs
  <2> QED BY <1>0, <2>1
<1>5. ASSUME NEW n \in 0 .. MaxLayer, n \in G, n + 1 <= MaxLayer PROVE n + 1 \in G
  <2>1. Upline(m, n + 1) = Above(Upline(m, n))
    <3>1. n + 1 \in 0 .. MaxLayer /\ n + 1 # 0 /\ (n + 1) - 1 = n
      BY <1>0, <1>5
    <3> QED BY <3>1, UplineIs
  <2>2. Climbs(n)
    BY <1>5
  <2>3. CASE Upline(m, n) = Nobody
    BY <1>0, <1>5, <2>1, <2>3 DEF Above
  <2>4. CASE Upline(m, n) # Nobody
    <3>1. Upline(m, n) \in Members /\ Upline(m, n + 1) = referredBy[Upline(m, n)]
      BY <2>1, <2>2, <2>4 DEF Above
    <3>2. Upline(m, n + 1) \in Members \cup {Nobody}
      BY <1>0, <3>1
    <3>3. ASSUME Upline(m, n + 1) # Nobody, NEW k \in 0 .. n
          PROVE  Upline(m, k) \in Members /\ serial[Upline(m, n + 1)] < serial[Upline(m, k)]
      <4>1. serial[Upline(m, n + 1)] < serial[Upline(m, n)] /\ Upline(m, n + 1) \in Members
        BY <1>2, <3>1, <3>2, <3>3
      <4>2. CASE k = n
        BY <3>1, <4>1, <4>2
      <4>3. CASE k \in 0 .. n - 1
        <5>1. Upline(m, k) \in Members /\ serial[Upline(m, n)] < serial[Upline(m, k)]
          BY <2>2, <2>4, <4>3
        <5> QED BY <1>3, <3>1, <4>1, <5>1
      <4> QED BY <1>0, <4>2, <4>3
    <3>4. (n + 1) - 1 = n /\ n + 1 \in 0 .. MaxLayer
      BY <1>0, <1>5
    <3> QED BY <3>2, <3>3, <3>4
  <2> QED BY <2>3, <2>4
<1>6. \A n \in 0 .. MaxLayer : n \in G
  <2> HIDE DEF G
  <2> QED BY <1>0, <1>4, <1>5, UpTo
<1>7. \A n \in 0 .. MaxLayer : Climbs(n)
  BY <1>6
<1>8. ASSUME NEW k \in 0 .. MaxLayer, NEW l \in 0 .. MaxLayer, k < l, Upline(m, l) # Nobody
      PROVE  Upline(m, k) # Upline(m, l) /\ Upline(m, k) # Nobody
  <2>1. k \in 0 .. l - 1
    BY <1>0, <1>8
  <2>2. Upline(m, k) \in Members /\ serial[Upline(m, l)] < serial[Upline(m, k)]
    BY <1>7, <1>8, <2>1
  <2> QED BY <1>0, <1>3, <2>2
<1>9. Upline(m, 0) = m
  BY <1>0, UplineIs
<1>10. \A n \in 0 .. MaxLayer : Upline(m, n) \in Members \cup {Nobody}
  BY <1>7
<1>11. ASSUME NEW k \in 0 .. MaxLayer, NEW l \in 0 .. MaxLayer, Upline(m, k) # Nobody, Upline(m, k) = Upline(m, l)
       PROVE  k = l
  <2>1. ~(k < l) /\ ~(l < k)
    BY <1>8, <1>11
  <2> QED BY <1>0, <2>1
<1>12. ASSUME NEW k \in 0 .. MaxLayer, NEW l \in 0 .. MaxLayer, k <= l, Upline(m, l) # Nobody
       PROVE  Upline(m, k) # Nobody
  <2>1. k = l \/ k < l
    BY <1>0, <1>12
  <2> QED BY <1>8, <1>12, <2>1
<1> QED BY <1>9, <1>10, <1>11, <1>12

\* A member is in one layer of a team.
LEMMA LayerIs ==
  ASSUME referredBy \in Trees, NEW u \in Members, NEW m \in Members, NEW l \in Layers, InTeam(u, m, l)
  PROVE  LayerOf(u, m) = l /\ m \in Team(u)
<1>0. MaxLayer \in Nat /\ Nobody \notin Members
  BY RebateAssumption DEF RebateAssumption
<1>1. ASSUME NEW k \in Layers, InTeam(u, m, k) PROVE k = l
  <2>1. k \in 0 .. MaxLayer /\ l \in 0 .. MaxLayer
    BY <1>0 DEF Layers
  <2>2. Upline(m, k) = u /\ Upline(m, l) = u /\ u # Nobody
    BY <1>0, <1>1 DEF InTeam
  <2> QED BY <2>1, <2>2, UplinesDiffer
<1>2. LayerOf(u, m) = l
  BY <1>1 DEF LayerOf
<1> QED BY <1>2 DEF Team

LEMMA TeamIs ==
  /\ \A u : Team(u) \in SUBSET Members /\ IsFiniteSet(Team(u))
  /\ \A u, m : m \in Team(u) => m \notin demo /\ joined[m] # NotYet
  /\ \A u : \A m \in Team(u) : LayerOf(u, m) \in Layers /\ InTeam(u, m, LayerOf(u, m))
<1>0. MaxLayer \in Nat /\ IsFiniteSet(Members)
  BY RebateAssumption DEF RebateAssumption
<1>1. ASSUME NEW u PROVE Team(u) \in SUBSET Members /\ IsFiniteSet(Team(u))
  <2>1. Team(u) \in SUBSET Members
    BY DEF Team
  <2> QED BY <1>0, <2>1, FS_Subset
<1>2. ASSUME NEW u, NEW m, m \in Team(u) PROVE LayerOf(u, m) \in Layers /\ InTeam(u, m, LayerOf(u, m))
  BY <1>2 DEF Team, LayerOf
<1>3. ASSUME NEW u, NEW m, m \in Team(u) PROVE joined[m] # NotYet
  BY <1>3 DEF Team, InTeam
<1>4. ASSUME NEW u, NEW m, m \in Team(u) PROVE m \notin demo
  <2>1. PICK l \in Layers : InTeam(u, m, l)
    BY <1>4 DEF Team
  <2>2. m \in Members
    BY <1>4 DEF Team
  <2>3. 0 \in 0 .. l - 1 /\ 0 \in 0 .. MaxLayer
    BY <1>0 DEF Layers
  <2>4. Upline(m, 0) \notin demo
    BY <2>1, <2>3 DEF InTeam
  <2>5. Upline(m, 0) = m
    BY <2>2, <2>3, UplineIs
  <2> QED BY <2>4, <2>5
<1> QED BY <1>1, <1>2, <1>3, <1>4

\* The demo accounts of the chain that are passed over leave between one layer and all of them.
LEMMA ChainIs ==
  ASSUME referredBy \in Trees, NEW m \in Members, NEW c \in Chain(m)
  PROVE  \E k \in Layers : /\ c.user = Upline(m, k) /\ c.user \in Members \ demo
                           /\ c.layer = Cardinality({n \in 1 .. k : NotDemo(Upline(m, n))})
                           /\ c.layer \in Layers
<1>0. MaxLayer \in Nat
  BY RebateAssumption DEF RebateAssumption
<1>1. PICK k \in Layers :
        /\ Upline(m, k) # Nobody /\ NotDemo(Upline(m, k))
        /\ c = [user |-> Upline(m, k), layer |-> Cardinality({n \in 1 .. k : NotDemo(Upline(m, n))})]
  BY DEF Chain
<1>2. k \in 1 .. MaxLayer /\ k \in 0 .. MaxLayer
  BY <1>0 DEF Layers
<1>3. Upline(m, k) \in Members
  BY <1>1, <1>2, UplinesDiffer
<1> DEFINE P == {n \in 1 .. k : NotDemo(Upline(m, n))}
<1>4. IsFiniteSet(1 .. k) /\ Cardinality(1 .. k) = k /\ P \in SUBSET (1 .. k)
  BY <1>0, <1>2, FS_Interval
<1>5. IsFiniteSet(P) /\ Cardinality(P) \in Nat /\ Cardinality(P) <= k
  BY <1>4, FS_Subset, FS_CardinalityType
<1>6. P # {}
  BY <1>0, <1>1, <1>2
<1>7. Cardinality(P) # 0
  BY <1>5, <1>6, FS_EmptySet
<1>8. Cardinality(P) \in Layers
  BY <1>0, <1>2, <1>5, <1>7 DEF Layers
<1> QED BY <1>1, <1>3, <1>8 DEF NotDemo

\* An upline is once in a chain.
LEMMA ChainUsersDiffer ==
  ASSUME referredBy \in Trees, NEW m \in Members, NEW b \in Chain(m), NEW c \in Chain(m), b.user = c.user
  PROVE  b.layer = c.layer
<1>0. MaxLayer \in Nat /\ Nobody \notin Members
  BY RebateAssumption DEF RebateAssumption
<1>1. PICK k \in Layers : b.user = Upline(m, k) /\ b.user \in Members \ demo
                          /\ b.layer = Cardinality({n \in 1 .. k : NotDemo(Upline(m, n))})
  BY ChainIs
<1>2. PICK l \in Layers : c.user = Upline(m, l) /\ c.layer = Cardinality({n \in 1 .. l : NotDemo(Upline(m, n))})
  BY ChainIs
<1>3. k \in 0 .. MaxLayer /\ l \in 0 .. MaxLayer /\ Upline(m, k) # Nobody
  BY <1>0, <1>1 DEF Layers
<1>4. k = l
  <2>1. Upline(m, k) = Upline(m, l)
    BY <1>1, <1>2
  <2>2. \A i, j \in 0 .. MaxLayer : (Upline(m, i) # Nobody /\ Upline(m, i) = Upline(m, j)) => i = j
    BY UplinesDiffer
  <2> QED BY ONLY <1>3, <2>1, <2>2
<1> QED BY <1>1, <1>2, <1>4

\* With no demo account below the agent the close and the preview walk the same chains.
LEMMA ChainOfTeam ==
  ASSUME referredBy \in Trees, NEW m \in Members \ demo, joined[m] # NotYet, NEW u \in Members \ demo, Plain(u)
  PROVE  /\ (\E c \in Chain(m) : c.user = u) <=> m \in Team(u)
         /\ \A c \in Chain(m) : c.user = u => c.layer = LayerOf(u, m)
<1>0. MaxLayer \in Nat /\ Nobody \notin Members
  BY RebateAssumption DEF RebateAssumption
<1>1. Upline(m, 0) = m
  BY UplinesDiffer
<1>2. ASSUME NEW k \in Layers, Upline(m, k) = u
      PROVE  /\ InTeam(u, m, k) /\ m \in Team(u) /\ LayerOf(u, m) = k
             /\ Cardinality({n \in 1 .. k : NotDemo(Upline(m, n))}) = k
  <2>1. \A n \in 1 .. k : Upline(m, n) \notin demo
    BY <1>2 DEF Plain
  <2>2. k \in Nat /\ \A n \in 0 .. k - 1 : n = 0 \/ n \in 1 .. k
    BY <1>0 DEF Layers
  <2>3. \A n \in 0 .. k - 1 : Upline(m, n) \notin demo
    BY <1>1, <2>1, <2>2
  <2>4. InTeam(u, m, k)
    BY <1>2, <2>3 DEF InTeam
  <2>5. {n \in 1 .. k : NotDemo(Upline(m, n))} = 1 .. k
    BY <2>1 DEF NotDemo
  <2>6. Cardinality(1 .. k) = k
    BY <2>2, FS_Interval, k >= 1 DEF Layers
  <2> QED BY <2>4, <2>5, <2>6, LayerIs
<1>3. ASSUME NEW c \in Chain(m), c.user = u PROVE m \in Team(u) /\ c.layer = LayerOf(u, m)
  <2>1. PICK k \in Layers : c.user = Upline(m, k) /\ c.layer = Cardinality({n \in 1 .. k : NotDemo(Upline(m, n))})
    BY ChainIs
  <2> QED BY <1>2, <1>3, <2>1
<1>4. ASSUME m \in Team(u) PROVE \E c \in Chain(m) : c.user = u
  <2>1. PICK k \in Layers : InTeam(u, m, k)
    BY <1>4 DEF Team
  <2>2. Upline(m, k) = u /\ u # Nobody /\ NotDemo(u)
    BY <1>0, <2>1 DEF InTeam, NotDemo
  <2>3. [user |-> Upline(m, k), layer |-> Cardinality({n \in 1 .. k : NotDemo(Upline(m, n))})] \in Chain(m)
    BY <2>2 DEF Chain
  <2> QED BY <2>2, <2>3
<1> QED BY <1>3, <1>4

\* The batches of the total reach the agents that have the member in the team.
LEMMA PreviewChainOfTeam ==
  ASSUME referredBy \in Trees, NEW m \in Members \ demo, joined[m] # NotYet, NEW u \in Members \ demo
  PROVE  /\ (\E c \in PreviewChain(m) : c.user = u) <=> m \in Team(u)
         /\ \A c \in PreviewChain(m) : c.user = u => c = [user |-> u, layer |-> LayerOf(u, m)]
<1>0. MaxLayer \in Nat /\ Nobody \notin Members
  BY RebateAssumption DEF RebateAssumption
<1>1. Upline(m, 0) = m
  BY UplinesDiffer
<1>2. ASSUME NEW k \in Layers, Upline(m, k) = u
      PROVE  (\A n \in 1 .. k : Upline(m, n) \notin demo) <=> InTeam(u, m, k)
  <2>1. k \in Nat /\ k >= 1
    BY <1>0 DEF Layers
  <2>2. (\A n \in 1 .. k : Upline(m, n) \notin demo) <=> (\A n \in 0 .. k - 1 : Upline(m, n) \notin demo)
    BY <1>1, <1>2, <2>1
  <2> QED BY <1>2, <2>2 DEF InTeam
<1>3. ASSUME NEW c \in PreviewChain(m), c.user = u
      PROVE  m \in Team(u) /\ c = [user |-> u, layer |-> LayerOf(u, m)]
  <2>1. PICK k \in Layers : c = [user |-> Upline(m, k), layer |-> k] /\ \A n \in 1 .. k : Upline(m, n) \notin demo
    BY DEF PreviewChain
  <2>2. InTeam(u, m, k)
    BY <1>2, <1>3, <2>1
  <2>3. LayerOf(u, m) = k /\ m \in Team(u)
    BY <2>2, LayerIs
  <2> QED BY <1>3, <2>1, <2>3
<1>4. ASSUME m \in Team(u) PROVE \E c \in PreviewChain(m) : c.user = u
  <2>1. PICK k \in Layers : InTeam(u, m, k)
    BY <1>4 DEF Team
  <2>2. Upline(m, k) = u /\ u # Nobody
    BY <1>0, <2>1 DEF InTeam
  <2>3. \A n \in 1 .. k : Upline(m, n) \notin demo
    BY <1>2, <2>1, <2>2
  <2>4. [user |-> Upline(m, k), layer |-> k] \in PreviewChain(m)
    BY <2>2, <2>3 DEF PreviewChain
  <2> QED BY <2>2, <2>4
<1> QED BY <1>3, <1>4

\* A rate for every layer, whatever the level of the upline.
LEMMA RateIs ==
  ASSUME NEW metrics, NEW l \in Layers
  PROVE  Rate(QualifyLevel(metrics), l) \in Nat
<1> DEFINE S == {0} \cup {x \in DOMAIN Requirements : Meets(metrics, x)}
<1>0. IsFiniteSet(DOMAIN Requirements) /\ DOMAIN Requirements \subseteq Nat
  BY RebateAssumption DEF RebateAssumption
<1>1. IsFiniteSet({x \in DOMAIN Requirements : Meets(metrics, x)})
  BY <1>0, FS_Subset
<1>2. IsFiniteSet(S) /\ S # {} /\ \A x \in S : x \in Int
  BY <1>0, <1>1, FS_AddElement
<1>3. Max(S) \in S
  <2> DEFINE v == [x \in S |-> x]
  <2> HIDE DEF S
  <2>1. \A x \in S : v[x] \in Int
    BY <1>2
  <2>2. \E x \in S : \A y \in S : v[y] <= v[x]
    <3> HIDE DEF v
    <3> QED BY <1>2, <2>1, LargestValue
  <2>3. \E x \in S : \A y \in S : x >= y
    BY <1>2, <2>2
  <2> QED BY <2>3 DEF Max
<1>4. QualifyLevel(metrics) \in {0} \cup DOMAIN Requirements
  BY <1>3 DEF QualifyLevel
<1>5. PICK x \in {0} \cup DOMAIN Requirements : x = QualifyLevel(metrics)
  BY <1>4
<1>6. Rates[x] \in [1 .. MaxLayer -> Nat]
  BY RebateAssumption DEF RebateAssumption
<1> QED BY <1>5, <1>6 DEF Rate, Layers

--------------------------------------------------------------------------------
(* The rows a close writes                                                  *)

EventRow == [kind : {"bet", "deposit"}, user : Members, amount : Nat, day : Nat, rolledBack : BOOLEAN]
RebateOf == [user : Members, bet : Nat, amount : Nat, settled : BOOLEAN]

\* Bets and deposits are of members who have joined, and not of days to come.
DaysTyped ==
  /\ referredBy \in Trees /\ demo \subseteq Members /\ joined \in [Members -> Int]
  /\ events \in Seq(EventRow)
  /\ \A i \in DOMAIN events : events[i].day <= day /\ joined[events[i].user] # NotYet

LEMMA EventIs ==
  ASSUME events \in Seq(EventRow)
  PROVE  /\ IsFiniteSet(DOMAIN events) /\ DOMAIN events = 1 .. Len(events) /\ Len(events) \in Nat
         /\ \A i \in DOMAIN events : events[i] \in EventRow
         /\ \A i \in DOMAIN events : events[i].user \in Members /\ events[i].amount \in Nat
                                     /\ events[i].day \in Nat /\ events[i].rolledBack \in BOOLEAN
         /\ \A ms, d : IsFiniteSet(BetsOf(ms, d)) /\ BetsOf(ms, d) \subseteq DOMAIN events
<1>1. Len(events) \in Nat /\ DOMAIN events = 1 .. Len(events) /\ \A i \in DOMAIN events : events[i] \in EventRow
  BY LenProperties, ElementOfSeq
<1>2. IsFiniteSet(DOMAIN events)
  BY <1>1, FS_Interval
<1>3. ASSUME NEW ms, NEW d PROVE IsFiniteSet(BetsOf(ms, d)) /\ BetsOf(ms, d) \subseteq DOMAIN events
  <2>1. BetsOf(ms, d) \in SUBSET DOMAIN events
    BY DEF BetsOf
  <2> QED BY <1>2, <2>1, FS_Subset
<1>4. \A i \in DOMAIN events : events[i].user \in Members /\ events[i].amount \in Nat
                               /\ events[i].day \in Nat /\ events[i].rolledBack \in BOOLEAN
  BY <1>1 DEF EventRow
<1> QED BY <1>1, <1>2, <1>3, <1>4

LEMMA WorkIs ==
  ASSUME referredBy \in Trees, events \in Seq(EventRow), NEW d, NEW w \in Work(d)
  PROVE  \E i \in BetsOf(Members \ demo, d) : \E c \in Chain(events[i].user) :
           /\ w.bet = i /\ w.layer = c.layer /\ w.user = c.user
           /\ w.amount = events[i].amount * Rate(QualifyLevel(Metrics(c.user, d)), c.layer)
           /\ i \in DOMAIN events /\ events[i].day = d /\ w.user \in Members /\ w.amount \in Nat
<1>1. PICK i \in BetsOf(Members \ demo, d) : \E c \in Chain(events[i].user) :
        w = [bet |-> i, layer |-> c.layer, user |-> c.user,
             amount |-> events[i].amount * Rate(QualifyLevel(Metrics(c.user, d)), c.layer)]
  BY DEF Work, RowsDue
<1>2. PICK c \in Chain(events[i].user) :
        w = [bet |-> i, layer |-> c.layer, user |-> c.user,
             amount |-> events[i].amount * Rate(QualifyLevel(Metrics(c.user, d)), c.layer)]
  BY <1>1
<1>3. i \in DOMAIN events /\ events[i].day = d
  BY DEF BetsOf
<1>4. events[i].amount \in Nat /\ events[i].user \in Members
  BY <1>3, EventIs
<1>5. c.user \in Members /\ c.layer \in Layers
  BY <1>4, ChainIs
<1>6. PICK rate \in Nat : rate = Rate(QualifyLevel(Metrics(c.user, d)), c.layer)
  BY <1>5, RateIs
<1>7. events[i].amount * rate \in Nat
  BY <1>4
<1> QED BY <1>2, <1>3, <1>5, <1>6, <1>7

\* What is due for a day stays the same while its bets and deposits do, whoever joins later.
LEMMA WorkStays ==
  ASSUME DaysTyped, UNCHANGED <<referredBy, demo>>, NEW d, d # NotYet,
         \A ms : BetsOf(ms, d)' = BetsOf(ms, d) /\ DepositsOf(ms, d)' = DepositsOf(ms, d),
         \A i \in DOMAIN events : events'[i].user = events[i].user /\ events'[i].amount = events[i].amount,
         \A m \in Members : joined[m] # NotYet => joined'[m] = joined[m],
         \A m \in Members : joined[m] = NotYet => joined'[m] # d
  PROVE  Work(d)' = Work(d)
<1>1. \A m, n : Upline(m, n)' = Upline(m, n)
  BY DEF Upline, Ancestors, Above
<1>2. \A m : Chain(m)' = Chain(m)
  BY <1>1 DEF Chain, NotDemo
<1>3. ASSUME NEW u PROVE \A m \in Members : joined[m] # NotYet => (m \in Team(u)' <=> m \in Team(u))
  BY <1>1 DEF Team, InTeam
<1>4. ASSUME NEW u PROVE Team(u) \subseteq Members /\ Team(u)' \subseteq Members /\ \A m \in Team(u) : joined[m] # NotYet
  BY DEF Team, InTeam
<1>5. ASSUME NEW u PROVE {m \in Team(u) : joined[m] = d}' = {m \in Team(u) : joined[m] = d}
  BY <1>3, <1>4
<1>6. \A i \in DOMAIN events : events[i].user \in Members /\ joined[events[i].user] # NotYet
  BY EventIs DEF DaysTyped
<1>7. ASSUME NEW u PROVE BetsOf(Team(u), d)' = BetsOf(Team(u), d) /\ DepositsOf(Team(u), d)' = DepositsOf(Team(u), d)
  <2>1. PICK S, T : S = Team(u) /\ T = Team(u)'
    OBVIOUS
  <2>2. BetsOf(S, d) = BetsOf(T, d) /\ DepositsOf(S, d) = DepositsOf(T, d)
    BY <1>3, <1>6, <2>1 DEF BetsOf, DepositsOf
  <2>3. BetsOf(Team(u), d)' = BetsOf(T, d)'
    BY <2>1 DEF BetsOf
  <2>4. DepositsOf(Team(u), d)' = DepositsOf(T, d)'
    BY <2>1 DEF DepositsOf
  <2> QED BY <2>1, <2>2, <2>3, <2>4
<1>8. ASSUME NEW is, is \subseteq DOMAIN events PROVE Volume(is)' = Volume(is)
  <2>1. [i \in is |-> events[i].amount]' = [i \in is |-> events[i].amount]
    BY <1>8
  <2> QED BY <2>1 DEF Volume
<1>9. ASSUME NEW u PROVE Metrics(u, d)' = Metrics(u, d)
  <2>1. PICK S, T : S = BetsOf(Team(u), d) /\ T = DepositsOf(Team(u), d)
    OBVIOUS
  <2>2. S \subseteq DOMAIN events /\ T \subseteq DOMAIN events
    BY <2>1 DEF BetsOf, DepositsOf
  <2>3. Volume(BetsOf(Team(u), d))' = Volume(S)' /\ Volume(DepositsOf(Team(u), d))' = Volume(T)'
    BY <1>7, <2>1 DEF Volume
  <2>4. Volume(S)' = Volume(S) /\ Volume(T)' = Volume(T)
    BY <1>8, <2>2
  <2>5. Cardinality({m \in Team(u) : joined[m] = d})' = Cardinality({m \in Team(u) : joined[m] = d})
    BY <1>5
  <2> QED BY <2>1, <2>3, <2>4, <2>5 DEF Metrics
<1>10. \A u : QualifyLevel(Metrics(u, d))' = QualifyLevel(Metrics(u, d))
  BY <1>9 DEF QualifyLevel, Meets
<1>11. (Members \ demo)' = Members \ demo
  OBVIOUS
<1>12. BetsOf(Members \ demo, d)' = BetsOf(Members \ demo, d)
  <2>1. PICK ms : ms = Members \ demo
    OBVIOUS
  <2>2. BetsOf(Members \ demo, d)' = BetsOf(ms, d)'
    BY <2>1 DEF BetsOf
  <2> QED BY <2>1, <2>2
<1>13. \A i \in BetsOf(Members \ demo, d) : i \in DOMAIN events
  BY DEF BetsOf
<1>14. ASSUME NEW i \in DOMAIN events PROVE RowsDue(i, d)' = RowsDue(i, d)
  <2>1. PICK m : m = events[i].user /\ m = events'[i].user
    OBVIOUS
  <2>2. PICK a : a = events[i].amount /\ a = events'[i].amount
    OBVIOUS
  <2>3. Chain(events[i].user)' = Chain(m)
    <3>1. Chain(events[i].user)' = Chain(m)'
      BY <2>1 DEF Chain
    <3> QED BY <1>2, <3>1
  <2>4. \A c : QualifyLevel(Metrics(c.user, d))' = QualifyLevel(Metrics(c.user, d))
    BY <1>10
  <2>5. Chain(events[i].user) = Chain(m)
    BY <2>1
  <2> QED BY <2>2, <2>3, <2>4, <2>5 DEF Rate, RowsDue
<1>15. PICK B : B = BetsOf(Members \ demo, d) /\ B = BetsOf(Members \ demo, d)'
  BY <1>12
<1>16. PICK f : f = [i \in B |-> RowsDue(i, d)]
  OBVIOUS
<1>17. \A i \in B : RowsDue(i, d) = f[i] /\ RowsDue(i, d)' = f[i]
  BY <1>13, <1>14, <1>15, <1>16
<1>18. \A w : w \in Work(d) <=> \E i \in B : w \in RowsDue(i, d)
  BY <1>15 DEF Work
<1>19. \A w : w \in Work(d)' <=> \E i \in B : w \in RowsDue(i, d)'
  BY <1>15 DEF Work
<1>20. \A w : w \in Work(d) <=> w \in Work(d)'
  BY <1>17, <1>18, <1>19
<1> QED BY <1>20

--------------------------------------------------------------------------------
(* The close, one at a time                                                 *)

AccrueCall(c) ==
  /\ c = [made |-> c.made, pc |-> "accrue", day |-> c.day, work |-> c.work]
  /\ \A w \in c.work : /\ w.bet \in DOMAIN events /\ events[w.bet].day = c.day
                       /\ w.user \in Members /\ w.amount \in Nat

SettleCall(c) ==
  /\ c = [pc |-> "settle", day |-> c.day, rows |-> c.rows, failed |-> c.failed]
  /\ c.rows \subseteq Unsettled(c.day) /\ c.failed \in BOOLEAN

TeamTyped ==
  /\ DaysTyped
  /\ rebates \in Seq(RebateOf) /\ credits \in Seq(Nat) /\ Len(credits) = Len(rebates)
  /\ begun \subseteq Int /\ closed \subseteq begun /\ \A d \in begun : d < day
  /\ \A r \in DOMAIN rebates : rebates[r].bet \in DOMAIN events /\ events[rebates[r].bet].day \in begun
  /\ scheme = "team-rebate" =>
       calls = {} \/ \E c : calls = {c} /\ c.day \in begun /\ (AccrueCall(c) \/ SettleCall(c))

RowsKept ==
  /\ \A r, q \in DOMAIN rebates : (r # q /\ rebates[r].bet = rebates[q].bet) => rebates[r].user # rebates[q].user
  /\ \A r \in DOMAIN rebates : credits[r] = (IF rebates[r].settled THEN 1 ELSE 0)

Pays(r, w) == rebates[r].user = w.user /\ rebates[r].bet = w.bet /\ rebates[r].amount = w.amount
RowsAreDue(d) == \A r \in RowsOfDay(d) : \E w \in Work(d) : Pays(r, w)
AllThere(work) == \A w \in work : w.amount > 0 => Already(w.user, w.bet)

\* Of a day that has not changed since its close began: what it has rows for, what
\* the close still has to write or to settle, and what a settled day has left.
CloseKept(c) ==
  /\ c.pc = "accrue" => c.work \subseteq Work(c.day) /\ AllThere(Work(c.day) \ c.work)
  /\ c.pc = "settle" => AllThere(Work(c.day)) /\ (~c.failed => Unsettled(c.day) \subseteq c.rows)

DaysKept ==
  /\ \A d \in begun \ late : RowsAreDue(d)
  /\ \A d \in closed \ late : AllThere(Work(d)) /\ Unsettled(d) = {}
  /\ scheme = "team-rebate" => \A c \in calls : c.day \notin late => CloseKept(c)

TeamInv == TeamTyped /\ RowsKept /\ DaysKept

LEMMA TeamStarts == Init => TeamInv
<1> SUFFICES ASSUME TeamInit, DeskInit PROVE TeamInv
  BY DEF Init
<1>0. MaxDay \in Nat /\ Trees \subseteq [Members -> Members \cup {Nobody}] /\ Demos \subseteq SUBSET Members
  BY DeskAssumption, RebateAssumption DEF DeskAssumption, RebateAssumption
<1>1. calls = {} /\ events = <<>> /\ rebates = <<>> /\ credits = <<>> /\ begun = {} /\ closed = {}
  BY DEF TeamInit, DeskInit
<1>2. joined \in [Members -> Int] /\ referredBy \in Trees /\ demo \subseteq Members
  BY <1>0 DEF TeamInit, NotYet, LongAgo
<1>3. events \in Seq(EventRow) /\ rebates \in Seq(RebateOf) /\ credits \in Seq(Nat)
  BY <1>1
<1>4. DOMAIN events = {} /\ DOMAIN rebates = {} /\ Len(credits) = Len(rebates)
  BY <1>1
<1>5. TeamTyped
  BY <1>1, <1>2, <1>3, <1>4 DEF TeamTyped, DaysTyped
<1>6. RowsKept /\ DaysKept
  BY <1>1, <1>4 DEF RowsKept, DaysKept
<1> QED BY <1>5, <1>6 DEF TeamInv

\* Steps outside of the close: the rows stay, and what is due for the days that are not late.
LEMMA AroundTheClose ==
  ASSUME TeamInv, DaysTyped', UNCHANGED <<scheme, rebates, credits, begun, closed>>,
         day \in Int, day' \in Int, day <= day', late \subseteq late',
         scheme = "team-rebate" => calls' = calls \/ calls' = {},
         DOMAIN events \subseteq DOMAIN events',
         \A i \in DOMAIN events : events'[i].day = events[i].day,
         \A d \in begun \ late' : Work(d)' = Work(d)
  PROVE  TeamInv'
<1>1. /\ \A r \in DOMAIN rebates : rebates[r].bet \in DOMAIN events /\ events[rebates[r].bet].day \in begun
      /\ rebates' = rebates /\ begun \subseteq Int /\ closed \subseteq begun
  BY DEF TeamInv, TeamTyped
<1>2. \A d : RowsOfDay(d)' = RowsOfDay(d) /\ Unsettled(d)' = Unsettled(d)
  BY <1>1 DEF RowsOfDay, Unsettled
<1>3. \A u, b : Already(u, b)' <=> Already(u, b)
  BY <1>1 DEF Already
<1>4. \A ws : AllThere(ws)' <=> AllThere(ws)
  BY <1>3 DEF AllThere
<1>5. \A r, w : Pays(r, w)' <=> Pays(r, w)
  BY <1>1 DEF Pays
<1>6. ASSUME NEW c PROVE (AccrueCall(c) => AccrueCall(c)') /\ (SettleCall(c) => SettleCall(c)')
  BY <1>2 DEF AccrueCall, SettleCall
<1>7. TeamTyped'
  <2>1. \A d \in begun : d < day'
    BY <1>1 DEF TeamInv, TeamTyped
  <2>2. \A r \in DOMAIN rebates : rebates[r].bet \in DOMAIN events' /\ events'[rebates[r].bet].day \in begun
    BY <1>1
  <2>3. scheme = "team-rebate" =>
          calls' = {} \/ \E c : calls' = {c} /\ c.day \in begun /\ (AccrueCall(c)' \/ SettleCall(c)')
    BY <1>6 DEF TeamInv, TeamTyped
  <2> QED BY <2>1, <2>2, <2>3 DEF TeamInv, TeamTyped
<1>8. RowsKept'
  BY DEF TeamInv, RowsKept
<1>9. \A d \in begun \ late' : RowsAreDue(d)'
  BY <1>2, <1>5 DEF TeamInv, DaysKept, RowsAreDue
<1>10. \A d \in closed \ late' : AllThere(Work(d))' /\ Unsettled(d)' = {}
  <2> TAKE d \in closed \ late'
  <2>1. PICK ws : ws = Work(d) /\ ws = Work(d)'
    BY <1>1
  <2>2. AllThere(Work(d))' <=> AllThere(ws)'
    BY <2>1 DEF AllThere
  <2>3. AllThere(Work(d)) /\ Unsettled(d) = {}
    BY DEF TeamInv, DaysKept
  <2>4. AllThere(ws)
    BY <2>1, <2>3
  <2> QED BY <1>2, <1>4, <2>2, <2>3, <2>4
<1>11. ASSUME scheme = "team-rebate", NEW c \in calls', c.day \notin late' PROVE CloseKept(c)'
  <2>1. c \in calls /\ c.day \in begun
    BY <1>11 DEF TeamInv, TeamTyped
  <2>2. PICK ws : ws = Work(c.day) /\ ws = Work(c.day)'
    BY <1>11, <2>1
  <2>3. CloseKept(c)
    BY <1>11, <2>1 DEF TeamInv, DaysKept
  <2>4. AllThere(Work(c.day))' <=> AllThere(ws)
    <3>1. AllThere(Work(c.day))' <=> AllThere(ws)'
      BY <2>2 DEF AllThere
    <3> QED BY <1>4, <3>1
  <2>5. AllThere(Work(c.day) \ c.work)' <=> AllThere(ws \ c.work)
    <3>1. AllThere(Work(c.day) \ c.work)' <=> AllThere(ws \ c.work)'
      BY <2>2 DEF AllThere
    <3>2. AllThere(ws \ c.work)' <=> AllThere(ws \ c.work)
      BY <1>4
    <3> QED BY <3>1, <3>2
  <2>6. Unsettled(c.day)' = Unsettled(c.day)
    BY <1>2
  <2>7. c.pc = "accrue" => c.work \subseteq ws /\ AllThere(ws \ c.work)
    BY <2>2, <2>3 DEF CloseKept
  <2>8. c.pc = "settle" => AllThere(ws) /\ (~c.failed => Unsettled(c.day) \subseteq c.rows)
    BY <2>2, <2>3 DEF CloseKept
  <2> QED BY <2>2, <2>4, <2>5, <2>6, <2>7, <2>8 DEF CloseKept
<1>12. DaysKept'
  BY <1>9, <1>10, <1>11 DEF DaysKept
<1> QED BY <1>7, <1>8, <1>12 DEF TeamInv

LEMMA WorkSame ==
  ASSUME DaysTyped, UNCHANGED <<referredBy, demo, joined, events>>
  PROVE  \A d : d # NotYet => Work(d)' = Work(d)
<1> SUFFICES ASSUME NEW d, d # NotYet PROVE Work(d)' = Work(d)
  OBVIOUS
<1>1. \A ms : BetsOf(ms, d)' = BetsOf(ms, d) /\ DepositsOf(ms, d)' = DepositsOf(ms, d)
  BY DEF BetsOf, DepositsOf, Counted
<1>2. \A m \in Members : joined[m] = NotYet => joined'[m] # d
  OBVIOUS
<1>3. \A m \in Members : joined[m] # NotYet => joined'[m] = joined[m]
  OBVIOUS
<1>4. \A i \in DOMAIN events : events'[i].user = events[i].user /\ events'[i].amount = events[i].amount
  OBVIOUS
<1> QED BY <1>1, <1>2, <1>3, <1>4, WorkStays

\* The days of a close are over, and the day nobody has joined on is none of them.
LEMMA BegunDays ==
  ASSUME DeskInv, TeamInv
  PROVE  /\ day \in Int /\ MaxDay \in Int /\ 0 <= day /\ day <= MaxDay /\ begun \subseteq Int
         /\ \A d \in begun : d < day /\ d # NotYet
         /\ DaysTyped
<1>1. MaxDay \in Nat /\ day \in 0 .. MaxDay
  BY DeskAssumption DEF DeskAssumption, DeskInv
<1>2. begun \subseteq Int /\ DaysTyped /\ \A d \in begun : d < day
  BY DEF TeamInv, TeamTyped
<1>3. \A d \in begun : d # NotYet
  BY <1>1, <1>2 DEF NotYet
<1> QED BY <1>1, <1>2, <1>3

\* Steps that leave bets, deposits, members and rows alone.
LEMMA TeamElsewhere ==
  ASSUME DeskInv, TeamInv, DeskStep, late \subseteq late',
         UNCHANGED <<referredBy, demo, joined, events, rebates, credits, begun, closed>>,
         scheme = "team-rebate" => calls' = calls \/ calls' = {}
  PROVE  TeamInv'
<1>1. day \in Int /\ \A d \in begun : d # NotYet
  BY BegunDays
<1>2. DaysTyped
  BY BegunDays
<1>3. MaxDay \in Nat /\ day' \in 0 .. MaxDay /\ day <= day' /\ scheme' = scheme
  BY DeskAssumption DEF DeskAssumption, DeskStep
<1>4. \A d \in begun \ late' : Work(d)' = Work(d)
  BY <1>1, <1>2, WorkSame
<1>5. DaysTyped'
  <2>1. \A i \in DOMAIN events : events[i].day \in Nat
    BY <1>2, EventIs DEF DaysTyped
  <2>2. \A i \in DOMAIN events : events[i].day <= day'
    BY <1>1, <1>2, <1>3, <2>1 DEF DaysTyped
  <2> QED BY <1>2, <2>2 DEF DaysTyped, NotYet
<1> QED BY <1>1, <1>3, <1>4, <1>5, AroundTheClose

LEMMA JoinKeeps ==
  ASSUME DeskInv, TeamInv, NEW m \in Newcomers, Join(m)
  PROVE  TeamInv'
<1>0. m \in Members
  BY RebateAssumption DEF RebateAssumption
<1>1. /\ joined[m] = NotYet /\ joined' = [joined EXCEPT ![m] = day] /\ day' = day /\ calls' = calls /\ scheme' = scheme
      /\ late \subseteq late'
      /\ UNCHANGED <<referredBy, demo, events, rebates, credits, begun, closed>>
  BY DEF Join, AtOnce, Touch
<1>2. day \in Int /\ MaxDay \in Int /\ 0 <= day /\ day <= MaxDay /\ DaysTyped
      /\ \A d \in begun : d < day /\ d # NotYet
  BY BegunDays
<1>3. joined \in [Members -> Int] /\ \A i \in DOMAIN events : events[i].user \in Members
  BY <1>2, EventIs DEF DaysTyped
<1>4. day # NotYet
  BY <1>2 DEF NotYet
<1>5. \A x \in Members : (joined[x] # NotYet => joined'[x] = joined[x]) /\ (joined[x] = NotYet => joined'[x] \in {day, NotYet})
  BY <1>0, <1>1, <1>3
<1>6. DaysTyped'
  <2>1. joined' \in [Members -> Int]
    BY <1>0, <1>1, <1>2, <1>3
  <2>2. \A i \in DOMAIN events : joined'[events[i].user] # NotYet
    BY <1>2, <1>3, <1>5 DEF DaysTyped
  <2> QED BY <1>1, <1>2, <2>1, <2>2 DEF DaysTyped, NotYet
<1>7. ASSUME NEW d \in begun PROVE Work(d)' = Work(d)
  <2>1. d # day /\ d # NotYet
    BY <1>2
  <2>2. \A ms : BetsOf(ms, d)' = BetsOf(ms, d) /\ DepositsOf(ms, d)' = DepositsOf(ms, d)
    BY <1>1 DEF BetsOf, DepositsOf, Counted
  <2>3. \A x \in Members : joined[x] = NotYet => joined'[x] # d
    BY <1>5, <2>1
  <2>4. \A i \in DOMAIN events : events'[i].user = events[i].user /\ events'[i].amount = events[i].amount
    BY <1>1
  <2> QED BY <1>1, <1>2, <1>5, <2>1, <2>2, <2>3, <2>4, WorkStays
<1> QED BY <1>1, <1>2, <1>6, <1>7, AroundTheClose

LEMMA RecordKeeps ==
  ASSUME DeskInv, TeamInv, NEW kind \in {"bet", "deposit"}, NEW m \in Members, NEW a \in Stakes, NEW e, Record(kind, m, a, e)
  PROVE  TeamInv'
<1> DEFINE row == [kind |-> kind, user |-> m, amount |-> a, day |-> e, rolledBack |-> FALSE]
<1>1. /\ joined[m] <= day /\ e \in {day, day - 1} \cap Nat
      /\ events' = Append(events, row) /\ day' = day /\ calls' = calls /\ scheme' = scheme
      /\ late' = (IF e \in begun THEN late \cup {e} ELSE late)
      /\ UNCHANGED <<referredBy, demo, joined, rebates, credits, begun, closed>>
  BY DEF Record, AtOnce, Touch
<1>2. day \in Int /\ MaxDay \in Int /\ 0 <= day /\ day <= MaxDay /\ DaysTyped
      /\ \A d \in begun : d < day /\ d # NotYet
  BY BegunDays
<1>3. row \in EventRow
  <2>1. a \in Nat
    BY RebateAssumption DEF RebateAssumption
  <2> QED BY <1>1, <2>1 DEF EventRow
<1>4. events \in Seq(EventRow)
  BY <1>2 DEF DaysTyped
<1>5. PICK x : x = row
  OBVIOUS
<1>6. x \in EventRow /\ events' = Append(events, x)
  BY <1>1, <1>3, <1>5
<1> HIDE DEF row
<1>7. /\ events' \in Seq(EventRow) /\ Len(events) \in Nat
      /\ DOMAIN events = 1 .. Len(events) /\ DOMAIN events' = 1 .. Len(events) + 1
      /\ \A i \in 1 .. Len(events) : events'[i] = events[i]
      /\ events'[Len(events) + 1] = x
  BY ONLY <1>4, <1>6, Appended
<1> USE DEF row
<1>8. /\ x.user = m /\ x.day = e /\ e <= day /\ joined[m] # NotYet
  <2>1. joined[m] \in Int
    BY <1>2 DEF DaysTyped
  <2> QED BY <1>1, <1>2, <1>5, <2>1 DEF NotYet
<1>9. DaysTyped'
  <2>1. \A i \in DOMAIN events' : i \in DOMAIN events \/ i = Len(events) + 1
    BY <1>7
  <2>2. \A i \in DOMAIN events' : events'[i].day <= day /\ joined[events'[i].user] # NotYet
    BY <1>2, <1>7, <1>8, <2>1 DEF DaysTyped
  <2> QED BY <1>1, <1>2, <1>7, <2>2 DEF DaysTyped, NotYet
<1>10. ASSUME NEW d \in begun \ late' PROVE Work(d)' = Work(d)
  <2>1. d # e
    BY <1>1, <1>10
  <2>2. \A i \in DOMAIN events' : i \in DOMAIN events \/ events'[i].day = e
    BY <1>7, <1>8
  <2>3. \A i \in DOMAIN events : i \in DOMAIN events' /\ events'[i] = events[i]
    BY <1>7
  <2>4. \A ms : BetsOf(ms, d)' = BetsOf(ms, d) /\ DepositsOf(ms, d)' = DepositsOf(ms, d)
    BY <2>1, <2>2, <2>3 DEF BetsOf, DepositsOf, Counted
  <2>5. d # NotYet
    BY <1>2, <1>10
  <2>6. \A z \in Members : joined[z] # NotYet => joined'[z] = joined[z]
    BY <1>1
  <2>7. \A z \in Members : joined[z] = NotYet => joined'[z] # d
    BY <1>1, <2>5
  <2>8. \A i \in DOMAIN events : events'[i].user = events[i].user /\ events'[i].amount = events[i].amount
    BY <2>3
  <2> QED BY <1>1, <1>2, <2>4, <2>5, <2>6, <2>7, <2>8, WorkStays
<1>11. \A i \in DOMAIN events : i \in DOMAIN events' /\ events'[i].day = events[i].day
  BY <1>7
<1>12. late \subseteq late'
  BY <1>1
<1> QED BY <1>1, <1>2, <1>9, <1>10, <1>11, <1>12, AroundTheClose

LEMMA RollBackKeeps ==
  ASSUME DeskInv, TeamInv, NEW k \in DOMAIN events, RollBack(k)
  PROVE  TeamInv'
<1>1. /\ events' = [events EXCEPT ![k].rolledBack = TRUE] /\ day' = day /\ calls' = calls /\ scheme' = scheme
      /\ late' = (IF events[k].day \in begun THEN late \cup {events[k].day} ELSE late)
      /\ UNCHANGED <<referredBy, demo, joined, rebates, credits, begun, closed>>
  BY DEF RollBack, AtOnce, Touch
<1>2. day \in Int /\ MaxDay \in Int /\ 0 <= day /\ day <= MaxDay /\ DaysTyped
      /\ \A d \in begun : d < day /\ d # NotYet
  BY BegunDays
<1>3. events \in Seq(EventRow)
  BY <1>2 DEF DaysTyped
<1>4. \A i \in DOMAIN events : events[i] \in EventRow
  BY <1>3, EventIs
<1>5. /\ DOMAIN events' = DOMAIN events
      /\ \A i \in DOMAIN events : i # k => events'[i] = events[i]
      /\ events'[k] = [events[k] EXCEPT !.rolledBack = TRUE]
  BY <1>1
<1>6. \A i \in DOMAIN events : /\ events'[i] \in EventRow /\ events'[i].user = events[i].user
                               /\ events'[i].amount = events[i].amount /\ events'[i].day = events[i].day
                               /\ events'[i].kind = events[i].kind
  <2> TAKE i \in DOMAIN events
  <2>1. PICK e \in EventRow : e = events[i]
    BY <1>4
  <2>2. events'[i] = e \/ events'[i] = [e EXCEPT !.rolledBack = TRUE]
    BY <1>5, <2>1
  <2>3. PICK f : f = [e EXCEPT !.rolledBack = TRUE]
    OBVIOUS
  <2>4. f \in EventRow
    BY <2>3 DEF EventRow
  <2>5. f.user = e.user /\ f.amount = e.amount /\ f.day = e.day /\ f.kind = e.kind
    BY <2>3 DEF EventRow
  <2> QED BY <2>1, <2>2, <2>3, <2>4, <2>5
<1>7. events' = [i \in DOMAIN events |-> events'[i]]
  BY <1>1
<1>8. events' \in Seq(EventRow)
  <2>1. PICK f : f = events'
    OBVIOUS
  <2>2. f = [i \in DOMAIN events |-> f[i]] /\ \A i \in DOMAIN events : f[i] \in EventRow
    BY <1>6, <1>7, <2>1
  <2>3. f \in Seq(EventRow)
    BY ONLY <1>3, <2>2, RowByRow
  <2> QED BY <2>1, <2>3
<1>9. DaysTyped'
  BY <1>1, <1>2, <1>5, <1>6, <1>8 DEF DaysTyped, NotYet
<1>10. ASSUME NEW d \in begun \ late' PROVE Work(d)' = Work(d)
  <2>1. d # events[k].day
    BY <1>1, <1>10
  <2>2. \A ms : BetsOf(ms, d)' = BetsOf(ms, d) /\ DepositsOf(ms, d)' = DepositsOf(ms, d)
    BY <1>5, <1>6, <2>1 DEF BetsOf, DepositsOf, Counted
  <2>3. d # NotYet
    BY <1>2, <1>10
  <2>4. \A z \in Members : joined[z] # NotYet => joined'[z] = joined[z]
    BY <1>1
  <2>5. \A z \in Members : joined[z] = NotYet => joined'[z] # d
    BY <1>1, <2>3
  <2> QED BY <1>1, <1>2, <1>6, <2>2, <2>3, <2>4, <2>5, WorkStays
<1>11. late \subseteq late'
  BY <1>1
<1> QED BY <1>1, <1>2, <1>5, <1>6, <1>9, <1>10, <1>11, AroundTheClose

\* What the steps of a close leave alone.
LEMMA DaysStay ==
  ASSUME DeskInv, TeamInv, UNCHANGED <<scheme, day, referredBy, demo, joined, events>>
  PROVE  DaysTyped' /\ \A d : d # NotYet => Work(d)' = Work(d)
<1>1. DaysTyped
  BY BegunDays
<1>2. DaysTyped'
  BY <1>1 DEF DaysTyped, NotYet
<1> QED BY <1>1, <1>2, WorkSame

\* A close that begins has everything still to write.
LEMMA CloseBegins ==
  ASSUME DeskInv, TeamInv, CloseDay,
         UNCHANGED <<referredBy, demo, joined, events, rebates, credits, closed, late>>
  PROVE  TeamInv'
<1> DEFINE d == day - 1
           c == [made |-> made, pc |-> "accrue", day |-> d, work |-> Work(d)]
<1>1. calls = {} /\ calls' = {c} /\ begun' = begun \cup {d} /\ UNCHANGED <<scheme, day>>
  BY DEF CloseDay, Begin, ClosedDay
<1>2. /\ day \in Int /\ MaxDay \in Int /\ 0 <= day /\ day <= MaxDay /\ begun \subseteq Int /\ DaysTyped
      /\ \A b \in begun : b < day /\ b # NotYet
  BY BegunDays
<1>3. DaysTyped' /\ \A b : b # NotYet => Work(b)' = Work(b)
  BY <1>1, DaysStay
<1>4. d \in Int /\ d < day /\ d # NotYet
  BY <1>2 DEF NotYet
<1>5. /\ \A r \in DOMAIN rebates : rebates[r].bet \in DOMAIN events /\ events[rebates[r].bet].day \in begun
      /\ closed \subseteq begun
  BY DEF TeamInv, TeamTyped
<1>6. \A b : RowsOfDay(b)' = RowsOfDay(b) /\ Unsettled(b)' = Unsettled(b)
  BY DEF RowsOfDay, Unsettled
<1>7. \A r, w : Pays(r, w)' <=> Pays(r, w)
  BY DEF Pays
<1>8. \A u, b : Already(u, b)' <=> Already(u, b)
  BY DEF Already
<1>9. c.pc = "accrue" /\ c.day = d /\ c.work = Work(d) /\ c = [made |-> c.made, pc |-> "accrue", day |-> c.day, work |-> c.work]
  OBVIOUS
<1>10. PICK k : k = c
  OBVIOUS
<1> HIDE DEF c
<1>11. AccrueCall(k)'
  <2>1. \A w \in k.work : w.bet \in DOMAIN events /\ events[w.bet].day = d /\ w.user \in Members /\ w.amount \in Nat
    BY <1>2, <1>9, <1>10, WorkIs DEF DaysTyped
  <2> QED BY <1>9, <1>10, <2>1 DEF AccrueCall
<1>12. TeamTyped'
  <2>1. begun' \subseteq Int /\ closed' \subseteq begun' /\ \A b \in begun' : b < day
    BY <1>1, <1>2, <1>4, <1>5
  <2>2. \A r \in DOMAIN rebates : rebates[r].bet \in DOMAIN events /\ events[rebates[r].bet].day \in begun'
    BY <1>1, <1>5
  <2>3. calls' = {k} /\ k.day \in begun'
    BY <1>1, <1>9, <1>10
  <2> QED BY <1>1, <1>3, <1>11, <2>1, <2>2, <2>3 DEF TeamInv, TeamTyped
<1>13. RowsKept'
  BY DEF TeamInv, RowsKept
<1>14. ASSUME NEW b \in begun' \ late' PROVE RowsAreDue(b)'
  <2>1. PICK ws : ws = Work(b) /\ ws = Work(b)'
    BY <1>1, <1>2, <1>3, <1>4
  <2>2. CASE b \in begun
    <3>1. RowsAreDue(b)
      BY <1>14, <2>2 DEF TeamInv, DaysKept
    <3> QED BY <1>6, <1>7, <2>1, <3>1 DEF RowsAreDue
  <2>3. CASE b \notin begun
    <3>1. RowsOfDay(b) = {}
      BY <1>5, <2>3 DEF RowsOfDay
    <3> QED BY <1>6, <3>1 DEF RowsAreDue
  <2> QED BY <2>2, <2>3
<1>15. ASSUME NEW b \in closed' \ late' PROVE AllThere(Work(b))' /\ Unsettled(b)' = {}
  <2>1. PICK ws : ws = Work(b) /\ ws = Work(b)'
    BY <1>2, <1>3, <1>5
  <2>2. AllThere(Work(b)) /\ Unsettled(b) = {}
    BY DEF TeamInv, DaysKept
  <2>3. AllThere(Work(b))' <=> AllThere(Work(b))
    BY <1>8, <2>1 DEF AllThere
  <2> QED BY <1>6, <2>2, <2>3
<1>16. CloseKept(k)'
  <2>1. k.pc = "accrue" /\ k.day = d /\ k.work = Work(d)
    BY <1>9, <1>10
  <2>2. Work(k.day)' = Work(d)
    BY <1>3, <1>4, <2>1
  <2>3. AllThere(Work(k.day) \ k.work)'
    BY <2>1, <2>2 DEF AllThere
  <2> QED BY <2>1, <2>2, <2>3 DEF CloseKept
<1>17. \A e \in calls' : e = k
  BY <1>1, <1>10
<1>18. DaysKept'
  BY <1>14, <1>15, <1>16, <1>17 DEF DaysKept
<1> QED BY <1>12, <1>13, <1>18 DEF TeamInv

\* The only call of this scheme is the close.
LEMMA TheCall ==
  ASSUME TeamInv, scheme = "team-rebate", NEW c \in calls
  PROVE  /\ calls = {c} /\ c.day \in begun
         /\ c.pc = "accrue" => AccrueCall(c)
         /\ c.pc = "settle" => SettleCall(c)
         /\ c.day \notin late => CloseKept(c)
<1>1. PICK k : calls = {k} /\ k.day \in begun /\ (AccrueCall(k) \/ SettleCall(k))
  BY DEF TeamInv, TeamTyped
<1>2. k = c
  BY <1>1
<1>3. (AccrueCall(k) => k.pc = "accrue") /\ (SettleCall(k) => k.pc = "settle")
  BY DEF AccrueCall, SettleCall
<1>4. c.day \notin late => CloseKept(c)
  BY DEF TeamInv, DaysKept
<1> QED BY <1>1, <1>2, <1>3, <1>4

LEMMA SettleReads ==
  ASSUME DeskInv, TeamInv, scheme = "team-rebate", NEW c \in calls, SettleRead(c)
  PROVE  TeamInv'
<1> DEFINE e == [pc |-> "settle", day |-> c.day, rows |-> Unsettled(c.day), failed |-> FALSE]
<1>1. /\ c.pc = "accrue" /\ c.work = {} /\ calls' = {e}
      /\ UNCHANGED <<scheme, day, referredBy, demo, joined, events, rebates, credits, begun, closed, late>>
  BY DEF SettleRead, teamVars
<1>2. PICK k : k = e
  OBVIOUS
<1>3. k.pc = "settle" /\ k.day = c.day /\ k.rows = Unsettled(c.day) /\ k.failed = FALSE
      /\ k = [pc |-> "settle", day |-> k.day, rows |-> k.rows, failed |-> k.failed]
  BY <1>2
<1>4. calls = {c} /\ c.day \in begun /\ (c.day \notin late => CloseKept(c))
  BY TheCall
<1>5. calls' = {k}
  BY <1>1, <1>2
<1> HIDE DEF e
<1>6. DaysTyped' /\ \A b : b # NotYet => Work(b)' = Work(b)
  BY <1>1, DaysStay
<1>7. \A b \in begun : b # NotYet
  BY BegunDays
<1>8. \A b : RowsOfDay(b)' = RowsOfDay(b) /\ Unsettled(b)' = Unsettled(b)
  BY <1>1 DEF RowsOfDay, Unsettled
<1>9. \A r, w : Pays(r, w)' <=> Pays(r, w)
  BY <1>1 DEF Pays
<1>10. \A u, b : Already(u, b)' <=> Already(u, b)
  BY <1>1 DEF Already
<1>11. SettleCall(k)'
  BY <1>3, <1>8 DEF SettleCall
<1>12. TeamTyped'
  BY <1>1, <1>3, <1>4, <1>5, <1>6, <1>11 DEF TeamInv, TeamTyped
<1>13. RowsKept'
  BY <1>1 DEF TeamInv, RowsKept
<1>14. ASSUME NEW b \in begun \ late PROVE RowsAreDue(b)'
  <2>1. PICK ws : ws = Work(b) /\ ws = Work(b)'
    BY <1>6, <1>7
  <2> QED BY <1>8, <1>9, <2>1 DEF RowsAreDue, TeamInv, DaysKept
<1>15. ASSUME NEW b \in closed \ late PROVE AllThere(Work(b))' /\ Unsettled(b)' = {}
  <2>0. b \in begun
    BY DEF TeamInv, TeamTyped
  <2>1. PICK ws : ws = Work(b) /\ ws = Work(b)'
    BY <1>6, <1>7, <2>0
  <2>2. AllThere(Work(b)) /\ Unsettled(b) = {}
    BY DEF TeamInv, DaysKept
  <2>3. AllThere(Work(b))' <=> AllThere(Work(b))
    BY <1>10, <2>1 DEF AllThere
  <2> QED BY <1>8, <2>2, <2>3
<1>16. ASSUME c.day \notin late PROVE CloseKept(k)'
  <2>1. PICK ws : ws = Work(c.day) /\ ws = Work(c.day)'
    BY <1>4, <1>6, <1>7
  <2>2. AllThere(ws \ {})
    BY <1>1, <1>4, <1>16, <2>1 DEF CloseKept
  <2>3. AllThere(Work(k.day))'
    BY <1>3, <1>10, <2>1, <2>2 DEF AllThere
  <2> QED BY <1>3, <1>8, <2>3 DEF CloseKept
<1>17. \A b \in calls' : b = k
  BY <1>5
<1>18. DaysKept'
  BY <1>1, <1>3, <1>14, <1>15, <1>16, <1>17 DEF DaysKept
<1> QED BY <1>12, <1>13, <1>18 DEF TeamInv

\* A row is written, or is there already, or is worth nothing.
LEMMA AccrueKeeps ==
  ASSUME DeskInv, TeamInv, scheme = "team-rebate", NEW c \in calls, c.pc = "accrue", NEW w \in c.work, AccrueRow(c, w)
  PROVE  TeamInv'
<1> DEFINE row == [user |-> w.user, bet |-> w.bet, amount |-> w.amount, settled |-> FALSE]
           e == [c EXCEPT !.work = c.work \ {w}]
<1>1. /\ calls' = {e}
      /\ UNCHANGED <<scheme, day, referredBy, demo, joined, events, begun, closed, late>>
      /\ \/ /\ ~Already(w.user, w.bet) /\ w.amount > 0
            /\ rebates' = Append(rebates, row) /\ credits' = Append(credits, 0)
         \/ /\ Already(w.user, w.bet) \/ ~(w.amount > 0)
            /\ rebates' = rebates /\ credits' = credits
  BY Zenon DEF AccrueRow
<1>2. calls = {c} /\ c.day \in begun /\ AccrueCall(c) /\ (c.day \notin late => CloseKept(c))
  BY TheCall
<1>3. PICK k : k = e
  OBVIOUS
<1>4. k.pc = "accrue" /\ k.day = c.day /\ k.work = c.work \ {w}
      /\ k = [made |-> k.made, pc |-> "accrue", day |-> k.day, work |-> k.work]
  BY <1>2, <1>3 DEF AccrueCall
<1>5. calls' = {k}
  BY <1>1, <1>3
<1> HIDE DEF e
<1>6. DaysTyped' /\ \A b : b # NotYet => Work(b)' = Work(b)
  BY <1>1, DaysStay
<1>7. (\A b \in begun : b # NotYet) /\ closed \subseteq begun
  BY BegunDays DEF TeamInv, TeamTyped
<1>8. /\ w.bet \in DOMAIN events /\ events[w.bet].day = c.day /\ w.user \in Members /\ w.amount \in Nat
  BY <1>2 DEF AccrueCall
<1>9. rebates \in Seq(RebateOf) /\ credits \in Seq(Nat) /\ Len(credits) = Len(rebates)
  BY DEF TeamInv, TeamTyped
<1>10. PICK x : x = row
  OBVIOUS
<1>11. x \in RebateOf /\ x.user = w.user /\ x.bet = w.bet /\ x.amount = w.amount /\ x.settled = FALSE
  <2>1. w.bet \in Nat
    BY <1>8, BegunDays, EventIs DEF DaysTyped
  <2> QED BY <1>8, <1>10, <2>1 DEF RebateOf
<1>12. \/ /\ ~Already(w.user, w.bet) /\ w.amount > 0
          /\ rebates' = Append(rebates, x) /\ credits' = Append(credits, 0)
       \/ /\ Already(w.user, w.bet) \/ ~(w.amount > 0)
          /\ rebates' = rebates /\ credits' = credits
  BY <1>1, <1>10
<1> HIDE DEF row
<1> DEFINE New == ~Already(w.user, w.bet) /\ w.amount > 0
           last == Len(rebates) + 1
<1>13. /\ rebates' \in Seq(RebateOf) /\ credits' \in Seq(Nat) /\ Len(credits') = Len(rebates') /\ Len(rebates) \in Nat
       /\ DOMAIN rebates = 1 .. Len(rebates)
       /\ \A r \in DOMAIN rebates : r \in DOMAIN rebates' /\ rebates'[r] = rebates[r] /\ credits'[r] = credits[r]
       /\ \A r \in DOMAIN rebates' : r \in DOMAIN rebates \/ (New /\ r = last)
       /\ New => last \in DOMAIN rebates' /\ rebates'[last] = x /\ credits'[last] = 0
  <2>1. Len(rebates) \in Nat /\ DOMAIN rebates = 1 .. Len(rebates)
    BY ONLY <1>9, LenProperties
  <2>2. CASE New
    <3>1. rebates' = Append(rebates, x) /\ credits' = Append(credits, 0)
      BY <1>12, <2>2
    <3>2. /\ Append(rebates, x) \in Seq(RebateOf) /\ Len(Append(rebates, x)) = Len(rebates) + 1
          /\ DOMAIN rebates = 1 .. Len(rebates) /\ DOMAIN Append(rebates, x) = 1 .. Len(rebates) + 1
          /\ \A i \in 1 .. Len(rebates) : Append(rebates, x)[i] = rebates[i]
          /\ Append(rebates, x)[Len(rebates) + 1] = x
      BY ONLY <1>9, <1>11, Appended
    <3>3. /\ Append(credits, 0) \in Seq(Nat) /\ Len(Append(credits, 0)) = Len(credits) + 1
          /\ \A i \in 1 .. Len(credits) : Append(credits, 0)[i] = credits[i]
          /\ Append(credits, 0)[Len(credits) + 1] = 0
      BY ONLY <1>9, 0 \in Nat, Appended
    <3>4. DOMAIN rebates' = 1 .. Len(rebates) + 1
      BY <3>1, <3>2
    <3>5. \A r \in 1 .. Len(rebates) + 1 : r \in 1 .. Len(rebates) \/ r = last
      BY <2>1
    <3>6. last \in 1 .. Len(rebates) + 1 /\ \A r \in 1 .. Len(rebates) : r \in 1 .. Len(rebates) + 1
      BY <2>1
    <3> QED BY <1>9, <2>1, <2>2, <3>1, <3>2, <3>3, <3>4, <3>5, <3>6
  <2>3. CASE ~New
    BY <1>9, <1>12, <2>1, <2>3
  <2> QED BY <2>2, <2>3
<1> HIDE DEF last
<1>14. last \notin DOMAIN rebates
  BY <1>13 DEF last
<1>15. \A u, b : Already(u, b)' <=> Already(u, b) \/ (New /\ u = w.user /\ b = w.bet)
  BY <1>11, <1>13 DEF Already
<1>16. \A r \in DOMAIN rebates : rebates[r].bet \in DOMAIN events /\ events[rebates[r].bet].day \in begun
  BY DEF TeamInv, TeamTyped
<1>17. AccrueCall(k)'
  BY <1>1, <1>2, <1>4 DEF AccrueCall
<1>18. TeamTyped'
  <2>1. \A r \in DOMAIN rebates' : rebates'[r].bet \in DOMAIN events /\ events[rebates'[r].bet].day \in begun
    BY <1>2, <1>8, <1>11, <1>13, <1>16
  <2> QED BY <1>1, <1>2, <1>4, <1>5, <1>6, <1>13, <1>17, <2>1 DEF TeamInv, TeamTyped
<1>19. RowsKept'
  <2>1. New => \A r \in DOMAIN rebates : rebates[r].bet = w.bet => rebates[r].user # w.user
    BY DEF Already
  <2>2. ASSUME NEW r \in DOMAIN rebates', NEW q \in DOMAIN rebates', r # q, rebates'[r].bet = rebates'[q].bet
        PROVE  rebates'[r].user # rebates'[q].user
    <3>1. CASE r \in DOMAIN rebates /\ q \in DOMAIN rebates
      BY <1>13, <2>2, <3>1 DEF TeamInv, RowsKept
    <3>2. CASE r \in DOMAIN rebates /\ New /\ q = last
      BY <1>11, <1>13, <2>1, <2>2, <3>2
    <3>3. CASE q \in DOMAIN rebates /\ New /\ r = last
      BY <1>11, <1>13, <2>1, <2>2, <3>3
    <3> QED BY <1>13, <2>2, <3>1, <3>2, <3>3
  <2>3. ASSUME NEW r \in DOMAIN rebates' PROVE credits'[r] = (IF rebates'[r].settled THEN 1 ELSE 0)
    <3>1. CASE r \in DOMAIN rebates
      BY <1>13, <3>1 DEF TeamInv, RowsKept
    <3>2. CASE New /\ r = last
      BY <1>11, <1>13, <3>2
    <3> QED BY <1>13, <3>1, <3>2
  <2> QED BY <2>2, <2>3 DEF RowsKept
<1>20. \A b, r : r \in RowsOfDay(b)' <=> (r \in RowsOfDay(b) \/ (New /\ r = last /\ b = c.day))
  BY <1>1, <1>8, <1>11, <1>13, <1>14 DEF RowsOfDay
<1>21. \A b, r : r \in Unsettled(b)' <=> (r \in Unsettled(b) \/ (New /\ r = last /\ b = c.day))
  BY <1>1, <1>8, <1>11, <1>13, <1>14 DEF Unsettled
<1>22. c.day \notin late => w \in Work(c.day) /\ c.work \subseteq Work(c.day) /\ AllThere(Work(c.day) \ c.work)
  BY <1>2 DEF CloseKept
<1>23. ASSUME NEW b \in begun \ late, NEW r \in RowsOfDay(b)' PROVE \E v \in Work(b) : Pays(r, v)'
  <2>1. CASE r \in RowsOfDay(b)
    <3>1. PICK v \in Work(b) : Pays(r, v)
      BY <2>1 DEF TeamInv, DaysKept, RowsAreDue
    <3>2. r \in DOMAIN rebates
      BY <2>1 DEF RowsOfDay
    <3>3. Pays(r, v)'
      BY <1>13, <3>1, <3>2 DEF Pays
    <3> QED BY <3>3
  <2>2. CASE New /\ r = last /\ b = c.day
    <3>1. Pays(r, w)'
      BY <1>11, <1>13, <2>2 DEF Pays
    <3> QED BY <1>22, <2>2, <3>1
  <2> QED BY <1>20, <1>23, <2>1, <2>2
<1>24. ASSUME NEW b \in begun \ late PROVE RowsAreDue(b)'
  <2>1. PICK ws : ws = Work(b) /\ ws = Work(b)'
    BY <1>6, <1>7
  <2> QED BY <1>23, <1>24, <2>1 DEF RowsAreDue
<1>25. ASSUME NEW b \in closed \ late PROVE AllThere(Work(b))' /\ Unsettled(b)' = {}
  <2>1. PICK ws : ws = Work(b) /\ ws = Work(b)'
    BY <1>6, <1>7
  <2>2. AllThere(ws) /\ Unsettled(b) = {}
    BY <2>1 DEF TeamInv, DaysKept
  <2>3. AllThere(Work(b))'
    BY <1>15, <2>1, <2>2 DEF AllThere
  <2>4. ~(New /\ b = c.day)
    BY <1>22, <2>1, <2>2 DEF AllThere
  <2> QED BY <1>21, <2>2, <2>3, <2>4
<1>26. ASSUME c.day \notin late PROVE CloseKept(k)'
  <2>1. PICK ws : ws = Work(c.day) /\ ws = Work(c.day)'
    BY <1>2, <1>6, <1>7
  <2>2. AllThere(ws \ c.work) /\ c.work \subseteq ws
    BY <1>22, <1>26, <2>1
  <2>3. k.work \subseteq Work(k.day)'
    BY <1>4, <2>1, <2>2
  <2>4. w.amount > 0 => Already(w.user, w.bet)'
    BY <1>15
  <2>5. \A v \in ws \ k.work : v.amount > 0 => Already(v.user, v.bet)'
    <3> TAKE v \in ws \ k.work
    <3>1. v = w \/ v \in ws \ c.work
      BY <1>4
    <3>2. v \in ws \ c.work /\ v.amount > 0 => Already(v.user, v.bet)
      BY <2>2 DEF AllThere
    <3> QED BY <1>15, <2>4, <3>1, <3>2
  <2>6. AllThere(Work(k.day) \ k.work)'
    BY <1>4, <2>1, <2>5 DEF AllThere
  <2> QED BY <1>4, <2>3, <2>6 DEF CloseKept
<1>27. \A b \in calls' : b = k
  BY <1>5
<1>28. DaysKept'
  BY <1>1, <1>4, <1>24, <1>25, <1>26, <1>27 DEF DaysKept
<1> QED BY <1>18, <1>19, <1>28 DEF TeamInv

\* What a settled user's rows become, and the rows of the others.
LEMMA SettleUserKeeps ==
  ASSUME DeskInv, TeamInv, scheme = "team-rebate", NEW c \in calls, NEW u, SettleUser(c, u)
  PROVE  TeamInv'
<1> DEFINE mine == {r \in c.rows : rebates[r].user = u}
           e == [c EXCEPT !.rows = c.rows \ mine]
<1>1. /\ c.pc = "settle" /\ calls' = {e}
      /\ rebates' = [r \in DOMAIN rebates |-> IF r \in mine THEN Settled(rebates[r]) ELSE rebates[r]]
      /\ credits' = [r \in DOMAIN credits |-> IF r \in mine THEN credits[r] + 1 ELSE credits[r]]
      /\ UNCHANGED <<scheme, day, referredBy, demo, joined, events, begun, closed, late>>
  BY Zenon DEF SettleUser
<1>2. calls = {c} /\ c.day \in begun /\ SettleCall(c) /\ (c.day \notin late => CloseKept(c))
  BY <1>1, TheCall
<1>3. PICK k : k = e
  OBVIOUS
<1>4. k.pc = "settle" /\ k.day = c.day /\ k.rows = c.rows \ mine /\ k.failed = c.failed
      /\ k = [pc |-> "settle", day |-> k.day, rows |-> k.rows, failed |-> k.failed]
  BY <1>2, <1>3 DEF SettleCall
<1>5. calls' = {k}
  BY <1>1, <1>3
<1> HIDE DEF e
<1>6. DaysTyped' /\ \A b : b # NotYet => Work(b)' = Work(b)
  BY <1>1, DaysStay
<1>7. (\A b \in begun : b # NotYet) /\ closed \subseteq begun
  BY BegunDays DEF TeamInv, TeamTyped
<1>8. rebates \in Seq(RebateOf) /\ credits \in Seq(Nat) /\ Len(credits) = Len(rebates)
  BY DEF TeamInv, TeamTyped
<1>9. mine \subseteq Unsettled(c.day) /\ mine \subseteq c.rows /\ c.rows \subseteq Unsettled(c.day)
  BY <1>2 DEF SettleCall
<1> HIDE DEF mine
<1>10. DOMAIN credits = DOMAIN rebates /\ \A r \in DOMAIN rebates : rebates[r] \in RebateOf /\ credits[r] \in Nat
  BY <1>8, LenProperties, ElementOfSeq
<1>11. \A r \in DOMAIN rebates : /\ rebates'[r] \in RebateOf
                                 /\ rebates'[r].user = rebates[r].user /\ rebates'[r].bet = rebates[r].bet
                                 /\ rebates'[r].amount = rebates[r].amount
                                 /\ rebates'[r].settled = (r \in mine \/ rebates[r].settled)
  <2> TAKE r \in DOMAIN rebates
  <2>1. PICK x \in RebateOf : x = rebates[r]
    BY <1>10
  <2>2. PICK y : y = [x EXCEPT !.settled = TRUE]
    OBVIOUS
  <2>3. y \in RebateOf
    BY <2>2 DEF RebateOf
  <2>4. y.user = x.user /\ y.bet = x.bet /\ y.amount = x.amount /\ y.settled = TRUE /\ x.settled \in BOOLEAN
    BY <2>2 DEF RebateOf
  <2>5. rebates'[r] = IF r \in mine THEN y ELSE x
    BY <1>1, <2>1, <2>2 DEF Settled
  <2>6. CASE r \in mine
    <3>1. rebates'[r] = y
      BY <2>5, <2>6
    <3>2. rebates'[r].settled = (r \in mine \/ rebates[r].settled)
      BY <2>4, <2>6, <3>1
    <3> QED BY <2>1, <2>3, <2>4, <3>1, <3>2
  <2>7. CASE r \notin mine
    <3>1. rebates'[r] = x
      BY <2>5, <2>7
    <3>2. rebates'[r].settled = (r \in mine \/ rebates[r].settled)
      BY <2>1, <2>4, <2>7, <3>1
    <3> QED BY <2>1, <3>1, <3>2
  <2> QED BY <2>6, <2>7
<1>12. \A r \in DOMAIN credits : credits'[r] = (IF r \in mine THEN credits[r] + 1 ELSE credits[r]) /\ credits'[r] \in Nat
  BY <1>1, <1>10
<1>13. rebates' \in Seq(RebateOf) /\ Len(rebates') = Len(rebates) /\ DOMAIN rebates' = DOMAIN rebates
  <2>1. PICK f : f = rebates'
    OBVIOUS
  <2>2. f = [i \in DOMAIN rebates |-> f[i]] /\ \A i \in DOMAIN rebates : f[i] \in RebateOf
    BY <1>1, <1>11, <2>1
  <2>3. f \in Seq(RebateOf) /\ Len(f) = Len(rebates) /\ DOMAIN f = DOMAIN rebates
    BY ONLY <1>8, <2>2, RowByRow
  <2> QED BY <2>1, <2>3
<1>14. credits' \in Seq(Nat) /\ Len(credits') = Len(credits)
  <2>1. PICK f : f = credits'
    OBVIOUS
  <2>2. f = [i \in DOMAIN credits |-> f[i]] /\ \A i \in DOMAIN credits : f[i] \in Nat
    BY <1>1, <1>12, <2>1
  <2>3. f \in Seq(Nat) /\ Len(f) = Len(credits) /\ DOMAIN f = DOMAIN credits
    BY ONLY <1>8, <2>2, RowByRow
  <2> QED BY <2>1, <2>3
<1>15. \A b : RowsOfDay(b)' = RowsOfDay(b)
  BY <1>1, <1>11, <1>13 DEF RowsOfDay
<1>16. \A b, r : r \in Unsettled(b)' <=> (r \in Unsettled(b) /\ r \notin mine)
  BY <1>1, <1>11, <1>13 DEF Unsettled
<1>17. \A r \in DOMAIN rebates : \A w : Pays(r, w)' <=> Pays(r, w)
  BY <1>11 DEF Pays
<1>18. \A v, b : Already(v, b)' <=> Already(v, b)
  BY <1>11, <1>13 DEF Already
<1>19. SettleCall(k)'
  BY <1>2, <1>4, <1>9, <1>16 DEF SettleCall
<1>20. TeamTyped'
  <2>1. \A r \in DOMAIN rebates' : rebates'[r].bet \in DOMAIN events /\ events[rebates'[r].bet].day \in begun
    BY <1>11, <1>13 DEF TeamInv, TeamTyped
  <2> QED BY <1>1, <1>2, <1>4, <1>5, <1>6, <1>8, <1>13, <1>14, <1>19, <2>1 DEF TeamInv, TeamTyped
<1>21. RowsKept'
  <2>1. \A r \in mine : r \in DOMAIN rebates /\ ~rebates[r].settled
    BY <1>9 DEF Unsettled
  <2>2. ASSUME NEW r \in DOMAIN rebates' PROVE credits'[r] = (IF rebates'[r].settled THEN 1 ELSE 0)
    <3>1. r \in DOMAIN rebates /\ r \in DOMAIN credits
      BY <1>10, <1>13
    <3>2. credits[r] = (IF rebates[r].settled THEN 1 ELSE 0)
      BY <3>1 DEF TeamInv, RowsKept
    <3>3. CASE r \in mine
      <4>1. credits'[r] = credits[r] + 1
        BY <1>12, <3>1, <3>3
      <4>2. credits[r] = 0
        BY <2>1, <3>2, <3>3
      <4>3. rebates'[r].settled = (r \in mine \/ rebates[r].settled)
        BY <1>11, <3>1
      <4>4. rebates'[r].settled
        BY <3>3, <4>3, Zenon
      <4> QED BY <4>1, <4>2, <4>4
    <3>4. CASE r \notin mine
      <4>1. credits'[r] = credits[r]
        BY <1>12, <3>1, <3>4
      <4>2. rebates'[r].settled <=> rebates[r].settled
        BY <1>11, <3>1, <3>4
      <4> QED BY <3>2, <4>1, <4>2
    <3> QED BY <3>3, <3>4
  <2>3. \A r, q \in DOMAIN rebates : (r # q /\ rebates'[r].bet = rebates'[q].bet) => rebates'[r].user # rebates'[q].user
    BY <1>11 DEF TeamInv, RowsKept
  <2> QED BY <1>13, <2>2, <2>3 DEF RowsKept
<1>22. ASSUME NEW b \in begun \ late PROVE RowsAreDue(b)'
  <2>1. PICK ws : ws = Work(b) /\ ws = Work(b)'
    BY <1>6, <1>7
  <2>2. \A r \in RowsOfDay(b) : r \in DOMAIN rebates
    BY DEF RowsOfDay
  <2>3. RowsAreDue(b)
    BY DEF TeamInv, DaysKept
  <2> QED BY <1>15, <1>17, <2>1, <2>2, <2>3 DEF RowsAreDue
<1>23. ASSUME NEW b \in closed \ late PROVE AllThere(Work(b))' /\ Unsettled(b)' = {}
  <2>1. PICK ws : ws = Work(b) /\ ws = Work(b)'
    BY <1>6, <1>7
  <2>2. AllThere(Work(b)) /\ Unsettled(b) = {}
    BY DEF TeamInv, DaysKept
  <2>3. AllThere(Work(b))' <=> AllThere(Work(b))
    BY <1>18, <2>1 DEF AllThere
  <2> QED BY <1>16, <2>2, <2>3
<1>24. ASSUME c.day \notin late PROVE CloseKept(k)'
  <2>1. PICK ws : ws = Work(c.day) /\ ws = Work(c.day)'
    BY <1>2, <1>6, <1>7
  <2>2. AllThere(ws) /\ (~c.failed => Unsettled(c.day) \subseteq c.rows)
    BY <1>1, <1>2, <1>24, <2>1 DEF CloseKept
  <2>3. AllThere(Work(k.day))'
    BY <1>4, <1>18, <2>1, <2>2 DEF AllThere
  <2>4. ~k.failed => Unsettled(k.day)' \subseteq k.rows
    BY <1>4, <1>16, <2>2
  <2> QED BY <1>4, <2>3, <2>4 DEF CloseKept
<1>25. \A b \in calls' : b = k
  BY <1>5
<1>26. DaysKept'
  BY <1>1, <1>4, <1>22, <1>23, <1>24, <1>25 DEF DaysKept
<1> QED BY <1>20, <1>21, <1>26 DEF TeamInv

\* Steps of the settling that write no row: a transaction that fails, the end.
LEMMA SettleQuiet ==
  ASSUME DeskInv, TeamInv, scheme = "team-rebate", NEW c \in calls, c.pc = "settle",
         UNCHANGED <<scheme, day, referredBy, demo, joined, events, rebates, credits, begun, late>>,
         \/ /\ closed' = closed
            /\ \E k : /\ calls' = {k} /\ k.day = c.day /\ k.pc = "settle" /\ k.rows \subseteq c.rows /\ k.failed = TRUE
                      /\ k = [pc |-> "settle", day |-> k.day, rows |-> k.rows, failed |-> k.failed]
         \/ /\ c.rows = {} /\ calls' = {}
            /\ closed' = (IF c.failed THEN closed ELSE closed \cup {c.day})
  PROVE  TeamInv'
<1>1. calls = {c} /\ c.day \in begun /\ SettleCall(c) /\ (c.day \notin late => CloseKept(c))
  BY TheCall
<1>2. DaysTyped' /\ \A b : b # NotYet => Work(b)' = Work(b)
  BY DaysStay
<1>3. (\A b \in begun : b # NotYet) /\ closed \subseteq begun /\ closed' \subseteq begun
  BY <1>1, BegunDays DEF TeamInv, TeamTyped
<1>4. \A b : RowsOfDay(b)' = RowsOfDay(b) /\ Unsettled(b)' = Unsettled(b)
  BY DEF RowsOfDay, Unsettled
<1>5. \A r, w : Pays(r, w)' <=> Pays(r, w)
  BY DEF Pays
<1>6. \A u, b : Already(u, b)' <=> Already(u, b)
  BY DEF Already
<1>7. ASSUME NEW k \in calls'
      PROVE  /\ calls' = {k} /\ k.day = c.day /\ k.pc = "settle" /\ k.failed = TRUE /\ SettleCall(k)'
  <2>1. calls' = {k} /\ k.day = c.day /\ k.pc = "settle" /\ k.rows \subseteq c.rows /\ k.failed = TRUE
        /\ k = [pc |-> "settle", day |-> k.day, rows |-> k.rows, failed |-> k.failed]
    BY <1>7
  <2>2. c.rows \subseteq Unsettled(c.day)
    BY <1>1 DEF SettleCall
  <2>3. SettleCall(k)'
    BY <1>4, <2>1, <2>2 DEF SettleCall
  <2> QED BY <2>1, <2>3
<1>8. TeamTyped'
  <2>1. calls' = {} \/ \E k : calls' = {k} /\ k.day \in begun /\ SettleCall(k)'
    BY <1>1, <1>7
  <2> QED BY <1>2, <1>3, <2>1 DEF TeamInv, TeamTyped
<1>9. RowsKept'
  BY DEF TeamInv, RowsKept
<1>10. ASSUME NEW b \in begun \ late PROVE RowsAreDue(b)'
  <2>1. PICK ws : ws = Work(b) /\ ws = Work(b)'
    BY <1>2, <1>3
  <2>2. RowsAreDue(b)
    BY DEF TeamInv, DaysKept
  <2> QED BY <1>4, <1>5, <2>1, <2>2 DEF RowsAreDue
<1>11. ASSUME NEW b \in closed' \ late PROVE AllThere(Work(b))' /\ Unsettled(b)' = {}
  <2>1. PICK ws : ws = Work(b) /\ ws = Work(b)'
    BY <1>2, <1>3
  <2>2. CASE b \in closed
    <3>1. AllThere(Work(b)) /\ Unsettled(b) = {}
      BY <1>11, <2>2 DEF TeamInv, DaysKept
    <3>2. AllThere(Work(b))' <=> AllThere(Work(b))
      BY <1>6, <2>1 DEF AllThere
    <3> QED BY <1>4, <3>1, <3>2
  <2>3. CASE b \notin closed
    <3>1. b = c.day /\ ~c.failed /\ c.rows = {}
      BY <1>11, <2>3
    <3>2. AllThere(Work(b)) /\ Unsettled(b) \subseteq {}
      BY <1>1, <1>11, <3>1 DEF CloseKept
    <3>3. AllThere(Work(b))' <=> AllThere(Work(b))
      BY <1>6, <2>1 DEF AllThere
    <3> QED BY <1>4, <3>2, <3>3
  <2> QED BY <2>2, <2>3
<1>12. ASSUME NEW k \in calls', k.day \notin late PROVE CloseKept(k)'
  <2>0. k.day = c.day /\ k.pc = "settle" /\ k.failed = TRUE
    BY <1>7, <1>12
  <2>1. PICK ws : ws = Work(c.day) /\ ws = Work(c.day)'
    BY <1>1, <1>2, <1>3
  <2>2. AllThere(ws)
    BY <1>1, <1>12, <2>0, <2>1 DEF CloseKept
  <2>3. AllThere(Work(k.day))'
    BY <1>6, <2>0, <2>1, <2>2 DEF AllThere
  <2> QED BY <2>0, <2>3 DEF CloseKept
<1>13. DaysKept'
  BY <1>10, <1>11, <1>12 DEF DaysKept
<1> QED BY <1>8, <1>9, <1>13 DEF TeamInv

LEMMA TeamKept == DeskInv /\ TeamInv /\ [Next]_vars => TeamInv'
<1> SUFFICES ASSUME DeskInv, TeamInv, [Next]_vars PROVE TeamInv'
  OBVIOUS
<1>1. DeskStep
  BY DeskMoves
<1>2. CASE TeamNext
  <2>0. scheme = "team-rebate"
    BY <1>2 DEF TeamNext
  <2>1. ASSUME NEW m \in Newcomers, Join(m) PROVE TeamInv'
    BY <2>1, JoinKeeps
  <2>2. ASSUME NEW kind \in {"bet", "deposit"}, NEW m \in Members, NEW a \in Stakes, NEW d \in {day - 1, day},
               Record(kind, m, a, d)
        PROVE  TeamInv'
    BY <2>2, RecordKeeps
  <2>3. ASSUME NEW i \in DOMAIN events, RollBack(i) PROVE TeamInv'
    BY <2>3, RollBackKeeps
  <2>4. CronClose => TeamInv'
    <3> SUFFICES ASSUME CronClose PROVE TeamInv'
      OBVIOUS
    <3>1. CASE CloseDay
      BY <3>1, CloseBegins DEF CronClose
    <3>2. CASE UNCHANGED <<deskVars, begun>>
      BY <1>1, <3>2, TeamElsewhere DEF CronClose, deskVars
    <3> QED BY <3>1, <3>2, Zenon DEF CronClose
  <2>5. EngineStarts => TeamInv'
    <3> SUFFICES ASSUME EngineStarts PROVE TeamInv'
      OBVIOUS
    <3>1. CASE CloseDay
      BY <3>1, CloseBegins DEF EngineStarts
    <3>2. CASE UNCHANGED <<deskVars, begun>>
      BY <1>1, <3>2, TeamElsewhere DEF EngineStarts, deskVars
    <3> QED BY <3>1, <3>2, Zenon DEF EngineStarts
  <2>6. EngineDies => TeamInv'
    BY <1>1, TeamElsewhere DEF EngineDies
  <2>7. Midnight => TeamInv'
    BY <1>1, TeamElsewhere DEF Midnight, NewDay
  <2>8. ASSUME NEW c \in calls, CloseStep(c) PROVE TeamInv'
    <3>1. ASSUME c.pc = "accrue", NEW w \in c.work, AccrueRow(c, w) PROVE TeamInv'
      BY <2>0, <3>1, AccrueKeeps
    <3>2. SettleRead(c) => TeamInv'
      BY <2>0, SettleReads
    <3>3. ASSUME NEW u, SettleUser(c, u) PROVE TeamInv'
      BY <2>0, <3>3, SettleUserKeeps
    <3>4. ASSUME NEW u, SettleUserFails(c, u) PROVE TeamInv'
      <4>1. PICK mine : mine = {r \in c.rows : rebates[r].user = u}
        OBVIOUS
      <4>2. /\ c.pc = "settle" /\ calls' = {[c EXCEPT !.rows = c.rows \ mine, !.failed = TRUE]}
            /\ UNCHANGED <<scheme, day, referredBy, demo, joined, events, rebates, credits, begun, closed, late>>
        BY <3>4, <4>1 DEF SettleUserFails, teamVars
      <4>3. SettleCall(c)
        BY <2>0, <4>2, TheCall
      <4>4. PICK b : b = [c EXCEPT !.rows = c.rows \ mine]
        OBVIOUS
      <4>5. /\ b.day = c.day /\ b.rows \subseteq c.rows
            /\ b = [pc |-> "settle", day |-> b.day, rows |-> b.rows, failed |-> b.failed]
        BY <4>3, <4>4 DEF SettleCall
      <4>6. PICK k : k = [b EXCEPT !.failed = TRUE]
        OBVIOUS
      <4>7. /\ k.day = c.day /\ k.pc = "settle" /\ k.rows \subseteq c.rows /\ k.failed = TRUE
            /\ k = [pc |-> "settle", day |-> k.day, rows |-> k.rows, failed |-> k.failed]
        <5>1. PICK t : t = TRUE
          OBVIOUS
        <5>2. k = [b EXCEPT !.failed = t]
          BY <4>6, <5>1
        <5>3. /\ k.day = c.day /\ k.pc = "settle" /\ k.rows \subseteq c.rows /\ k.failed = t
              /\ k = [pc |-> "settle", day |-> k.day, rows |-> k.rows, failed |-> k.failed]
          BY ONLY <4>5, <5>2
        <5> QED BY <5>1, <5>3
      <4>8. [c EXCEPT !.rows = c.rows \ mine, !.failed = TRUE] = k
        BY <4>4, <4>6
      <4>9. calls' = {k}
        BY <4>2, <4>8
      <4> QED BY <2>0, <4>2, <4>7, <4>9, SettleQuiet
    <3>5. CloseEnd(c) => TeamInv'
      <4> SUFFICES ASSUME CloseEnd(c) PROVE TeamInv'
        OBVIOUS
      <4>1. calls = {c}
        BY <2>0, TheCall
      <4>2. calls' = {}
        BY <4>1 DEF CloseEnd, End
      <4> QED BY <2>0, <4>2, SettleQuiet DEF CloseEnd
    <3> QED BY <2>8, <3>1, <3>2, <3>3, <3>4, <3>5, Zenon DEF CloseStep
  <2> QED BY <1>2, <2>1, <2>2, <2>3, <2>4, <2>5, <2>6, <2>7, <2>8, Zenon DEF TeamNext
<1>3. ASSUME UNCHANGED teamVars, scheme # "team-rebate" PROVE TeamInv'
  BY <1>1, <1>3, TeamElsewhere DEF teamVars
<1>4. CASE UNCHANGED vars
  <2>1. UNCHANGED teamVars /\ calls' = calls
    BY <1>4 DEF vars, deskVars
  <2> QED BY <1>1, <2>1, TeamElsewhere DEF teamVars
<1>5. GiftNext \/ SpinNext \/ SelfRebateNext \/ StreakNext \/ VipNext \/ SalaryNext \/ AutoSalaryNext => scheme # "team-rebate"
  BY DEF GiftNext, SpinNext, SelfRebateNext, StreakNext, VipNext, SalaryNext, AutoSalaryNext
<1>6. TierNext => scheme # "team-rebate"
  BY DEF TierNext, Types
<1> QED BY <1>2, <1>3, <1>4, <1>5, <1>6, Zenon DEF Next

LEMMA TeamHolds == Spec => []TeamInv
<1>1. Init => TeamInv
  BY TeamStarts
<1>2. DeskInv /\ TeamInv /\ [Next]_vars => TeamInv'
  BY TeamKept
<1> QED BY <1>1, <1>2, DeskHolds, PTL DEF Spec

--------------------------------------------------------------------------------
(* What the close pays and what is shown                                    *)

\* What each bet of the team is worth to the agent.
Worth(u, d) ==
  [i \in BetsOf(Team(u), d) |-> events[i].amount * Rate(QualifyLevel(Metrics(u, d)), LayerOf(u, events[i].user))]

LEMMA WorthIs ==
  ASSUME DaysTyped, NEW u, NEW d
  PROVE  /\ IsFiniteSet(BetsOf(Team(u), d)) /\ BetsOf(Team(u), d) \subseteq DOMAIN events
         /\ \A i \in BetsOf(Team(u), d) : Worth(u, d)[i] \in Nat /\ events[i].user \in Team(u)
         /\ Preview(u, d) = SumFunctionOnSet(Worth(u, d), BetsOf(Team(u), d))
         /\ Preview(u, d) \in Int
<1>1. IsFiniteSet(BetsOf(Team(u), d)) /\ BetsOf(Team(u), d) \subseteq DOMAIN events
  BY EventIs DEF DaysTyped
<1>2. ASSUME NEW i \in BetsOf(Team(u), d) PROVE Worth(u, d)[i] \in Nat /\ events[i].user \in Team(u)
  <2>1. events[i].user \in Team(u) /\ i \in DOMAIN events
    BY DEF BetsOf
  <2>2. LayerOf(u, events[i].user) \in Layers
    BY <2>1, TeamIs
  <2>3. PICK rate \in Nat : rate = Rate(QualifyLevel(Metrics(u, d)), LayerOf(u, events[i].user))
    BY <2>2, RateIs
  <2>4. events[i].amount \in Nat
    BY <2>1, EventIs DEF DaysTyped
  <2>5. Worth(u, d)[i] = events[i].amount * rate
    BY <2>3 DEF Worth
  <2>6. events[i].amount * rate \in Nat
    BY <2>4
  <2> QED BY <2>1, <2>5, <2>6
<1>3. Preview(u, d) = SumFunctionOnSet(Worth(u, d), BetsOf(Team(u), d))
  BY DEF Preview, Worth, SumFunction
<1>4. Preview(u, d) \in Int
  <2>1. PICK v, S : v = Worth(u, d) /\ S = BetsOf(Team(u), d)
    OBVIOUS
  <2>2. \A i \in S : v[i] \in Int
    BY <1>2, <2>1
  <2>3. SumFunctionOnSet(v, S) \in Int
    BY <1>1, <2>1, <2>2, SumType
  <2> QED BY <1>3, <2>1, <2>3
<1> QED BY <1>1, <1>2, <1>3, <1>4

\* The rows of a settled day are the bets of the team that are worth something.
LEMMA ClosedDayPays ==
  ASSUME TeamInv, NEW d \in closed \ late, NEW u \in Members \ demo, Plain(u)
  PROVE  Earned(u, d) = Preview(u, d)
<1> DEFINE B == BetsOf(Team(u), d)
           R == RowsFor(u, d)
           P == {rebates[r].bet : r \in R}
           h == [r \in R |-> rebates[r].bet]
           row == [r \in R |-> rebates[r].amount]
           v == Worth(u, d)
<1>1. /\ DaysTyped /\ rebates \in Seq(RebateOf) /\ RowsAreDue(d) /\ AllThere(Work(d))
      /\ \A r, q \in DOMAIN rebates : (r # q /\ rebates[r].bet = rebates[q].bet) => rebates[r].user # rebates[q].user
  BY DEF TeamInv, TeamTyped, DaysKept, RowsKept
<1>2. /\ IsFiniteSet(B) /\ B \subseteq DOMAIN events /\ \A i \in B : v[i] \in Nat /\ events[i].user \in Team(u)
      /\ Preview(u, d) = SumFunctionOnSet(v, B)
  BY <1>1, WorthIs
<1>3. /\ IsFiniteSet(R) /\ \A r \in R : r \in DOMAIN rebates /\ rebates[r].amount \in Int
                                       /\ rebates[r].user = u /\ r \in RowsOfDay(d)
  <2>1. Len(rebates) \in Nat /\ DOMAIN rebates = 1 .. Len(rebates) /\ \A r \in DOMAIN rebates : rebates[r] \in RebateOf
    BY <1>1, LenProperties, ElementOfSeq
  <2>2. R \in SUBSET DOMAIN rebates
    BY DEF RowsFor, RowsOfDay
  <2>3. IsFiniteSet(DOMAIN rebates)
    BY <2>1, FS_Interval
  <2> QED BY <2>1, <2>2, <2>3, FS_Subset DEF RowsFor, RebateOf
<1>4. referredBy \in Trees /\ events \in Seq(EventRow) /\ \A i \in DOMAIN events : events[i].user \in Members
  BY <1>1, EventIs DEF DaysTyped
<1>5. ASSUME NEW w \in Work(d), w.user = u PROVE w.bet \in B /\ w.amount = v[w.bet]
  <2>1. PICK i \in BetsOf(Members \ demo, d) : \E c \in Chain(events[i].user) :
           /\ w.bet = i /\ w.layer = c.layer /\ w.user = c.user
           /\ w.amount = events[i].amount * Rate(QualifyLevel(Metrics(c.user, d)), c.layer)
           /\ i \in DOMAIN events /\ events[i].day = d /\ w.user \in Members /\ w.amount \in Nat
    BY ONLY <1>4, w \in Work(d), WorkIs
  <2>2. PICK c \in Chain(events[i].user) :
           /\ w.bet = i /\ w.layer = c.layer /\ w.user = c.user
           /\ w.amount = events[i].amount * Rate(QualifyLevel(Metrics(c.user, d)), c.layer)
    BY <2>1
  <2>3. i \in DOMAIN events /\ events[i].user \in Members \ demo
    BY DEF BetsOf
  <2>4. joined[events[i].user] # NotYet
    BY <1>1, <2>3 DEF DaysTyped
  <2>5. PICK m \in Members \ demo : m = events[i].user
    BY <2>3
  <2>6. m \in Team(u) /\ c.layer = LayerOf(u, m)
    BY <1>4, <1>5, <2>2, <2>4, <2>5, ChainOfTeam
  <2>7. i \in B
    BY <2>5, <2>6 DEF BetsOf
  <2>8. v[i] = events[i].amount * Rate(QualifyLevel(Metrics(u, d)), c.layer)
    BY <2>5, <2>6, <2>7 DEF Worth
  <2> QED BY <1>5, <2>2, <2>7, <2>8
<1>6. ASSUME NEW i \in B, v[i] # 0 PROVE i \in P
  <2>1. PICK m \in Members : m = events[i].user
    BY <1>2, <1>4
  <2>2. m \in Team(u)
    BY <1>2, <2>1
  <2>3. m \in Members \ demo /\ joined[m] # NotYet
    BY <2>2, TeamIs
  <2>4. PICK c \in Chain(m) : c.user = u
    BY <1>4, <2>2, <2>3, ChainOfTeam
  <2>5. PICK w : w = [bet |-> i, layer |-> c.layer, user |-> c.user,
                      amount |-> events[i].amount * Rate(QualifyLevel(Metrics(c.user, d)), c.layer)]
    OBVIOUS
  <2>6. w \in RowsDue(i, d)
    BY <2>1, <2>5 DEF RowsDue
  <2>7. i \in BetsOf(Members \ demo, d)
    BY <2>1, <2>3 DEF BetsOf
  <2>8. w \in Work(d) /\ w.user = u /\ w.bet = i
    BY <2>4, <2>5, <2>6, <2>7 DEF Work
  <2>9. w.amount = v[i]
    BY <1>5, <2>8
  <2>10. w.amount > 0
    BY <1>2, <1>6, <2>9
  <2>11. PICK r \in DOMAIN rebates : rebates[r].user = u /\ rebates[r].bet = i
    BY <1>1, <2>8, <2>10 DEF AllThere, Already
  <2>12. r \in R
    BY <2>7, <2>11 DEF RowsFor, RowsOfDay, BetsOf
  <2> QED BY <2>11, <2>12
<1>7. ASSUME NEW r \in R PROVE rebates[r].bet \in B /\ rebates[r].amount = v[rebates[r].bet]
  <2>1. PICK w \in Work(d) : Pays(r, w)
    BY <1>1, <1>3 DEF RowsAreDue
  <2> QED BY <1>3, <1>5, <2>1 DEF Pays
<1> HIDE DEF B, R, v
<1>8. PICK g, x, y : g = h /\ x = row /\ y = P
  OBVIOUS
<1>9. /\ g \in [R -> y] /\ \A a, b \in R : g[a] = g[b] => a = b
      /\ \A t \in y : \E a \in R : g[a] = t
      /\ \A a \in R : x[a] = v[g[a]] /\ x[a] \in Int
  BY <1>1, <1>3, <1>7, <1>8
<1>10. SumFunctionOnSet(x, R) = SumFunctionOnSet(v, y)
  BY ONLY <1>3, <1>9, SumRename
<1>11. y \in SUBSET B /\ \A i \in B : v[i] \in Int
  BY <1>2, <1>7, <1>8
<1>12. \A i \in B \ y : v[i] = 0
  BY <1>6, <1>8
<1>13. SumFunctionOnSet(v, B) = SumFunctionOnSet(v, y)
  BY ONLY <1>2, <1>11, <1>12, SumSupport
<1>14. Earned(u, d) = SumFunctionOnSet(x, R)
  BY <1>8 DEF R, Earned, SumFunction
<1> QED BY <1>2, <1>10, <1>13, <1>14

\* Summed from the events up, an agent's numbers are the same.
LEMMA EventMetricsAre ==
  ASSUME DaysTyped, NEW d, d # NotYet, NEW u \in Members \ (demo \cup Staff)
  PROVE  EventMetrics(u, d) = Metrics(u, d)
<1>1. referredBy \in Trees /\ \A i \in DOMAIN events : events[i].user \in Members /\ joined[events[i].user] # NotYet
  BY EventIs DEF DaysTyped
<1>2. ASSUME NEW m \in Members \ demo, joined[m] # NotYet
      PROVE  (\E c \in Receivers(m) : c.user = u) <=> m \in Team(u)
  <2>1. (\E c \in PreviewChain(m) : c.user = u) <=> m \in Team(u)
    BY <1>1, <1>2, PreviewChainOfTeam
  <2> QED BY <2>1 DEF Receivers
<1>3. Team(u) \subseteq Members \ demo /\ \A m \in Team(u) : joined[m] # NotYet
  BY TeamIs
<1>4. {m \in Members \ demo : joined[m] = d /\ \E c \in Receivers(m) : c.user = u} = {m \in Team(u) : joined[m] = d}
  BY <1>2, <1>3
<1>5. {i \in BetsOf(Members \ demo, d) : \E c \in Receivers(events[i].user) : c.user = u} = BetsOf(Team(u), d)
  BY <1>1, <1>2, <1>3 DEF BetsOf
<1>6. {i \in DepositsOf(Members \ demo, d) : \E c \in Receivers(events[i].user) : c.user = u} = DepositsOf(Team(u), d)
  BY <1>1, <1>2, <1>3 DEF DepositsOf
<1> QED BY <1>4, <1>5, <1>6 DEF EventMetrics, Metrics

\* What one bet adds to the total.
BetTotal(i, d) ==
  SumFunction([c \in Receivers(events[i].user) |->
    events[i].amount * Rate(QualifyLevel(EventMetrics(c.user, d)), c.layer)])

\* It is what the bet is worth to each agent that has the member in the team.
LEMMA BetAddsUp ==
  ASSUME DaysTyped, NEW d, d # NotYet, NEW i \in BetsOf(Members \ demo, d), NEW f,
         NEW U, U = Members \ (demo \cup Staff),
         \A u \in U : /\ events[i].user \in Team(u) => f[u] = Worth(u, d)[i]
                      /\ events[i].user \notin Team(u) => f[u] = 0
  PROVE  BetTotal(i, d) = SumFunctionOnSet(f, U)
<1>1. PICK m \in Members \ demo : m = events[i].user
  BY DEF BetsOf
<1>2. i \in DOMAIN events /\ events[i].amount \in Nat /\ joined[m] # NotYet /\ referredBy \in Trees /\ IsFiniteSet(Members)
  BY <1>1, EventIs, RebateAssumption DEF BetsOf, DaysTyped, RebateAssumption
<1>3. PICK P : P = {u \in U : m \in Team(u)}
  OBVIOUS
<1>4. PICK g : g = [c \in Receivers(m) |-> events[i].amount * Rate(QualifyLevel(EventMetrics(c.user, d)), c.layer)]
  OBVIOUS
<1>5. PICK h : h = [u \in P |-> [user |-> u, layer |-> LayerOf(u, m)]]
  OBVIOUS
<1>6. ASSUME NEW c \in Receivers(m) PROVE c.user \in P /\ c = [user |-> c.user, layer |-> LayerOf(c.user, m)]
  <2>0. MaxLayer \in Nat
    BY RebateAssumption DEF RebateAssumption
  <2>1. c \in PreviewChain(m) /\ c.user \notin Staff
    BY DEF Receivers
  <2>2. PICK l \in Layers : c = [user |-> Upline(m, l), layer |-> l] /\ Upline(m, l) # Nobody
                            /\ \A n \in 1 .. l : Upline(m, n) \notin demo
    BY <2>1 DEF PreviewChain
  <2>3. l \in 0 .. MaxLayer /\ l \in 1 .. l
    BY <2>0 DEF Layers
  <2>4. Upline(m, l) \in Members \ demo
    BY <1>2, <2>2, <2>3, UplinesDiffer
  <2>5. PICK u \in Members \ demo : u = c.user
    BY <2>2, <2>4
  <2>6. m \in Team(u) /\ c = [user |-> u, layer |-> LayerOf(u, m)]
    BY <1>2, <2>1, <2>5, PreviewChainOfTeam
  <2> QED BY <1>3, <2>1, <2>5, <2>6
<1>7. ASSUME NEW u \in P PROVE h[u] \in Receivers(m) /\ h[u].user = u /\ h[u].layer = LayerOf(u, m)
  <2>1. u \in Members \ demo /\ u \notin Staff /\ m \in Team(u)
    BY <1>3
  <2>2. (\E c \in PreviewChain(m) : c.user = u) /\ \A c \in PreviewChain(m) : c.user = u => c = [user |-> u, layer |-> LayerOf(u, m)]
    BY <1>2, <2>1, PreviewChainOfTeam
  <2>3. h[u] = [user |-> u, layer |-> LayerOf(u, m)]
    BY <1>5
  <2>4. h[u] \in PreviewChain(m)
    BY <2>2, <2>3
  <2> QED BY <2>1, <2>3, <2>4 DEF Receivers
<1>8. ASSUME NEW u \in P PROVE f[u] = g[h[u]] /\ f[u] \in Int
  <2>1. u \in U /\ m \in Team(u)
    BY <1>3
  <2>2. i \in BetsOf(Team(u), d)
    BY <1>1, <2>1 DEF BetsOf
  <2>3. f[u] = Worth(u, d)[i] /\ f[u] \in Int
    BY <1>1, <2>1, <2>2, WorthIs
  <2>4. EventMetrics(u, d) = Metrics(u, d)
    BY <2>1, EventMetricsAre
  <2>5. g[h[u]] = events[i].amount * Rate(QualifyLevel(EventMetrics(u, d)), LayerOf(u, m))
    <3>1. PICK c \in Receivers(m) : c = h[u]
      BY <1>7
    <3>2. g[c] = events[i].amount * Rate(QualifyLevel(EventMetrics(c.user, d)), c.layer)
      BY <1>4
    <3> QED BY <1>7, <3>1, <3>2
  <2> QED BY <1>1, <2>2, <2>3, <2>4, <2>5 DEF Worth
<1>9. IsFiniteSet(U) /\ P \in SUBSET U /\ IsFiniteSet(P)
  BY <1>2, <1>3, FS_Subset
<1>10. PICK t : t = Receivers(m)
  OBVIOUS
<1>11. /\ h \in [P -> t] /\ \A a, b \in P : h[a] = h[b] => a = b
       /\ \A c \in t : \E u \in P : h[u] = c
  <2>1. h \in [P -> t]
    BY <1>5, <1>7, <1>10
  <2>2. \A a, b \in P : h[a] = h[b] => a = b
    BY <1>7
  <2>3. ASSUME NEW c \in t PROVE \E u \in P : h[u] = c
    BY <1>5, <1>6, <1>10
  <2> QED BY <2>1, <2>2, <2>3
<1>12. \A u \in P : f[u] \in Int /\ f[u] = g[h[u]]
  BY <1>8
<1>13. SumFunctionOnSet(f, P) = SumFunctionOnSet(g, t)
  BY ONLY <1>9, <1>11, <1>12, SumRename
<1>14. \A u \in U : f[u] \in Int
  <2> TAKE u \in U
  <2>1. CASE u \in P
    BY <1>8, <2>1
  <2>2. CASE u \notin P
    BY <1>1, <1>3, <2>2
  <2> QED BY <2>1, <2>2
<1>15. \A u \in U \ P : f[u] = 0
  BY <1>1, <1>3
<1>16. SumFunctionOnSet(f, U) = SumFunctionOnSet(f, P)
  BY ONLY <1>9, <1>14, <1>15, SumSupport
<1>17. SumFunction(g) = SumFunctionOnSet(g, t)
  BY <1>4, <1>10 DEF SumFunction
<1> QED BY <1>1, <1>4, <1>13, <1>16, <1>17 DEF BetTotal

\* The total from the bets up is the total of what the agents are shown.
LEMMA TotalIs ==
  ASSUME DaysTyped, NEW d, d # NotYet
  PROVE  PreviewTotal(d) = SumFunction([u \in Members \ (demo \cup Staff) |-> Preview(u, d)])
<1>1. PICK U : U = Members \ (demo \cup Staff)
  OBVIOUS
<1>2. PICK B : B = BetsOf(Members \ demo, d)
  OBVIOUS
<1>3. IsFiniteSet(U) /\ IsFiniteSet(B)
  <2>1. IsFiniteSet(Members) /\ U \in SUBSET Members
    BY <1>1, RebateAssumption DEF RebateAssumption
  <2> QED BY <1>2, <2>1, FS_Subset, EventIs DEF DaysTyped
<1>4. PICK f : f = [i \in B |-> [u \in U |-> IF events[i].user \in Team(u) THEN Worth(u, d)[i] ELSE 0]]
  OBVIOUS
<1>5. ASSUME NEW u \in U PROVE B \cap BetsOf(Team(u), d) = BetsOf(Team(u), d)
                               /\ \A i \in B : events[i].user \in Team(u) <=> i \in BetsOf(Team(u), d)
  <2>1. Team(u) \subseteq Members \ demo
    BY TeamIs
  <2> QED BY <1>2, <2>1 DEF BetsOf
<1>6. \A i \in B, u \in U : f[i][u] \in Int
  BY <1>4, <1>5, WorthIs
<1>7. SumFunctionOnSet([i \in B |-> SumFunctionOnSet(f[i], U)], B)
        = SumFunctionOnSet([u \in U |-> SumFunctionOnSet([i \in B |-> f[i][u]], B)], U)
  BY ONLY <1>3, <1>6, SumExchange
<1>8. PICK bets : bets = [i \in B |-> BetTotal(i, d)]
  OBVIOUS
<1>9. PreviewTotal(d) = SumFunctionOnSet(bets, B)
  <2>1. PreviewTotal(d) = SumFunction(bets)
    BY <1>2, <1>8 DEF PreviewTotal, BetTotal
  <2> QED BY <1>8, <2>1 DEF SumFunction
<1>10. ASSUME NEW i \in B PROVE bets[i] = SumFunctionOnSet(f[i], U)
  <2>1. PICK g : g = f[i]
    OBVIOUS
  <2>2. \A u \in U : /\ events[i].user \in Team(u) => g[u] = Worth(u, d)[i]
                     /\ events[i].user \notin Team(u) => g[u] = 0
    BY <1>1, <1>4, <2>1
  <2>3. BetTotal(i, d) = SumFunctionOnSet(g, U)
    <3>1. i \in BetsOf(Members \ demo, d)
      BY <1>2
    <3>2. PICK k \in BetsOf(Members \ demo, d) : k = i
      BY <3>1
    <3>3. \A u \in U : /\ events[k].user \in Team(u) => g[u] = Worth(u, d)[k]
                       /\ events[k].user \notin Team(u) => g[u] = 0
      BY <2>2, <3>2
    <3>4. BetTotal(k, d) = SumFunctionOnSet(g, U)
      BY ONLY DaysTyped, d # NotYet, <1>1, <3>3, k \in BetsOf(Members \ demo, d), BetAddsUp
    <3> QED BY <3>2, <3>4
  <2> QED BY <1>1, <1>8, <2>1, <2>3
<1>11. ASSUME NEW u \in U PROVE SumFunctionOnSet([i \in B |-> f[i][u]], B) = Preview(u, d)
  <2>1. PICK col : col = [i \in B |-> f[i][u]]
    OBVIOUS
  <2>2. PICK S, v : S = BetsOf(Team(u), d) /\ v = Worth(u, d)
    OBVIOUS
  <2>3. S \in SUBSET B /\ IsFiniteSet(S) /\ (\A i \in S : v[i] \in Int) /\ Preview(u, d) = SumFunctionOnSet(v, S)
    BY <1>5, <2>2, WorthIs
  <2>4. \A i \in B : col[i] \in Int
    BY <1>6, <2>1
  <2>5. (\A i \in S : col[i] = v[i]) /\ (\A i \in B \ S : col[i] = 0)
    BY <1>4, <1>5, <2>1, <2>2, <2>3
  <2>6. SumFunctionOnSet(col, B) = SumFunctionOnSet(col, S)
    BY ONLY <1>3, <2>3, <2>4, <2>5, SumSupport
  <2>7. SumFunctionOnSet(col, S) = SumFunctionOnSet(v, S)
    BY ONLY <2>3, <2>5, SumSame
  <2> QED BY <2>1, <2>3, <2>6, <2>7
<1>12. PICK x, y, z, w : /\ x = [i \in B |-> SumFunctionOnSet(f[i], U)]
                         /\ y = [u \in U |-> SumFunctionOnSet([i \in B |-> f[i][u]], B)]
                         /\ z = [u \in U |-> Preview(u, d)]
                         /\ w = bets
  OBVIOUS
<1>13. \A i \in B : w[i] = x[i]
  BY <1>10, <1>12
<1>14. \A u \in U : y[u] = z[u]
  BY <1>11, <1>12
<1>15. SumFunctionOnSet(w, B) = SumFunctionOnSet(x, B)
  BY ONLY <1>3, <1>13, SumSame
<1>16. SumFunctionOnSet(y, U) = SumFunctionOnSet(z, U)
  BY ONLY <1>3, <1>14, SumSame
<1>17. SumFunction(z) = SumFunctionOnSet(z, U)
  BY <1>12 DEF SumFunction
<1> QED BY <1>1, <1>7, <1>9, <1>12, <1>15, <1>16, <1>17

\* The rows of the agent, one member of the team after the other.
LEMMA PersonByPerson ==
  ASSUME TeamInv, day \in Nat, NEW u \in Members \ demo, Plain(u), 0 .. day - 1 \subseteq closed \ late
  PROVE  SumFunction([m \in Members |-> PersonBets(u, m)]) = SumFunction([d \in 0 .. day |-> Preview(u, d)])
<1>0. /\ IsFiniteSet(Members) /\ DaysTyped /\ rebates \in Seq(RebateOf) /\ referredBy \in Trees
      /\ begun \subseteq Int /\ \A d \in begun : d < day
      /\ \A r \in DOMAIN rebates : rebates[r].bet \in DOMAIN events /\ events[rebates[r].bet].day \in begun
  BY RebateAssumption DEF RebateAssumption, TeamInv, TeamTyped, DaysTyped
<1>1. \A i \in DOMAIN events : events[i].user \in Members /\ events[i].day \in Nat
  BY <1>0, EventIs DEF DaysTyped
<1>2. Len(rebates) \in Nat /\ DOMAIN rebates = 1 .. Len(rebates)
      /\ IsFiniteSet(DOMAIN rebates) /\ \A r \in DOMAIN rebates : rebates[r].amount \in Int
  <2>1. Len(rebates) \in Nat /\ DOMAIN rebates = 1 .. Len(rebates) /\ \A r \in DOMAIN rebates : rebates[r] \in RebateOf
    BY <1>0, LenProperties, ElementOfSeq
  <2> QED BY <2>1, FS_Interval DEF RebateOf
\* today
<1>3. PICK B, v : B = BetsOf(Team(u), day) /\ v = Worth(u, day)
  OBVIOUS
<1>4. /\ IsFiniteSet(B) /\ B \subseteq DOMAIN events /\ (\A i \in B : v[i] \in Int /\ events[i].user \in Team(u))
      /\ Preview(u, day) = SumFunctionOnSet(v, B)
  BY <1>0, <1>3, WorthIs
<1>5. PICK who : who = [i \in B |-> events[i].user]
  OBVIOUS
<1>6. \A i \in B : v[i] \in Int /\ who[i] \in Members
  BY <1>1, <1>4, <1>5
<1>7. PICK today : today = [m \in Members |-> SumFunctionOnSet(v, {i \in B : who[i] = m})]
  OBVIOUS
<1>8. SumFunctionOnSet(v, B) = SumFunctionOnSet(today, Members)
  <2>1. IsFiniteSet(B) /\ IsFiniteSet(Members)
    BY <1>0, <1>4
  <2> QED BY ONLY <1>6, <1>7, <2>1, SumGroups
<1>9. ASSUME NEW m \in Members PROVE PersonPreview(u, m, day) = today[m] /\ today[m] \in Int
  <2>1. PICK S : S = {i \in B : who[i] = m}
    OBVIOUS
  <2>2. S \in SUBSET B /\ IsFiniteSet(S)
    BY <1>4, <2>1, FS_Subset
  <2>3. today[m] = SumFunctionOnSet(v, S)
    BY <1>7, <2>1
  <2>4. SumFunctionOnSet(v, S) \in Int
    BY <1>4, <2>2, SumType
  <2>5. CASE m \notin Team(u)
    <3>1. S = {}
      BY <1>4, <1>5, <2>1, <2>5
    <3>2. today[m] = 0
      BY <2>3, <3>1, SumEmpty
    <3> QED BY <2>5, <3>2 DEF PersonPreview
  <2>6. CASE m \in Team(u)
    <3>1. S = BetsOf({m}, day)
      BY <1>3, <1>5, <2>1, <2>6 DEF BetsOf
    <3>2. PICK w : w = [i \in BetsOf({m}, day) |->
                          events[i].amount * Rate(QualifyLevel(Metrics(u, day)), LayerOf(u, m))]
      OBVIOUS
    <3>3. PersonPreview(u, m, day) = SumFunctionOnSet(w, S)
      BY <2>6, <3>1, <3>2 DEF PersonPreview, SumFunction
    <3>4. ASSUME NEW i \in S PROVE w[i] = v[i]
      <4>1. i \in B /\ events[i].user = m
        BY <1>5, <2>1
      <4> QED BY <1>3, <3>1, <3>2, <4>1 DEF Worth
    <3>5. SumFunctionOnSet(w, S) = SumFunctionOnSet(v, S)
      BY ONLY <2>2, <3>4, SumSame
    <3> QED BY <2>3, <2>4, <3>3, <3>5
  <2> QED BY <2>5, <2>6
\* the days before
<1>10. PICK R : R = {r \in DOMAIN rebates : rebates[r].user = u /\ rebates[r].settled}
  OBVIOUS
<1>11. PICK amount : amount = [r \in R |-> rebates[r].amount]
  OBVIOUS
<1>12. PICK whose, when : /\ whose = [r \in R |-> events[rebates[r].bet].user]
                          /\ when = [r \in R |-> events[rebates[r].bet].day]
  OBVIOUS
<1>13. R \in SUBSET DOMAIN rebates /\ IsFiniteSet(R)
  BY <1>2, <1>10, FS_Subset
<1>14. \A r \in R : amount[r] \in Int /\ whose[r] \in Members
  BY <1>0, <1>1, <1>2, <1>10, <1>11, <1>12
<1>15. \A r \in R : amount[r] \in Int /\ when[r] \in 0 .. day - 1
  BY <1>0, <1>1, <1>2, <1>10, <1>11, <1>12
<1>16. PICK before : before = [m \in Members |-> SumFunctionOnSet(amount, {r \in R : whose[r] = m})]
  OBVIOUS
<1>17. PICK days : days = [d \in 0 .. day - 1 |-> SumFunctionOnSet(amount, {r \in R : when[r] = d})]
  OBVIOUS
<1>18. IsFiniteSet(0 .. day - 1)
  BY FS_Interval
<1>19. SumFunctionOnSet(amount, R) = SumFunctionOnSet(before, Members)
  <2>1. IsFiniteSet(R) /\ IsFiniteSet(Members)
    BY <1>0, <1>13
  <2> QED BY ONLY <1>14, <1>16, <2>1, SumGroups
<1>20. SumFunctionOnSet(amount, R) = SumFunctionOnSet(days, 0 .. day - 1)
  <2>1. PICK D : D = 0 .. day - 1
    OBVIOUS
  <2>2. IsFiniteSet(D) /\ (\A r \in R : amount[r] \in Int /\ when[r] \in D)
        /\ days = [d \in D |-> SumFunctionOnSet(amount, {r \in R : when[r] = d})]
    BY <1>15, <1>17, <1>18, <2>1
  <2>3. SumFunctionOnSet(amount, R) = SumFunctionOnSet(days, D)
    BY ONLY <1>13, <2>2, SumGroups
  <2> QED BY <2>1, <2>3
<1>21. ASSUME NEW m \in Members
       PROVE  SumFunction([r \in PersonRows(u, m) |-> rebates[r].amount]) = before[m] /\ before[m] \in Int
  <2>1. PICK S : S = {r \in R : whose[r] = m}
    OBVIOUS
  <2>2. S = PersonRows(u, m)
    BY <1>0, <1>10, <1>12, <2>1 DEF PersonRows
  <2>3. S \in SUBSET R /\ IsFiniteSet(S)
    BY <1>13, <2>1, FS_Subset
  <2>4. PICK w : w = [r \in PersonRows(u, m) |-> rebates[r].amount]
    OBVIOUS
  <2>5. \A r \in S : w[r] = amount[r] /\ amount[r] \in Int
    BY <1>11, <1>14, <2>2, <2>3, <2>4
  <2>6. SumFunctionOnSet(w, S) = SumFunctionOnSet(amount, S)
    BY ONLY <2>3, <2>5, SumSame
  <2>7. SumFunctionOnSet(amount, S) \in Int
    BY ONLY <2>3, <2>5, SumType
  <2>8. SumFunction(w) = SumFunctionOnSet(w, S)
    BY <2>2, <2>4 DEF SumFunction
  <2> QED BY <1>16, <2>1, <2>4, <2>6, <2>7, <2>8
<1>22. ASSUME NEW d \in 0 .. day - 1 PROVE days[d] = Preview(u, d)
  <2>1. d \in closed \ late
    OBVIOUS
  <2>2. Unsettled(d) = {}
    BY <2>1 DEF TeamInv, DaysKept
  <2>3. \A r \in RowsOfDay(d) : rebates[r].settled
    BY <2>2 DEF Unsettled, RowsOfDay
  <2>4. PICK S : S = {r \in R : when[r] = d}
    OBVIOUS
  <2>5. S = RowsFor(u, d)
    BY <1>10, <1>12, <2>3, <2>4 DEF RowsFor, RowsOfDay
  <2>6. PICK w : w = [r \in RowsFor(u, d) |-> rebates[r].amount]
    OBVIOUS
  <2>7. S \in SUBSET R /\ IsFiniteSet(S) /\ \A r \in S : w[r] = amount[r]
    BY <1>11, <1>13, <2>4, <2>5, <2>6, FS_Subset
  <2>8. SumFunctionOnSet(w, S) = SumFunctionOnSet(amount, S)
    BY ONLY <2>7, SumSame
  <2>9. Earned(u, d) = SumFunctionOnSet(w, S)
    BY <2>5, <2>6 DEF Earned, SumFunction
  <2>10. Earned(u, d) = Preview(u, d)
    BY <2>1, ClosedDayPays
  <2> QED BY <1>17, <2>4, <2>8, <2>9, <2>10
\* together
<1>23. PICK shown : shown = [m \in Members |-> PersonBets(u, m)]
  OBVIOUS
<1>24. \A m \in Members : today[m] \in Int /\ before[m] \in Int /\ shown[m] = today[m] + before[m]
  BY <1>9, <1>21, <1>23 DEF PersonBets
<1>25. SumFunctionOnSet(shown, Members) = SumFunctionOnSet(today, Members) + SumFunctionOnSet(before, Members)
  BY ONLY <1>0, <1>24, SumAdd
<1>26. PICK D : D = 0 .. day - 1
  OBVIOUS
<1>27. PICK previews : previews = [d \in 0 .. day |-> Preview(u, d)]
  OBVIOUS
<1>28. 0 .. day = D \cup {day} /\ day \notin D /\ IsFiniteSet(D) /\ \A d \in D : d \in 0 .. day
  BY <1>18, <1>26
<1>29. \A d \in 0 .. day : previews[d] \in Int
  BY <1>0, <1>27, WorthIs
<1>30. SumFunctionOnSet(previews, D \cup {day}) = SumFunctionOnSet(previews, D) + previews[day]
  BY <1>28, <1>29, SumOneMore
<1>31. SumFunctionOnSet(previews, D) = SumFunctionOnSet(days, D)
  <2>1. \A d \in D : previews[d] = days[d]
    BY <1>22, <1>26, <1>27, <1>28
  <2> QED BY ONLY <1>28, <2>1, SumSame
<1>32. previews[day] = SumFunctionOnSet(today, Members)
  BY <1>4, <1>8, <1>27
<1>33. SumFunctionOnSet(previews, D) \in Int /\ previews[day] \in Int
  <2>1. \A d \in D : previews[d] \in Int
    BY <1>28, <1>29
  <2> QED BY <1>28, <1>29, <2>1, SumType
<1>34. SumFunctionOnSet(before, Members) = SumFunctionOnSet(previews, D)
  BY <1>19, <1>20, <1>26, <1>31
<1>35. SumFunctionOnSet(shown, Members) = SumFunctionOnSet(previews, D \cup {day})
  BY ONLY <1>25, <1>30, <1>32, <1>33, <1>34
<1>36. SumFunction(shown) = SumFunctionOnSet(shown, Members)
  BY <1>23 DEF SumFunction
<1>37. SumFunction(previews) = SumFunctionOnSet(previews, D \cup {day})
  BY <1>27, <1>28 DEF SumFunction
<1> QED BY <1>23, <1>27, <1>35, <1>36, <1>37

\* However often the engine dies, starts again or fails to credit, a bet earns an upline
\* one row at most and a row is credited exactly when it is settled, once; and a day
\* that a close has settled pays every agent what the preview of that day shows.
THEOREM RebatesPaidAsPreviewed == Spec => []ClosePaysPreview
<1>1. TeamInv => ClosePaysPreview
  <2> SUFFICES ASSUME TeamInv PROVE ClosePaysPreview
    OBVIOUS
  <2>1. \A d \in closed \ late : Unsettled(d) = {}
    BY DEF TeamInv, DaysKept
  <2>2. \A d \in closed \ late : \A u \in Members \ demo : Plain(u) => Earned(u, d) = Preview(u, d)
    BY ClosedDayPays
  <2>3. RowsKept
    BY DEF TeamInv
  <2> QED BY <2>1, <2>2, <2>3 DEF ClosePaysPreview, RowsKept
<1> QED BY <1>1, TeamHolds, PTL

\* The admin's total, summed from the bets up the chains, is the sum of what the users
\* see, summed from the users down their teams; no row is paid for a day that is still
\* running; and an agent who lists the members one by one sees each bet once.
THEOREM PreviewsAgree == Spec => []PreviewsAddUp
<1>1. DeskInv /\ TeamInv => PreviewsAddUp
  <2> SUFFICES ASSUME DeskInv, TeamInv PROVE PreviewsAddUp
    OBVIOUS
  <2>1. /\ day \in Int /\ MaxDay \in Int /\ 0 <= day /\ day <= MaxDay /\ DaysTyped
        /\ \A d \in begun : d < day
    BY BegunDays
  <2>2. \A d \in 0 .. day : d # NotYet
    BY <2>1 DEF NotYet
  <2>3. \A d \in 0 .. day :
          PreviewTotal(d) = SumFunction([u \in Members \ (demo \cup Staff) |-> Preview(u, d)])
    BY <2>1, <2>2, TotalIs
  <2>4. RowsOfDay(day) = {}
    <3>1. \A r \in DOMAIN rebates : events[rebates[r].bet].day \in begun
      BY DEF TeamInv, TeamTyped
    <3> QED BY <2>1, <3>1 DEF RowsOfDay
  <2>5. 0 .. day - 1 \subseteq closed \ late =>
          \A u \in Members \ demo : Plain(u) =>
            SumFunction([m \in Members |-> PersonBets(u, m)]) = SumFunction([d \in 0 .. day |-> Preview(u, d)])
    <3>1. day \in Nat
      BY <2>1
    <3> QED BY <3>1, PersonByPerson
  <2> QED BY <2>3, <2>4, <2>5 DEF PreviewsAddUp
<1> QED BY <1>1, DeskHolds, TeamHolds, PTL

==================================================================================
