------------------------------ MODULE WagerLedger -------------------------------
(***************************************************************************)
(* The wager requirements of one account (packages/wager) and the penalty  *)
(* for illegal rounds (packages/illegal-bets).  A recharge or reward makes *)
(* a requirement, first-party bets placed since its creation meet it, and  *)
(* a withdrawal needs all of them met.  Every operation but the admin's    *)
(* balance update holds the lock of the user's row for its whole           *)
(* transaction and is one action.                                          *)
(***************************************************************************)
EXTENDS GameRules

CONSTANTS
  Rounds,       \* periods of the lottery games this account bets on
  Markets,      \* the sets of bets, of one game each, it may bet on at stakes of 1
  Amounts,      \* recharges, rewards and withdrawals
  WagerFactors, \* values of Config.wager
  RewardFactor, \* Config.rewardWagerFactor
  PenaltyBase,  \* Config.illegalBetPenaltyFactor
  MaxFactor,    \* the cap of the penalty factor
  LowBalance,   \* LOW_BALANCE_WAGER_CLEAR
  InitBalance,
  MaxRows,      \* bound on the requirements made
  MaxTime       \* bound: the clock stops here

ASSUME WagerAssumption ==
  /\ Markets \subseteq SUBSET AllBets /\ \A m \in Markets : \A a, b \in m : a.game = b.game
  /\ Amounts \subseteq Nat \ {0} /\ WagerFactors \subseteq Nat \ {0} /\ WagerFactors # {}
  /\ RewardFactor \in Nat /\ PenaltyBase \in Nat \ {0} /\ MaxFactor \in Nat \ {0}
  /\ LowBalance \in Nat /\ InitBalance \in Nat
  /\ MaxRows \in Nat /\ MaxTime \in Nat

VARIABLES
  now,        \* the clock; rows and bets carry its value
  balance,    \* User.balance
  rows,       \* the WagerRequirement rows, oldest first
  bets,       \* first-party stakes by time
  penalty,    \* hasIllegalBetPenalty, illegalBetPenaltyFactor, penaltyWagerModel
  wager,      \* Config.wager
  placed,     \* the account's selections in a round
  over,       \* the rounds that are settled
  illegal,    \* the IllegalBet rows of a round: pairs and coverages found
  waived,     \* up to which requirement a row was waived (for properties)
  penalized,  \* how often a round raised the factor (for properties)
  others      \* what all but the vendors added to the balance (for properties)

wagerVars == <<now, balance, rows, bets, penalty, wager, placed, over, illegal, waived,
               penalized, others>>

Off == [on |-> FALSE, factor |-> 1, model |-> "LEGACY_DEPOSIT"]

\* Accounts penalised before the balance snapshot was introduced exist.
WagerInit(begun) ==
  /\ now = 0
  /\ balance = InitBalance
  /\ rows = <<>>
  /\ bets = [t \in 0 .. MaxTime |-> 0]
  /\ penalty \in {Off, [on |-> TRUE, factor |-> PenaltyBase, model |-> "LEGACY_DEPOSIT"]}
  /\ wager \in WagerFactors
  /\ placed = [r \in Rounds |-> begun]
  /\ over = {}
  /\ illegal = [r \in Rounds |-> {}]
  /\ waived = <<>>
  /\ penalized = [r \in Rounds |-> 0]
  /\ others = 0

--------------------------------------------------------------------------------
(* The requirements                                                         *)

\* liveRechargeMultiplier(): only legacy penalties lift recharges.
Live(pen, factor) ==
  IF pen.model = "LEGACY_DEPOSIT" /\ pen.on THEN pen.factor ELSE factor

\* syncRechargeWagerToLiveFactor(): a requirement that grows is open again.
SyncedClosed(rs, live) ==
  [i \in DOMAIN rs |->
    IF rs[i].kind = "RECHARGE" THEN [rs[i] EXCEPT !.required = rs[i].amount * live]
    ELSE rs[i]]
Synced(rs, live) ==
  [i \in DOMAIN rs |->
    IF rs[i].kind = "RECHARGE"
    THEN [rs[i] EXCEPT !.required = rs[i].amount * live,
                       !.cleared = @ /\ rs[i].amount * live <= rs[i].required]
    ELSE rs[i]]

\* First-party bets at or after the creation of a row; vendor bets are absent.
BetsSince(t) == SumFunctionOnSet(bets, t .. now)

\* Open rows of the same instant share the bets made since, in their order.
OpenRows(rs) == {i \in DOMAIN rs : ~rs[i].cleared}
Sharing(rs, i) == {j \in OpenRows(rs) : j < i /\ rs[j].at = rs[i].at}
Taken(rs, i) == SumFunctionOnSet([j \in DOMAIN rs |-> rs[j].required], Sharing(rs, i))
Available(rs, i) == BetsSince(rs[i].at) - Taken(rs, i)
MetRows(rs) ==
  {i \in OpenRows(rs) : (IF Available(rs, i) > 0 THEN Available(rs, i) ELSE 0) >= rs[i].required}

Cleared(rs, is) == [i \in DOMAIN rs |-> IF i \in is THEN [rs[i] EXCEPT !.cleared = TRUE] ELSE rs[i]]
PenaltyRows(rs) == {i \in OpenRows(rs) : rs[i].kind = "PENALTY"}

\* totalNeedToBet leaves PENALTY rows out under the legacy model.
Needed(rs, pen) ==
  {i \in OpenRows(rs) \ MetRows(rs) : rs[i].kind # "PENALTY" \/ pen.model = "BALANCE_SNAPSHOT"}

\* Clearing the rows is unmet waives them up to what they require by then.
Waive(ws, rs, is) ==
  [i \in DOMAIN ws |-> IF i \in is /\ rs[i].required > ws[i] THEN rs[i].required ELSE ws[i]]
Low == balance <= LowBalance
WaivedByStatus == Waive(waived, rows, IF Low THEN OpenRows(rows) ELSE {})

\* getUserWagerStatus(): at a low balance everything is cleared, else the rows
\* follow the live factor and those that are met are cleared.
Status ==
  IF Low THEN Cleared(rows, OpenRows(rows))
  ELSE LET rs == Synced(rows, Live(penalty, wager)) IN Cleared(rs, MetRows(rs))
IsWithdrawalFrozen == ~Low /\ Needed(Synced(rows, Live(penalty, wager)), penalty) # {}

Row(kind, amount, factor) ==
  [kind |-> kind, amount |-> amount, required |-> amount * factor, at |-> now,
   cleared |-> amount * factor = 0]

CreateRow(rs, ws, row) == rows' = Append(rs, row) /\ waived' = Append(ws, 0)

--------------------------------------------------------------------------------
(* Operations                                                               *)

\* A recharge credits the account and makes its requirement.
Recharge(a) ==
  /\ Len(rows) < MaxRows
  /\ balance' = balance + a
  /\ others' = others + a
  /\ CreateRow(rows, waived, Row("RECHARGE", a, Live(penalty, wager)))
  /\ UNCHANGED <<now, bets, penalty, wager, placed, over, illegal, penalized>>

Reward(a) ==
  /\ Len(rows) < MaxRows
  /\ balance' = balance + a
  /\ others' = others + a
  /\ CreateRow(rows, waived, Row("REWARD", a, RewardFactor))
  /\ UNCHANGED <<now, bets, penalty, wager, placed, over, illegal, penalized>>

\* getUserWagerStatus() from the withdrawal and wallet pages.
ReadStatus ==
  /\ rows' = Status
  /\ waived' = WaivedByStatus
  /\ rows' # rows
  /\ UNCHANGED <<now, balance, bets, penalty, wager, placed, over, illegal, penalized, others>>

\* debitWithdrawal(); a refusal rolls everything back, the status included.
ClearOpenPenaltyLater(rs) == rs
ClearOpenPenalty(rs) == Cleared(rs, PenaltyRows(rs))

DebitWithdrawal(a) ==
  /\ balance >= a
  /\ ~IsWithdrawalFrozen
  /\ rows' = ClearOpenPenalty(Status)
  /\ waived' = Waive(WaivedByStatus, Status, PenaltyRows(Status))
  /\ balance' = balance - a
  /\ others' = others - a
  /\ penalty' = Off
  /\ UNCHANGED <<now, bets, wager, placed, over, illegal, penalized>>

--------------------------------------------------------------------------------
(* Penalties                                                                *)

\* replaceBalancePenaltySnapshot() for the balance at that time.
Snapshot(rs, ws, amount, factor) ==
  IF amount > LowBalance
  THEN CreateRow(ClearOpenPenalty(rs), ws, Row("PENALTY", amount, factor))
  ELSE rows' = ClearOpenPenalty(rs) /\ waived' = ws

\* applyIllegalRoundPenalty(): the pairs and coverages among the bets given; the
\* factor grows once per round, whatever is found later in the same round.
Found(ps) ==
  {{pair[1], pair[2]} : pair \in {p \in ps \X ps : IsIllegalBetPair(p[1], p[2])}}
    \cup FullNumberCoverage(ps)

FirstEventIgnored(r, found) == found \ illegal[r] # {}
FirstEvent(r, found) == found # {} /\ illegal[r] = {}

Raised ==
  LET next == (IF penalty.on THEN penalty.factor ELSE 1) * PenaltyBase
  IN IF next > MaxFactor THEN MaxFactor ELSE next

\* stake: what this transaction has already debited when the check runs.
ApplyPenalty(r, ps, stake) ==
  IF FirstEvent(r, Found(ps))
  THEN /\ Len(rows) < MaxRows
       /\ illegal' = [illegal EXCEPT ![r] = @ \cup Found(ps)]
       /\ penalized' = [penalized EXCEPT ![r] = @ + 1]
       /\ penalty' = [on |-> TRUE, factor |-> Raised, model |-> "BALANCE_SNAPSHOT"]
       /\ Snapshot(Synced(rows, wager), Waive(waived, rows, PenaltyRows(rows)), balance - stake, Raised)
  ELSE /\ illegal' = [illegal EXCEPT ![r] = @ \cup Found(ps)]
       /\ UNCHANGED <<penalized, penalty, rows, waived>>

\* placeBet of any game: debit, row, detectPlacedIllegalBet, in one transaction.
PlaceBet(r, p) ==
  /\ balance >= 1
  /\ r \notin over
  /\ p \notin placed[r]
  /\ balance' = balance - 1
  /\ others' = others - 1
  /\ bets' = [bets EXCEPT ![now] = @ + 1]
  /\ placed' = [placed EXCEPT ![r] = @ \cup {p}]
  /\ ApplyPenalty(r, placed'[r], 1)
  /\ UNCHANGED <<now, wager, over>>

\* detectSettledIllegalBets(): a settle run looks at the PENDING bets again, in a
\* transaction of its own ...
DetectSettled(r) ==
  /\ r \notin over
  /\ ApplyPenalty(r, placed[r], 0)
  /\ <<illegal', penalty'>> # <<illegal, penalty>>
  /\ UNCHANGED <<now, balance, bets, wager, placed, over, others>>

\* ... and then pays, whether that went well or not.
\* The payments of the other games are left to Lottery.
SettleRound(r, number) ==
  LET won == Payout([bet : placed[r], contract : {1}], number) \div 100 IN
  /\ r \notin over
  /\ placed[r] # {} /\ placed[r] \subseteq WingoBets
  /\ over' = over \cup {r}
  /\ balance' = balance + won
  /\ others' = others + won
  /\ UNCHANGED <<now, rows, bets, penalty, wager, placed, illegal, waived, penalized>>

\* PATCH /admin/users/:id/penalty
AdminPenalty(f) ==
  /\ f # penalty.factor \/ ~penalty.on
  /\ Len(rows) < MaxRows
  /\ penalty' = [on |-> TRUE, factor |-> f, model |-> "BALANCE_SNAPSHOT"]
  /\ Snapshot(Synced(rows, wager), Waive(waived, rows, PenaltyRows(rows)), balance, f)
  /\ UNCHANGED <<now, balance, bets, wager, placed, over, illegal, penalized, others>>

AdminPenaltyOff ==
  /\ penalty.on
  /\ penalty' = Off
  /\ rows' = Synced(ClearOpenPenalty(rows), wager)
  /\ waived' = Waive(waived, rows, PenaltyRows(rows))
  /\ UNCHANGED <<now, balance, bets, wager, placed, over, illegal, penalized, others>>

\* POST /admin/users/:id/clear-wager: rewards and penalties go, recharges stay at
\* the base factor; the status is persisted before and after.
AdminClearWager ==
  LET before == Status
      extra == {i \in OpenRows(before) : before[i].kind \in {"REWARD", "PENALTY"}}
      synced == Synced(Cleared(before, extra), wager)
      after == IF Low THEN OpenRows(synced) ELSE MetRows(synced)
  IN /\ rows' = Cleared(synced, after)
     /\ waived' = Waive(Waive(WaivedByStatus, before, extra), synced, IF Low THEN after ELSE {})
     /\ penalty' = Off
     /\ rows' # rows \/ penalty # Off
     /\ UNCHANGED <<now, balance, bets, wager, placed, over, illegal, penalized, others>>

ConfigWager(f) ==
  /\ f # wager
  /\ wager' = f
  /\ UNCHANGED <<now, balance, rows, bets, penalty, placed, over, illegal, waived, penalized, others>>

WagerTick ==
  /\ now < MaxTime
  /\ now' = now + 1
  /\ UNCHANGED <<balance, rows, bets, penalty, wager, placed, over, illegal, waived, penalized, others>>

================================================================================
