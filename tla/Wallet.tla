--------------------------------- MODULE Wallet ---------------------------------
(***************************************************************************)
(* One account: its wager requirements and penalties, the lottery bets,    *)
(* the vendor's callbacks and the admin's balance update, composed.        *)
(***************************************************************************)
EXTENDS VendorWallet

CONSTANTS
  Spent, \* how many of MaxRequests an account that bets on a market has spent already
  Begun  \* the bets it has placed by then, which broke no rule

ASSUME SpentAssumption ==
  /\ Spent \in [Markets -> 0 .. MaxRequests]
  /\ \A m \in Markets : Begun[m] \subseteq m /\ Found(Begun[m]) = {}

VARIABLE market  \* the bets the account places

walletVars == <<vars, market>>

Init ==
  /\ market \in Markets
  /\ WagerInit(Begun[market]) /\ VendorInit
  /\ made = Spent[market]

AccountWrite ==
  \/ \E a \in Amounts : Recharge(a) \/ Reward(a) \/ DebitWithdrawal(a)
  \/ \E r \in Rounds, p \in market : PlaceBet(r, p)
  \/ \E r \in Rounds, n \in WingoNumbers : SettleRound(r, n)
  \/ \E r \in Rounds : DetectSettled(r)
  \/ \E f \in WagerFactors : AdminPenalty(f)
  \/ ReadStatus
  \/ AdminPenaltyOff
  \/ AdminClearWager

AccountStep ==
  /\ made < MaxRequests
  /\ made' = made + 1
  /\ AccountWrite
  /\ overlapped' = (overlapped \/ calls # {})
  /\ UNCHANGED <<inoutBet, calls, faults>>

World == (WagerTick \/ \E f \in WagerFactors : ConfigWager(f)) /\ UNCHANGED vendorVars

Next == (AccountStep \/ World \/ VendorNext) /\ UNCHANGED market

Spec == Init /\ [][Next]_walletVars

--------------------------------------------------------------------------------

Kinds == {"RECHARGE", "REWARD", "PENALTY"}

\* Types; and the balance is negative only when requests overlapped: the debit of
\* a vendor bet is not conditional on the balance it was allowed for.
TypeOK ==
  /\ now \in 0 .. MaxTime
  /\ balance \in Int /\ (balance < 0 => overlapped)
  /\ rows \in Seq([kind : Kinds, amount : Nat, required : Nat, at : 0 .. MaxTime, cleared : BOOLEAN])
  /\ Len(rows) <= MaxRows
  /\ bets \in [0 .. MaxTime -> Nat]
  /\ penalty.factor \in 1 .. MaxFactor \cup WagerFactors \cup {PenaltyBase}
  /\ placed \in [Rounds -> SUBSET market]
  /\ waived \in Seq(Nat) /\ Len(waived) = Len(rows)
  /\ inoutBet \in [Tx -> [exists : BOOLEAN, isSettled : BOOLEAN, isRolledback : BOOLEAN, winAmount : Nat]]

\* What a row requires under the factor that is live now.
LiveRequired(i) ==
  IF rows[i].kind = "RECHARGE" THEN rows[i].amount * Live(penalty, wager) ELSE rows[i].required

\* A withdrawal of an account that is not almost empty leaves nothing unearned
\* behind: every requirement, at the factor of that moment, was met by first-party
\* bets since it was made, or was waived to that height before.  The code decides
\* it from flags written by earlier reads under other factors (isCleared).
WithdrawalEarned ==
  [][(\E a \in Amounts : DebitWithdrawal(a)) =>
       (balance <= LowBalance \/
        \A i \in DOMAIN rows : \/ BetsSince(rows[i].at) >= LiveRequired(i)
                               \/ waived[i] >= LiveRequired(i))]_walletVars

\* A round raises the penalty factor once, although every bet of the round and
\* every settle run that retries it looks for illegal pairs again; and there is at
\* most one open balance snapshot, under a penalty that is on: a withdrawal, an
\* admin or the next illegal round leave none behind.
PenaltiesBacked ==
  /\ \A r \in Rounds : penalized[r] <= 1
  /\ Cardinality(PenaltyRows(rows)) <= 1
  /\ PenaltyRows(rows) # {} => (penalty.on /\ penalty.model = "BALANCE_SNAPSHOT")

\* A group and a sum of K3 in its range that only a triple makes: no group wins on
\* a triple, and the rules do not look at triples.
OnlyByTriple(a, b) ==
  a.game = "K3" /\ <<a.group, b.number>> \in {<<"SMALL", 3>>, <<"BIG", 18>>}

\* A group and another bet of its place cannot win together.
Opposed(ps) ==
  \E a, b \in ps :
    /\ Selected(a) /\ Selected(b) /\ a.at = b.at
    /\ ~Exact(a) /\ ~OnlyByTriple(a, b)
    /\ WinningResults[a] \cap WinningResults[b] = {}

\* One of the numbers of a place wins, whatever is drawn.
SureToWin(ps) ==
  \E b \in ps :
    Exact(b) /\ \A r \in ResultsOf[b.game] : \E x \in ExactAt(ps, b.at) : r \in WinningResults[x]

\* Whatever the game, and in whichever order the bets come, a round of an account
\* counts as illegal exactly when two of its bets cannot win together or its numbers
\* cannot lose: the rules, which know ranges and parities, agree with what the games
\* pay, but for OnlyByTriple.
IllegalAsPaid ==
  \A r \in Rounds : illegal[r] # {} <=> Opposed(placed[r]) \/ SureToWin(placed[r])

\* Under WINNING a round never pays an account more than it staked, when its bets
\* are the only ones: some number pays at most the average, and that is drawn.
HouseKeepsWhole ==
  \A r \in Rounds \ over : placed[r] \subseteq WingoBets =>
    LET stakes == [bet : placed[r], contract : {1}]
    IN \A n \in CheapestNumbers(stakes) : Payout(stakes, n) <= 100 * Cardinality(placed[r])

RowEffect(row) ==
  IF ~row.exists THEN 0
  ELSE row.winAmount - VendorStake + (IF row.isRolledback THEN VendorStake ELSE 0)
VendorTotal == SumFunctionOnSet([t \in Tx |-> RowEffect(inoutBet[t])], Tx)

\* When calls come one at a time, none dies half way, and no bet is both settled
\* and rolled back, the vendor's bet rows account for the balance, however often
\* the vendor repeats a call.
VendorBooks ==
  (calls = {} /\ ~overlapped /\ faults = 0
     /\ \A t \in Tx : ~(inoutBet[t].isSettled /\ inoutBet[t].isRolledback))
    => balance = InitBalance + others + VendorTotal

================================================================================
