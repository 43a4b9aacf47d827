-------------------------------- MODULE Lottery ---------------------------------
(***************************************************************************)
(* A table of K3, 5D, Moto or TRX Win Go: the API's requests and the tasks *)
(* of the engine, composed, and what they promise together.                *)
(***************************************************************************)
EXTENDS CycleRound, TronRound

tasks == <<cycle, lifecycle, draw, settle, block>>
vars == <<tableVars, tasks>>

Init == TablesInit /\ CycleInit /\ TronInit

Request == (PlaceBet \/ SetResults) /\ UNCHANGED tasks
Clock == (Tick \/ ClockBack) /\ UNCHANGED tasks
CycleTasks == CycleNext /\ UNCHANGED <<lifecycle, draw, settle, block>>
TronTasks == TronNext /\ UNCHANGED cycle

Next == Request \/ Clock \/ CycleTasks \/ TronTasks

Spec == Init /\ [][Next]_vars

\* node-cron and setInterval go on ticking, promises settle, and a handler that
\* has checked a bet or a fixed result goes on to write it.  Requests that Prompt
\* names hold the clock only while they last, so the clock is strongly fair.
Answer(b) ==
  bet[b] = "checked" /\ (K3Bet(b) \/ FiveDBet(b) \/ MotoBet(b) \/ TrxBet(b))

SettleJob ==
  \/ /\ SettleStep \/ \E j \in jobs : SettleFails(j)
     /\ UNCHANGED <<lifecycle, draw, settle, block>>
  \/ /\ TrxSettleStep \/ \E j \in jobs : TrxSettleFails(j)
     /\ UNCHANGED cycle

Fairness ==
  /\ SF_vars(Tick /\ UNCHANGED tasks)
  /\ WF_vars(\/ CycleStep /\ UNCHANGED <<lifecycle, draw, settle, block>>
             \/ TrxLifecycle /\ UNCHANGED cycle)
  /\ WF_vars(TrxDraw /\ UNCHANGED cycle)
  /\ WF_vars((TrxSettleStart \/ TrxResolve) /\ UNCHANGED cycle)
  /\ WF_vars(SettleJob)
  /\ WF_vars(AdminWrite /\ UNCHANGED tasks)
  /\ \A b \in Bets : WF_vars(Answer(b) /\ UNCHANGED tasks)

FairSpec == Spec /\ Fairness

--------------------------------------------------------------------------------
(* What GET /results and GET /periods of the games show a player            *)

\* K3 and Moto list a period once it is RESOLVED, 5D and TRX as soon as it is drawn.
K3ListedOnceDrawn(s) == resultNumber[s] # NoResult
K3Listed(s) == status[s] = "RESOLVED"
FiveDListed(s) == resultNumber[s] # NoResult
MotoListed(s)  == status[s] = "RESOLVED"
TrxListed(s)   == resultNumber[s] # NoResult

Listed(s) ==
  \/ game = "k3" /\ K3Listed(s)
  \/ game = "5d" /\ FiveDListed(s)
  \/ game = "moto" /\ MotoListed(s)
  \/ game = "trx" /\ TrxListed(s)

\* The winnings listed with a bet of the player's: 0 while it has no result row.
ShownWin(b) == IF betResult[b] = NoRow THEN 0 ELSE betResult[b]

\* The period that is offered as the running one.
Live(s) == status[s] = "ACTIVE" /\ StartTime(s) <= now /\ now < EndTime(s)

--------------------------------------------------------------------------------

\* Every variable has its type; in particular a balance is never negative.
TypeOK ==
  /\ game \in Games
  /\ now \in 0 .. MaxTime
  /\ status \in [Slots -> {"NONE", "ACTIVE", "ENDED", "RESOLVED"}]
  /\ resultNumber \in [Slots -> Numbers \cup {NoResult}]
  /\ adminResult \in [Slots -> Numbers \cup {NoResult}]
  /\ accepted \in [Slots -> Numbers \cup {NoResult}]
  /\ adminRequest \in [slot : Slots, number : Numbers \cup {NoResult}]
  /\ bet \in [Bets -> {"none", "checked", "PENDING", "WON", "LOST"}]
  /\ betResult \in [Bets -> Nat \cup {NoRow}]
  /\ paid \subseteq Bets
  /\ balance \in [Users -> Nat]
  /\ jobs \subseteq [bet : Bets, number : Numbers, pc : {"record", "pay"}, run : BOOLEAN]
  /\ faults \in 0 .. MaxFaults
  /\ cycle.todo \subseteq Slots
  /\ lifecycle \in {"idle", "end", "create"}
  /\ draw.todo \subseteq Slots
  /\ settle.todo \subseteq Slots
  /\ block \in [Slots -> (0 .. MaxTime) \cup {NoBlock}]

Money == INSTANCE RoundLedger WITH
  outcome <- resultNumber,
  ticket <- [b \in Bets |->
              IF bet[b] \in {"none", "checked"} THEN "none"
              ELSE IF b \notin paid THEN "open"
              ELSE IF betResult[b] > 0 THEN "won" ELSE "lost"],
  account <- balance

\* Whatever the game, the scheduler and the fault, a table is a RoundLedger: one
\* outcome per slot, chosen while no bet of the slot is still to come, each bet
\* paid at most once and against that outcome (settleBet of two overlapping runs,
\* a run that is given up half way, a restart).
LedgerSpec == Money!Spec

\* A period is RESOLVED only when none of its bets is PENDING: later runs read
\* ENDED periods only, so such a bet would never be settled.  It holds as long as
\* no place-bet request outlasts the end of its period (Prompt).
ResolvedOwesNothing ==
  "bet" \in Prompt => \A s \in Slots : status[s] = "RESOLVED" => PendingBets(s) = {}

\* Without a failure a draw comes from where it is said to come from: the result an
\* admin was told is set for a running k3 or 5d period (setResults.ts) is the one
\* drawn, although the engine reads, deletes and stores it in three steps; and the
\* block whose hash decides a TRX period is mined after its bets are locked
\* (getTipAtOrAfter).
DrawnFromSource ==
  faults = 0 =>
    \A s \in Slots :
      /\ (resultNumber[s] # NoResult /\ accepted[s] # NoResult) => resultNumber[s] = accepted[s]
      /\ block[s] # NoBlock => block[s] >= LockTime(s)

\* A period that has been drawn is not offered to players again, even when the
\* clock is set back into its window (createPeriodIfNeeded reactivates a period).
\* A TRX period is drawn while it is still ACTIVE, in its lock.
NoReopenAfterDraw ==
  [][\A s \in Slots :
       (resultNumber[s] # NoResult /\ (game # "trx" \/ status[s] # "ACTIVE"))
         => (~Live(s) /\ ~Live(s)')]_vars

\* What a player is shown is final: a listed period stays listed with its number,
\* no bet of it is taken afterwards and, for K3 and Moto, the winnings listed with
\* a bet never change (5D and TRX list a bet that is not settled yet as lost).
ShownIsFinal ==
  [][\A s \in Slots : Listed(s) =>
       /\ Listed(s)'
       /\ resultNumber'[s] = resultNumber[s]
       /\ ("bet" \in Prompt /\ game \in {"k3", "moto"}) =>
            \A b \in Bets : b.slot = s =>
              (bet'[b] = bet[b] /\ ShownWin(b)' = ShownWin(b))]_vars

\* A bet that was taken is settled and paid in the end, after any failures, but
\* for a 5D bet whose payment fails (see WonIsPaid).
BetsPaid ==
  \A b \in Bets : bet[b] = "PENDING" ~> (b \in paid \/ (game = "5d" /\ faults > 0))

\* A bet that is WON is paid or its payment is on the way: what "Update user
\* balance in a transaction" in processWinnings of 5D claims.  The row and the
\* status are committed before and apart from the payment.
WonIsPaid ==
  \A b \in Bets : bet[b] = "WON" => (b \in paid \/ \E j \in jobs : j.bet = b)

================================================================================
