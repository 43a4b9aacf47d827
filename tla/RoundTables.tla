------------------------------ MODULE RoundTables -------------------------------
(***************************************************************************)
(* What the K3, 5D, Moto and TRX Win Go rounds have in common: the tables  *)
(* of periods, bets and bet results of one game and duration, the API's    *)
(* place-bet handlers, the admin's fixed result and the settlement of one  *)
(* bet.  CycleRound and TronRound add the engine tasks of the games.       *)
(* The game is chosen at the start and never changes: one instance of the  *)
(* modules stands for one table of any of the four games.                  *)
(***************************************************************************)
EXTENDS Integers, FiniteSets

CONSTANTS
  Games,        \* the games this instance chooses from
  Users, Numbers, Bets, Stake, InitBalance, NoResult, \* as in RoundLedger
  MaxSlot,      \* bound: slots 0..MaxSlot of the table exist
  SlotLen,      \* durationSeconds, in units of the clock
  LockLen,      \* betLockSeconds
  DrawOffset,   \* how long before its end a TRX period is drawn
  MaxTime,      \* bound: the clock stops here
  FaultKinds,   \* the failures this instance allows
  MaxFaults,    \* bound on the number of failures
  Prompt        \* requests that do not outlast the draw of their slot

Slots == 0 .. MaxSlot

AllFaults == {"crash", "clock", "end", "create", "draw", "redis", "settle", "pay",
              "resolve", "bet", "tron"}

ASSUME TablesAssumption ==
  /\ Games \subseteq {"k3", "5d", "moto", "trx"}
  /\ MaxSlot \in Nat /\ MaxTime \in Nat /\ MaxFaults \in Nat
  /\ LockLen \in Nat /\ SlotLen \in Nat /\ 0 < LockLen /\ LockLen < SlotLen
  /\ DrawOffset \in Nat /\ DrawOffset < LockLen
  /\ FaultKinds \subseteq AllFaults
  /\ Prompt \subseteq {"bet", "admin"}
  /\ Stake \in Nat \ {0} /\ InitBalance \in Nat
  /\ NoResult \notin Numbers
  /\ \A b \in Bets : /\ b.user \in Users
                     /\ b.slot \in Slots
                     /\ b.pays \in [Numbers -> Nat]

VARIABLES
  game,         \* which game this table belongs to
  now,          \* the clock
  status,       \* status of the period of a slot; "NONE": no row
  resultNumber, \* dice, digits, places or number of the period
  adminResult,  \* the Redis key admin:<game>:result:<period>
  adminRequest, \* the setResults request between its check and its write
  accepted,     \* the last number an admin was told is set (for properties)
  bet,          \* the place-bet request, then the status of the bet's row
  betResult,    \* winAmount of the bet's result row; NoRow: no row
  paid,         \* bets whose outcome has reached the balance (for properties)
  balance,      \* User.balance
  jobs,         \* the settleBet() calls in flight
  faults        \* failures so far

adminVars == <<adminResult, adminRequest, accepted>>
moneyVars == <<bet, betResult, paid, balance>>
tableVars == <<game, now, status, resultNumber, adminVars, moneyVars, jobs, faults>>

NoRow == -1
NoRequest == [slot |-> 0, number |-> NoResult]

StartTime(s) == s * SlotLen
EndTime(s)   == StartTime(s) + SlotLen
LockTime(s)  == EndTime(s) - LockLen
SlotAt(t)    == t \div SlotLen

\* When the outcome of a slot may be known at the earliest.
TrxDrawTimeEarly(s) == EndTime(s) - DrawOffset - LockLen
TrxDrawTime(s) == EndTime(s) - DrawOffset
DrawTime(s) == IF game = "trx" THEN TrxDrawTime(s) ELSE EndTime(s)

Fault(kind) ==
  /\ kind \in FaultKinds
  /\ faults < MaxFaults
  /\ faults' = faults + 1

PendingBets(s) == {b \in Bets : b.slot = s /\ bet[b] = "PENDING"}

TablesInit ==
  /\ game \in Games
  /\ now = 0
  /\ status = [s \in Slots |-> "NONE"]
  /\ resultNumber = [s \in Slots |-> NoResult]
  /\ adminResult = [s \in Slots |-> NoResult]
  /\ adminRequest = NoRequest
  /\ accepted = [s \in Slots |-> NoResult]
  /\ bet = [b \in Bets |-> "none"]
  /\ betResult = [b \in Bets |-> NoRow]
  /\ paid = {}
  /\ balance = [u \in Users |-> InitBalance]
  /\ jobs = {}
  /\ faults = 0

\* The clock advances; requests that Prompt names end before the draw.
Tick ==
  /\ now < MaxTime
  /\ now' = now + 1
  /\ "bet" \in Prompt => \A b \in Bets : bet[b] = "checked" => now' < DrawTime(b.slot)
  /\ "admin" \in Prompt =>
       (adminRequest # NoRequest => now' < EndTime(adminRequest.slot))
  /\ UNCHANGED <<game, status, resultNumber, adminVars, moneyVars, jobs, faults>>

\* The clock of the machine is set back.
ClockBack ==
  /\ Fault("clock")
  /\ now > 0
  /\ now' = now - 1
  /\ UNCHANGED <<game, status, resultNumber, adminVars, moneyVars, jobs>>

--------------------------------------------------------------------------------
(* POST /bet of the four games                                              *)

\* The period is ACTIVE and not locked.  The balance compared next is the auth
\* middleware's, as old as its cache: only the debit below asks the row.
OpenUntilEnd(s) == status[s] = "ACTIVE" /\ StartTime(s) <= now /\ now < EndTime(s)
OpenForBets(s) == status[s] = "ACTIVE" /\ StartTime(s) <= now /\ now < LockTime(s)

CheckBet(b) ==
  /\ bet[b] = "none"
  /\ OpenForBets(b.slot)
  /\ bet' = [bet EXCEPT ![b] = "checked"]
  /\ UNCHANGED <<game, now, status, resultNumber, adminVars, betResult, paid, balance,
                 jobs, faults>>

\* debitUserBalanceForBet decrements only where balance >= betAmount.
Covers(b) == balance[b.user] >= Stake

\* The transaction debits and inserts; it asks neither the period nor the clock.
CommitBet(b) ==
  /\ bet[b] = "checked"
  /\ IF Covers(b)
     THEN /\ bet' = [bet EXCEPT ![b] = "PENDING"]
          /\ balance' = [balance EXCEPT ![b.user] = @ - Stake]
     ELSE /\ bet' = [bet EXCEPT ![b] = "none"]
          /\ UNCHANGED balance
  /\ UNCHANGED <<game, now, status, resultNumber, adminVars, betResult, paid, jobs, faults>>

DropBet(b) ==
  /\ Fault("bet")
  /\ bet[b] = "checked"
  /\ bet' = [bet EXCEPT ![b] = "none"]
  /\ UNCHANGED <<game, now, status, resultNumber, adminVars, betResult, paid, balance, jobs>>

K3Bet(b)   == game = "k3" /\ (CheckBet(b) \/ CommitBet(b) \/ DropBet(b))
FiveDBet(b) == game = "5d" /\ (CheckBet(b) \/ CommitBet(b) \/ DropBet(b))
MotoBet(b) == game = "moto" /\ (CheckBet(b) \/ CommitBet(b) \/ DropBet(b))
TrxBet(b)  == game = "trx" /\ (CheckBet(b) \/ CommitBet(b) \/ DropBet(b))

PlaceBet == \E b \in Bets : K3Bet(b) \/ FiveDBet(b) \/ MotoBet(b) \/ TrxBet(b)

--------------------------------------------------------------------------------
(* POST /admin/setResults, for the games its schema names: k3 and 5d        *)

AdminCheck(s, n) ==
  /\ game \in {"k3", "5d"}
  /\ adminRequest = NoRequest
  /\ status[s] = "ACTIVE"
  /\ adminRequest' = [slot |-> s, number |-> n]
  /\ UNCHANGED <<game, now, status, resultNumber, adminResult, accepted, moneyVars, jobs,
                 faults>>

AdminWrite ==
  /\ adminRequest # NoRequest
  /\ adminRequest' = NoRequest
  /\ \/ /\ adminResult' = [adminResult EXCEPT ![adminRequest.slot] = adminRequest.number]
        /\ accepted' = [accepted EXCEPT ![adminRequest.slot] = adminRequest.number]
        /\ UNCHANGED faults
     \/ Fault("redis") /\ UNCHANGED <<adminResult, accepted>>
  /\ UNCHANGED <<game, now, status, resultNumber, moneyVars, jobs>>

\* Premise on the environment, nothing the handler asks: the request comes in time.
AdminInTime(s) == "admin" \in Prompt => now < EndTime(s)

SetResults ==
  \/ AdminWrite
  \/ \E s \in Slots, n \in Numbers : AdminInTime(s) /\ AdminCheck(s, n)

\* ResultSetter.get, when Redis answers.
PredeterminedNever(s) == NoResult
Predetermined(s) == adminResult[s]

--------------------------------------------------------------------------------
(* Settlement of one bet                                                    *)

\* What a bet earns: the whole payout, the stake included.
NetWin(b, n) == b.pays[n] - Stake
WinAmount(b, n) == b.pays[n]

\* The row of the bet's result does not exist yet: betId is unique.
NoResultRowAssumed(j) == TRUE
NoResultRow(j) == betResult[j.bet] = NoRow

Job(b, n) == [bet |-> b, number |-> n, pc |-> "record", run |-> TRUE]

\* Promise.all has resolved: no bet of the run is left.
RunDoneAssumed == TRUE
RunDone == \A j \in jobs : ~j.run

\* The jobs of the run that is given up go on by themselves.
Orphaned(js) == {[j EXCEPT !.run = FALSE] : j \in js}

\* settleBet() of K3, Moto and TRX: result row, status and winnings in one
\* transaction.
SettleInOne(j) ==
  /\ j \in jobs
  /\ NoResultRow(j)
  /\ jobs' = jobs \ {j}
  /\ betResult' = [betResult EXCEPT ![j.bet] = WinAmount(j.bet, j.number)]
  /\ bet' = [bet EXCEPT ![j.bet] = IF WinAmount(j.bet, j.number) > 0 THEN "WON" ELSE "LOST"]
  /\ balance' = [balance EXCEPT ![j.bet.user] = @ + WinAmount(j.bet, j.number)]
  /\ paid' = paid \cup {j.bet}
  /\ UNCHANGED <<game, now, status, resultNumber, adminVars, faults>>

K3SettleBet(j)   == game = "k3" /\ SettleInOne(j)
MotoSettleBet(j) == game = "moto" /\ SettleInOne(j)
TrxSettleBet(j)  == game = "trx" /\ SettleInOne(j)

\* settleBet() of 5D: processBetResult commits row and status ...
FiveDRecord(j) ==
  LET win == WinAmount(j.bet, j.number) IN
  /\ game = "5d"
  /\ j \in jobs
  /\ j.pc = "record"
  /\ NoResultRow(j)
  /\ betResult' = [betResult EXCEPT ![j.bet] = win]
  /\ bet' = [bet EXCEPT ![j.bet] = IF win > 0 THEN "WON" ELSE "LOST"]
  /\ jobs' = (jobs \ {j}) \cup (IF win > 0 THEN {[j EXCEPT !.pc = "pay"]} ELSE {})
  /\ paid' = IF win > 0 THEN paid ELSE paid \cup {j.bet}
  /\ UNCHANGED <<game, now, status, resultNumber, adminVars, balance, faults>>

\* ... and processWinnings increments the balance in a statement of its own.
FiveDPay(j) ==
  /\ game = "5d"
  /\ j \in jobs
  /\ j.pc = "pay"
  /\ jobs' = jobs \ {j}
  /\ balance' = [balance EXCEPT ![j.bet.user] = @ + WinAmount(j.bet, j.number)]
  /\ paid' = paid \cup {j.bet}
  /\ UNCHANGED <<game, now, status, resultNumber, adminVars, bet, betResult, faults>>

Settle(j) == K3SettleBet(j) \/ MotoSettleBet(j) \/ TrxSettleBet(j) \/ FiveDRecord(j) \/ FiveDPay(j)

================================================================================
