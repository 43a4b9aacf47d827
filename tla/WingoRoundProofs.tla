--------------------------- MODULE WingoRoundProofs ----------------------------
(* Theorems about WingoRound, for any players, bets, numbers and time line. *)
EXTENDS WingoRound, TLAPS

\* The time line is made of integers, slot 0 exists, windows are nested.
LEMMA Timeline ==
  /\ 0 \in Slots
  /\ \A s \in Slots : s \in Nat /\ StartTime(s) \in Nat /\ EndTime(s) \in Nat
  /\ \A s \in Slots : LockTime(s) \in Int /\ DrawTime(s) \in Int
  /\ \A s \in Slots : LockTime(s) <= DrawTime(s) /\ DrawTime(s) < EndTime(s)
  /\ NoRow \notin Nat
BY RoundAssumption DEF Slots, StartTime, EndTime, LockTime, DrawTime, NoRow

\* The local states a task is reset to are in its type.
LEMMA IdleStates ==
  /\ IdleHandoff \in HandoffStates
  /\ IdlePrepare \in PrepareStates
  /\ NoDraw \in DrawStates
  /\ IdleSettle \in SettleStates
  /\ NoRequest \in [slot : Slots, number : Results]
BY Timeline, RoundAssumption
   DEF IdleHandoff, HandoffStates, IdlePrepare, PrepareStates, NoDraw, DrawStates,
       IdleSettle, SettleStates, NoRequest, Results

--------------------------------------------------------------------------------
(* Type correctness, task by task                                           *)

LEMMA TypeInit == Init => TypeOK
BY RoundAssumption, Timeline, IdleStates DEF Init, TypeOK, Drawers, NoRow, Results

LEMMA TypeTick == TypeOK /\ Tick => TypeOK'
BY RoundAssumption
   DEF TypeOK, Tick, adminVars, moneyVars, settleVars, periodVars, clockTasks

LEMMA TypeHandoff == TypeOK /\ HandoffStep => TypeOK'
<1> SUFFICES ASSUME TypeOK, HandoffStep PROVE TypeOK'
  OBVIOUS
<1> USE DEF TypeOK, timeVars, adminVars, moneyVars, settleVars, periodVars
<1>1. CASE HandoffStart
  <2>1. handoff' \in HandoffStates
    BY <1>1 DEF HandoffStart, HandoffStates
  <2> QED
    BY <1>1, <2>1 DEF HandoffStart
<1>2. ASSUME NEW s \in Slots, EndPeriod(s) PROVE TypeOK'
  <2>1. [slot |-> s, result |-> resultNumber[s]] \in PeriodRows
    BY DEF PeriodRows
  <2>2. handoff' \in HandoffStates
    BY <1>2, <2>1 DEF EndPeriod, HandoffStates
  <2> QED
    BY <1>2, <2>2 DEF EndPeriod
<1>3. ASSUME NEW e \in handoff.justEnded, PublishStored(e) PROVE TypeOK'
  <2>1. e \in PeriodRows
    BY DEF HandoffStates
  <2>2. handoff' \in HandoffStates
    BY <1>3 DEF PublishStored, HandoffStates
  <2>3. e.slot \in Slots /\ (e.result \in Numbers \/ e.slot \in publishedResults)
    BY <1>3, <2>1 DEF PublishStored, PeriodRows, Results
  <2> QED
    BY <1>3, <2>2, <2>3 DEF PublishStored
<1>4. ASSUME NEW e \in handoff.justEnded, HandoffDraw(e) PROVE TypeOK'
  <2>1. e.slot \in Slots
    BY DEF HandoffStates, PeriodRows
  <2>2. handoff' \in HandoffStates
    <3>1. CASE handoff' = [handoff EXCEPT !.justEnded = @ \ {e}]
      BY <3>1 DEF HandoffStates
    <3>2. CASE handoff' = [handoff EXCEPT !.pc = "draw", !.justEnded = @ \ {e}]
      BY <3>2 DEF HandoffStates
    <3> QED
      BY <1>4, <3>1, <3>2 DEF HandoffDraw
  <2>3. draw' \in [Drawers -> DrawStates]
    <3>1. [pc |-> "generate", slot |-> e.slot, number |-> NoResult] \in DrawStates
      BY <2>1 DEF DrawStates, Results
    <3> QED
      BY <1>4, <3>1 DEF HandoffDraw, Drawers
  <2>4. published' \in [Slots -> SUBSET Numbers] /\ publishedResults' \subseteq Slots
    BY <1>4, <2>1 DEF HandoffDraw, Results
  <2> QED
    BY <1>4, <2>2, <2>3, <2>4 DEF HandoffDraw
<1>5. CASE HandoffCreate
  <2>1. handoff' \in HandoffStates
    BY <1>5 DEF HandoffCreate, HandoffStates
  <2>2. /\ status' \in [Slots -> {"NONE", "ACTIVE", "ENDED", "RESOLVED"}]
        /\ announced' \subseteq Slots
    BY <1>5 DEF HandoffCreate
  <2> QED
    BY <1>5, <2>1, <2>2 DEF HandoffCreate
<1>6. CASE HandoffSweep
  BY <1>6, IdleStates DEF HandoffSweep
<1> QED
  BY <1>1, <1>2, <1>3, <1>4, <1>5, <1>6 DEF HandoffStep

LEMMA TypePrepare == TypeOK /\ PrepareStep => TypeOK'
<1> SUFFICES ASSUME TypeOK, PrepareStep PROVE TypeOK'
  OBVIOUS
<1> USE DEF TypeOK, timeVars, adminVars, moneyVars, settleVars, periodVars
<1>1. CASE PrepareStart
  <2>1. prepare' \in PrepareStates
    BY <1>1 DEF PrepareStart, Live, PrepareStates
  <2> QED
    BY <1>1, <2>1 DEF PrepareStart
<1>2. CASE EnsureNext
  <2>1. prepare' \in PrepareStates
    BY <1>2, IdleStates DEF EnsureNext, PrepareStates
  <2>2. status' \in [Slots -> {"NONE", "ACTIVE", "ENDED", "RESOLVED"}]
    BY <1>2 DEF EnsureNext
  <2> QED
    BY <1>2, <2>1, <2>2 DEF EnsureNext
<1>3. CASE PrepareDraw
  <2>1. prepare' \in PrepareStates
    BY <1>3, IdleStates DEF PrepareDraw, PrepareStates
  <2>2. draw' \in [Drawers -> DrawStates]
    <3>1. [pc |-> "generate", slot |-> prepare.slot, number |-> NoResult] \in DrawStates
      BY DEF DrawStates, Results, PrepareStates
    <3> QED
      BY <1>3, <3>1 DEF PrepareDraw, Drawers
  <2> QED
    BY <1>3, <2>1, <2>2 DEF PrepareDraw
<1> QED
  BY <1>1, <1>2, <1>3 DEF PrepareStep

\* What a caller gets back from its draw.
LEMMA TypeReturn ==
  ASSUME TypeOK, NEW w \in Drawers, NEW drawn \in BOOLEAN, Return(w, drawn)
  PROVE  /\ draw' \in [Drawers -> DrawStates]
         /\ handoff' \in HandoffStates
         /\ prepare' \in PrepareStates
         /\ publishedResults' \subseteq Slots
<1>1. draw' \in [Drawers -> DrawStates]
  BY IdleStates DEF TypeOK, Return
<1>2. handoff' \in HandoffStates /\ prepare' \in PrepareStates
  BY IdleStates DEF TypeOK, Return, HandoffStates
<1>3. publishedResults' \subseteq Slots
  BY DEF TypeOK, Return, DrawStates
<1> QED
  BY <1>1, <1>2, <1>3

LEMMA TypeDraw ==
  ASSUME TypeOK, NEW w \in Drawers,
         Generate(w) \/ Consume(w) \/ Persist(w) \/ DrawFails(w)
           \/ RedisReadFails(w) \/ RedisDelFails(w)
  PROVE  TypeOK'
<1> USE DEF TypeOK, timeVars, adminVars, moneyVars, settleVars, periodVars
<1>1. CASE Generate(w)
  <2>1. draw[w].slot \in Slots
    BY DEF DrawStates
  <2>2. PICK n \in Numbers, pc \in {"consume", "persist"} :
          draw' = [draw EXCEPT ![w] = [pc |-> pc, slot |-> draw[w].slot, number |-> n]]
    BY <1>1, <2>1 DEF Generate, Results
  <2>3. [pc |-> pc, slot |-> draw[w].slot, number |-> n] \in DrawStates
    BY <2>1 DEF DrawStates
  <2>4. draw' \in [Drawers -> DrawStates]
    BY <2>2, <2>3
  <2> QED
    BY <1>1, <2>4 DEF Generate
<1>2. CASE Consume(w)
  <2>1. draw' \in [Drawers -> DrawStates]
    BY <1>2 DEF Consume, DrawStates
  <2>2. adminResult' \in [Slots -> Results]
    BY <1>2 DEF Consume, Results
  <2> QED
    BY <1>2, <2>1, <2>2 DEF Consume
<1>3. CASE Persist(w)
  <2>1. draw[w].slot \in Slots /\ draw[w].number \in Numbers
    BY <1>3 DEF Persist, DrawStates
  <2>2. resultNumber' \in [Slots -> Results] /\ published' \in [Slots -> SUBSET Numbers]
    BY <1>3, <2>1 DEF Persist, Results
  <2> QED
    BY <1>3, <2>1, <2>2, TypeReturn DEF Persist
<1>4. CASE DrawFails(w)
  <2>1. faults' \in 0 .. MaxFaults
    BY <1>4, RoundAssumption DEF DrawFails, Fault
  <2>2. Return(w, FALSE)
    BY <1>4 DEF DrawFails
  <2> QED
    BY <1>4, <2>1, <2>2, TypeReturn DEF DrawFails
<1>5. CASE RedisReadFails(w) \/ RedisDelFails(w)
  <2>1. faults' \in 0 .. MaxFaults
    BY <1>5, RoundAssumption DEF RedisReadFails, RedisDelFails, Fault
  <2>2. PICK n \in Numbers :
          draw' = [draw EXCEPT ![w] = [pc |-> "persist", slot |-> draw[w].slot, number |-> n]]
    BY <1>5 DEF RedisReadFails, RedisDelFails, DrawStates
  <2>3. [pc |-> "persist", slot |-> draw[w].slot, number |-> n] \in DrawStates
    BY DEF DrawStates
  <2>4. draw' \in [Drawers -> DrawStates]
    BY <2>2, <2>3
  <2> QED
    BY <1>5, <2>1, <2>4 DEF RedisReadFails, RedisDelFails
<1> QED
  BY <1>1, <1>2, <1>3, <1>4, <1>5

LEMMA TypeSettle == TypeOK /\ SettleStep => TypeOK'
<1> SUFFICES ASSUME TypeOK, SettleStep PROVE TypeOK'
  OBVIOUS
<1> USE DEF TypeOK, timeVars, adminVars, moneyVars, settleVars, periodVars, clockTasks
<1>1. CASE SettleStart
  <2>1. settle' \in SettleStates
    BY <1>1 DEF SettleStart, SettleStates, Due
  <2>2. ASSUME NEW b \in Bets, b.slot \in Due
        PROVE  [bet |-> b, number |-> resultNumber[b.slot], run |-> "current"] \in Jobs
    BY <2>2 DEF Due, Jobs, Results
  <2>3. jobs' \subseteq Jobs
    BY <1>1, <2>2 DEF SettleStart, PendingBets
  <2> QED
    BY <1>1, <2>1, <2>3 DEF SettleStart
<1>2. ASSUME NEW j \in jobs, SettleBet(j) PROVE TypeOK'
  <2>1. j.bet \in Bets /\ j.number \in Numbers
    BY DEF Jobs
  <2>2. WinAmount(j.bet, j.number) \in Nat /\ j.bet.user \in Users
    BY <2>1, RoundAssumption DEF WinAmount
  <2>3. /\ betResult' \in [Bets -> Nat \cup {NoRow}]
        /\ balance' \in [Users -> Nat]
        /\ bet' \in [Bets -> {"none", "checked", "refused", "PENDING", "WON", "LOST"}]
    BY <1>2, <2>1, <2>2 DEF SettleBet
  <2> QED
    BY <1>2, <2>3 DEF SettleBet
<1>3. ASSUME NEW j \in jobs, SettleBetFails(j) PROVE TypeOK'
  <2>1. faults' \in 0 .. MaxFaults
    BY <1>3, RoundAssumption DEF SettleBetFails, Fault
  <2>2. ASSUME NEW i \in Jobs PROVE Orphan(i) \in Jobs
    BY DEF Jobs, Orphan
  <2>3. jobs' \subseteq Jobs
    BY <1>3, <2>2 DEF SettleBetFails
  <2>4. settle' \in SettleStates
    BY <1>3, IdleStates DEF SettleBetFails
  <2> QED
    BY <1>3, <2>1, <2>3, <2>4 DEF SettleBetFails
<1>4. CASE SettleFinish
  BY <1>4, IdleStates DEF SettleFinish
<1> QED
  BY <1>1, <1>2, <1>3, <1>4 DEF SettleStep

LEMMA TypeBet == TypeOK /\ BetStep => TypeOK'
<1> SUFFICES ASSUME TypeOK, NEW b \in Bets, CheckBet(b) \/ CommitBet(b) \/ RefuseBet(b)
             PROVE  TypeOK'
  BY DEF BetStep
<1> USE DEF TypeOK, timeVars, adminVars, moneyVars, settleVars, periodVars, clockTasks
<1>1. CASE CheckBet(b)
  BY <1>1 DEF CheckBet
<1>2. CASE CommitBet(b)
  BY <1>2, RoundAssumption DEF CommitBet, Covers
<1>3. CASE RefuseBet(b)
  BY <1>3, RoundAssumption DEF RefuseBet, Fault
<1> QED
  BY <1>1, <1>2, <1>3

LEMMA TypeAdmin == TypeOK /\ AdminStep => TypeOK'
<1> SUFFICES ASSUME TypeOK, AdminStep PROVE TypeOK'
  OBVIOUS
<1> USE DEF TypeOK, timeVars, adminVars, moneyVars, settleVars, periodVars, clockTasks
<1>1. CASE AdminWrite
  BY <1>1, IdleStates DEF AdminWrite
<1>2. ASSUME NEW s \in Slots, NEW n \in Numbers, AdminCheck(s, n) PROVE TypeOK'
  BY <1>2 DEF AdminCheck, Results
<1> QED
  BY <1>1, <1>2 DEF AdminStep

LEMMA TypeFail == TypeOK /\ FailStep => TypeOK'
<1> SUFFICES ASSUME TypeOK, FailStep PROVE TypeOK'
  OBVIOUS
<1> USE DEF TypeOK, adminVars, moneyVars, settleVars, periodVars, clockTasks
<1>1. CASE Crash
  BY <1>1, IdleStates, RoundAssumption DEF Crash, Fault
<1>2. CASE HandoffFails \/ PrepareFails \/ SettleFinishFails \/ AdminWriteFails
  BY <1>2, IdleStates, RoundAssumption
     DEF HandoffFails, PrepareFails, SettleFinishFails, AdminWriteFails, Fault
<1>3. ASSUME NEW e \in handoff.justEnded, HandoffReadFails(e) PROVE TypeOK'
  <2>1. handoff' \in HandoffStates
    BY <1>3 DEF HandoffReadFails, HandoffStates
  <2>2. faults' \in 0 .. MaxFaults
    BY <1>3, RoundAssumption DEF HandoffReadFails, Fault
  <2> QED
    BY <1>3, <2>1, <2>2 DEF HandoffReadFails
<1>4. CASE \E w \in Drawers : DrawFails(w) \/ RedisReadFails(w) \/ RedisDelFails(w)
  BY <1>4, TypeDraw
<1> QED
  BY <1>1, <1>2, <1>3, <1>4 DEF FailStep

LEMMA TypeNext == TypeOK /\ [Next]_vars => TypeOK'
<1> SUFFICES ASSUME TypeOK, [Next]_vars PROVE TypeOK'
  OBVIOUS
<1>1. CASE UNCHANGED vars
  BY <1>1 DEF TypeOK, vars, timeVars, adminVars, moneyVars, settleVars, periodVars,
              clockTasks
<1>2. CASE DrawStep
  BY <1>2, TypeDraw DEF DrawStep
<1> QED
  BY <1>1, <1>2, TypeTick, TypeHandoff, TypePrepare, TypeSettle, TypeBet, TypeAdmin,
     TypeFail DEF Next

\* The variables keep their types: balances stay natural numbers in particular,
\* so no interleaving of bets overdraws an account (debitUserBalanceForBet).
THEOREM TypeCorrect == Spec => []TypeOK
BY TypeInit, TypeNext, PTL DEF Spec

--------------------------------------------------------------------------------
(* A bet is settled once: no assumption on timing or failures               *)

\* A row of WingoBetResult exists exactly for the settled bets, and a settleBet
\* call is only ever in flight for a bet whose stake was taken.
BetInv ==
  /\ \A b \in Bets : betResult[b] # NoRow <=> bet[b] \in {"WON", "LOST"}
  /\ \A j \in jobs : bet[j.bet] \in {"PENDING", "WON", "LOST"}

LEMMA BetInvInit == Init => BetInv
BY DEF Init, BetInv

\* A step that leaves bets and their results alone, and starts no settleBet,
\* preserves BetInv.
LEMMA BetInvFrame ==
  ASSUME TypeOK, BetInv, UNCHANGED <<bet, betResult>>,
         \A j \in jobs' : \E i \in jobs : j.bet = i.bet
  PROVE  BetInv'
BY DEF BetInv

\* No failure by itself changes a bet, a balance or a row of the database.
LEMMA FailFrame ==
  ASSUME FailStep
  PROVE  UNCHANGED <<now, periodVars, moneyVars>> /\ jobs' \subseteq jobs
BY DEF FailStep, HandoffFails, PrepareFails, SettleFinishFails, AdminWriteFails, Crash,
   HandoffReadFails, DrawFails, RedisReadFails, RedisDelFails, settleVars

LEMMA BetInvNext == TypeOK /\ BetInv /\ [Next]_vars => BetInv'
<1> SUFFICES ASSUME TypeOK, BetInv, [Next]_vars PROVE BetInv'
  OBVIOUS
<1>1. ASSUME UNCHANGED <<moneyVars, jobs>> PROVE BetInv'
  BY <1>1, BetInvFrame DEF moneyVars
<1>2. CASE Tick \/ UNCHANGED vars \/ AdminStep
  BY <1>1, <1>2 DEF Tick, vars, AdminStep, AdminCheck, AdminWrite, settleVars
<1>3. CASE HandoffStep
  BY <1>1, <1>3 DEF HandoffStep, HandoffStart, EndPeriod, PublishStored,
     HandoffDraw, HandoffCreate, HandoffSweep, settleVars
<1>4. CASE PrepareStep
  BY <1>1, <1>4 DEF PrepareStep, PrepareStart, EnsureNext, PrepareDraw, settleVars
<1>5. CASE DrawStep
  BY <1>1, <1>5 DEF DrawStep, Generate, Consume, Persist, settleVars
<1>6. CASE SettleStart
  <2>1. \A j \in jobs' : j \in jobs \/ bet[j.bet] = "PENDING"
    BY <1>6 DEF SettleStart, PendingBets
  <2> QED
    BY <1>6, <2>1 DEF SettleStart, BetInv, moneyVars
<1>7. ASSUME NEW j \in jobs, SettleBet(j) PROVE BetInv'
  <2>1. j.bet \in Bets /\ WinAmount(j.bet, j.number) \in Nat
    BY RoundAssumption DEF TypeOK, Jobs, WinAmount
  <2>2. WinAmount(j.bet, j.number) # NoRow
    BY <2>1, Timeline
  <2> QED
    BY <1>7, <2>1, <2>2 DEF SettleBet, BetInv, TypeOK
<1>8. ASSUME NEW j \in jobs, SettleBetFails(j) PROVE BetInv'
  <2>1. \A i \in jobs' : \E k \in jobs : i.bet = k.bet
    <3>1. \A i \in jobs : Orphan(i).bet = i.bet
      BY DEF Orphan
    <3> QED
      BY <1>8, <3>1 DEF SettleBetFails
  <2> QED
    BY <1>8, <2>1, BetInvFrame DEF SettleBetFails, moneyVars
<1>9. CASE SettleFinish
  BY <1>1, <1>9 DEF SettleFinish
<1>10. ASSUME NEW b \in Bets, CheckBet(b) \/ CommitBet(b) \/ RefuseBet(b) PROVE BetInv'
  <2>1. bet[b] \in {"none", "checked"} /\ UNCHANGED <<betResult, jobs>>
    BY <1>10 DEF CheckBet, CommitBet, RefuseBet, settleVars
  <2>2. /\ \A c \in Bets \ {b} : bet'[c] = bet[c]
        /\ bet'[b] \in {"checked", "PENDING", "refused"}
    BY <1>10 DEF CheckBet, CommitBet, RefuseBet, TypeOK
  <2>3. \A j \in jobs : j.bet # b /\ j.bet \in Bets
    BY <2>1 DEF BetInv, TypeOK, Jobs
  <2> QED
    BY <2>1, <2>2, <2>3 DEF BetInv
<1>11. CASE FailStep
  <2>1. UNCHANGED moneyVars /\ jobs' \subseteq jobs
    BY <1>11, FailFrame
  <2> QED
    BY <2>1 DEF BetInv, moneyVars
<1> QED
  BY <1>2, <1>3, <1>4, <1>5, <1>6, <1>7, <1>8, <1>9, <1>10, <1>11
     DEF Next, SettleStep, BetStep

THEOREM BetInvariant == Spec => [](TypeOK /\ BetInv)
BY TypeInit, TypeNext, BetInvInit, BetInvNext, PTL DEF Spec

\* One step never touches a settled bet or its row.
LEMMA SettledStep ==
  ASSUME TypeOK, BetInv, [Next]_vars, NEW b \in Bets, betResult[b] # NoRow
  PROVE  bet'[b] = bet[b] /\ betResult'[b] = betResult[b]
<1>1. bet[b] \in {"WON", "LOST"}
  BY DEF BetInv
<1>2. CASE UNCHANGED moneyVars
  BY <1>2 DEF moneyVars
<1>3. ASSUME NEW j \in jobs, SettleBet(j)
      PROVE  bet'[b] = bet[b] /\ betResult'[b] = betResult[b]
  BY <1>3 DEF SettleBet, NoResultRow, TypeOK
<1>4. ASSUME NEW c \in Bets, CheckBet(c) \/ CommitBet(c) \/ RefuseBet(c)
      PROVE  bet'[b] = bet[b] /\ betResult'[b] = betResult[b]
  BY <1>1, <1>4 DEF CheckBet, CommitBet, RefuseBet, TypeOK
<1>5. CASE UNCHANGED vars \/ Tick \/ HandoffStep \/ PrepareStep \/ FailStep
  BY <1>2, <1>5, FailFrame DEF vars, Tick, HandoffStep, HandoffStart, EndPeriod,
     PublishStored, HandoffDraw, HandoffCreate, HandoffSweep, PrepareStep, PrepareStart,
     EnsureNext, PrepareDraw
<1>6. CASE DrawStep \/ AdminStep
  BY <1>2, <1>6 DEF DrawStep, Generate, Consume, Persist, AdminStep, AdminCheck, AdminWrite
<1>7. CASE SettleStart \/ SettleFinish \/ \E j \in jobs : SettleBetFails(j)
  BY <1>2, <1>7 DEF SettleStart, SettleFinish, SettleBetFails
<1> QED
  BY <1>3, <1>4, <1>5, <1>6, <1>7 DEF Next, SettleStep, BetStep

\* OutcomeFinal holds whatever fails, restarts or is retried: a bet is paid at
\* most once and never settled again (WingoBetResult.betId is unique).
THEOREM SettledOnce == Spec => OutcomeFinal
<1>1. TypeOK /\ BetInv /\ [Next]_vars =>
        [\A b \in Bets : betResult[b] # NoRow =>
           bet'[b] = bet[b] /\ betResult'[b] = betResult[b]]_vars
  BY SettledStep
<1> QED
  BY <1>1, BetInvariant, PTL DEF Spec, OutcomeFinal

--------------------------------------------------------------------------------
(* What timely requests buy.  The rest of the theorems assume that a place-bet *)
(* request does not outlast the opening of the draw window of its slot, and a  *)
(* run of prepare() not the end of its slot; failures stay arbitrary.          *)

Timely == {"bet", "prepare"} \subseteq Prompt

\* handoff() works on slots that are over, prepare() on one that is not, so the
\* two never draw the same slot; and nothing is drawn before its draw window,
\* nor validated after it has opened.
TimeInv ==
  /\ \A s \in handoff.expired : EndTime(s) <= now
  /\ \A e \in handoff.justEnded : EndTime(e.slot) <= now
  /\ draw["handoff"].pc # "off" => EndTime(draw["handoff"].slot) <= now
  /\ prepare.pc # "idle" => now < EndTime(prepare.slot)
  /\ prepare.due => DrawTime(prepare.slot) <= now
  /\ prepare.pc \in {"read", "draw"} => prepare.due
  /\ draw["prepare"].pc # "off" =>
       prepare.pc = "draw" /\ draw["prepare"].slot = prepare.slot
  /\ \A w \in Drawers : draw[w].pc # "off" => resultNumber[draw[w].slot] = NoResult
  /\ \A s \in Slots : resultNumber[s] # NoResult => DrawTime(s) <= now
  /\ \A b \in Bets : bet[b] = "checked" => now < DrawTime(b.slot)

LEMMA TimeInvInit == Init => TimeInv
BY DEF Init, TimeInv, IdleHandoff, IdlePrepare, NoDraw, Drawers

\* Slots of the local states are slots.
LEMMA TaskSlots ==
  ASSUME TypeOK
  PROVE  /\ prepare.slot \in Slots
         /\ \A w \in Drawers : draw[w].slot \in Slots
         /\ handoff.expired \subseteq Slots
         /\ \A e \in handoff.justEnded : e.slot \in Slots /\ e.result \in Results
BY DEF TypeOK, PrepareStates, DrawStates, HandoffStates, PeriodRows

LEMMA TimeTick ==
  ASSUME Timely, TypeOK, TimeInv, Tick
  PROVE  TimeInv'
<1>1. now' = now + 1 /\ now \in Int
  BY DEF Tick, TypeOK
<1>2. UNCHANGED <<bet, resultNumber, handoff, prepare, draw>>
  BY DEF Tick, periodVars, moneyVars, clockTasks
<1>3. \A t \in Slots : EndTime(t) \in Int /\ DrawTime(t) \in Int
  BY Timeline
<1>4. /\ prepare.pc # "idle" => now' < EndTime(prepare.slot)
      /\ \A b \in Bets : bet[b] = "checked" => now' < DrawTime(b.slot)
  BY DEF Timely, Tick
<1>5. \A t \in Slots : /\ EndTime(t) <= now => EndTime(t) <= now'
                       /\ DrawTime(t) <= now => DrawTime(t) <= now'
  BY <1>1, <1>3
<1> QED
  BY <1>2, <1>4, <1>5, TaskSlots DEF TimeInv, Drawers

LEMMA TimeHandoff ==
  ASSUME TypeOK, TimeInv, HandoffStep
  PROVE  TimeInv'
<1> USE DEF TimeInv, timeVars, periodVars, moneyVars
<1>1. CASE HandoffStart
  BY <1>1 DEF HandoffStart
<1>2. ASSUME NEW s \in Slots, EndPeriod(s) PROVE TimeInv'
  <2>1. /\ handoff'.expired \subseteq handoff.expired
        /\ \A e \in handoff'.justEnded : e \in handoff.justEnded \/ e.slot = s
    BY <1>2 DEF EndPeriod, TypeOK, HandoffStates
  <2> QED
    BY <1>2, <2>1 DEF EndPeriod
<1>3. ASSUME NEW e \in handoff.justEnded, PublishStored(e) PROVE TimeInv'
  <2>1. handoff'.expired = handoff.expired /\ handoff'.justEnded \subseteq handoff.justEnded
    BY <1>3 DEF PublishStored, TypeOK, HandoffStates
  <2> QED
    BY <1>3, <2>1 DEF PublishStored
<1>4. ASSUME NEW e \in handoff.justEnded, HandoffDraw(e) PROVE TimeInv'
  <2>1. handoff'.expired = handoff.expired /\ handoff'.justEnded \subseteq handoff.justEnded
    <3>1. CASE handoff' = [handoff EXCEPT !.justEnded = @ \ {e}]
      BY <3>1 DEF TypeOK, HandoffStates
    <3>2. CASE handoff' = [handoff EXCEPT !.pc = "draw", !.justEnded = @ \ {e}]
      BY <3>2 DEF TypeOK, HandoffStates
    <3> QED
      BY <1>4, <3>1, <3>2 DEF HandoffDraw
  <2>2. draw'["prepare"] = draw["prepare"]
    BY <1>4 DEF HandoffDraw, TypeOK, Drawers
  <2>3. \/ draw' = draw
        \/ draw'["handoff"].slot = e.slot /\ resultNumber[e.slot] = NoResult
    BY <1>4 DEF HandoffDraw, TypeOK, Drawers
  <2>4. UNCHANGED <<now, resultNumber, bet, prepare>>
    BY <1>4 DEF HandoffDraw
  <2>5. EndTime(e.slot) <= now
    OBVIOUS
  <2> QED
    BY <2>1, <2>2, <2>3, <2>4, <2>5 DEF Drawers
<1>5. CASE HandoffCreate
  <2>1. handoff'.expired = handoff.expired /\ handoff'.justEnded = handoff.justEnded
    BY <1>5 DEF HandoffCreate, TypeOK, HandoffStates
  <2> QED
    BY <1>5, <2>1 DEF HandoffCreate
<1>6. CASE HandoffSweep
  BY <1>6 DEF HandoffSweep, IdleHandoff
<1> QED
  BY <1>1, <1>2, <1>3, <1>4, <1>5, <1>6 DEF HandoffStep

LEMMA TimePrepare ==
  ASSUME TypeOK, TimeInv, PrepareStep
  PROVE  TimeInv'
<1> USE DEF TimeInv, timeVars, periodVars, moneyVars
<1>1. CASE PrepareStart
  <2>1. PICK s \in Slots :
          /\ now < EndTime(s)
          /\ prepare' = [pc |-> "ensure", slot |-> s,
                         due |-> resultNumber[s] = NoResult /\ Frozen(s, now)]
    BY <1>1 DEF PrepareStart, Live
  <2>2. prepare'.due => DrawTime(s) <= now
    BY <2>1, Timeline DEF Frozen, TypeOK
  <2>3. prepare'.pc = "ensure" /\ prepare'.slot = s
    BY <2>1
  <2>4. prepare.pc = "idle" /\ UNCHANGED <<now, resultNumber, bet, handoff, draw>>
    BY <1>1 DEF PrepareStart
  <2> QED
    BY <2>1, <2>2, <2>3, <2>4
<1>2. CASE EnsureNext
  <2>1. \/ prepare' = IdlePrepare
        \/ /\ prepare.due
           /\ prepare' = [pc |-> "read", slot |-> prepare.slot, due |-> prepare.due]
    BY <1>2 DEF EnsureNext, TypeOK, PrepareStates
  <2> QED
    BY <1>2, <2>1 DEF EnsureNext, IdlePrepare
<1>3. CASE PrepareDraw
  <2>1. \/ prepare' = IdlePrepare /\ draw' = draw
        \/ /\ prepare' = [pc |-> "draw", slot |-> prepare.slot, due |-> prepare.due]
           /\ draw'["prepare"].slot = prepare.slot
           /\ resultNumber[prepare.slot] = NoResult
           /\ draw'["handoff"] = draw["handoff"]
    BY <1>3 DEF PrepareDraw, TypeOK, PrepareStates, Drawers
  <2>2. CASE prepare' = IdlePrepare /\ draw' = draw
    BY <1>3, <2>2 DEF PrepareDraw, IdlePrepare
  <2> QED
    BY <1>3, <2>1, <2>2 DEF PrepareDraw, Drawers
<1> QED
  BY <1>1, <1>2, <1>3 DEF PrepareStep

\* A draw that returns keeps what TimeInv says of the tasks.
TaskTimes ==
  /\ \A s \in handoff.expired : EndTime(s) <= now
  /\ \A e \in handoff.justEnded : EndTime(e.slot) <= now
  /\ draw["handoff"].pc # "off" => EndTime(draw["handoff"].slot) <= now
  /\ prepare.pc # "idle" => now < EndTime(prepare.slot)
  /\ prepare.due => DrawTime(prepare.slot) <= now
  /\ prepare.pc \in {"read", "draw"} => prepare.due
  /\ draw["prepare"].pc # "off" =>
       prepare.pc = "draw" /\ draw["prepare"].slot = prepare.slot

LEMMA TimeReturn ==
  ASSUME TypeOK, TimeInv, NEW w \in Drawers, NEW drawn \in BOOLEAN, Return(w, drawn),
         UNCHANGED now
  PROVE  /\ TaskTimes'
         /\ draw'[w].pc = "off"
         /\ \A v \in Drawers \ {w} : draw'[v] = draw[v]
<1>1. draw'[w].pc = "off" /\ \A v \in Drawers \ {w} : draw'[v] = draw[v]
  BY DEF Return, TypeOK, NoDraw
<1>2. handoff'.expired = handoff.expired /\ handoff'.justEnded = handoff.justEnded
  BY DEF Return, TypeOK, HandoffStates
<1>3. CASE w = "handoff"
  <2>1. prepare' = prepare
    BY <1>3 DEF Return
  <2> QED
    BY <1>1, <1>2, <1>3, <2>1 DEF TaskTimes, TimeInv, Drawers
<1>4. CASE w = "prepare"
  <2>1. prepare' = IdlePrepare
    BY <1>4 DEF Return
  <2> QED
    BY <1>1, <1>2, <1>4, <2>1 DEF TaskTimes, TimeInv, Drawers, IdlePrepare
<1> QED
  BY <1>1, <1>3, <1>4 DEF Drawers

LEMMA TimeDraw ==
  ASSUME TypeOK, TimeInv, NEW w \in Drawers,
         Generate(w) \/ Consume(w) \/ Persist(w) \/ DrawFails(w)
           \/ RedisReadFails(w) \/ RedisDelFails(w)
  PROVE  TimeInv'
<1> USE DEF Drawers
<1>1. CASE Generate(w) \/ Consume(w) \/ RedisReadFails(w) \/ RedisDelFails(w)
  <2>1. UNCHANGED <<now, resultNumber, bet, handoff, prepare>>
    BY <1>1 DEF Generate, Consume, RedisReadFails, RedisDelFails, timeVars, periodVars,
                moneyVars
  <2>2. /\ draw[w].pc # "off"
        /\ draw'[w].slot = draw[w].slot
        /\ \A v \in Drawers \ {w} : draw'[v] = draw[v]
    BY <1>1 DEF Generate, Consume, RedisReadFails, RedisDelFails, TypeOK
  <2> QED
    BY <2>1, <2>2 DEF TimeInv
<1>2. CASE DrawFails(w)
  <2>1. UNCHANGED <<now, resultNumber, bet>> /\ Return(w, FALSE)
    BY <1>2 DEF DrawFails, periodVars, moneyVars
  <2>2. TaskTimes' /\ \A v \in Drawers : draw'[v].pc # "off" => draw'[v] = draw[v]
    BY <2>1, TimeReturn
  <2> QED
    BY <2>1, <2>2 DEF TimeInv, TaskTimes
<1>3. CASE Persist(w)
  <2> DEFINE s == draw[w].slot
  <2>1. UNCHANGED <<now, bet>> /\ Return(w, TRUE) /\ draw[w].pc # "off" /\ s \in Slots
    BY <1>3, TaskSlots DEF Persist, timeVars, moneyVars
  <2>2. \A t \in Slots \ {s} : resultNumber'[t] = resultNumber[t]
    BY <1>3 DEF Persist, TypeOK
  <2>3. DrawTime(s) <= now
    <3>1. CASE w = "handoff"
      BY <2>1, <3>1, Timeline DEF TimeInv, TypeOK
    <3>2. CASE w = "prepare"
      BY <2>1, <3>2 DEF TimeInv
    <3> QED
      BY <3>1, <3>2
  <2>4. \A v \in Drawers \ {w} : draw[v].pc # "off" => draw[v].slot # s
    <3>1. CASE w = "handoff"
      BY <2>1, <3>1, Timeline, TaskSlots DEF TimeInv, TypeOK
    <3>2. CASE w = "prepare"
      BY <2>1, <3>2, Timeline, TaskSlots DEF TimeInv, TypeOK
    <3> QED
      BY <3>1, <3>2
  <2>5. \A v \in Drawers : draw'[v].pc # "off" => resultNumber'[draw'[v].slot] = NoResult
    <3>1. \A v \in Drawers : draw'[v].pc # "off" => v # w /\ draw'[v] = draw[v]
      BY <2>1, TimeReturn
    <3>2. \A v \in Drawers : draw[v].slot \in Slots
      BY TaskSlots
    <3> QED
      BY <2>2, <2>4, <3>1, <3>2 DEF TimeInv
  <2>6. \A t \in Slots : resultNumber'[t] # NoResult => DrawTime(t) <= now'
    BY <2>1, <2>2, <2>3 DEF TimeInv
  <2> QED
    BY <2>1, <2>5, <2>6, TimeReturn DEF TimeInv, TaskTimes
<1> QED
  BY <1>1, <1>2, <1>3

LEMMA TimeBet ==
  ASSUME TypeOK, TimeInv, NEW b \in Bets, CheckBet(b) \/ CommitBet(b) \/ RefuseBet(b)
  PROVE  TimeInv'
<1>1. UNCHANGED <<now, resultNumber, handoff, prepare, draw>>
  BY DEF CheckBet, CommitBet, RefuseBet, timeVars, periodVars, clockTasks
<1>2. \A c \in Bets : bet'[c] = "checked" => bet[c] = "checked" \/ now < DrawTime(c.slot)
  <2>1. b.slot \in Slots
    BY RoundAssumption
  <2>2. CheckBet(b) => now < DrawTime(b.slot)
    BY <2>1, Timeline DEF CheckBet, Open, TypeOK
  <2> QED
    BY <2>2 DEF CheckBet, CommitBet, RefuseBet, TypeOK
<1> QED
  BY <1>1, <1>2 DEF TimeInv

LEMMA TimeFail ==
  ASSUME TypeOK, TimeInv, FailStep
  PROVE  TimeInv'
<1>1. UNCHANGED <<now, resultNumber, bet>>
  BY FailFrame DEF periodVars, moneyVars
<1>2. CASE Crash
  BY <1>1, <1>2 DEF Crash, TimeInv, IdleHandoff, IdlePrepare, NoDraw, Drawers
<1>3. CASE HandoffFails
  BY <1>1, <1>3 DEF HandoffFails, TimeInv, IdleHandoff
<1>4. CASE PrepareFails
  BY <1>1, <1>4 DEF PrepareFails, TimeInv, IdlePrepare
<1>5. CASE SettleFinishFails \/ AdminWriteFails
  BY <1>1, <1>5 DEF SettleFinishFails, AdminWriteFails, TimeInv, clockTasks
<1>6. ASSUME NEW e \in handoff.justEnded, HandoffReadFails(e) PROVE TimeInv'
  <2>1. handoff'.expired = handoff.expired /\ handoff'.justEnded \subseteq handoff.justEnded
    BY <1>6 DEF HandoffReadFails, TypeOK, HandoffStates
  <2> QED
    BY <1>1, <1>6, <2>1 DEF HandoffReadFails, TimeInv
<1> QED
  BY <1>2, <1>3, <1>4, <1>5, <1>6, TimeDraw DEF FailStep

LEMMA TimeInvNext ==
  ASSUME Timely, TypeOK, TimeInv, [Next]_vars
  PROVE  TimeInv'
<1>1. ASSUME UNCHANGED <<now, resultNumber, bet, handoff, prepare, draw>> PROVE TimeInv'
  BY <1>1 DEF TimeInv
<1>2. CASE UNCHANGED vars \/ AdminStep
  BY <1>1, <1>2 DEF vars, AdminStep, AdminCheck, AdminWrite, timeVars, periodVars,
     moneyVars, clockTasks
<1>3. CASE SettleStart \/ SettleFinish \/ \E j \in jobs : SettleBetFails(j)
  BY <1>1, <1>3 DEF SettleStart, SettleFinish, SettleBetFails, timeVars, periodVars,
     moneyVars, clockTasks
<1>4. ASSUME NEW j \in jobs, SettleBet(j) PROVE TimeInv'
  <2>1. UNCHANGED <<now, resultNumber, handoff, prepare, draw>>
    BY <1>4 DEF SettleBet, timeVars, periodVars, clockTasks
  <2>2. \A b \in Bets : bet'[b] = "checked" => bet[b] = "checked"
    BY <1>4 DEF SettleBet, TypeOK, Jobs
  <2> QED
    BY <2>1, <2>2 DEF TimeInv
<1>5. CASE FailStep
  BY <1>5, TimeFail
<1> QED
  BY <1>2, <1>3, <1>4, <1>5, TimeTick, TimeHandoff, TimePrepare, TimeDraw, TimeBet
     DEF Next, SettleStep, BetStep, DrawStep

\* The two drawing tasks never meet on a slot, and betting and drawing never
\* overlap.
THEOREM TimeInvariant ==
  ASSUME Timely
  PROVE  Spec => [](TypeOK /\ TimeInv)
<1>1. TypeOK /\ TimeInv /\ [Next]_vars => TypeOK' /\ TimeInv'
  BY TypeNext, TimeInvNext
<1> QED
  BY <1>1, TypeInit, TimeInvInit, PTL DEF Spec

\* Only Persist changes a result.
LEMMA ResultSteps ==
  ASSUME TypeOK, [Next]_vars
  PROVE  resultNumber' = resultNumber \/ \E w \in Drawers : Persist(w)
BY FailFrame
DEF vars, timeVars, periodVars, Next, Tick, HandoffStep, HandoffStart,
   EndPeriod, PublishStored, HandoffDraw, HandoffCreate, HandoffSweep, PrepareStep,
   PrepareStart, EnsureNext, PrepareDraw, DrawStep, Generate, Consume, AdminStep, AdminCheck, AdminWrite, SettleStep, SettleStart, SettleFinish, SettleBet,
   SettleBetFails, BetStep, CheckBet, CommitBet, RefuseBet

LEMMA ResultStep ==
  ASSUME TypeOK, TimeInv, [Next]_vars, NEW s \in Slots, resultNumber[s] # NoResult
  PROVE  resultNumber'[s] = resultNumber[s]
<1>1. ASSUME NEW w \in Drawers, Persist(w) PROVE resultNumber'[s] = resultNumber[s]
  BY <1>1 DEF Persist, TimeInv, TypeOK
<1> QED
  BY <1>1, ResultSteps

\* NoRedraw: with timely requests the number of a round is stored once, though
\* both handoff() and prepare() draw and neither checks the row when it writes.
THEOREM DrawnOnce ==
  ASSUME Timely
  PROVE  Spec => NoRedraw
<1>1. TypeOK /\ TimeInv /\ [Next]_vars =>
        [\A s \in Slots : resultNumber[s] # NoResult =>
           resultNumber'[s] = resultNumber[s]]_vars
  BY ResultStep
<1> QED
  BY <1>1, TimeInvariant, PTL DEF Spec, NoRedraw

\* A bet is only accepted while the result of its slot is open.
LEMMA BookStep ==
  ASSUME TypeOK, TimeInv, [Next]_vars, NEW b \in Bets, bet[b] # "PENDING",
         bet'[b] = "PENDING"
  PROVE  CommitBet(b) /\ resultNumber[b.slot] = NoResult
<1>1. bet' # bet
  OBVIOUS
<1>2. \A j \in jobs : ~SettleBet(j)
  BY DEF SettleBet, TypeOK, Jobs
<1>3. PICK c \in Bets : CheckBet(c) \/ CommitBet(c) \/ RefuseBet(c)
  BY <1>1, <1>2, FailFrame
  DEF vars, timeVars, periodVars, moneyVars, Next, Tick, HandoffStep,
   HandoffStart, EndPeriod, PublishStored, HandoffDraw, HandoffCreate, HandoffSweep,
   PrepareStep, PrepareStart, EnsureNext, PrepareDraw, DrawStep, Generate, Consume,
   Persist, AdminStep, AdminCheck, AdminWrite, SettleStep, SettleStart,
   SettleFinish, SettleBetFails, BetStep
<1>4. CommitBet(b)
  BY <1>3 DEF CheckBet, CommitBet, RefuseBet, TypeOK
<1>5. now < DrawTime(b.slot) /\ b.slot \in Slots
  BY <1>4, RoundAssumption DEF CommitBet, TimeInv
<1>6. resultNumber[b.slot] = NoResult
  BY <1>5, Timeline DEF TimeInv, TypeOK
<1> QED
  BY <1>4, <1>6

\* BookClosedAtDraw: with timely requests no stake is taken on a drawn number.
THEOREM BookClosed ==
  ASSUME Timely
  PROVE  Spec => BookClosedAtDraw
<1>1. TypeOK /\ TimeInv /\ [Next]_vars =>
        [\A b \in Bets : bet[b] # "PENDING" /\ bet'[b] = "PENDING" =>
           resultNumber[b.slot] = NoResult]_vars
  BY BookStep
<1> QED
  BY <1>1, TimeInvariant, PTL DEF Spec, BookClosedAtDraw

--------------------------------------------------------------------------------
(* Everybody is paid by the stored number                                   *)

\* The settleBet calls in flight carry the number stored on the period, so what
\* they write agrees with it.
PaidInv ==
  /\ \A j \in jobs : resultNumber[j.bet.slot] = j.number
  /\ PaidAsDrawn

LEMMA PaidInvInit == Init => PaidInv
BY DEF Init, PaidInv, PaidAsDrawn

\* Bets and their slots, as the in-flight calls carry them.
LEMMA JobTypes ==
  ASSUME TypeOK, NEW j \in jobs
  PROVE  /\ j.bet \in Bets /\ j.bet.slot \in Slots /\ j.bet.user \in Users
         /\ j.number \in Numbers /\ j.number # NoResult
         /\ WinAmount(j.bet, j.number) \in Nat
BY RoundAssumption DEF TypeOK, Jobs, WinAmount

\* A step that settles no bet, and adds no wrong settleBet call, preserves PaidInv.
LEMMA PaidFrame ==
  ASSUME TypeOK, TimeInv, PaidInv, [Next]_vars, UNCHANGED <<bet, betResult>>,
         \A j \in jobs' : \E i \in jobs : j.bet = i.bet /\ j.number = i.number
  PROVE  PaidInv'
<1>1. \A s \in Slots : resultNumber[s] # NoResult => resultNumber'[s] = resultNumber[s]
  BY ResultStep
<1>2. \A b \in Bets : b.slot \in Slots
  BY RoundAssumption
<1>3. ASSUME NEW j \in jobs' PROVE resultNumber'[j.bet.slot] = j.number
  <2>1. PICK i \in jobs : j.bet = i.bet /\ j.number = i.number
    OBVIOUS
  <2> QED
    BY <1>1, <2>1, JobTypes DEF PaidInv
<1>4. PaidAsDrawn'
  BY <1>1, <1>2 DEF PaidInv, PaidAsDrawn
<1> QED
  BY <1>3, <1>4 DEF PaidInv

LEMMA PaidInvNext ==
  ASSUME TypeOK, BetInv, TimeInv, PaidInv, [Next]_vars
  PROVE  PaidInv'
<1>1. ASSUME UNCHANGED <<moneyVars, jobs>> PROVE PaidInv'
  BY <1>1, PaidFrame DEF moneyVars
<1>2. CASE Tick \/ UNCHANGED vars \/ AdminStep \/ HandoffStep \/ PrepareStep
  BY <1>1, <1>2 DEF Tick, vars, AdminStep, AdminCheck, AdminWrite, settleVars,
     HandoffStep, HandoffStart, EndPeriod, PublishStored, HandoffDraw,
     HandoffCreate, HandoffSweep, PrepareStep, PrepareStart, EnsureNext, PrepareDraw
<1>3. CASE DrawStep \/ SettleFinish
  BY <1>1, <1>3 DEF DrawStep, Generate, Consume, Persist, SettleFinish, settleVars
<1>4. CASE SettleStart
  <2>1. UNCHANGED <<bet, betResult, resultNumber>>
    BY <1>4 DEF SettleStart, moneyVars, periodVars
  <2>2. \A j \in jobs' : j \in jobs \/ resultNumber[j.bet.slot] = j.number
    BY <1>4 DEF SettleStart
  <2> QED
    BY <2>1, <2>2 DEF PaidInv, PaidAsDrawn
<1>5. ASSUME NEW j \in jobs, SettleBet(j) PROVE PaidInv'
  <2>1. /\ betResult' = [betResult EXCEPT ![j.bet] = WinAmount(j.bet, j.number)]
        /\ bet' = [bet EXCEPT ![j.bet] =
                     IF WinAmount(j.bet, j.number) > 0 THEN "WON" ELSE "LOST"]
        /\ jobs' \subseteq jobs
        /\ resultNumber' = resultNumber
    BY <1>5 DEF SettleBet, periodVars
  <2>2. resultNumber[j.bet.slot] = j.number
    BY DEF PaidInv
  <2>3. PaidAsDrawn'
    BY <2>1, <2>2, JobTypes DEF PaidInv, PaidAsDrawn, TypeOK
  <2> QED
    BY <2>1, <2>3 DEF PaidInv
<1>6. ASSUME NEW j \in jobs, SettleBetFails(j) PROVE PaidInv'
  <2>1. \A i \in jobs' : \E k \in jobs : i.bet = k.bet /\ i.number = k.number
    <3>1. \A i \in jobs : Orphan(i).bet = i.bet /\ Orphan(i).number = i.number
      BY DEF Orphan
    <3> QED
      BY <1>6, <3>1 DEF SettleBetFails
  <2> QED
    BY <1>6, <2>1, PaidFrame DEF SettleBetFails, moneyVars
<1>7. ASSUME NEW b \in Bets, CheckBet(b) \/ CommitBet(b) \/ RefuseBet(b) PROVE PaidInv'
  <2>1. UNCHANGED <<betResult, jobs, resultNumber>> /\ bet[b] \in {"none", "checked"}
    BY <1>7 DEF CheckBet, CommitBet, RefuseBet, settleVars, periodVars
  <2>2. \A c \in Bets \ {b} : bet'[c] = bet[c]
    BY <1>7 DEF CheckBet, CommitBet, RefuseBet, TypeOK
  <2>3. betResult[b] = NoRow
    BY <2>1 DEF BetInv
  <2> QED
    BY <2>1, <2>2, <2>3 DEF PaidInv, PaidAsDrawn
<1>8. CASE FailStep
  <2>1. UNCHANGED <<resultNumber, bet, betResult>> /\ jobs' \subseteq jobs
    BY <1>8, FailFrame DEF moneyVars, periodVars
  <2> QED
    BY <2>1 DEF PaidInv, PaidAsDrawn
<1> QED
  BY <1>2, <1>3, <1>4, <1>5, <1>6, <1>7, <1>8 DEF Next, SettleStep, BetStep

THEOREM PaidInvariant ==
  ASSUME Timely
  PROVE  Spec => [](TypeOK /\ BetInv /\ TimeInv /\ PaidInv)
<1>1. Spec => [](BetInv /\ TypeOK /\ TimeInv)
  BY BetInvariant, TimeInvariant, PTL
<1>2. BetInv /\ TypeOK /\ TimeInv /\ PaidInv /\ [Next]_vars => PaidInv'
  BY PaidInvNext
<1> QED
  BY <1>1, <1>2, PaidInvInit, PTL DEF Spec

\* PaidAsDrawn: with timely requests every payment of a round was computed from
\* the number its players see, through every failed or restarted settle run.
THEOREM PaidByStoredNumber ==
  ASSUME Timely
  PROVE  Spec => []PaidAsDrawn
BY PaidInvariant, PTL DEF PaidInv

--------------------------------------------------------------------------------
(* What is published, and what RESOLVED means                               *)

\* A result handoff() read when it ended a period is the stored one.
PublishInv ==
  /\ \A e \in handoff.justEnded : e.result # NoResult => e.result = resultNumber[e.slot]
  /\ PublishedIsStored

LEMMA PublishInvInit == Init => PublishInv
BY DEF Init, PublishInv, PublishedIsStored, IdleHandoff

\* The clock never goes back.
LEMMA ClockStep ==
  ASSUME TypeOK, [Next]_vars
  PROVE  now \in Int /\ now' \in Int /\ now <= now'
<1>1. now' = now \/ now' = now + 1
  BY FailFrame
  DEF vars, timeVars, Next, Tick, HandoffStep, HandoffStart, EndPeriod, PublishStored,
   HandoffDraw, HandoffCreate, HandoffSweep, PrepareStep, PrepareStart, EnsureNext,
   PrepareDraw, DrawStep, Generate, Consume, Persist, AdminStep, AdminCheck, AdminWrite,
   SettleStep, SettleStart, SettleFinish, SettleBet, SettleBetFails, BetStep, CheckBet,
   CommitBet, RefuseBet
<1> QED
  BY <1>1 DEF TypeOK

\* A step preserves PublishInv when what it adds to published is the stored
\* number of a slot that is over, and what handoff() keeps of results is stored.
LEMMA PublishFrame ==
  ASSUME TypeOK, TypeOK', TimeInv, PublishInv, [Next]_vars,
         \A e \in handoff'.justEnded : e \in handoff.justEnded \/ e.result = resultNumber'[e.slot],
         \A t \in Slots : \/ published'[t] = published[t]
                          \/ /\ published'[t] = published[t] \cup {resultNumber'[t]}
                             /\ resultNumber'[t] # NoResult
                             /\ EndTime(t) <= now'
  PROVE  PublishInv'
<1>1. \A t \in Slots : resultNumber[t] # NoResult => resultNumber'[t] = resultNumber[t]
  BY ResultStep
<1>2. ASSUME NEW e \in handoff'.justEnded, e.result # NoResult
      PROVE  e.result = resultNumber'[e.slot]
  <2>1. CASE e \in handoff.justEnded
    BY <1>1, <1>2, <2>1, TaskSlots DEF PublishInv
  <2> QED
    BY <2>1
<1>3. ASSUME NEW t \in Slots, published'[t] # {}
      PROVE  published'[t] = {resultNumber'[t]} /\ EndTime(t) <= now'
  <2>1. CASE published[t] # {}
    <3>1. published[t] = {resultNumber[t]} /\ EndTime(t) <= now
      BY <2>1 DEF PublishInv, PublishedIsStored
    <3>2. resultNumber[t] # NoResult
      BY <3>1, RoundAssumption DEF TypeOK
    <3>3. EndTime(t) <= now'
      BY <3>1, ClockStep, Timeline
    <3> QED
      BY <1>1, <3>1, <3>2, <3>3
  <2>2. CASE published[t] = {}
    BY <1>3, <2>2
  <2> QED
    BY <2>1, <2>2
<1> QED
  BY <1>2, <1>3 DEF PublishInv, PublishedIsStored

LEMMA PublishInvNext ==
  ASSUME TypeOK, TypeOK', TimeInv, PublishInv, [Next]_vars
  PROVE  PublishInv'
<1>1. ASSUME handoff'.justEnded \subseteq handoff.justEnded, published' = published
      PROVE  PublishInv'
  BY <1>1, PublishFrame
<1>2. CASE Tick \/ UNCHANGED vars \/ AdminStep \/ SettleStep \/ BetStep \/ PrepareStep
  BY <1>1, <1>2 DEF Tick, vars, AdminStep, AdminCheck, AdminWrite, SettleStep, SettleStart,
     SettleFinish, SettleBet, SettleBetFails, BetStep, CheckBet, CommitBet, RefuseBet,
     PrepareStep, PrepareStart, EnsureNext, PrepareDraw, clockTasks
<1>3. CASE HandoffStart \/ HandoffCreate \/ HandoffSweep
  <2>1. handoff'.justEnded \subseteq handoff.justEnded
    BY <1>3 DEF HandoffStart, HandoffCreate, HandoffSweep, IdleHandoff, TypeOK, HandoffStates
  <2> QED
    BY <1>1, <1>3, <2>1 DEF HandoffStart, HandoffCreate, HandoffSweep
<1>4. ASSUME NEW t \in Slots, EndPeriod(t) PROVE PublishInv'
  <2>1. \A e \in handoff'.justEnded :
          e \in handoff.justEnded \/ e = [slot |-> t, result |-> resultNumber[t]]
    BY <1>4 DEF EndPeriod, TypeOK, HandoffStates
  <2>2. UNCHANGED <<resultNumber, published>>
    BY <1>4 DEF EndPeriod
  <2> QED
    BY <2>1, <2>2, PublishFrame
<1>5. ASSUME NEW e \in handoff.justEnded, PublishStored(e) PROVE PublishInv'
  <2>1. handoff'.justEnded \subseteq handoff.justEnded /\ UNCHANGED <<now, resultNumber>>
    BY <1>5 DEF PublishStored, TypeOK, HandoffStates, timeVars, periodVars
  <2>2. e.slot \in Slots /\ EndTime(e.slot) <= now
    BY TaskSlots DEF TimeInv
  <2>3. \A t \in Slots : \/ published'[t] = published[t]
                         \/ /\ published'[t] = published[t] \cup {resultNumber'[t]}
                            /\ resultNumber'[t] # NoResult
                            /\ EndTime(t) <= now'
    BY <1>5, <2>1, <2>2 DEF PublishStored, PublishInv, TypeOK
  <2> QED
    BY <2>1, <2>3, PublishFrame
<1>6. ASSUME NEW e \in handoff.justEnded, HandoffDraw(e) PROVE PublishInv'
  <2>1. handoff'.justEnded \subseteq handoff.justEnded
    <3>1. CASE handoff' = [handoff EXCEPT !.justEnded = @ \ {e}]
      BY <3>1 DEF TypeOK, HandoffStates
    <3>2. CASE handoff' = [handoff EXCEPT !.pc = "draw", !.justEnded = @ \ {e}]
      BY <3>2 DEF TypeOK, HandoffStates
    <3> QED
      BY <1>6, <3>1, <3>2 DEF HandoffDraw
  <2>2. e.slot \in Slots /\ EndTime(e.slot) <= now /\ UNCHANGED <<now, resultNumber>>
    BY <1>6, TaskSlots DEF TimeInv, HandoffDraw, timeVars, periodVars
  <2>3. \A t \in Slots : \/ published'[t] = published[t]
                         \/ /\ published'[t] = published[t] \cup {resultNumber'[t]}
                            /\ resultNumber'[t] # NoResult
                            /\ EndTime(t) <= now'
    BY <1>6, <2>2 DEF HandoffDraw, TypeOK
  <2> QED
    BY <2>1, <2>3, PublishFrame
<1>7. ASSUME NEW w \in Drawers, Generate(w) \/ Consume(w) PROVE PublishInv'
  BY <1>1, <1>7 DEF Generate, Consume
<1>8. ASSUME NEW w \in Drawers, Persist(w) PROVE PublishInv'
  <2> DEFINE t == draw[w].slot
  <2>1. handoff'.justEnded = handoff.justEnded
    BY <1>8 DEF Persist, Return, TypeOK, HandoffStates
  <2>2. t \in Slots /\ draw[w].number \in Numbers
    BY <1>8 DEF Persist, TypeOK, DrawStates
  <2>3. \/ published' = published
        \/ /\ published' = [published EXCEPT ![t] = @ \cup {draw[w].number}]
           /\ EndTime(t) <= now'
    BY <1>8, <2>2, Timeline DEF Persist, TypeOK, timeVars
  <2>4. resultNumber'[t] = draw[w].number /\ draw[w].number # NoResult
    BY <1>8, <2>2, RoundAssumption DEF Persist, TypeOK
  <2>5. \A v \in Slots : \/ published'[v] = published[v]
                         \/ /\ published'[v] = published[v] \cup {resultNumber'[v]}
                            /\ resultNumber'[v] # NoResult
                            /\ EndTime(v) <= now'
    BY <2>2, <2>3, <2>4 DEF TypeOK
  <2> QED
    BY <2>1, <2>5, PublishFrame
<1>9. CASE FailStep
  <2>1. published' = published
    BY <1>9 DEF FailStep, HandoffFails, PrepareFails, SettleFinishFails, AdminWriteFails,
       Crash, HandoffReadFails, DrawFails, RedisReadFails, RedisDelFails, clockTasks
  <2>2. CASE HandoffFails \/ Crash
    BY <1>1, <2>1, <2>2 DEF HandoffFails, Crash, IdleHandoff
  <2>3. CASE PrepareFails \/ SettleFinishFails \/ AdminWriteFails
    BY <1>1, <2>1, <2>3 DEF PrepareFails, SettleFinishFails, AdminWriteFails, clockTasks
  <2>4. ASSUME NEW e \in handoff.justEnded, HandoffReadFails(e) PROVE PublishInv'
    <3>1. handoff'.justEnded \subseteq handoff.justEnded
      BY <2>4 DEF HandoffReadFails, TypeOK, HandoffStates
    <3> QED
      BY <1>1, <2>1, <3>1
  <2>5. ASSUME NEW w \in Drawers, DrawFails(w) \/ RedisReadFails(w) \/ RedisDelFails(w)
        PROVE  PublishInv'
    <3>1. handoff'.justEnded = handoff.justEnded
      BY <2>5 DEF DrawFails, RedisReadFails, RedisDelFails, Return, TypeOK, HandoffStates
    <3> QED
      BY <1>1, <2>1, <3>1
  <2> QED
    BY <1>9, <2>2, <2>3, <2>4, <2>5 DEF FailStep
<1> QED
  BY <1>2, <1>3, <1>4, <1>5, <1>6, <1>7, <1>8, <1>9 DEF Next, HandoffStep, DrawStep

\* PublishedIsStored: with timely requests the clients see the stored number of
\* a round, only that one, and only once the round is over.
THEOREM PublishedFaithfully ==
  ASSUME Timely
  PROVE  Spec => []PublishedIsStored
<1>1. TypeOK /\ TimeInv /\ TypeOK' /\ PublishInv /\ [Next]_vars => PublishInv'
  BY PublishInvNext
<1>2. PublishInv => PublishedIsStored
  BY DEF PublishInv
<1> QED
  BY <1>1, <1>2, TimeInvariant, PublishInvInit, PTL DEF Spec

\* A settle run owes every PENDING bet of its periods a settleBet call of its
\* own, and no bet can join those periods: their number is drawn.
ResolveInv ==
  /\ \A s \in Slots : status[s] \in {"ENDED", "RESOLVED"} => EndTime(s) <= now
  /\ ResolvedIsSettled
  /\ settle.pc = "running" =>
       \A s \in settle.slots :
         /\ resultNumber[s] # NoResult
         /\ \A b \in PendingBets(s) : \E j \in jobs : j.run = "current" /\ j.bet = b

LEMMA ResolveInvInit == Init => ResolveInv
BY DEF Init, ResolveInv, ResolvedIsSettled, IdleSettle

\* What a step may do to the statuses, the results and the PENDING bets of drawn
\* slots without disturbing ResolveInv.
ResolveSafe ==
  /\ \A s \in Slots :
       \/ status'[s] = status[s]
       \/ status'[s] \in {"NONE", "ACTIVE"}
       \/ status'[s] = "ENDED" /\ EndTime(s) <= now'
       \/ /\ status'[s] = "RESOLVED"
          /\ EndTime(s) <= now'
          /\ resultNumber[s] # NoResult
          /\ PendingBets(s) = {}
  /\ \/ settle'.pc = "idle"
     \/ /\ settle' = settle
        /\ \A j \in jobs : j.run = "current" => j \in jobs' \/ bet'[j.bet] # "PENDING"

LEMMA DrawnBook ==
  ASSUME TypeOK, TimeInv, [Next]_vars, NEW s \in Slots, resultNumber[s] # NoResult
  PROVE  PendingBets(s)' \subseteq PendingBets(s)
<1>1. ASSUME NEW b \in Bets, b.slot = s, bet'[b] = "PENDING" PROVE bet[b] = "PENDING"
  BY <1>1, BookStep
<1> QED
  BY <1>1 DEF PendingBets

LEMMA ResolveFrame ==
  ASSUME TypeOK, TimeInv, ResolveInv, [Next]_vars, ResolveSafe
  PROVE  ResolveInv'
<1>1. \A s \in Slots : resultNumber[s] # NoResult =>
        resultNumber'[s] = resultNumber[s] /\ PendingBets(s)' \subseteq PendingBets(s)
  BY ResultStep, DrawnBook
<1>2. \A s \in Slots : EndTime(s) <= now => EndTime(s) <= now'
  BY ClockStep, Timeline
<1>3. ASSUME NEW s \in Slots, status'[s] \in {"ENDED", "RESOLVED"} PROVE EndTime(s) <= now'
  BY <1>2, <1>3 DEF ResolveInv, ResolveSafe
<1>4. ASSUME NEW s \in Slots, status'[s] = "RESOLVED"
      PROVE  resultNumber'[s] # NoResult /\ PendingBets(s)' = {}
  BY <1>1, <1>4 DEF ResolveInv, ResolveSafe, ResolvedIsSettled
<1>5. ASSUME settle'.pc = "running", NEW s \in settle'.slots
      PROVE  /\ resultNumber'[s] # NoResult
             /\ \A b \in PendingBets(s)' : \E j \in jobs' : j.run = "current" /\ j.bet = b
  <2>1. settle' = settle /\ s \in settle.slots /\ s \in Slots
    BY <1>5 DEF ResolveSafe, TypeOK, SettleStates
  <2>2. /\ resultNumber[s] # NoResult
        /\ \A b \in PendingBets(s) : \E j \in jobs : j.run = "current" /\ j.bet = b
    BY <1>5, <2>1 DEF ResolveInv
  <2>3. ASSUME NEW b \in PendingBets(s)'
        PROVE  \E j \in jobs' : j.run = "current" /\ j.bet = b
    <3>1. bet'[b] = "PENDING" /\ b \in PendingBets(s)
      BY <1>1, <2>1, <2>2, <2>3 DEF PendingBets
    <3>2. PICK j \in jobs : j.run = "current" /\ j.bet = b
      BY <2>2, <3>1
    <3>3. j \in jobs'
      BY <1>5, <3>1, <3>2 DEF ResolveSafe
    <3> QED
      BY <3>2, <3>3
  <2> QED
    BY <1>1, <2>1, <2>2, <2>3
<1> QED
  BY <1>3, <1>4, <1>5 DEF ResolveInv, ResolvedIsSettled

LEMMA ResolveInvNext ==
  ASSUME TypeOK, TimeInv, ResolveInv, [Next]_vars
  PROVE  ResolveInv'
<1>1. ASSUME UNCHANGED <<status, settleVars>> PROVE ResolveInv'
  BY <1>1, ResolveFrame DEF ResolveSafe, settleVars
<1>2. CASE Tick \/ UNCHANGED vars \/ AdminStep \/ BetStep \/ DrawStep
  BY <1>1, <1>2 DEF Tick, vars, AdminStep, AdminCheck, AdminWrite, BetStep, CheckBet,
     CommitBet, RefuseBet, DrawStep, Generate, Consume, Persist, periodVars, settleVars
<1>3. CASE PrepareStep
  <2>1. CASE EnsureNext
    <3>1. \A s \in Slots : status'[s] = status[s] \/ status'[s] = "ACTIVE"
      BY <2>1 DEF EnsureNext, TypeOK
    <3> QED
      BY <2>1, <3>1, ResolveFrame DEF EnsureNext, ResolveSafe, settleVars
  <2> QED
    BY <1>1, <1>3, <2>1 DEF PrepareStep, PrepareStart, PrepareDraw, periodVars
<1>4. CASE HandoffStep
  <2>1. ASSUME NEW s \in Slots, EndPeriod(s) PROVE ResolveInv'
    <3>1. EndTime(s) <= now'
      BY <2>1 DEF EndPeriod, TimeInv, timeVars
    <3>2. \A t \in Slots : status'[t] = status[t] \/ (status'[t] = "ENDED" /\ t = s)
      BY <2>1 DEF EndPeriod, TypeOK
    <3> QED
      BY <2>1, <3>1, <3>2, ResolveFrame DEF EndPeriod, ResolveSafe, settleVars
  <2>2. CASE HandoffCreate
    <3>1. \A t \in Slots : status'[t] = status[t] \/ status'[t] = "ACTIVE"
      BY <2>2 DEF HandoffCreate, TypeOK
    <3> QED
      BY <2>2, <3>1, ResolveFrame DEF HandoffCreate, ResolveSafe, settleVars
  <2>3. CASE HandoffSweep
    <3>1. \A t \in Slots : \/ status'[t] = status[t]
                           \/ /\ status'[t] = "RESOLVED" /\ EndTime(t) <= now'
                              /\ resultNumber[t] # NoResult /\ PendingBets(t) = {}
      BY <2>3 DEF HandoffSweep, ResolveInv, timeVars
    <3> QED
      BY <2>3, <3>1, ResolveFrame DEF HandoffSweep, ResolveSafe, settleVars
  <2> QED
    BY <1>1, <1>4, <2>1, <2>2, <2>3
       DEF HandoffStep, HandoffStart, PublishStored, HandoffDraw, periodVars
<1>5. CASE SettleStart
  <2>1. UNCHANGED <<now, status, resultNumber, bet>>
    BY <1>5 DEF SettleStart, timeVars, periodVars, moneyVars
  <2>2. settle'.slots = Due
    BY <1>5 DEF SettleStart
  <2>3. ASSUME NEW s \in Due, NEW b \in PendingBets(s)
        PROVE  \E j \in jobs' : j.run = "current" /\ j.bet = b
    <3> DEFINE j == [bet |-> b, number |-> resultNumber[b.slot], run |-> "current"]
    <3>1. j \in jobs'
      BY <1>5 DEF SettleStart
    <3> QED
      BY <3>1
  <2> QED
    BY <2>1, <2>2, <2>3 DEF ResolveInv, ResolvedIsSettled, PendingBets, Due
<1>6. ASSUME NEW j \in jobs, SettleBet(j) PROVE ResolveInv'
  <2>1. bet'[j.bet] # "PENDING"
    BY <1>6, JobTypes DEF SettleBet, TypeOK
  <2>2. ResolveSafe
    BY <1>6, <2>1 DEF SettleBet, ResolveSafe, periodVars
  <2> QED
    BY <2>2, ResolveFrame
<1>7. ASSUME NEW j \in jobs, SettleBetFails(j) PROVE ResolveInv'
  <2>1. ResolveSafe
    BY <1>7 DEF SettleBetFails, ResolveSafe, IdleSettle, periodVars
  <2> QED
    BY <2>1, ResolveFrame
<1>8. CASE SettleFinish
  <2>1. \A s \in settle.slots : resultNumber[s] # NoResult /\ PendingBets(s) = {}
    BY <1>8 DEF SettleFinish, ResolveInv
  <2>2. ResolveSafe
    BY <1>8, <2>1 DEF SettleFinish, ResolveSafe, IdleSettle, timeVars
  <2> QED
    BY <2>2, ResolveFrame
<1>9. CASE FailStep
  <2>1. status' = status
    BY <1>9, FailFrame DEF periodVars
  <2>2. CASE SettleFinishFails \/ Crash
    <3>1. settle'.pc = "idle"
      BY <2>2 DEF SettleFinishFails, Crash, IdleSettle
    <3> QED
      BY <2>1, <3>1, ResolveFrame DEF ResolveSafe
  <2> QED
    BY <1>1, <1>9, <2>1, <2>2
       DEF FailStep, HandoffFails, PrepareFails, AdminWriteFails, HandoffReadFails,
           DrawFails, RedisReadFails, RedisDelFails
<1> QED
  BY <1>2, <1>3, <1>4, <1>5, <1>6, <1>7, <1>8, <1>9 DEF Next, SettleStep

\* ResolvedIsSettled: with timely requests a RESOLVED period owes nobody anything,
\* however its settle runs failed, overlapped or were cut short.
THEOREM ResolvedOwesNothing ==
  ASSUME Timely
  PROVE  Spec => []ResolvedIsSettled
<1>1. TypeOK /\ TimeInv /\ ResolveInv /\ [Next]_vars => ResolveInv'
  BY ResolveInvNext
<1>2. ResolveInv => ResolvedIsSettled
  BY DEF ResolveInv
<1> QED
  BY <1>1, <1>2, TimeInvariant, ResolveInvInit, PTL DEF Spec

--------------------------------------------------------------------------------
(* A round is a ledger                                                      *)

LEMMA LedgerInit == Init => Ledger!Init
BY DEF Init, Ledger!Init

\* What the ledger sees of a bet.
Ticket(b) == CASE bet[b] = "PENDING" -> "open"
               [] bet[b] = "WON" -> "won"
               [] bet[b] = "LOST" -> "lost"
               [] OTHER -> "none"

\* Nothing the ledger sees changes in a step outside SettleBet, Persist, BetStep.
LEMMA LedgerStutter ==
  ASSUME UNCHANGED <<bet, balance, resultNumber>>
  PROVE  UNCHANGED Ledger!ledgerVars
BY DEF Ledger!ledgerVars

LEMMA LedgerDraw ==
  ASSUME TypeOK, TimeInv, NEW w \in Drawers, Persist(w)
  PROVE  Ledger!Draw(draw[w].slot)
<1>1. draw[w].number \in Numbers /\ resultNumber[draw[w].slot] = NoResult
  BY DEF Persist, TypeOK, DrawStates, TimeInv
<1>2. UNCHANGED <<bet, balance>>
  BY DEF Persist, moneyVars
<1> QED
  BY <1>1, <1>2 DEF Persist, Ledger!Draw

LEMMA LedgerPlace ==
  ASSUME TypeOK, NEW b \in Bets, CommitBet(b), resultNumber[b.slot] = NoResult
  PROVE  Ledger!Place(b)
<1>1. /\ bet[b] = "checked" /\ balance[b.user] >= Stake
      /\ bet' = [bet EXCEPT ![b] = "PENDING"]
      /\ balance' = [balance EXCEPT ![b.user] = @ - Stake]
      /\ UNCHANGED resultNumber
  BY DEF CommitBet, Covers, periodVars
<1>2. [c \in Bets |-> Ticket(c)]' = [[c \in Bets |-> Ticket(c)] EXCEPT ![b] = "open"]
  BY <1>1 DEF Ticket, TypeOK
<1>3. Ticket(b) = "none"
  BY <1>1 DEF Ticket
<1> QED
  BY <1>1, <1>2, <1>3 DEF Ledger!Place, Ticket

LEMMA LedgerSettle ==
  ASSUME TypeOK, BetInv, PaidInv, NEW j \in jobs, SettleBet(j)
  PROVE  Ledger!Settle(j.bet)
<1> DEFINE b == j.bet
           win == WinAmount(b, j.number)
<1>1. /\ bet' = [bet EXCEPT ![b] = IF win > 0 THEN "WON" ELSE "LOST"]
      /\ balance' = [balance EXCEPT ![b.user] = @ + win]
      /\ betResult[b] = NoRow
      /\ UNCHANGED resultNumber
  BY DEF SettleBet, NoResultRow, periodVars
<1>2. b \in Bets /\ b.slot \in Slots /\ j.number # NoResult
  BY JobTypes
<1>3. bet[b] = "PENDING"
  BY <1>1, <1>2 DEF BetInv
<1>4. resultNumber[b.slot] = j.number
  BY DEF PaidInv
<1>5. win = b.pays[resultNumber[b.slot]]
  BY <1>4 DEF WinAmount
<1>6. [c \in Bets |-> Ticket(c)]' =
        [[c \in Bets |-> Ticket(c)] EXCEPT ![b] = IF win > 0 THEN "won" ELSE "lost"]
  BY <1>1, <1>2 DEF Ticket, TypeOK
<1>7. Ticket(b) = "open"
  BY <1>3 DEF Ticket
<1> HIDE DEF b, win
<1>8. Ledger!Settle(b)
  BY <1>1, <1>2, <1>4, <1>5, <1>6, <1>7 DEF Ledger!Settle, Ticket
<1> QED
  BY <1>8 DEF b

LEMMA LedgerNext ==
  ASSUME TypeOK, BetInv, TimeInv, PaidInv, [Next]_vars
  PROVE  [Ledger!Next]_(Ledger!ledgerVars)
<1>1. CASE UNCHANGED vars \/ Tick \/ AdminStep \/ HandoffStep \/ PrepareStep \/ FailStep
  BY <1>1, LedgerStutter, FailFrame
  DEF vars, Tick, AdminStep, AdminCheck, AdminWrite, periodVars, moneyVars,
     HandoffStep, HandoffStart, EndPeriod, PublishStored, HandoffDraw,
     HandoffCreate, HandoffSweep, PrepareStep, PrepareStart, EnsureNext, PrepareDraw
<1>2. ASSUME NEW w \in Drawers, Generate(w) \/ Consume(w)
      PROVE  [Ledger!Next]_(Ledger!ledgerVars)
  BY <1>2, LedgerStutter DEF Generate, Consume, periodVars, moneyVars
<1>3. CASE SettleStart \/ SettleFinish \/ \E j \in jobs : SettleBetFails(j)
  BY <1>3, LedgerStutter
  DEF SettleStart, SettleFinish, SettleBetFails, periodVars, moneyVars
<1>4. ASSUME NEW w \in Drawers, Persist(w) PROVE Ledger!Next
  <2>1. draw[w].slot \in Slots
    BY TaskSlots
  <2> QED
    BY <1>4, <2>1, LedgerDraw DEF Ledger!Next
<1>5. ASSUME NEW j \in jobs, SettleBet(j) PROVE Ledger!Next
  BY <1>5, LedgerSettle, JobTypes DEF Ledger!Next
<1>6. ASSUME NEW b \in Bets, CommitBet(b) PROVE Ledger!Next
  <2>1. bet[b] # "PENDING" /\ bet'[b] = "PENDING"
    BY <1>6 DEF CommitBet, TypeOK
  <2> QED
    BY <1>6, <2>1, BookStep, LedgerPlace DEF Ledger!Next
<1>7. ASSUME NEW b \in Bets, CheckBet(b) \/ RefuseBet(b)
      PROVE  UNCHANGED Ledger!ledgerVars
  <2>1. UNCHANGED <<balance, resultNumber>>
    BY <1>7 DEF CheckBet, RefuseBet, periodVars
  <2>2. \A c \in Bets : Ticket(c)' = Ticket(c)
    BY <1>7 DEF CheckBet, RefuseBet, Ticket, TypeOK
  <2> QED
    BY <2>1, <2>2 DEF Ledger!ledgerVars, Ticket
<1> QED
  BY <1>1, <1>2, <1>3, <1>4, <1>5, <1>6, <1>7 DEF Next, SettleStep, BetStep, DrawStep

\* LedgerSpec: with timely requests the engine, its failures and its restarts
\* included, does nothing to money that the abstract ledger does not do.
THEOREM ImplementsLedger ==
  ASSUME Timely
  PROVE  Spec => LedgerSpec
<1>1. TypeOK /\ BetInv /\ TimeInv /\ PaidInv /\ [Next]_vars
        => [Ledger!Next]_(Ledger!ledgerVars)
  BY LedgerNext
<1> QED
  BY <1>1, LedgerInit, PaidInvariant, PTL DEF Spec, LedgerSpec, Ledger!Spec

--------------------------------------------------------------------------------
(* An accepted number is the one drawn                                      *)

\* A setResults request writes before the draw window, in which all draws run.
RequestEarly == adminRequest # NoRequest => now < DrawTime(adminRequest.slot)

\* handoff() waits for its draw.
HandoffDraws == draw["handoff"].pc # "off" => handoff.pc = "draw"

Persisting(w, s) == draw[w].pc = "persist" /\ draw[w].slot = s

\* Without a failure an accepted number is on its way: in Redis until the draw
\* has taken it out, then in the draw, then on the period.
OnItsWay(s) ==
  /\ resultNumber[s] # NoResult => resultNumber[s] = accepted[s]
  /\ \A w \in Drawers :
       (draw[w].pc \in {"consume", "persist"} /\ draw[w].slot = s) =>
         draw[w].number = accepted[s]
  /\ (resultNumber[s] = NoResult /\ \A w \in Drawers : ~Persisting(w, s)) =>
       adminResult[s] = accepted[s]

Carried == faults = 0 => \A s \in Slots : accepted[s] # NoResult => OnItsWay(s)

ObeyInv == RequestEarly /\ HandoffDraws /\ Carried

LEMMA ObeyInit == Init => ObeyInv
BY DEF Init, ObeyInv, RequestEarly, HandoffDraws, Carried, NoDraw, Drawers

\* The two tasks draw different slots, inside their draw windows.
LEMMA DrawsApart ==
  ASSUME TypeOK, TimeInv, NEW w \in Drawers, draw[w].pc # "off"
  PROVE  /\ draw[w].slot \in Slots
         /\ DrawTime(draw[w].slot) <= now
         /\ resultNumber[draw[w].slot] = NoResult
         /\ \A v \in Drawers \ {w} : draw[v].pc # "off" => draw[v].slot # draw[w].slot
<1>1. now \in Int /\ \A v \in Drawers : draw[v].slot \in Slots
  BY TaskSlots DEF TypeOK
<1>2. \A t \in Slots : /\ EndTime(t) \in Int /\ DrawTime(t) \in Int
                       /\ DrawTime(t) < EndTime(t)
  BY Timeline
<1>3. draw["handoff"].pc # "off" => EndTime(draw["handoff"].slot) <= now
  BY DEF TimeInv
<1>4. draw["prepare"].pc # "off" => /\ DrawTime(draw["prepare"].slot) <= now
                                    /\ now < EndTime(draw["prepare"].slot)
  BY DEF TimeInv
<1>5. resultNumber[draw[w].slot] = NoResult
  BY DEF TimeInv
<1> QED
  BY <1>1, <1>2, <1>3, <1>4, <1>5 DEF Drawers

\* What neither draws nor sets a number leaves an accepted one where it is.
LEMMA CarriedFrame ==
  ASSUME TypeOK, Carried, UNCHANGED <<faults, accepted, adminResult, resultNumber>>,
         \A w \in Drawers : \/ draw'[w] = draw[w]
                            \/ draw[w].pc = "off" /\ draw'[w].pc = "generate"
  PROVE  Carried'
<1>1. \A s \in Slots, w \in Drawers : Persisting(w, s)' <=> Persisting(w, s)
  BY DEF Persisting
<1>2. \A s \in Slots : OnItsWay(s) => OnItsWay(s)'
  BY <1>1 DEF OnItsWay
<1> QED
  BY <1>2 DEF Carried

LEMMA FaultCounted ==
  ASSUME TypeOK, NEW kind, Fault(kind)
  PROVE  Carried'
BY DEF TypeOK, Fault, Carried

LEMMA ObeyHandoff ==
  ASSUME TypeOK, ObeyInv, HandoffStep
  PROVE  ObeyInv'
<1> USE DEF Drawers
<1>1. UNCHANGED <<now, faults, adminRequest, accepted, adminResult, resultNumber>>
  <2>1. CASE HandoffStart \/ HandoffSweep
    BY <2>1 DEF HandoffStart, HandoffSweep, timeVars, periodVars, adminVars
  <2>2. CASE HandoffCreate
    BY <2>2 DEF HandoffCreate, timeVars, adminVars
  <2>3. CASE \E s \in Slots : EndPeriod(s)
    BY <2>3 DEF EndPeriod, timeVars, adminVars
  <2>4. CASE \E e \in handoff.justEnded : PublishStored(e) \/ HandoffDraw(e)
    BY <2>4 DEF PublishStored, HandoffDraw, timeVars, periodVars, adminVars
  <2> QED
    BY <2>1, <2>2, <2>3, <2>4 DEF HandoffStep
<1>2. RequestEarly'
  BY <1>1 DEF ObeyInv, RequestEarly
<1>3. /\ handoff.pc # "draw"
      /\ \/ draw' = draw
         \/ /\ draw'["handoff"].pc = "generate" /\ handoff'.pc = "draw"
            /\ draw'["prepare"] = draw["prepare"]
  <2>1. ASSUME NEW e \in handoff.justEnded, HandoffDraw(e)
        PROVE  \/ draw' = draw
               \/ /\ draw'["handoff"].pc = "generate" /\ handoff'.pc = "draw"
                  /\ draw'["prepare"] = draw["prepare"]
    <3>1. CASE UNCHANGED draw
      BY <3>1
    <3>2. CASE /\ handoff' = [handoff EXCEPT !.pc = "draw", !.justEnded = @ \ {e}]
               /\ draw' = [draw EXCEPT !["handoff"] =
                             [pc |-> "generate", slot |-> e.slot, number |-> NoResult]]
      <4>1. handoff'.pc = "draw"
        BY <3>2 DEF TypeOK, HandoffStates
      <4>2. draw'["handoff"].pc = "generate" /\ draw'["prepare"] = draw["prepare"]
        BY <3>2 DEF TypeOK
      <4> QED
        BY <4>1, <4>2
    <3> QED
      BY <2>1, <3>1, <3>2 DEF HandoffDraw
  <2>2. CASE HandoffStart \/ HandoffCreate \/ HandoffSweep \/ \E s \in Slots : EndPeriod(s)
    <3>1. HandoffStart => handoff.pc = "idle" /\ UNCHANGED draw
      BY DEF HandoffStart
    <3>2. HandoffCreate => handoff.pc = "loop" /\ UNCHANGED draw
      BY DEF HandoffCreate
    <3>3. HandoffSweep => handoff.pc = "sweep" /\ UNCHANGED draw
      BY DEF HandoffSweep
    <3>4. (\E s \in Slots : EndPeriod(s)) => handoff.pc = "loop" /\ UNCHANGED draw
      BY DEF EndPeriod
    <3> QED
      BY <2>2, <3>1, <3>2, <3>3, <3>4
  <2>3. CASE \E e \in handoff.justEnded : PublishStored(e)
    BY <2>3 DEF PublishStored
  <2>4. CASE \E e \in handoff.justEnded : HandoffDraw(e)
    <3>1. handoff.pc # "draw"
      BY <2>4 DEF HandoffDraw
    <3> QED
      BY <2>1, <2>4, <3>1
  <2> QED
    BY <2>2, <2>3, <2>4 DEF HandoffStep
<1>4. draw["handoff"].pc = "off"
  BY <1>3 DEF ObeyInv, HandoffDraws
<1>5. HandoffDraws'
  BY <1>3, <1>4 DEF HandoffDraws
<1>6. Carried'
  BY <1>1, <1>3, <1>4, CarriedFrame DEF ObeyInv
<1> QED
  BY <1>2, <1>5, <1>6 DEF ObeyInv

LEMMA ObeyPrepare ==
  ASSUME TypeOK, TimeInv, ObeyInv, PrepareStep
  PROVE  ObeyInv'
<1> USE DEF Drawers
<1>1. /\ UNCHANGED <<now, faults, adminRequest, accepted, adminResult, resultNumber, handoff>>
      /\ draw'["handoff"] = draw["handoff"]
  BY DEF PrepareStep, PrepareStart, EnsureNext, PrepareDraw, timeVars, periodVars,
     adminVars, TypeOK
<1>2. draw'["prepare"] = draw["prepare"] \/
        (draw["prepare"].pc = "off" /\ draw'["prepare"].pc = "generate")
  <2>1. CASE PrepareDraw
    <3>1. draw["prepare"].pc = "off"
      BY <2>1 DEF PrepareDraw, TimeInv
    <3> QED
      BY <2>1, <3>1 DEF PrepareDraw, TypeOK
  <2> QED
    BY <2>1 DEF PrepareStep, PrepareStart, EnsureNext
<1>3. Carried'
  BY <1>1, <1>2, CarriedFrame DEF ObeyInv
<1> QED
  BY <1>1, <1>3 DEF ObeyInv, RequestEarly, HandoffDraws

\* A draw that goes on with its slot: what it holds and what Redis holds.
LEMMA ObeyTakes ==
  ASSUME TypeOK, TimeInv, ObeyInv, NEW w \in Drawers, Generate(w) \/ Consume(w)
  PROVE  ObeyInv'
<1> DEFINE s == draw[w].slot
<1>1. /\ UNCHANGED <<now, faults, resultNumber, handoff, adminRequest, accepted>>
      /\ draw[w].pc \in {"generate", "consume"}
      /\ \A v \in Drawers \ {w} : draw'[v] = draw[v]
  BY DEF Generate, Consume, timeVars, periodVars, adminVars, TypeOK
<1>2. /\ s \in Slots
      /\ resultNumber[s] = NoResult
      /\ \A v \in Drawers \ {w} : draw[v].pc # "off" => draw[v].slot # s
  BY <1>1, DrawsApart
<1>3. draw'[w].slot = s
  BY DEF Generate, Consume, TypeOK
<1>4. \A t \in Slots \ {s} : adminResult'[t] = adminResult[t]
  BY DEF Generate, Consume, adminVars, TypeOK
<1>5. ASSUME faults = 0, NEW t \in Slots, accepted[t] # NoResult PROVE OnItsWay(t)'
  <2>1. OnItsWay(t)
    BY <1>5 DEF ObeyInv, Carried
  <2>2. CASE t # s
    <3>1. \A v \in Drawers : Persisting(v, t)' <=> Persisting(v, t)
      BY <1>1, <1>3, <2>2 DEF Persisting
    <3> QED
      BY <1>1, <1>3, <1>4, <2>1, <2>2, <3>1 DEF OnItsWay
  <2>3. CASE t = s
    <3>1. CASE Generate(w)
      <4>1. draw[w].pc = "generate" /\ UNCHANGED adminResult
        BY <3>1 DEF Generate, adminVars
      <4>2. \A v \in Drawers : ~Persisting(v, s)
        BY <1>2, <4>1 DEF Persisting
      <4>3. adminResult[s] = accepted[s]
        BY <1>2, <2>1, <2>3, <4>2 DEF OnItsWay
      <4>4. draw'[w].number = accepted[s]
        BY <1>5, <2>3, <3>1, <4>3 DEF Generate, TypeOK
      <4> QED
        BY <1>1, <1>2, <2>3, <4>1, <4>3, <4>4 DEF OnItsWay
    <3>2. CASE Consume(w)
      <4>1. /\ draw[w].pc = "consume"
            /\ draw'[w].pc = "persist" /\ draw'[w].number = draw[w].number
        BY <3>2 DEF Consume, TypeOK
      <4>2. draw[w].number = accepted[s]
        BY <2>1, <2>3, <4>1 DEF OnItsWay
      <4> QED
        BY <1>1, <1>2, <1>3, <2>3, <4>1, <4>2 DEF OnItsWay, Persisting
    <3> QED
      BY <3>1, <3>2
  <2> QED
    BY <2>2, <2>3
<1>6. draw'["handoff"].pc # "off" => draw["handoff"].pc # "off"
  BY <1>1 DEF Drawers
<1> QED
  BY <1>1, <1>5, <1>6 DEF ObeyInv, RequestEarly, HandoffDraws, Carried

LEMMA ObeyPersist ==
  ASSUME TypeOK, TimeInv, ObeyInv, NEW w \in Drawers, Persist(w)
  PROVE  ObeyInv'
<1> DEFINE s == draw[w].slot
<1>1. /\ UNCHANGED <<now, faults, adminRequest, accepted, adminResult>>
      /\ draw[w].pc = "persist"
      /\ Return(w, TRUE)
  BY DEF Persist, timeVars, adminVars
<1>2. draw'[w].pc = "off" /\ \A v \in Drawers \ {w} : draw'[v] = draw[v]
  BY <1>1, TimeReturn
<1>3. /\ s \in Slots
      /\ \A v \in Drawers \ {w} : draw[v].pc # "off" => draw[v].slot # s
  BY <1>1, DrawsApart
<1>4. draw[w].number \in Numbers /\ draw[w].number # NoResult
  BY <1>1, RoundAssumption DEF TypeOK, DrawStates
<1>5. /\ resultNumber'[s] = draw[w].number
      /\ \A t \in Slots \ {s} : resultNumber'[t] = resultNumber[t]
  BY <1>3 DEF Persist, TypeOK
<1>6. ASSUME faults = 0, NEW t \in Slots, accepted[t] # NoResult PROVE OnItsWay(t)'
  <2>1. OnItsWay(t)
    BY <1>6 DEF ObeyInv, Carried
  <2>2. CASE t # s
    <3>1. \A v \in Drawers : Persisting(v, t)' <=> Persisting(v, t)
      BY <1>2, <2>2 DEF Persisting
    <3>2. \A v \in Drawers : draw'[v].pc \in {"consume", "persist"} => draw'[v] = draw[v]
      BY <1>2
    <3> QED
      BY <1>1, <1>5, <2>1, <2>2, <3>1, <3>2 DEF OnItsWay
  <2>3. CASE t = s
    <3>1. draw[w].number = accepted[s]
      BY <1>1, <2>1, <2>3 DEF OnItsWay
    <3>2. \A v \in Drawers : draw'[v].pc \in {"consume", "persist"} => draw'[v].slot # s
      BY <1>2, <1>3
    <3> QED
      BY <1>1, <1>4, <1>5, <2>3, <3>1, <3>2 DEF OnItsWay
  <2> QED
    BY <2>2, <2>3
<1>7. HandoffDraws'
  <2>1. CASE w = "handoff"
    BY <1>2, <2>1 DEF HandoffDraws
  <2>2. CASE w = "prepare"
    BY <1>1, <1>2, <2>2 DEF ObeyInv, HandoffDraws, Return, Drawers
  <2> QED
    BY <2>1, <2>2 DEF Drawers
<1> QED
  BY <1>1, <1>6, <1>7 DEF ObeyInv, RequestEarly, Carried

\* setResults: its check is before the draw window, and its write, before that
\* window too, finds a slot that nobody has drawn or is drawing.
LEMMA ObeyAdmin ==
  ASSUME TypeOK, TimeInv, ObeyInv, AdminStep
  PROVE  ObeyInv'
<1>1. UNCHANGED <<now, faults, resultNumber, handoff, draw>>
  BY DEF AdminStep, AdminWrite, AdminCheck, timeVars, periodVars, clockTasks
<1>2. CASE \E s \in Slots, n \in Numbers : AdminCheck(s, n)
  <2>1. PICK s \in Slots, n \in Numbers : AdminCheck(s, n)
    BY <1>2
  <2>2. now < DrawTime(s)
    BY <2>1, Timeline DEF AdminCheck, Frozen, TypeOK
  <2>3. adminRequest'.slot = s /\ UNCHANGED <<accepted, adminResult>>
    BY <2>1 DEF AdminCheck
  <2>4. Carried'
    BY <1>1, <2>3, CarriedFrame DEF ObeyInv
  <2> QED
    BY <1>1, <2>2, <2>3, <2>4 DEF ObeyInv, RequestEarly, HandoffDraws
<1>3. CASE AdminWrite
  <2> DEFINE s == adminRequest.slot
  <2>1. /\ s \in Slots
        /\ adminRequest' = NoRequest
        /\ now < DrawTime(s)
        /\ adminResult'[s] = accepted'[s]
        /\ \A t \in Slots \ {s} : adminResult'[t] = adminResult[t] /\ accepted'[t] = accepted[t]
    BY <1>3 DEF AdminWrite, TypeOK, ObeyInv, RequestEarly
  <2>2. now \in Int /\ DrawTime(s) \in Int
    BY <2>1, Timeline DEF TypeOK
  <2>3. resultNumber[s] = NoResult
    BY <2>1, <2>2 DEF TimeInv
  <2>4. \A w \in Drawers : draw[w].pc # "off" => draw[w].slot # s
    BY <2>1, <2>2, DrawsApart
  <2>5. ASSUME faults = 0, NEW t \in Slots, accepted'[t] # NoResult PROVE OnItsWay(t)'
    <3>1. CASE t = s
      BY <1>1, <2>1, <2>3, <2>4, <3>1 DEF OnItsWay
    <3>2. CASE t # s
      <4>1. OnItsWay(t) /\ \A v \in Drawers : Persisting(v, t)' <=> Persisting(v, t)
        BY <1>1, <2>1, <2>5, <3>2 DEF ObeyInv, Carried, Persisting
      <4> QED
        BY <1>1, <2>1, <3>2, <4>1 DEF OnItsWay
    <3> QED
      BY <3>1, <3>2
  <2> QED
    BY <1>1, <2>1, <2>5 DEF ObeyInv, RequestEarly, HandoffDraws, Carried
<1> QED
  BY <1>2, <1>3 DEF AdminStep

\* After a failure nothing more is promised of an accepted number.
LEMMA ObeyFail ==
  ASSUME TypeOK, ObeyInv, FailStep
  PROVE  ObeyInv'
<1>1. Carried'
  BY FaultCounted DEF FailStep, HandoffFails, PrepareFails, SettleFinishFails,
     AdminWriteFails, Crash, HandoffReadFails, DrawFails, RedisReadFails, RedisDelFails
<1>2. now' = now /\ (adminRequest' = adminRequest \/ adminRequest' = NoRequest)
  BY DEF FailStep, HandoffFails, PrepareFails, SettleFinishFails, AdminWriteFails, Crash,
     HandoffReadFails, DrawFails, RedisReadFails, RedisDelFails, adminVars
<1>3. HandoffDraws'
  <2>1. CASE Crash
    BY <2>1 DEF Crash, HandoffDraws, NoDraw, Drawers
  <2>2. CASE HandoffFails \/ \E e \in handoff.justEnded : HandoffReadFails(e)
    <3>1. handoff.pc # "draw" /\ draw' = draw
      BY <2>2 DEF HandoffFails, HandoffReadFails
    <3> QED
      BY <3>1 DEF ObeyInv, HandoffDraws
  <2>3. CASE PrepareFails \/ SettleFinishFails \/ AdminWriteFails
    BY <2>3 DEF PrepareFails, SettleFinishFails, AdminWriteFails, clockTasks, ObeyInv,
       HandoffDraws
  <2>4. ASSUME NEW w \in Drawers, RedisReadFails(w) \/ RedisDelFails(w) PROVE HandoffDraws'
    BY <2>4 DEF RedisReadFails, RedisDelFails, ObeyInv, HandoffDraws, TypeOK, Drawers
  <2>5. ASSUME NEW w \in Drawers, DrawFails(w) PROVE HandoffDraws'
    <3>1. CASE w = "handoff"
      BY <2>5, <3>1 DEF DrawFails, Return, HandoffDraws, NoDraw, TypeOK, Drawers
    <3>2. CASE w = "prepare"
      BY <2>5, <3>2 DEF DrawFails, Return, ObeyInv, HandoffDraws, TypeOK, Drawers
    <3> QED
      BY <3>1, <3>2 DEF Drawers
  <2> QED
    BY <2>1, <2>2, <2>3, <2>4, <2>5 DEF FailStep
<1> QED
  BY <1>1, <1>2, <1>3 DEF ObeyInv, RequestEarly

LEMMA ObeyNext ==
  ASSUME "admin" \in Prompt, TypeOK, TimeInv, ObeyInv, [Next]_vars
  PROVE  ObeyInv'
<1>1. CASE Tick
  <2>1. UNCHANGED <<faults, accepted, adminResult, adminRequest, resultNumber, draw, handoff>>
    BY <1>1 DEF Tick, periodVars, adminVars, clockTasks
  <2>2. adminRequest # NoRequest => now' < DrawTime(adminRequest.slot)
    BY <1>1 DEF Tick
  <2>3. Carried'
    BY <2>1, CarriedFrame DEF ObeyInv
  <2> QED
    BY <2>1, <2>2, <2>3 DEF ObeyInv, RequestEarly, HandoffDraws
<1>2. CASE SettleStep \/ BetStep \/ UNCHANGED vars
  <2>1. UNCHANGED <<now, accepted, adminResult, adminRequest, resultNumber, draw, handoff>>
    BY <1>2 DEF SettleStep, SettleStart, SettleFinish, SettleBet, SettleBetFails, BetStep,
       CheckBet, CommitBet, RefuseBet, vars, timeVars, periodVars, adminVars, clockTasks
  <2>2. faults' = faults \/ \E kind \in AllFaults : Fault(kind)
    BY <1>2 DEF SettleStep, SettleStart, SettleFinish, SettleBet, SettleBetFails, BetStep,
       CheckBet, CommitBet, RefuseBet, vars, timeVars, AllFaults
  <2>3. Carried'
    BY <2>1, <2>2, CarriedFrame, FaultCounted DEF ObeyInv
  <2> QED
    BY <2>1, <2>3 DEF ObeyInv, RequestEarly, HandoffDraws
<1> QED
  BY <1>1, <1>2, ObeyHandoff, ObeyPrepare, ObeyTakes, ObeyPersist, ObeyAdmin, ObeyFail
     DEF Next, DrawStep

\* AdminObeyed: with requests that outlast none of their deadlines and no failure,
\* the number an admin was told is set is the number drawn, though the draw reads,
\* deletes and stores it in three steps and two tasks draw (setResults.ts,
\* generateCompleteResult).
THEOREM AcceptedIsDrawn ==
  ASSUME Timely, "admin" \in Prompt
  PROVE  Spec => []AdminObeyed
<1>1. TypeOK /\ TimeInv /\ ObeyInv /\ [Next]_vars => ObeyInv'
  BY ObeyNext
<1>2. ObeyInv => AdminObeyed
  BY DEF ObeyInv, Carried, OnItsWay, AdminObeyed
<1> QED
  BY <1>1, <1>2, ObeyInit, TimeInvariant, PTL DEF Spec

================================================================================
