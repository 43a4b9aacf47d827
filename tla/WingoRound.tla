------------------------------ MODULE WingoRound -------------------------------
(***************************************************************************)
(* One Win Go table (one duration): the periods of the table, the engine   *)
(* process that hands them over, draws and settles them                    *)
(* (apps/engine/src/scheduler/wingoScheduler.ts), the API handlers that    *)
(* place bets and the admin handler that fixes a result.                   *)
(*                                                                         *)
(* Every await is a point where other steps may run.  The engine has three *)
(* tasks, each protected against itself by an in-memory flag: handoff,     *)
(* prepare and settle.  Every second a tick starts handoff and, when it    *)
(* returns or at once when an older one is still running, the other two.   *)
(* A handoff that finds nothing to do changes nothing here, and may last   *)
(* from before the end of a slot to any instant after it; so prepare and   *)
(* settle may start in any state in which they are idle.                   *)
(*                                                                         *)
(* A variable below holds a column of the database, a key of Redis, or the *)
(* local state of one task.  A crash loses the local state only.           *)
(***************************************************************************)
EXTENDS Integers, FiniteSets

CONSTANTS
  Users, Numbers, Bets, Stake, InitBalance, NoResult, \* as in RoundLedger
  MaxSlot,      \* bound: slots 0..MaxSlot of the table exist
  SlotLen,      \* length of a slot, in units of the clock
  LockLen,      \* betLockSeconds: no new bets this long before the end
  FreezeLen,    \* ADMIN_RESULT_FREEZE_SECONDS: the draw window before the end
  MaxTime,      \* bound: the clock stops here
  FaultKinds,   \* the failures this instance allows
  MaxFaults,    \* bound on the number of failures
  Prompt        \* the timing assumptions this instance makes

Slots == 0 .. MaxSlot

AllFaults == {"crash", "handoff", "prepare", "draw", "redis", "settle", "bet"}

ASSUME RoundAssumption ==
  /\ MaxSlot \in Nat
  /\ FreezeLen \in Nat /\ LockLen \in Nat /\ SlotLen \in Nat
  /\ 0 < FreezeLen /\ FreezeLen <= LockLen /\ LockLen < SlotLen
  /\ MaxTime \in Nat /\ MaxFaults \in Nat
  /\ FaultKinds \subseteq AllFaults
  /\ Prompt \subseteq {"bet", "prepare", "admin"}
  /\ Stake \in Nat \ {0} /\ InitBalance \in Nat
  /\ NoResult \notin Numbers
  /\ \A b \in Bets : /\ b.user \in Users
                     /\ b.slot \in Slots
                     /\ b.pays \in [Numbers -> Nat]

VARIABLES
  now,              \* the clock (Date.now() of both processes)
  status,           \* WingoPeriod.status of a slot; "NONE": no row yet
  resultNumber,     \* WingoPeriod.resultNumber of a slot
  adminResult,      \* the Redis key admin:wingo:result:<period>
  adminRequest,     \* the setResults request between its check and its write
  accepted,         \* the last number an admin was told is set (for properties)
  bet,              \* the place-bet request, then WingoBet.status
  betResult,        \* WingoBetResult.winAmount of a bet; NoRow: no row
  balance,          \* User.balance
  handoff,          \* local state of handoff()
  prepare,          \* local state of prepare()
  draw,             \* local state of the processPeriodResult() of each of them
  settle,           \* local state of settleAllEndedPeriodsWithResults()
  jobs,             \* the settleBet() calls in flight
  publishedResults, \* in-memory set of the scheduler
  announced,        \* in-memory set of the scheduler
  published,        \* numbers sent on topic wingo-results, per slot
  faults            \* failures so far

timeVars   == <<now, faults>>
periodVars == <<status, resultNumber>>
adminVars  == <<adminResult, adminRequest, accepted>>
moneyVars  == <<bet, betResult, balance>>
settleVars == <<settle, jobs>>
clockTasks == <<handoff, prepare, draw, publishedResults, announced, published>>

vars == <<timeVars, periodVars, adminVars, moneyVars, settleVars, clockTasks>>

--------------------------------------------------------------------------------
(* Time                                                                     *)

StartTime(s) == s * SlotLen
EndTime(s)   == StartTime(s) + SlotLen

\* When betting on a slot locks.
LockTime(s) == EndTime(s) - LockLen

\* isAdminResultFrozen: the window in which the engine draws and admins may not.
DrawTime(s) == EndTime(s) - FreezeLen
FrozenNever(s, t) == FALSE
Frozen(s, t) == t >= DrawTime(s)

\* The slot whose period contains the instant t.
SlotAt(t) == t \div SlotLen

NoRow == -1

NoRequest == [slot |-> 0, number |-> NoResult]
IdleHandoff == [pc |-> "idle", at |-> 0, expired |-> {}, justEnded |-> {}]
IdlePrepare == [pc |-> "idle", slot |-> 0, due |-> FALSE]
NoDraw == [pc |-> "off", slot |-> 0, number |-> NoResult]
IdleSettle == [pc |-> "idle", slots |-> {}]

Drawers == {"handoff", "prepare"}

\* What the bet earns when n is drawn: contractAmount times the multiplier.
WinAmount(b, n) == b.pays[n]

\* debitUserBalanceForBet updates the user only where balance >= betAmount.
Covers(b) == balance[b.user] >= Stake

\* WingoBetResult has no row with this betId, which is unique.
NoResultRowAssumed(b) == TRUE
NoResultRow(b) == betResult[b] = NoRow

PendingBets(s) == {b \in Bets : b.slot = s /\ bet[b] = "PENDING"}

\* getLivePeriod: ACTIVE, started and not over.
LiveNotOver(t) == {s \in Slots : status[s] = "ACTIVE" /\ StartTime(s) <= t}
Live(t) == {s \in Slots : status[s] = "ACTIVE" /\ StartTime(s) <= t /\ t < EndTime(s)}

\* The periods a settle run takes: drawn, with PENDING bets, whatever their status.
DueEnded ==
  {s \in Slots : status[s] = "ENDED" /\ resultNumber[s] # NoResult /\ PendingBets(s) # {}}
Due == {s \in Slots : resultNumber[s] # NoResult /\ PendingBets(s) # {}}

\* A slot takes bets from its start to its lock.
OpenUntilEnd(s) == StartTime(s) <= now /\ now < EndTime(s)
Open(s) == StartTime(s) <= now /\ now < LockTime(s)

\* A failure of the given kind happens in this step.
Fault(kind) ==
  /\ kind \in FaultKinds
  /\ faults < MaxFaults
  /\ faults' = faults + 1

Init ==
  /\ now = 0
  /\ status = [s \in Slots |-> "NONE"]
  /\ resultNumber = [s \in Slots |-> NoResult]
  /\ adminResult = [s \in Slots |-> NoResult]
  /\ adminRequest = NoRequest
  /\ accepted = [s \in Slots |-> NoResult]
  /\ bet = [b \in Bets |-> "none"]
  /\ betResult = [b \in Bets |-> NoRow]
  /\ balance = [u \in Users |-> InitBalance]
  /\ handoff = IdleHandoff
  /\ prepare = IdlePrepare
  /\ draw = [w \in Drawers |-> NoDraw]
  /\ settle = IdleSettle
  /\ jobs = {}
  /\ publishedResults = {}
  /\ announced = {}
  /\ published = [s \in Slots |-> {}]
  /\ faults = 0

\* The clock advances.  Each member of Prompt forbids one thing to outlast a
\* deadline: "bet" a place-bet request to be still running when the draw window
\* of its slot opens, "prepare" a run of prepare() to be still running when its
\* slot ends, "admin" a setResults request to be still running when its slot
\* freezes.  The code enforces none of them.
Tick ==
  /\ now < MaxTime
  /\ now' = now + 1
  /\ "bet" \in Prompt =>
       \A b \in Bets : bet[b] = "checked" => now' < DrawTime(b.slot)
  /\ "prepare" \in Prompt =>
       (prepare.pc # "idle" => now' < EndTime(prepare.slot))
  /\ "admin" \in Prompt =>
       (adminRequest # NoRequest => now' < DrawTime(adminRequest.slot))
  /\ UNCHANGED <<faults, periodVars, adminVars, moneyVars, settleVars, clockTasks>>

--------------------------------------------------------------------------------
(* handoff(): end expired periods, publish or draw their results, make sure *)
(* a period is live, close the periods that have nothing left to pay.       *)

\* endExpiredPeriods reads the ACTIVE periods that are over.
HandoffStart ==
  /\ handoff.pc = "idle"
  /\ handoff' = [pc |-> "loop", at |-> now, justEnded |-> {},
                 expired |-> {s \in Slots : /\ status[s] = "ACTIVE"
                                            /\ EndTime(s) <= now}]
  /\ UNCHANGED <<timeVars, periodVars, adminVars, moneyVars, settleVars, prepare,
                 draw, publishedResults, announced, published>>

\* endExpiredPeriods updates them one by one and keeps each updated row.
EndPeriod(s) ==
  /\ handoff.pc = "loop"
  /\ s \in handoff.expired
  /\ status' = [status EXCEPT ![s] = "ENDED"]
  /\ handoff' = [handoff EXCEPT
                   !.expired = @ \ {s},
                   !.justEnded = @ \cup {[slot |-> s, result |-> resultNumber[s]]}]
  /\ UNCHANGED <<timeVars, resultNumber, adminVars, moneyVars, settleVars, prepare,
                 draw, publishedResults, announced, published>>

\* A period that had its result when it ended is published from the row read
\* then; one that is in publishedResults is skipped.
PublishStored(e) ==
  /\ handoff.pc = "loop"
  /\ handoff.expired = {}
  /\ e \in handoff.justEnded
  /\ e.result # NoResult \/ e.slot \in publishedResults
  /\ handoff' = [handoff EXCEPT !.justEnded = @ \ {e}]
  /\ publishedResults' = publishedResults \cup {e.slot}
  /\ published' = [published EXCEPT
                     ![e.slot] = IF e.slot \in publishedResults
                                 THEN @ ELSE @ \cup {e.result}]
  /\ UNCHANGED <<timeVars, periodVars, adminVars, moneyVars, settleVars, prepare,
                 draw, announced>>

\* A period that had none is drawn now; processPeriodResult reads the row again.
HandoffDraw(e) ==
  LET s == e.slot IN
  /\ handoff.pc = "loop"
  /\ handoff.expired = {}
  /\ e \in handoff.justEnded
  /\ e.result = NoResult
  /\ s \notin publishedResults
  /\ \/ /\ resultNumber[s] # NoResult
        /\ handoff' = [handoff EXCEPT !.justEnded = @ \ {e}]
        /\ publishedResults' = publishedResults \cup {s}
        /\ published' = [published EXCEPT ![s] = @ \cup {resultNumber[s]}]
        /\ UNCHANGED draw
     \/ /\ resultNumber[s] = NoResult
        /\ handoff' = [handoff EXCEPT !.pc = "draw", !.justEnded = @ \ {e}]
        /\ draw' = [draw EXCEPT !["handoff"] =
                      [pc |-> "generate", slot |-> s, number |-> NoResult]]
        /\ UNCHANGED <<publishedResults, published>>
  /\ UNCHANGED <<timeVars, periodVars, adminVars, moneyVars, settleVars, prepare,
                 announced>>

\* That read fails: processPeriodResult returns null and the loop goes on.
HandoffReadFails(e) ==
  /\ Fault("draw")
  /\ handoff.pc = "loop"
  /\ handoff.expired = {}
  /\ e \in handoff.justEnded
  /\ e.result = NoResult
  /\ handoff' = [handoff EXCEPT !.justEnded = @ \ {e}]
  /\ UNCHANGED <<now, periodVars, adminVars, moneyVars, settleVars, prepare, draw,
                 publishedResults, announced, published>>

\* getLivePeriod, else createPeriodIfNeeded, for the instant the handoff started
\* with; the period it gets is announced once per life of the process.
HandoffCreate ==
  LET s == SlotAt(handoff.at) IN
  /\ handoff.pc = "loop"
  /\ handoff.expired = {}
  /\ handoff.justEnded = {}
  /\ handoff' = [handoff EXCEPT !.pc = "sweep"]
  /\ IF s \in Slots
     THEN /\ status' = [status EXCEPT ![s] = IF @ = "NONE" THEN "ACTIVE" ELSE @]
          /\ announced' = announced \cup {s}
     ELSE UNCHANGED <<status, announced>>
  /\ UNCHANGED <<timeVars, resultNumber, adminVars, moneyVars, settleVars, prepare,
                 draw, publishedResults, published>>

\* ENDED periods with a result and no PENDING bet become RESOLVED.
HandoffSweep ==
  /\ handoff.pc = "sweep"
  /\ handoff' = IdleHandoff
  /\ status' = [s \in Slots |->
                  IF /\ status[s] = "ENDED"
                     /\ resultNumber[s] # NoResult
                     /\ PendingBets(s) = {}
                  THEN "RESOLVED" ELSE status[s]]
  /\ UNCHANGED <<timeVars, resultNumber, adminVars, moneyVars, settleVars, prepare,
                 draw, publishedResults, announced, published>>

\* A query of handoff() fails: the rest of this run is skipped.  Periods it
\* ended already are in no later run's justEnded.
HandoffFails ==
  /\ Fault("handoff")
  /\ handoff.pc \in {"loop", "sweep"}
  /\ handoff' = IdleHandoff
  /\ UNCHANGED <<now, periodVars, adminVars, moneyVars, settleVars, prepare, draw,
                 publishedResults, announced, published>>

--------------------------------------------------------------------------------
(* prepare(): in the lock window create the next period, in the draw window *)
(* draw the live one without publishing.                                    *)

\* The live period is read once; due is the draw condition on what was read.
PrepareStart ==
  /\ prepare.pc = "idle"
  /\ \E s \in Live(now) :
       /\ now >= LockTime(s)
       /\ prepare' = [pc |-> "ensure", slot |-> s,
                      due |-> resultNumber[s] = NoResult /\ Frozen(s, now)]
  /\ UNCHANGED <<timeVars, periodVars, adminVars, moneyVars, settleVars, handoff,
                 draw, publishedResults, announced, published>>

\* ensureNextPeriod: the row of the following slot, if it is not there yet.
EnsureNext ==
  LET s == prepare.slot + 1 IN
  /\ prepare.pc = "ensure"
  /\ prepare' = IF prepare.due THEN [prepare EXCEPT !.pc = "read"] ELSE IdlePrepare
  /\ status' = IF s \in Slots /\ status[s] = "NONE"
               THEN [status EXCEPT ![s] = "ACTIVE"] ELSE status
  /\ UNCHANGED <<timeVars, resultNumber, adminVars, moneyVars, settleVars, handoff,
                 draw, publishedResults, announced, published>>

\* processPeriodResult reads the row again: a stored result is kept.
PrepareDraw ==
  LET s == prepare.slot IN
  /\ prepare.pc = "read"
  /\ IF resultNumber[s] # NoResult
     THEN /\ prepare' = IdlePrepare
          /\ UNCHANGED draw
     ELSE /\ prepare' = [prepare EXCEPT !.pc = "draw"]
          /\ draw' = [draw EXCEPT !["prepare"] =
                        [pc |-> "generate", slot |-> s, number |-> NoResult]]
  /\ UNCHANGED <<timeVars, periodVars, adminVars, moneyVars, settleVars, handoff,
                 publishedResults, announced, published>>

\* One of its queries fails: the rest of this run is skipped.
PrepareFails ==
  /\ Fault("prepare")
  /\ prepare.pc \in {"ensure", "read"}
  /\ prepare' = IdlePrepare
  /\ UNCHANGED <<now, periodVars, adminVars, moneyVars, settleVars, handoff, draw,
                 publishedResults, announced, published>>

--------------------------------------------------------------------------------
(* processPeriodResult() of a period without a result, run by task w.       *)

\* The caller goes on when the draw returns: handoff() to its next period, and
\* prepare(), which drew last, to the end of its run.
Return(w, drawn) ==
  /\ draw' = [draw EXCEPT ![w] = NoDraw]
  /\ \/ /\ w = "handoff"
        /\ handoff' = [handoff EXCEPT !.pc = "loop"]
        /\ publishedResults' = IF drawn THEN publishedResults \cup {draw[w].slot}
                                        ELSE publishedResults
        /\ UNCHANGED prepare
     \/ /\ w = "prepare"
        /\ prepare' = IdlePrepare
        /\ UNCHANGED <<handoff, publishedResults>>

\* generateCompleteResult: the number an admin stored in Redis, else any number
\* (the algorithm, WINNING, TRX or random, is abstracted to its range).
Generate(w) ==
  LET s == draw[w].slot
      fixed == adminResult[s] # NoResult
  IN
  /\ draw[w].pc = "generate"
  /\ \E n \in IF fixed THEN {adminResult[s]} ELSE Numbers :
       draw' = [draw EXCEPT ![w] =
                  [pc |-> IF fixed THEN "consume" ELSE "persist", slot |-> s, number |-> n]]
  /\ UNCHANGED <<timeVars, periodVars, adminVars, moneyVars, settleVars, handoff,
                 prepare, publishedResults, announced, published>>

\* ResultSetter.get fails and answers null: the number is drawn as if none was set.
RedisReadFails(w) ==
  /\ Fault("redis")
  /\ draw[w].pc = "generate"
  /\ \E n \in Numbers :
       draw' = [draw EXCEPT ![w] = [pc |-> "persist", slot |-> draw[w].slot, number |-> n]]
  /\ UNCHANGED <<now, periodVars, adminVars, moneyVars, settleVars, handoff, prepare,
                 publishedResults, announced, published>>

\* ResultSetter.del
Consume(w) ==
  /\ draw[w].pc = "consume"
  /\ adminResult' = [adminResult EXCEPT ![draw[w].slot] = NoResult]
  /\ draw' = [draw EXCEPT ![w] =
                [pc |-> "persist", slot |-> draw[w].slot, number |-> draw[w].number]]
  /\ UNCHANGED <<timeVars, periodVars, adminRequest, accepted, moneyVars, settleVars,
                 handoff, prepare, publishedResults, announced, published>>

\* It fails without a word: the key stays.
RedisDelFails(w) ==
  /\ Fault("redis")
  /\ draw[w].pc = "consume"
  /\ draw' = [draw EXCEPT ![w] =
                [pc |-> "persist", slot |-> draw[w].slot, number |-> draw[w].number]]
  /\ UNCHANGED <<now, periodVars, adminVars, moneyVars, settleVars, handoff, prepare,
                 publishedResults, announced, published>>

\* The row is updated whatever it holds by now; handoff() then publishes.
Persist(w) ==
  LET s == draw[w].slot
      n == draw[w].number
  IN
  /\ draw[w].pc = "persist"
  /\ resultNumber' = [resultNumber EXCEPT ![s] = n]
  /\ published' = IF w = "handoff" /\ now >= EndTime(s)
                  THEN [published EXCEPT ![s] = @ \cup {n}] ELSE published
  /\ Return(w, TRUE)
  /\ UNCHANGED <<timeVars, status, adminVars, moneyVars, settleVars, announced>>

\* A query of the draw fails: it returns null and the caller goes on.
DrawFails(w) ==
  /\ Fault("draw")
  /\ draw[w].pc \in {"generate", "persist"}
  /\ Return(w, FALSE)
  /\ UNCHANGED <<now, periodVars, adminVars, moneyVars, settleVars, announced, published>>

--------------------------------------------------------------------------------
(* settleAllEndedPeriodsWithResults()                                       *)

\* The due periods and their PENDING bets are read together.
SettleStart ==
  /\ settle.pc = "idle"
  /\ Due # {}
  /\ settle' = [pc |-> "running", slots |-> Due]
  /\ jobs' = jobs \cup
       {[bet |-> b, number |-> resultNumber[b.slot], run |-> "current"] :
          b \in UNION {PendingBets(s) : s \in Due}}
  /\ UNCHANGED <<timeVars, periodVars, adminVars, moneyVars, clockTasks>>

\* The transaction of settleBet commits: no row of WingoBetResult had this betId.
SettleBet(j) ==
  LET b == j.bet
      win == WinAmount(b, j.number)
  IN
  /\ j \in jobs
  /\ NoResultRow(b)
  /\ betResult' = [betResult EXCEPT ![b] = win]
  /\ bet' = [bet EXCEPT ![b] = IF win > 0 THEN "WON" ELSE "LOST"]
  /\ balance' = [balance EXCEPT ![b.user] = @ + win]
  /\ jobs' = jobs \ {j}
  /\ UNCHANGED <<timeVars, periodVars, adminVars, settle, clockTasks>>

\* A settleBet call whose run has ended.
Orphan(j) == [bet |-> j.bet, number |-> j.number, run |-> "orphan"]

\* It rolls back, because the row exists or because the database fails.
\* Promise.all then rejects at once: the run is over, its other settleBet calls
\* go on by themselves.
SettleBetFails(j) ==
  /\ j \in jobs
  /\ \/ ~NoResultRow(j.bet) /\ UNCHANGED faults
     \/ NoResultRow(j.bet) /\ Fault("settle")
  /\ IF j.run = "current"
     THEN /\ settle' = IdleSettle
          /\ jobs' = {Orphan(i) : i \in jobs \ {j}}
     ELSE /\ jobs' = jobs \ {j}
          /\ UNCHANGED settle
  /\ UNCHANGED <<now, periodVars, adminVars, moneyVars, clockTasks>>

\* All are settled: the periods that are over by the clock become RESOLVED.
SettleFinishAll ==
  /\ settle.pc = "running"
  /\ \A j \in jobs : j.run = "orphan"
  /\ settle' = IdleSettle
  /\ status' = [s \in Slots |-> IF s \in settle.slots THEN "RESOLVED" ELSE status[s]]
  /\ UNCHANGED <<timeVars, resultNumber, adminVars, moneyVars, jobs, clockTasks>>

SettleFinish ==
  /\ settle.pc = "running"
  /\ \A j \in jobs : j.run = "orphan"
  /\ settle' = IdleSettle
  /\ status' = [s \in Slots |-> IF s \in settle.slots /\ EndTime(s) <= now
                                THEN "RESOLVED" ELSE status[s]]
  /\ UNCHANGED <<timeVars, resultNumber, adminVars, moneyVars, jobs, clockTasks>>

\* That update fails: the periods keep their status.
SettleFinishFails ==
  /\ Fault("settle")
  /\ settle.pc = "running"
  /\ \A j \in jobs : j.run = "orphan"
  /\ settle' = IdleSettle
  /\ UNCHANGED <<now, periodVars, adminVars, moneyVars, jobs, clockTasks>>

--------------------------------------------------------------------------------
(* The API: placing a bet, and fixing a result                              *)

\* The place-bet handler has read the user and the period, and passed its checks. The
\* balance it compares is the signed-in user's, as old as the cache it comes from:
\* the handler may go on whatever the row holds, and the debit compares again.
CheckBet(b) ==
  /\ bet[b] = "none"
  /\ status[b.slot] = "ACTIVE"
  /\ Open(b.slot)
  /\ bet' = [bet EXCEPT ![b] = "checked"]
  /\ UNCHANGED <<timeVars, periodVars, adminVars, betResult, balance, settleVars,
                 clockTasks>>

\* Its transaction: debit only if the balance still covers the stake, then insert.
CommitBet(b) ==
  /\ bet[b] = "checked"
  /\ Covers(b)
  /\ balance' = [balance EXCEPT ![b.user] = @ - Stake]
  /\ bet' = [bet EXCEPT ![b] = "PENDING"]
  /\ UNCHANGED <<timeVars, periodVars, adminVars, betResult, settleVars, clockTasks>>

\* It rolls back: InsufficientBalanceError, or the request dies.
RefuseBet(b) ==
  /\ bet[b] = "checked"
  /\ \/ ~Covers(b) /\ UNCHANGED faults
     \/ Fault("bet")
  /\ bet' = [bet EXCEPT ![b] = "refused"]
  /\ UNCHANGED <<now, periodVars, adminVars, betResult, balance, settleVars, clockTasks>>

\* ResultSetter.set has read the period: ACTIVE, not drawn, not frozen.
AdminCheck(s, n) ==
  /\ adminRequest = NoRequest
  /\ status[s] = "ACTIVE"
  /\ resultNumber[s] = NoResult
  /\ ~Frozen(s, now)
  /\ adminRequest' = [slot |-> s, number |-> n]
  /\ UNCHANGED <<timeVars, periodVars, adminResult, accepted, moneyVars, settleVars,
                 clockTasks>>

\* It writes the key and answers that the result is set.
AdminWrite ==
  LET s == adminRequest.slot
      n == adminRequest.number
  IN
  /\ adminRequest # NoRequest
  /\ adminResult' = [adminResult EXCEPT ![s] = n]
  /\ accepted' = [accepted EXCEPT ![s] = n]
  /\ adminRequest' = NoRequest
  /\ UNCHANGED <<timeVars, periodVars, moneyVars, settleVars, clockTasks>>

\* The write fails, and the admin is told so.
AdminWriteFails ==
  /\ Fault("redis")
  /\ adminRequest # NoRequest
  /\ adminRequest' = NoRequest
  /\ UNCHANGED <<now, periodVars, adminResult, accepted, moneyVars, settleVars, clockTasks>>

--------------------------------------------------------------------------------
(* The engine process dies and starts again: its memory is gone, what the   *)
(* database has committed stays.                                            *)
Crash ==
  /\ Fault("crash")
  /\ handoff' = IdleHandoff
  /\ prepare' = IdlePrepare
  /\ draw' = [w \in Drawers |-> NoDraw]
  /\ settle' = IdleSettle
  /\ jobs' = {}
  /\ publishedResults' = {}
  /\ announced' = {}
  /\ UNCHANGED <<now, periodVars, adminVars, moneyVars, published>>

HandoffStep ==
  \/ HandoffStart \/ HandoffCreate \/ HandoffSweep
  \/ \E s \in Slots : EndPeriod(s)
  \/ \E e \in handoff.justEnded : PublishStored(e) \/ HandoffDraw(e)

PrepareStep == PrepareStart \/ EnsureNext \/ PrepareDraw

DrawStep == \E w \in Drawers : Generate(w) \/ Consume(w) \/ Persist(w)

SettleStep == SettleStart \/ SettleFinish \/ \E j \in jobs : SettleBet(j) \/ SettleBetFails(j)

BetStep == \E b \in Bets : CheckBet(b) \/ CommitBet(b) \/ RefuseBet(b)

AdminStep == AdminWrite \/ \E s \in Slots, n \in Numbers : AdminCheck(s, n)

FailStep ==
  \/ HandoffFails \/ PrepareFails \/ SettleFinishFails \/ AdminWriteFails \/ Crash
  \/ \E e \in handoff.justEnded : HandoffReadFails(e)
  \/ \E w \in Drawers : DrawFails(w) \/ RedisReadFails(w) \/ RedisDelFails(w)

Next ==
  \/ Tick
  \/ HandoffStep \/ PrepareStep \/ DrawStep \/ SettleStep
  \/ BetStep \/ AdminStep
  \/ FailStep

Spec == Init /\ [][Next]_vars

\* The timers keep ticking and every await of the engine returns; nothing is
\* assumed of the players, of the admins, or of failures.
Fairness ==
  /\ WF_vars(Tick)
  /\ WF_vars(HandoffStep)
  /\ WF_vars(PrepareStep)
  /\ \A w \in Drawers : WF_vars(Generate(w) \/ Consume(w) \/ Persist(w))
  /\ WF_vars(SettleStep)

FairSpec == Spec /\ Fairness

--------------------------------------------------------------------------------
(* Properties                                                               *)

Results == Numbers \cup {NoResult}
PeriodRows == [slot : Slots, result : Results]
HandoffStates == [pc : {"idle", "loop", "draw", "sweep"}, at : 0 .. MaxTime,
                  expired : SUBSET Slots, justEnded : SUBSET PeriodRows]
PrepareStates == [pc : {"idle", "ensure", "read", "draw"}, slot : Slots, due : BOOLEAN]
DrawStates == [pc : {"off", "generate"}, slot : Slots, number : {NoResult}]
         \cup [pc : {"consume", "persist"}, slot : Slots, number : Numbers]
SettleStates == [pc : {"idle", "running"}, slots : SUBSET Slots]
Jobs == [bet : Bets, number : Numbers, run : {"current", "orphan"}]

TypeOK ==
  /\ now \in 0 .. MaxTime
  /\ faults \in 0 .. MaxFaults
  /\ status \in [Slots -> {"NONE", "ACTIVE", "ENDED", "RESOLVED"}]
  /\ resultNumber \in [Slots -> Results]
  /\ adminResult \in [Slots -> Results]
  /\ adminRequest \in [slot : Slots, number : Results]
  /\ accepted \in [Slots -> Results]
  /\ bet \in [Bets -> {"none", "checked", "refused", "PENDING", "WON", "LOST"}]
  /\ betResult \in [Bets -> Nat \cup {NoRow}]
  /\ balance \in [Users -> Nat]
  /\ handoff \in HandoffStates
  /\ prepare \in PrepareStates
  /\ draw \in [Drawers -> DrawStates]
  /\ settle \in SettleStates
  /\ jobs \subseteq Jobs
  /\ publishedResults \subseteq Slots
  /\ announced \subseteq Slots
  /\ published \in [Slots -> SUBSET Numbers]

\* A settled bet stays settled and paid as it is, whatever is drawn, retried or
\* restarted later (settleBet creates its row under the unique betId).
OutcomeFinal ==
  [][\A b \in Bets : betResult[b] # NoRow =>
       bet'[b] = bet[b] /\ betResult'[b] = betResult[b]]_vars

\* A drawn number is never replaced (processPeriodResult: no redraw).
NoRedraw ==
  [][\A s \in Slots : resultNumber[s] # NoResult =>
       resultNumber'[s] = resultNumber[s]]_vars

\* Every row of WingoBetResult pays what the number stored on the period earns,
\* so all the players of a round were settled against the same number.
PaidAsDrawn ==
  \A b \in Bets : betResult[b] # NoRow =>
    /\ resultNumber[b.slot] # NoResult
    /\ betResult[b] = WinAmount(b, resultNumber[b.slot])
    /\ bet[b] = IF betResult[b] > 0 THEN "WON" ELSE "LOST"

\* The clients are sent no other number than the stored one, and only after the
\* end of the slot: the draw of the last seconds stays hidden.
PublishedIsStored ==
  \A s \in Slots : published[s] # {} =>
    published[s] = {resultNumber[s]} /\ EndTime(s) <= now

\* No stake enters the book of a slot whose number is already drawn.
BookClosedAtDraw ==
  [][\A b \in Bets : bet[b] # "PENDING" /\ bet'[b] = "PENDING" =>
       resultNumber[b.slot] = NoResult]_vars

\* A RESOLVED period is over, drawn and has nobody left to pay.
ResolvedIsSettled ==
  \A s \in Slots : status[s] = "RESOLVED" =>
    /\ EndTime(s) <= now
    /\ resultNumber[s] # NoResult
    /\ PendingBets(s) = {}

\* Unless something fails, the number an admin was told is set is the number drawn.
AdminObeyed ==
  \A s \in Slots :
    (faults = 0 /\ resultNumber[s] # NoResult /\ accepted[s] # NoResult) =>
      resultNumber[s] = accepted[s]

\* Every stake that was taken is settled in the end.
BetsSettled ==
  \A b \in Bets : bet[b] = "PENDING" ~> bet[b] \in {"WON", "LOST"}

--------------------------------------------------------------------------------
(* What the round implements                                                *)

Ledger == INSTANCE RoundLedger WITH
  Slots <- Slots,
  outcome <- resultNumber,
  account <- balance,
  ticket <- [b \in Bets |->
               CASE bet[b] = "PENDING" -> "open"
                 [] bet[b] = "WON" -> "won"
                 [] bet[b] = "LOST" -> "lost"
                 [] OTHER -> "none"]

\* Seen from the ledger, a round never does more than place, draw once, settle once.
LedgerSpec == Ledger!Spec

================================================================================
