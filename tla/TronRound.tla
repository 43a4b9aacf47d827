------------------------------- MODULE TronRound --------------------------------
(***************************************************************************)
(* TRX Win Go: every second one task hands the periods over and then       *)
(* starts the draw and the settlement, each unless it still runs.  The     *)
(* draw comes before the end of the period, once bets are locked, and its  *)
(* number is a digit of the hash of a block of the Tron chain.  A block is *)
(* named by its timestamp.                                                 *)
(***************************************************************************)
EXTENDS RoundTables

CONSTANTS
  Digit,        \* the number that the hash of a block stands for
  TipTolerance  \* how much older than the first draw a block may be

ASSUME DigitAssumption == Digit \in [0 .. MaxTime -> Numbers]
ASSUME ToleranceAssumption == TipTolerance \in Nat

VARIABLES
  lifecycle, \* "idle", "end" or "create"; "idle" is a false lifecycleRunning
  draw,      \* local state of drawDuePeriods(); "idle" is a false drawRunning
  settle,    \* local state of settleEndedPeriods(), likewise
  block      \* blockTimestamp of the period of a slot

tronVars == <<tableVars, lifecycle, draw, settle, block>>

NoBlock == -1
IdleDraw == [pc |-> "idle", todo |-> {}, tip |-> NoBlock]
IdleSettle == [pc |-> "idle", todo |-> {}]

TronInit ==
  /\ lifecycle = "idle"
  /\ draw = IdleDraw
  /\ settle = IdleSettle
  /\ block = [s \in Slots |-> NoBlock]

First(S) == CHOOSE s \in S : \A t \in S : s <= t

--------------------------------------------------------------------------------
(* safeCycle()                                                              *)

TrxTick ==
  /\ game = "trx"
  /\ lifecycle = "idle"
  /\ lifecycle' = "end"
  /\ UNCHANGED <<tableVars, draw, settle, block>>

\* Read, then updated one by one; an error leaves the rest ACTIVE.
TrxEndActivePeriods ==
  LET expired == {s \in Slots : status[s] = "ACTIVE" /\ EndTime(s) <= now} IN
  /\ lifecycle = "end"
  /\ lifecycle' = "create"
  /\ \E done \in SUBSET expired :
       /\ status' = [s \in Slots |-> IF s \in done THEN "ENDED" ELSE status[s]]
       /\ \/ done = expired /\ UNCHANGED faults
          \/ done # expired /\ Fault("end")
  /\ UNCHANGED <<game, now, resultNumber, adminVars, moneyVars, jobs, draw, settle, block>>

\* The current period is created unless it exists; then the two tasks start.
TrxCreatePeriod ==
  LET s == SlotAt(now) IN
  /\ lifecycle = "create"
  /\ lifecycle' = "idle"
  /\ \/ /\ status' = IF s \in Slots /\ status[s] = "NONE"
                     THEN [status EXCEPT ![s] = "ACTIVE"] ELSE status
        /\ UNCHANGED faults
     \/ Fault("create") /\ UNCHANGED status
  /\ draw' = IF draw.pc = "idle" THEN [draw EXCEPT !.pc = "list"] ELSE draw
  /\ settle' = IF settle.pc = "idle" THEN [settle EXCEPT !.pc = "read"] ELSE settle
  /\ UNCHANGED <<game, now, resultNumber, adminVars, moneyVars, jobs, block>>

--------------------------------------------------------------------------------
(* processAllDrawDuePeriods()                                               *)

\* armHorizonMs(): how far ahead of the clock the task looks.
ArmHorizon == 1

\* ENDED periods too: those whose draw failed before they ended.  The query takes
\* the first fifty, more than the slots of an instance.
CandidatesActive ==
  {s \in Slots : /\ resultNumber[s] = NoResult
                 /\ status[s] = "ACTIVE"
                 /\ DrawTime(s) <= now + ArmHorizon}
Candidates ==
  {s \in Slots : /\ resultNumber[s] = NoResult
                 /\ status[s] \in {"ACTIVE", "ENDED"}
                 /\ DrawTime(s) <= now + ArmHorizon}

TrxListDue ==
  /\ draw.pc = "list"
  /\ \/ /\ draw' = IF Candidates = {} THEN IdleDraw
                   ELSE [draw EXCEPT !.pc = "sleep", !.todo = Candidates]
        /\ UNCHANGED faults
     \/ Fault("draw") /\ draw' = IdleDraw
  /\ UNCHANGED <<game, now, status, resultNumber, adminVars, moneyVars, jobs, lifecycle,
                 settle, block>>

\* It sleeps to the first deadline and keeps the periods that are due by then.
TrxWake ==
  LET ready == {s \in draw.todo : DrawTime(s) <= now} IN
  /\ draw.pc = "sleep"
  /\ ready # {}
  /\ draw' = [draw EXCEPT !.pc = "tip", !.todo = ready]
  /\ UNCHANGED <<tableVars, lifecycle, settle, block>>

\* getTipAtOrAfter(): one block for all of them, not older than the first draw less
\* the tolerance.  A node that lags yields the newest block it has or the cached one,
\* an error without a cached block ends the task.
TrxFetchTip ==
  LET minBlockTs == DrawTime(First(draw.todo)) - TipTolerance IN
  /\ draw.pc = "tip"
  /\ \/ \E b \in 0 .. now :
          /\ minBlockTs <= b /\ now - b <= 1
          /\ draw' = [draw EXCEPT !.pc = "store", !.tip = b]
          /\ UNCHANGED faults
     \/ \E b \in 0 .. minBlockTs - 1 :
          /\ Fault("tron")
          /\ draw' = [draw EXCEPT !.pc = "store", !.tip = b]
     \/ Fault("tron") /\ draw' = IdleDraw
  /\ UNCHANGED <<game, now, status, resultNumber, adminVars, moneyVars, jobs, lifecycle,
                 settle, block>>

\* processPeriodResult(): never early, never twice, never on a RESOLVED period.
MayStore(s) ==
  /\ resultNumber[s] = NoResult
  /\ status[s] # "RESOLVED"
  /\ DrawTime(s) <= now

TrxStoreResult ==
  LET s == First(draw.todo) IN
  /\ draw.pc = "store"
  /\ draw' = IF draw.todo = {s} THEN IdleDraw ELSE [draw EXCEPT !.todo = @ \ {s}]
  /\ \/ /\ MayStore(s)
        /\ resultNumber' = [resultNumber EXCEPT ![s] = Digit[draw.tip]]
        /\ block' = [block EXCEPT ![s] = draw.tip]
        /\ UNCHANGED faults
     \/ ~MayStore(s) /\ UNCHANGED <<resultNumber, block, faults>>
     \/ Fault("draw") /\ UNCHANGED <<resultNumber, block>>
  /\ UNCHANGED <<game, now, status, adminVars, moneyVars, jobs, lifecycle, settle>>

--------------------------------------------------------------------------------
(* settleAllEndedPeriodsWithResults()                                       *)

TrxSettles == {s \in Slots : status[s] = "ENDED" /\ resultNumber[s] # NoResult}

TrxSettleStart ==
  /\ settle.pc = "read"
  /\ \/ /\ settle' = [pc |-> "await", todo |-> TrxSettles]
        /\ jobs' = jobs \cup {Job(b, resultNumber[b.slot]) :
                                b \in UNION {PendingBets(s) : s \in TrxSettles}}
        /\ UNCHANGED faults
     \/ Fault("settle") /\ settle' = IdleSettle /\ UNCHANGED jobs
  /\ UNCHANGED <<game, now, status, resultNumber, adminVars, moneyVars, lifecycle, draw,
                 block>>

TrxSettleStep == (\E j \in jobs : TrxSettleBet(j)) /\ UNCHANGED <<lifecycle, draw, settle, block>>

\* The first settleBet that rejects ends the run; the others go on.
TrxSettleFails(j) ==
  /\ game = "trx"
  /\ j \in jobs
  /\ \/ ~NoResultRow(j) /\ UNCHANGED faults
     \/ NoResultRow(j) /\ Fault("settle")
  /\ IF j.run /\ settle.pc = "await"
     THEN settle' = IdleSettle /\ jobs' = Orphaned(jobs \ {j})
     ELSE jobs' = jobs \ {j} /\ UNCHANGED settle
  /\ UNCHANGED <<game, now, status, resultNumber, adminVars, moneyVars, lifecycle, draw,
                 block>>

TrxResolve ==
  /\ settle.pc = "await"
  /\ RunDone
  /\ settle' = IdleSettle
  /\ \/ /\ status' = [s \in Slots |-> IF s \in settle.todo THEN "RESOLVED" ELSE status[s]]
        /\ UNCHANGED faults
     \/ Fault("resolve") /\ UNCHANGED status
  /\ UNCHANGED <<game, now, resultNumber, adminVars, moneyVars, jobs, lifecycle, draw, block>>

TrxCrash ==
  /\ game = "trx"
  /\ Fault("crash")
  /\ lifecycle' = "idle"
  /\ draw' = IdleDraw
  /\ settle' = IdleSettle
  /\ jobs' = {}
  /\ UNCHANGED <<game, now, status, resultNumber, adminVars, moneyVars, block>>

--------------------------------------------------------------------------------

TrxLifecycle == TrxTick \/ TrxEndActivePeriods \/ TrxCreatePeriod
TrxDraw == TrxListDue \/ TrxWake \/ TrxFetchTip \/ TrxStoreResult

TronNext ==
  \/ TrxLifecycle
  \/ TrxDraw
  \/ TrxSettleStart
  \/ TrxSettleStep
  \/ \E j \in jobs : TrxSettleFails(j)
  \/ TrxResolve
  \/ TrxCrash

================================================================================
