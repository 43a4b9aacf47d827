------------------------------- MODULE CycleRound -------------------------------
(***************************************************************************)
(* K3, 5D and Moto: one scheduler per game runs one sequential cycle, end  *)
(* the periods that are over, make sure the current one exists, draw the   *)
(* ended ones, settle the drawn ones, and an in-memory flag keeps a tick   *)
(* from starting a second one.  K3 and 5D tick every second, Moto every    *)
(* half minute.                                                            *)
(***************************************************************************)
EXTENDS RoundTables

VARIABLE
  cycle   \* local state of runCycle(); "idle" is a false isTaskRunning

cycleVars == <<tableVars, cycle>>

IdleCycle == [pc |-> "idle", todo |-> {}, number |-> NoResult]

CycleInit == cycle = IdleCycle

At(pc) == cycle.pc = pc
Goto(pc) == cycle' = [IdleCycle EXCEPT !.pc = pc]

Expired == {s \in Slots : status[s] = "ACTIVE" /\ EndTime(s) <= now}
Earliest(S) == CHOOSE s \in S : \A t \in S : s <= t

--------------------------------------------------------------------------------
(* The tick of node-cron                                                    *)

StartCycle == At("idle") /\ Goto("end") /\ UNCHANGED tableVars

K3Tick    == game = "k3" /\ StartCycle
FiveDTick == game = "5d" /\ StartCycle

\* Moto starts at full half minutes only; the shortest table lasts that long.
MotoTick  == game = "moto" /\ now % SlotLen = 0 /\ StartCycle

--------------------------------------------------------------------------------
(* endActivePeriods()                                                       *)

\* One updateMany; an error is logged and the cycle goes on.
EndInOneUpdate ==
  /\ At("end")
  /\ Goto("create")
  /\ \/ /\ status' = [s \in Slots |-> IF s \in Expired THEN "ENDED" ELSE status[s]]
        /\ UNCHANGED faults
     \/ Fault("end") /\ UNCHANGED status
  /\ UNCHANGED <<game, now, resultNumber, adminVars, moneyVars, jobs>>

K3EndActivePeriods    == game = "k3" /\ EndInOneUpdate
FiveDEndActivePeriods == game = "5d" /\ EndInOneUpdate

\* Moto reads them and updates one by one; an error leaves the rest ACTIVE.
MotoEndActivePeriods ==
  /\ game = "moto"
  /\ At("end")
  /\ Goto("create")
  /\ \E done \in SUBSET Expired :
       /\ status' = [s \in Slots |-> IF s \in done THEN "ENDED" ELSE status[s]]
       /\ \/ done = Expired /\ UNCHANGED faults
          \/ done # Expired /\ Fault("end")
  /\ UNCHANGED <<game, now, resultNumber, adminVars, moneyVars, jobs>>

--------------------------------------------------------------------------------
(* createPeriodsForAllDurations()                                           *)

\* What the code does with the period it finds for the current slot.
Undrawn(s) == resultNumber[s] = NoResult
ReactivatedDrawn(s) == IF status[s] = "ENDED" THEN "ACTIVE" ELSE status[s]
Reactivated(s) == IF status[s] = "ENDED" /\ Undrawn(s) THEN "ACTIVE" ELSE status[s]
AsFound(s) == status[s]

CreateCurrent(Existing(_)) ==
  LET s == SlotAt(now) IN
  /\ At("create")
  /\ Goto("list")
  /\ \/ /\ status' = IF s \in Slots
                     THEN [status EXCEPT ![s] = IF @ = "NONE" THEN "ACTIVE" ELSE Existing(s)]
                     ELSE status
        /\ UNCHANGED faults
     \/ Fault("create") /\ UNCHANGED status
  /\ UNCHANGED <<game, now, resultNumber, adminVars, moneyVars, jobs>>

K3CreatePeriod    == game = "k3" /\ CreateCurrent(Reactivated)
FiveDCreatePeriod == game = "5d" /\ CreateCurrent(Reactivated)
MotoCreatePeriod  == game = "moto" /\ CreateCurrent(AsFound)

--------------------------------------------------------------------------------
(* processAllEndedPeriods()                                                 *)

\* The periods that are ENDED and not drawn; an error is logged.
ListUndrawn ==
  /\ At("list")
  /\ \/ /\ cycle' = [IdleCycle EXCEPT !.pc = "draw",
                       !.todo = {s \in Slots : status[s] = "ENDED" /\ Undrawn(s)}]
        /\ UNCHANGED faults
     \/ Fault("draw") /\ Goto("settle")
  /\ UNCHANGED <<game, now, status, resultNumber, adminVars, moneyVars, jobs>>

K3ListUndrawn    == game = "k3" /\ ListUndrawn
FiveDListUndrawn == game = "5d" /\ ListUndrawn
MotoListUndrawn  == game = "moto" /\ ListUndrawn

\* generateCompleteResult: the admin's result, if Redis gives it, else any.
Generate(s) ==
  /\ At("draw")
  /\ cycle.todo # {}
  /\ s = Earliest(cycle.todo)
  /\ status[s] = "ENDED"
  /\ \/ /\ Predetermined(s) # NoResult
        /\ cycle' = [cycle EXCEPT !.pc = "consume", !.number = Predetermined(s)]
        /\ UNCHANGED faults
     \/ \E n \in Numbers :
          /\ cycle' = [cycle EXCEPT !.pc = "store", !.number = n]
          /\ \/ Predetermined(s) = NoResult /\ UNCHANGED faults
             \/ Predetermined(s) # NoResult /\ Fault("redis")
  /\ UNCHANGED <<game, now, status, resultNumber, adminVars, moneyVars, jobs>>

\* ResultSetter.del, which keeps an error to itself.
ConsumeAdminResult ==
  LET s == Earliest(cycle.todo) IN
  /\ At("consume")
  /\ cycle' = [cycle EXCEPT !.pc = "store"]
  /\ \/ adminResult' = [adminResult EXCEPT ![s] = NoResult] /\ UNCHANGED faults
     \/ Fault("redis") /\ UNCHANGED adminResult
  /\ UNCHANGED <<game, now, status, resultNumber, adminRequest, accepted, moneyVars, jobs>>

\* The update carries no condition; an error leaves the period to the next cycle,
\* by which time the admin's result is gone.
StoreResult ==
  LET s == Earliest(cycle.todo) IN
  /\ At("store")
  /\ cycle' = [cycle EXCEPT !.pc = "draw", !.todo = @ \ {s}, !.number = NoResult]
  /\ \/ resultNumber' = [resultNumber EXCEPT ![s] = cycle.number] /\ UNCHANGED faults
     \/ Fault("draw") /\ UNCHANGED resultNumber
  /\ UNCHANGED <<game, now, status, adminVars, moneyVars, jobs>>

K3ProcessPeriodResult ==
  game = "k3" /\ (ConsumeAdminResult \/ StoreResult \/ \E s \in Slots : Generate(s))

\* 5D also looks for a stored result before it draws.
FiveDProcessPeriodResult ==
  /\ game = "5d"
  /\ \/ ConsumeAdminResult
     \/ StoreResult
     \/ \E s \in Slots : Undrawn(s) /\ Generate(s)

\* Moto's admin results are only ever written by hand: setResults refuses them.
MotoProcessPeriodResult ==
  game = "moto" /\ (StoreResult \/ \E s \in Slots : Generate(s))

DrawsDone ==
  /\ At("draw")
  /\ cycle.todo = {}
  /\ Goto("settle")
  /\ UNCHANGED tableVars

--------------------------------------------------------------------------------
(* settleAllEndedPeriodsWithResults()                                       *)

\* The periods the run reads, with their PENDING bets.
Drawn(s) == status[s] = "ENDED" /\ resultNumber[s] # NoResult
K3Settles == {s \in Slots : Drawn(s)}
FiveDSettles == {s \in Slots : Drawn(s) /\ PendingBets(s) # {}}
MotoSettles == {s \in Slots : Drawn(s)}

Settles == CASE game = "k3" -> K3Settles [] game = "5d" -> FiveDSettles
             [] game = "moto" -> MotoSettles

\* The read and the illegal-bet check of its bets; an error ends the run.
SettleStart ==
  /\ game # "trx"
  /\ At("settle")
  /\ \/ /\ cycle' = [IdleCycle EXCEPT !.pc = "await", !.todo = Settles]
        /\ jobs' = jobs \cup {Job(b, resultNumber[b.slot]) :
                                b \in UNION {PendingBets(s) : s \in Settles}}
        /\ UNCHANGED faults
     \/ Fault("settle") /\ Goto("idle") /\ UNCHANGED jobs
  /\ UNCHANGED <<game, now, status, resultNumber, adminVars, moneyVars>>

SettleStep ==
  /\ \E j \in jobs : K3SettleBet(j) \/ MotoSettleBet(j) \/ FiveDRecord(j) \/ FiveDPay(j)
  /\ UNCHANGED cycle

\* A settleBet rejects: the row exists, or the database fails.  Promise.all
\* rejects with it, the run ends, and its other jobs are left to themselves.
SettleFails(j) ==
  /\ game # "trx"
  /\ j \in jobs
  /\ \/ j.pc = "record" /\ ~NoResultRow(j) /\ UNCHANGED faults
     \/ j.pc = "record" /\ NoResultRow(j) /\ Fault("settle")
     \/ j.pc = "pay" /\ Fault("pay")
  /\ IF j.run /\ At("await")
     THEN Goto("idle") /\ jobs' = Orphaned(jobs \ {j})
     ELSE jobs' = jobs \ {j} /\ UNCHANGED cycle
  /\ UNCHANGED <<game, now, status, resultNumber, adminVars, moneyVars>>

\* K3 and Moto resolve every period the run has read, 5D those that have no
\* PENDING bet by now.
K3Resolves == cycle.todo
FiveDResolves == {s \in cycle.todo : PendingBets(s) = {}}
MotoResolves == cycle.todo

Resolves == CASE game = "k3" -> K3Resolves [] game = "5d" -> FiveDResolves
              [] game = "moto" -> MotoResolves

ResolvePeriods ==
  /\ game # "trx"
  /\ At("await")
  /\ RunDone
  /\ Goto("idle")
  /\ \/ /\ status' = [s \in Slots |-> IF s \in Resolves THEN "RESOLVED" ELSE status[s]]
        /\ UNCHANGED faults
     \/ Fault("resolve") /\ UNCHANGED status
  /\ UNCHANGED <<game, now, resultNumber, adminVars, moneyVars, jobs>>

\* The engine dies and starts again: only the database and Redis survive.
CycleCrash ==
  /\ game # "trx"
  /\ Fault("crash")
  /\ Goto("idle")
  /\ jobs' = {}
  /\ UNCHANGED <<game, now, status, resultNumber, adminVars, moneyVars>>

--------------------------------------------------------------------------------

K3Cycle == K3Tick \/ K3EndActivePeriods \/ K3CreatePeriod \/ K3ListUndrawn
             \/ K3ProcessPeriodResult
FiveDCycle == FiveDTick \/ FiveDEndActivePeriods \/ FiveDCreatePeriod
                \/ FiveDListUndrawn \/ FiveDProcessPeriodResult
MotoCycle == MotoTick \/ MotoEndActivePeriods \/ MotoCreatePeriod
               \/ MotoListUndrawn \/ MotoProcessPeriodResult

CycleStep == K3Cycle \/ FiveDCycle \/ MotoCycle \/ DrawsDone
               \/ SettleStart \/ ResolvePeriods

CycleNext ==
  \/ CycleStep
  \/ SettleStep
  \/ \E j \in jobs : SettleFails(j)
  \/ CycleCrash

================================================================================
