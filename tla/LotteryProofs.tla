------------------------------ MODULE LotteryProofs ------------------------------
(***************************************************************************)
(* What a table of K3, 5D, Moto or TRX Win Go promises, for any players,   *)
(* bets, numbers, time line and failures.                                  *)
(*                                                                         *)
(* The argument has layers, each on the ones before: the types; how far a  *)
(* period is and which tasks may hold it; what the rows of a bet and the   *)
(* settleBet calls in flight say of each other; and, when no place-bet     *)
(* request outlasts the draw of its slot, that the book of a period is     *)
(* closed before its draw and settled before it is resolved.               *)
(***************************************************************************)
EXTENDS Lottery, WellFoundedInduction, TLAPS

--------------------------------------------------------------------------------
(* Types                                                                    *)

Results == Numbers \cup {NoResult}
CycleStates == [pc : {"idle", "end", "create", "list", "draw", "consume", "store", "settle", "await"},
                todo : SUBSET Slots, number : Results]
DrawStates == [pc : {"idle", "list", "sleep", "tip", "store"}, todo : SUBSET Slots,
               tip : (0 .. MaxTime) \cup {NoBlock}]
SettleStates == [pc : {"idle", "read", "await"}, todo : SUBSET Slots]
Jobs == [bet : Bets, number : Numbers, pc : {"record", "pay"}, run : BOOLEAN]

\* The tables, and what the requests and settlements have in memory.
TableTypes ==
  /\ game \in {"k3", "5d", "moto", "trx"} /\ game \in Games
  /\ now \in 0 .. MaxTime
  /\ status \in [Slots -> {"NONE", "ACTIVE", "ENDED", "RESOLVED"}]
  /\ resultNumber \in [Slots -> Results]
  /\ adminResult \in [Slots -> Results]
  /\ accepted \in [Slots -> Results]
  /\ adminRequest \in [slot : Slots, number : Results]
  /\ bet \in [Bets -> {"none", "checked", "PENDING", "WON", "LOST"}]
  /\ betResult \in [Bets -> Nat \cup {NoRow}]
  /\ paid \subseteq Bets
  /\ balance \in [Users -> Nat]
  /\ jobs \subseteq Jobs
  /\ faults \in 0 .. MaxFaults

\* The tasks of the engine; a task that stores a result has a slot to store it in.
TaskTypes ==
  /\ cycle \in CycleStates
  /\ cycle.pc \in {"consume", "store"} => (cycle.todo # {} /\ cycle.number \in Numbers)
  /\ lifecycle \in {"idle", "end", "create"}
  /\ draw \in DrawStates
  /\ draw.pc \in {"tip", "store"} =>
       (draw.todo # {} /\ \A s \in draw.todo : DrawTime(s) <= MaxTime)
  /\ draw.pc = "store" => draw.tip \in 0 .. MaxTime
  /\ settle \in SettleStates
  /\ block \in [Slots -> (0 .. MaxTime) \cup {NoBlock}]

\* The scheduler of one game runs: a table of TRX has no cycle, another no TRX task.
OneScheduler ==
  /\ game = "trx" => cycle = IdleCycle
  /\ game # "trx" => (lifecycle = "idle" /\ draw = IdleDraw /\ settle = IdleSettle)

Typed == TableTypes /\ TaskTypes /\ OneScheduler

\* Slots are numbers, and a period is drawn at its end or before it, in its lock.
LEMMA Timeline ==
  /\ 0 \in Slots /\ Slots \subseteq Nat
  /\ \A s \in Slots : /\ StartTime(s) \in Nat /\ EndTime(s) \in Nat /\ LockTime(s) \in Nat
                      /\ DrawTime(s) \in Nat
                      /\ LockTime(s) < DrawTime(s) /\ DrawTime(s) <= EndTime(s)
  /\ NoRow \notin Nat /\ NoBlock \notin Nat
<1>1. 0 \in Slots /\ Slots \subseteq Nat
  BY TablesAssumption DEF Slots
<1>2. ASSUME NEW s \in Slots
      PROVE  s * SlotLen \in Nat /\ s * SlotLen + SlotLen \in Nat
  BY <1>1, TablesAssumption
<1>3. ASSUME NEW s \in Slots
      PROVE  /\ StartTime(s) \in Nat /\ EndTime(s) \in Nat /\ LockTime(s) \in Nat
             /\ DrawTime(s) \in Nat
             /\ LockTime(s) < DrawTime(s) /\ DrawTime(s) <= EndTime(s)
  <2> DEFINE start == s * SlotLen
  <2>1. start \in Nat
    BY <1>2
  <2> HIDE DEF start
  <2> QED
    BY <2>1, TablesAssumption DEF StartTime, EndTime, LockTime, DrawTime, TrxDrawTime, start
<1> QED
  BY <1>1, <1>3 DEF NoRow, NoBlock

\* A set of slots has an earliest one, and that is what the tasks take first.
LEMMA LeastSlot ==
  ASSUME NEW S, S \subseteq Slots, S # {}
  PROVE  Earliest(S) \in S /\ First(S) \in S
<1>1. S \subseteq Nat
  BY Timeline
<1> DEFINE less == OpToRel(<, Nat)
<1>2. IsWellFoundedOn(less, Nat)
  BY NatLessThanWellFounded
<1>3. less = {p \in Nat \X Nat : p[1] < p[2]}
  BY DEF OpToRel
<1> HIDE DEF less
<1>4. \E s \in S : \A t \in S : ~(<<t, s>> \in less)
  BY <1>1, <1>2, WFMin
<1>5. \A s, t \in Nat : t < s => <<t, s>> \in less
  <2> TAKE s, t \in Nat
  <2>1. <<t, s>> \in Nat \X Nat /\ <<t, s>>[1] = t /\ <<t, s>>[2] = s
    OBVIOUS
  <2> QED
    BY <1>3, <2>1
<1>6. \E s \in S : \A t \in S : s <= t
  <2>1. PICK s \in S : \A t \in S : ~(<<t, s>> \in less)
    BY <1>4
  <2>2. ASSUME NEW t \in S PROVE s <= t
    <3>1. s \in Nat /\ t \in Nat /\ ~(t < s)
      BY <1>1, <1>5, <2>1
    <3> QED
      BY <3>1
  <2> QED
    BY <2>2
<1> QED
  BY <1>6 DEF Earliest, First

LEMMA IdleStates ==
  /\ IdleCycle \in CycleStates /\ IdleCycle.pc = "idle" /\ IdleCycle.todo = {}
  /\ IdleDraw \in DrawStates /\ IdleDraw.pc = "idle"
  /\ IdleSettle \in SettleStates /\ IdleSettle.pc = "idle"
  /\ NoRequest \in [slot : Slots, number : Results]
BY Timeline
   DEF IdleCycle, CycleStates, IdleDraw, DrawStates, IdleSettle, SettleStates, NoRequest, Results

\* What a bet earns is a natural number.
LEMMA Earns ==
  ASSUME NEW b \in Bets
  PROVE  b.user \in Users /\ b.slot \in Slots /\ \A n \in Numbers : WinAmount(b, n) \in Nat
BY TablesAssumption DEF WinAmount

LEMMA FaultCounted ==
  ASSUME faults \in 0 .. MaxFaults, NEW kind, Fault(kind)
  PROVE  faults' \in 0 .. MaxFaults
BY TablesAssumption DEF Fault

LEMMA TypeInit == Init => Typed
<1> SUFFICES ASSUME Init PROVE Typed
  OBVIOUS
<1> USE DEF Init, TablesInit, CycleInit, TronInit
<1>1. TableTypes
  BY Timeline, IdleStates, TablesAssumption DEF TableTypes, Results
<1>2. TaskTypes
  BY Timeline, IdleStates DEF TaskTypes
<1> QED
  BY <1>1, <1>2 DEF Typed, OneScheduler

\* Place-bet requests, and a stake is only taken from an account that covers it.
LEMMA TypeBet ==
  ASSUME TableTypes, NEW b \in Bets, CheckBet(b) \/ CommitBet(b) \/ DropBet(b)
  PROVE  TableTypes'
<1> USE DEF TableTypes, adminVars
<1>1. CASE CheckBet(b)
  BY <1>1 DEF CheckBet
<1>2. CASE CommitBet(b)
  <2>1. CASE Covers(b)
    <3>1. balance' = [balance EXCEPT ![b.user] = @ - Stake] /\ balance[b.user] >= Stake
      BY <1>2, <2>1 DEF CommitBet, Covers
    <3>2. balance[b.user] - Stake \in Nat
      BY <3>1, Earns, TablesAssumption
    <3>3. balance' \in [Users -> Nat]
      BY <3>1, <3>2
    <3> QED
      BY <1>2, <2>1, <3>3 DEF CommitBet
  <2>2. CASE ~Covers(b)
    BY <1>2, <2>2 DEF CommitBet
  <2> QED
    BY <2>1, <2>2
<1>3. CASE DropBet(b)
  BY <1>3, FaultCounted DEF DropBet
<1> QED
  BY <1>1, <1>2, <1>3

LEMMA TypeAdmin ==
  ASSUME TableTypes, SetResults
  PROVE  TableTypes'
<1> USE DEF TableTypes, moneyVars
<1>1. ASSUME NEW s \in Slots, NEW n \in Numbers, AdminCheck(s, n) PROVE TableTypes'
  BY <1>1 DEF AdminCheck, Results
<1>2. CASE AdminWrite
  <2>1. faults' \in 0 .. MaxFaults
    BY <1>2, FaultCounted DEF AdminWrite
  <2>2. adminResult' \in [Slots -> Results] /\ accepted' \in [Slots -> Results]
    BY <1>2 DEF AdminWrite
  <2> QED
    BY <1>2, <2>1, <2>2, IdleStates DEF AdminWrite
<1> QED
  BY <1>1, <1>2 DEF SetResults

LEMMA TypeClock ==
  ASSUME TableTypes, Tick \/ ClockBack
  PROVE  TableTypes'
<1> USE DEF TableTypes, moneyVars, adminVars
<1>1. CASE Tick
  BY <1>1, TablesAssumption DEF Tick
<1>2. CASE ClockBack
  BY <1>2, FaultCounted, TablesAssumption DEF ClockBack
<1> QED
  BY <1>1, <1>2

\* settleBet() of any game.
LEMMA TypeSettle ==
  ASSUME TableTypes, NEW j \in jobs, SettleInOne(j) \/ FiveDRecord(j) \/ FiveDPay(j)
  PROVE  TableTypes'
<1> USE DEF TableTypes, adminVars
<1>1. j \in Jobs /\ j.bet \in Bets /\ j.number \in Numbers
  BY DEF Jobs
<1>2. WinAmount(j.bet, j.number) \in Nat /\ j.bet.user \in Users
  BY <1>1, Earns
<1>3. [j EXCEPT !.pc = "pay"] \in Jobs
  BY <1>1 DEF Jobs
<1> HIDE DEF TableTypes
<1>4. [balance EXCEPT ![j.bet.user] = @ + WinAmount(j.bet, j.number)] \in [Users -> Nat]
  BY <1>2 DEF TableTypes
<1>5. [betResult EXCEPT ![j.bet] = WinAmount(j.bet, j.number)] \in [Bets -> Nat \cup {NoRow}]
  BY <1>1, <1>2 DEF TableTypes
<1>6. CASE SettleInOne(j)
  BY <1>1, <1>4, <1>5, <1>6 DEF SettleInOne, TableTypes
<1>7. CASE FiveDRecord(j)
  <2>1. jobs' \subseteq Jobs /\ paid' \subseteq Bets
    BY <1>1, <1>3, <1>7 DEF FiveDRecord, TableTypes
  <2> QED
    BY <1>1, <1>5, <1>7, <2>1 DEF FiveDRecord, TableTypes
<1>8. CASE FiveDPay(j)
  BY <1>1, <1>4, <1>8 DEF FiveDPay, TableTypes
<1> QED
  BY <1>6, <1>7, <1>8

\* The rows the steps of the engine write besides: the status and the result of a
\* period, the admin's result, and the calls of a settlement.
LEMMA TypeEngine ==
  ASSUME TableTypes, UNCHANGED <<game, now, adminRequest, accepted, moneyVars>>,
         status' \in [Slots -> {"NONE", "ACTIVE", "ENDED", "RESOLVED"}],
         resultNumber' \in [Slots -> Results], adminResult' \in [Slots -> Results],
         jobs' \subseteq Jobs, faults' \in 0 .. MaxFaults
  PROVE  TableTypes'
BY DEF TableTypes, moneyVars

--------------------------------------------------------------------------------
(* The steps of the engine as the tables show them, whatever the game       *)

Statuses == {"NONE", "ACTIVE", "ENDED", "RESOLVED"}

\* What no step of the engine writes, settleBet excepted.
RowsKept == UNCHANGED <<game, now, adminRequest, accepted, moneyVars>> /\ faults' \in 0 .. MaxFaults

\* Only the status of periods is written, and as Change says.
OnlyStatus == UNCHANGED <<resultNumber, adminResult, jobs>> /\ RowsKept

\* endActivePeriods() ends periods that are over.
Ends ==
  /\ OnlyStatus
  /\ status' \in [Slots -> Statuses]
  /\ \A s \in Slots :
       \/ status'[s] = status[s]
       \/ status[s] = "ACTIVE" /\ EndTime(s) <= now /\ status'[s] = "ENDED"

\* A period comes into being, or one that is ENDED and not drawn is taken back.
Creates ==
  /\ OnlyStatus
  /\ status' \in [Slots -> Statuses]
  /\ \A s \in Slots :
       \/ status'[s] = status[s]
       \/ status[s] = "NONE" /\ status'[s] = "ACTIVE"
       \/ game # "trx" /\ status[s] = "ENDED" /\ Undrawn(s) /\ status'[s] = "ACTIVE"

\* A run resolves periods it has read.
ResolvesSome(done) ==
  /\ OnlyStatus
  /\ status' \in [Slots -> Statuses]
  /\ \A s \in Slots :
       \/ status'[s] = status[s]
       \/ s \in done /\ status'[s] = "RESOLVED"

\* A result is stored in a period.
Stores(s, n) ==
  /\ resultNumber' = [resultNumber EXCEPT ![s] = n]
  /\ UNCHANGED <<status, adminResult, jobs>>
  /\ RowsKept

\* A run starts the settlement of the PENDING bets of the periods it has read.
StartsJobs(S) ==
  /\ jobs' = jobs \cup {Job(b, resultNumber[b.slot]) : b \in UNION {PendingBets(s) : s \in S}}
  /\ UNCHANGED <<status, resultNumber, adminResult>>
  /\ RowsKept

\* Calls of settleBet are given up, or left to themselves.
DropsJobs ==
  /\ \A j \in jobs' : \E i \in jobs : j.bet = i.bet /\ j.number = i.number /\ j.pc = i.pc
                                      /\ (j = i \/ j = [i EXCEPT !.run = FALSE])
  /\ jobs' \subseteq Jobs
  /\ jobs' \subseteq jobs \/ \A j \in jobs' : ~j.run
  /\ UNCHANGED <<status, resultNumber, adminResult>>
  /\ RowsKept

\* The tables do not show the step; an admin's result may have been deleted.
Quiet ==
  /\ UNCHANGED <<status, resultNumber, jobs>>
  /\ adminResult' \in [Slots -> Results]
  /\ RowsKept

LEMMA TypeEffects ==
  ASSUME TableTypes,
         \/ Ends \/ Creates \/ Quiet \/ DropsJobs
         \/ \E S : ResolvesSome(S)
         \/ \E s \in Slots, n \in Numbers : Stores(s, n)
         \/ \E S : StartsJobs(S) /\ S \subseteq {s \in Slots : Drawn(s)}
  PROVE  TableTypes'
<1> USE DEF RowsKept, OnlyStatus
<1>1. CASE Ends \/ Creates \/ \E S : ResolvesSome(S)
  BY <1>1, TypeEngine DEF Ends, Creates, ResolvesSome, TableTypes, Statuses
<1>2. CASE Quiet
  BY <1>2, TypeEngine DEF Quiet, TableTypes
<1>3. CASE DropsJobs
  BY <1>3, TypeEngine DEF DropsJobs, TableTypes
<1>4. ASSUME NEW s \in Slots, NEW n \in Numbers, Stores(s, n) PROVE TableTypes'
  <2>1. resultNumber' \in [Slots -> Results]
    BY <1>4 DEF Stores, TableTypes, Results
  <2> QED
    BY <1>4, <2>1, TypeEngine DEF Stores, TableTypes
<1>5. ASSUME NEW S, StartsJobs(S), S \subseteq {s \in Slots : Drawn(s)} PROVE TableTypes'
  <2>1. ASSUME NEW b \in Bets, b.slot \in S
        PROVE  Job(b, resultNumber[b.slot]) \in Jobs
    BY <1>5, <2>1 DEF Job, Jobs, Drawn, TableTypes, Results
  <2>2. jobs' \subseteq Jobs
    BY <1>5, <2>1 DEF StartsJobs, PendingBets, TableTypes
  <2> QED
    BY <1>5, <2>2, TypeEngine DEF StartsJobs, TableTypes
<1> QED
  BY <1>1, <1>2, <1>3, <1>4, <1>5

--------------------------------------------------------------------------------
(* The cycle of K3, 5D and Moto                                             *)

\* A tick starts a cycle, which ends the periods that are over ...
CycleEnds ==
  /\ At("end") /\ Goto("create")
  /\ Ends

\* ... creates the current one ...
CycleCreates ==
  /\ At("create") /\ Goto("list")
  /\ Creates

LEMMA CycleEndSteps ==
  ASSUME Typed, K3EndActivePeriods \/ FiveDEndActivePeriods \/ MotoEndActivePeriods
  PROVE  CycleEnds
<1> USE DEF Typed, TableTypes
<1>1. faults' \in 0 .. MaxFaults /\ UNCHANGED <<resultNumber, adminResult, jobs>>
      /\ UNCHANGED <<game, now, adminRequest, accepted, moneyVars>>
  BY FaultCounted
  DEF K3EndActivePeriods, FiveDEndActivePeriods, EndInOneUpdate, MotoEndActivePeriods, adminVars
<1>2. CASE EndInOneUpdate
  BY <1>1, <1>2 DEF EndInOneUpdate, CycleEnds, Ends, OnlyStatus, RowsKept, Expired, Statuses
<1>3. CASE MotoEndActivePeriods
  BY <1>1, <1>3 DEF MotoEndActivePeriods, CycleEnds, Ends, OnlyStatus, RowsKept, Expired, Statuses
<1> QED
  BY <1>2, <1>3 DEF K3EndActivePeriods, FiveDEndActivePeriods

LEMMA CycleCreateSteps ==
  ASSUME Typed, K3CreatePeriod \/ FiveDCreatePeriod \/ MotoCreatePeriod
  PROVE  CycleCreates
<1> USE DEF Typed, TableTypes
<1> DEFINE s == SlotAt(now)
<1>1. /\ faults' \in 0 .. MaxFaults /\ UNCHANGED <<resultNumber, adminResult, jobs>>
      /\ UNCHANGED <<game, now, adminRequest, accepted, moneyVars>>
      /\ At("create") /\ Goto("list") /\ game # "trx"
  BY FaultCounted DEF K3CreatePeriod, FiveDCreatePeriod, MotoCreatePeriod, CreateCurrent, adminVars
<1>2. \/ status' = status
      \/ s \in Slots /\ status' = [status EXCEPT ![s] = IF @ = "NONE" THEN "ACTIVE" ELSE Reactivated(s)]
      \/ s \in Slots /\ status' = [status EXCEPT ![s] = IF @ = "NONE" THEN "ACTIVE" ELSE AsFound(s)]
  BY DEF K3CreatePeriod, FiveDCreatePeriod, MotoCreatePeriod, CreateCurrent
<1> HIDE DEF s
<1>3. Creates
  BY <1>1, <1>2 DEF Creates, OnlyStatus, RowsKept, Statuses, Reactivated, AsFound
<1> QED
  BY <1>1, <1>3 DEF CycleCreates

\* ... and lists the periods that are ENDED and not drawn.
CycleLists ==
  /\ At("list")
  /\ \/ cycle' = [IdleCycle EXCEPT !.pc = "draw", !.todo = {s \in Slots : status[s] = "ENDED" /\ Undrawn(s)}]
     \/ Goto("settle")
  /\ Quiet

LEMMA CycleListSteps ==
  ASSUME Typed, K3ListUndrawn \/ FiveDListUndrawn \/ MotoListUndrawn
  PROVE  CycleLists
BY FaultCounted
DEF Typed, TableTypes, K3ListUndrawn, FiveDListUndrawn, MotoListUndrawn, ListUndrawn, CycleLists,
    Quiet, RowsKept, adminVars

\* The earliest of them gets a number ...
CycleGenerates ==
  /\ At("draw") /\ cycle.todo # {}
  /\ \E n \in Numbers, pc \in {"consume", "store"} : cycle' = [cycle EXCEPT !.pc = pc, !.number = n]
  /\ Quiet

\* ... which is an admin's and deleted in Redis first, or any ...
CycleConsumes ==
  /\ At("consume")
  /\ cycle' = [cycle EXCEPT !.pc = "store"]
  /\ Quiet

\* ... and is stored, unless the database fails.
CycleStores ==
  LET s == Earliest(cycle.todo) IN
  /\ At("store")
  /\ cycle' = [cycle EXCEPT !.pc = "draw", !.todo = @ \ {s}, !.number = NoResult]
  /\ Stores(s, cycle.number) \/ Quiet

LEMMA CycleDrawSteps ==
  ASSUME Typed, K3ProcessPeriodResult \/ FiveDProcessPeriodResult \/ MotoProcessPeriodResult
  PROVE  CycleGenerates \/ CycleConsumes \/ CycleStores
<1> USE FaultCounted DEF Typed, TableTypes, RowsKept, Quiet
<1>1. CASE ConsumeAdminResult
  BY <1>1 DEF ConsumeAdminResult, CycleConsumes, Results, moneyVars
<1>2. CASE StoreResult
  BY <1>2 DEF StoreResult, CycleStores, Stores, adminVars
<1>3. ASSUME NEW s \in Slots, Generate(s) PROVE CycleGenerates
  <2>1. Predetermined(s) # NoResult => Predetermined(s) \in Numbers
    BY DEF Predetermined, Results
  <2>2. UNCHANGED <<game, now, adminRequest, accepted, moneyVars, status, resultNumber, jobs, adminResult>>
        /\ faults' \in 0 .. MaxFaults
    BY <1>3 DEF Generate, adminVars
  <2>3. At("draw") /\ cycle.todo # {}
        /\ \E n \in Numbers, pc \in {"consume", "store"} : cycle' = [cycle EXCEPT !.pc = pc, !.number = n]
    BY <1>3, <2>1 DEF Generate
  <2> QED
    BY <2>2, <2>3 DEF CycleGenerates
<1> QED
  BY <1>1, <1>2, <1>3 DEF K3ProcessPeriodResult, FiveDProcessPeriodResult, MotoProcessPeriodResult

\* The settle run starts with the drawn periods ...
CycleSettles ==
  /\ At("settle") /\ game # "trx"
  /\ \/ /\ cycle' = [IdleCycle EXCEPT !.pc = "await", !.todo = Settles]
        /\ StartsJobs(Settles)
     \/ Goto("idle") /\ Quiet

\* ... is given up when one of its bets rejects ...
CycleFails ==
  /\ game # "trx"
  /\ DropsJobs
  /\ \/ Goto("idle")
     \/ UNCHANGED cycle /\ \A j \in jobs : (j.run /\ At("await")) => j \in jobs'

\* ... and resolves periods when all of them are done.
CycleResolves ==
  /\ At("await") /\ game # "trx" /\ RunDone
  /\ Goto("idle")
  /\ ResolvesSome(Resolves)

LEMMA SettlesDrawn ==
  ASSUME Typed, game # "trx"
  PROVE  Settles \subseteq {s \in Slots : Drawn(s)}
BY DEF Typed, TableTypes, Settles, K3Settles, FiveDSettles, MotoSettles

LEMMA CycleSettleSteps ==
  ASSUME Typed, SettleStart \/ ResolvePeriods
  PROVE  CycleSettles \/ CycleResolves
<1> USE FaultCounted DEF Typed, TableTypes, RowsKept, adminVars
<1>1. CASE SettleStart
  <2>1. UNCHANGED <<game, now, adminRequest, accepted, moneyVars, status, resultNumber, adminResult>>
        /\ faults' \in 0 .. MaxFaults
    BY <1>1 DEF SettleStart
  <2> QED
    BY <1>1, <2>1 DEF SettleStart, CycleSettles, Quiet, StartsJobs
<1>2. CASE ResolvePeriods
  BY <1>2 DEF ResolvePeriods, CycleResolves, ResolvesSome, OnlyStatus, Statuses
<1> QED
  BY <1>1, <1>2

LEMMA OrphanedJobs ==
  ASSUME NEW js, js \subseteq Jobs
  PROVE  Orphaned(js) \subseteq Jobs
         /\ (\A j \in Orphaned(js) : ~j.run)
         /\ \A j \in Orphaned(js) : \E i \in js : /\ j = [i EXCEPT !.run = FALSE]
                                                  /\ j.bet = i.bet /\ j.number = i.number /\ j.pc = i.pc
BY DEF Orphaned, Jobs

LEMMA CycleFailSteps ==
  ASSUME Typed, NEW j \in jobs, SettleFails(j)
  PROVE  CycleFails
<1> USE FaultCounted DEF Typed, TableTypes, RowsKept, adminVars
<1>1. UNCHANGED <<game, now, adminRequest, accepted, moneyVars, status, resultNumber, adminResult>>
      /\ faults' \in 0 .. MaxFaults /\ game # "trx"
  BY DEF SettleFails
<1>2. jobs' = Orphaned(jobs \ {j}) \/ jobs' = jobs \ {j}
  BY DEF SettleFails
<1>3. DropsJobs
  <2>1. jobs \ {j} \subseteq Jobs
    OBVIOUS
  <2> QED
    BY <1>1, <1>2, <2>1, OrphanedJobs DEF DropsJobs
<1>4. \/ Goto("idle")
      \/ UNCHANGED cycle /\ \A i \in jobs : (i.run /\ At("await")) => i \in jobs'
  BY DEF SettleFails
<1> QED
  BY <1>1, <1>3, <1>4 DEF CycleFails

\* A cycle that starts, is done with drawing, or dies with its process.
CyclePasses ==
  /\ game # "trx"
  /\ \/ At("idle") /\ Goto("end") /\ Quiet
     \/ At("draw") /\ Goto("settle") /\ Quiet
     \/ Goto("idle") /\ jobs' = {} /\ DropsJobs

LEMMA CyclePassSteps ==
  ASSUME Typed, K3Tick \/ FiveDTick \/ MotoTick \/ DrawsDone \/ CycleCrash
  PROVE  CyclePasses
<1> USE FaultCounted DEF Typed, TableTypes, RowsKept, adminVars, tableVars
<1>1. CASE K3Tick \/ FiveDTick \/ MotoTick
  BY <1>1 DEF K3Tick, FiveDTick, MotoTick, StartCycle, CyclePasses, Quiet
<1>2. CASE DrawsDone
  BY <1>2 DEF DrawsDone, CyclePasses, Quiet, OneScheduler, IdleCycle, At
<1>3. CASE CycleCrash
  BY <1>3 DEF CycleCrash, CyclePasses, DropsJobs
<1> QED
  BY <1>1, <1>2, <1>3

\* A call of settleBet of any game.
SettlesBet(j) == SettleInOne(j) \/ FiveDRecord(j) \/ FiveDPay(j)

LEMMA CycleCases ==
  ASSUME Typed, CycleNext
  PROVE  \/ CycleEnds \/ CycleCreates \/ CycleLists
         \/ CycleGenerates \/ CycleConsumes \/ CycleStores
         \/ CycleSettles \/ CycleFails \/ CycleResolves \/ CyclePasses
         \/ UNCHANGED cycle /\ \E j \in jobs : SettlesBet(j)
<1>1. CASE SettleStep
  BY <1>1 DEF SettleStep, SettlesBet, K3SettleBet, MotoSettleBet
<1>2. CASE CycleStep
  BY <1>2, CycleEndSteps, CycleCreateSteps, CycleListSteps, CycleDrawSteps, CycleSettleSteps,
     CyclePassSteps DEF CycleStep, K3Cycle, FiveDCycle, MotoCycle
<1>3. CASE CycleCrash
  BY <1>3, CyclePassSteps
<1>4. CASE \E j \in jobs : SettleFails(j)
  BY <1>4, CycleFailSteps
<1> QED
  BY <1>1, <1>2, <1>3, <1>4 DEF CycleNext

--------------------------------------------------------------------------------
(* The tasks of TRX Win Go                                                  *)

\* safeCycle() ends what is over, creates the current period, and starts the draw and
\* the settlement when they do not run.
TrxHandsOver ==
  /\ \/ lifecycle = "idle" /\ lifecycle' = "end" /\ Quiet /\ UNCHANGED <<draw, settle>>
     \/ lifecycle = "end" /\ lifecycle' = "create" /\ Ends /\ UNCHANGED <<draw, settle>>
     \/ /\ lifecycle = "create" /\ lifecycle' = "idle" /\ Creates
        /\ draw' = IF draw.pc = "idle" THEN [draw EXCEPT !.pc = "list"] ELSE draw
        /\ settle' = IF settle.pc = "idle" THEN [settle EXCEPT !.pc = "read"] ELSE settle
  /\ game = "trx" /\ UNCHANGED block

LEMMA TrxLifecycleSteps ==
  ASSUME Typed, TrxLifecycle
  PROVE  TrxHandsOver
<1> USE FaultCounted DEF Typed, TableTypes, RowsKept, adminVars, tableVars
<1>1. CASE TrxTick
  BY <1>1 DEF TrxTick, TrxHandsOver, Quiet
<1>2. CASE TrxEndActivePeriods
  <2>1. Ends
    BY <1>2 DEF TrxEndActivePeriods, Ends, OnlyStatus, Statuses
  <2> QED
    BY <1>2, <2>1 DEF TrxEndActivePeriods, TrxHandsOver, OneScheduler
<1>3. CASE TrxCreatePeriod
  <2>1. Creates
    <3> DEFINE s == SlotAt(now)
    <3>1. \/ status' = status
          \/ s \in Slots /\ status[s] = "NONE" /\ status' = [status EXCEPT ![s] = "ACTIVE"]
      BY <1>3 DEF TrxCreatePeriod
    <3>2. UNCHANGED <<game, now, adminRequest, accepted, moneyVars, resultNumber, adminResult, jobs>>
          /\ faults' \in 0 .. MaxFaults
      BY <1>3 DEF TrxCreatePeriod
    <3> HIDE DEF s
    <3> QED
      BY <3>1, <3>2 DEF Creates, OnlyStatus, Statuses
  <2> QED
    BY <1>3, <2>1 DEF TrxCreatePeriod, TrxHandsOver, OneScheduler
<1> QED
  BY <1>1, <1>2, <1>3 DEF TrxLifecycle

\* processAllDrawDuePeriods() lists what is due soon and not drawn, waits until some of
\* it is, and asks for a block ...
TrxAims ==
  /\ \/ draw' = IdleDraw
     \/ draw.pc = "list" /\ draw' = [draw EXCEPT !.pc = "sleep", !.todo = Candidates]
     \/ \E ready \in SUBSET draw.todo :
          /\ ready # {} /\ \A s \in ready : DrawTime(s) <= now
          /\ draw' = [draw EXCEPT !.pc = "tip", !.todo = ready]
     \/ /\ draw.pc = "tip"
        /\ \E b \in 0 .. MaxTime : draw' = [draw EXCEPT !.pc = "store", !.tip = b]
  /\ Quiet
  /\ game = "trx" /\ UNCHANGED <<lifecycle, settle, block>>

\* ... whose number it stores in each of them that is still due and not drawn.
TrxStores ==
  LET s == First(draw.todo) IN
  /\ draw.pc = "store"
  /\ draw' = IF draw.todo = {s} THEN IdleDraw ELSE [draw EXCEPT !.todo = @ \ {s}]
  /\ \/ /\ MayStore(s)
        /\ Stores(s, Digit[draw.tip])
        /\ block' = [block EXCEPT ![s] = draw.tip]
     \/ Quiet /\ UNCHANGED block
  /\ game = "trx" /\ UNCHANGED <<lifecycle, settle>>

LEMMA TrxDrawSteps ==
  ASSUME Typed, TrxDraw
  PROVE  TrxAims \/ TrxStores
<1> USE FaultCounted DEF Typed, TableTypes, RowsKept, adminVars, tableVars, Quiet
<1>0. draw.pc # "idle" => game = "trx"
  BY IdleStates DEF OneScheduler
<1>1. CASE TrxListDue
  <2>1. \/ draw' = IdleDraw
        \/ draw.pc = "list" /\ draw' = [draw EXCEPT !.pc = "sleep", !.todo = Candidates]
    BY <1>1 DEF TrxListDue
  <2> QED
    BY <1>0, <1>1, <2>1 DEF TrxListDue, TrxAims
<1>2. CASE TrxWake
  BY <1>0, <1>2 DEF TrxWake, TrxAims
<1>3. CASE TrxFetchTip
  <2> DEFINE drawAt == DrawTime(First(draw.todo))
             minBlockTs == drawAt - TipTolerance
  <2>1. First(draw.todo) \in draw.todo /\ draw.todo \subseteq Slots
    BY <1>3, LeastSlot DEF TrxFetchTip, TaskTypes, DrawStates
  <2>2. drawAt \in Nat /\ drawAt <= MaxTime
    BY <1>3, <2>1, Timeline DEF TrxFetchTip, TaskTypes
  <2>3. \/ \E b \in 0 .. now : draw' = [draw EXCEPT !.pc = "store", !.tip = b]
        \/ \E b \in 0 .. minBlockTs - 1 : draw' = [draw EXCEPT !.pc = "store", !.tip = b]
        \/ draw' = IdleDraw
    BY <1>3 DEF TrxFetchTip
  <2> HIDE DEF drawAt
  <2>4. (0 .. now) \subseteq 0 .. MaxTime /\ (0 .. minBlockTs - 1) \subseteq 0 .. MaxTime
    BY <2>2, TablesAssumption, ToleranceAssumption
  <2>5. draw' = IdleDraw \/ \E b \in 0 .. MaxTime : draw' = [draw EXCEPT !.pc = "store", !.tip = b]
    BY <2>3, <2>4
  <2> QED
    BY <1>0, <1>3, <2>5 DEF TrxFetchTip, TrxAims
<1>4. CASE TrxStoreResult
  BY <1>0, <1>4 DEF TrxStoreResult, TrxStores, Stores
<1> QED
  BY <1>1, <1>2, <1>3, <1>4 DEF TrxDraw

\* settleAllEndedPeriodsWithResults(), as for the other games.
TrxSettlesAll ==
  /\ \/ settle.pc = "read" /\ settle' = [pc |-> "await", todo |-> TrxSettles] /\ StartsJobs(TrxSettles)
     \/ settle' = IdleSettle /\ (Quiet \/ DropsJobs)
     \/ UNCHANGED settle /\ DropsJobs /\ \A j \in jobs : (j.run /\ settle.pc = "await") => j \in jobs'
     \/ settle.pc = "await" /\ RunDone /\ settle' = IdleSettle /\ ResolvesSome(settle.todo)
  /\ game = "trx" /\ UNCHANGED <<lifecycle, draw, block>>

LEMMA TrxSettleSteps ==
  ASSUME Typed, TrxSettleStart \/ TrxResolve \/ \E j \in jobs : TrxSettleFails(j)
  PROVE  TrxSettlesAll
<1> USE FaultCounted DEF Typed, TableTypes, RowsKept, adminVars
<1>0. settle.pc # "idle" => game = "trx"
  BY IdleStates DEF OneScheduler
<1>1. CASE TrxSettleStart
  <2>1. UNCHANGED <<game, now, adminRequest, accepted, moneyVars, status, resultNumber, adminResult>>
        /\ faults' \in 0 .. MaxFaults
    BY <1>1 DEF TrxSettleStart
  <2> QED
    BY <1>0, <1>1, <2>1 DEF TrxSettleStart, TrxSettlesAll, Quiet, StartsJobs
<1>2. CASE TrxResolve
  <2>1. ResolvesSome(settle.todo)
    BY <1>2 DEF TrxResolve, ResolvesSome, OnlyStatus, Statuses
  <2> QED
    BY <1>0, <1>2, <2>1 DEF TrxResolve, TrxSettlesAll
<1>3. ASSUME NEW j \in jobs, TrxSettleFails(j) PROVE TrxSettlesAll
  <2>1. UNCHANGED <<game, now, adminRequest, accepted, moneyVars, status, resultNumber, adminResult>>
        /\ faults' \in 0 .. MaxFaults /\ game = "trx" /\ UNCHANGED <<lifecycle, draw, block>>
    BY <1>3 DEF TrxSettleFails
  <2>2. jobs' = Orphaned(jobs \ {j}) \/ jobs' = jobs \ {j}
    BY <1>3 DEF TrxSettleFails
  <2>3. jobs \ {j} \subseteq Jobs
    OBVIOUS
  <2>4. DropsJobs
    BY <2>1, <2>2, <2>3, OrphanedJobs DEF DropsJobs
  <2>5. \/ settle' = IdleSettle
        \/ UNCHANGED settle /\ \A i \in jobs : (i.run /\ settle.pc = "await") => i \in jobs'
    BY <1>3 DEF TrxSettleFails
  <2> QED
    BY <2>1, <2>4, <2>5 DEF TrxSettlesAll
<1> QED
  BY <1>1, <1>2, <1>3

\* The engine dies.
TrxDies ==
  /\ lifecycle' = "idle" /\ draw' = IdleDraw /\ settle' = IdleSettle
  /\ jobs' = {} /\ DropsJobs
  /\ game = "trx" /\ UNCHANGED block

LEMMA TronCases ==
  ASSUME Typed, TronNext
  PROVE  \/ TrxHandsOver \/ TrxAims \/ TrxStores \/ TrxSettlesAll \/ TrxDies
         \/ UNCHANGED <<lifecycle, draw, settle, block>> /\ \E j \in jobs : SettlesBet(j)
<1>1. CASE TrxCrash
  BY <1>1, FaultCounted DEF TrxCrash, TrxDies, DropsJobs, RowsKept, adminVars, Typed, TableTypes
<1>2. CASE TrxSettleStep
  BY <1>2 DEF TrxSettleStep, TrxSettleBet, SettlesBet
<1> QED
  BY <1>1, <1>2, TrxLifecycleSteps, TrxDrawSteps, TrxSettleSteps DEF TronNext

--------------------------------------------------------------------------------
(* Type correctness                                                         *)

CycleTask ==
  \/ CycleEnds \/ CycleCreates \/ CycleLists \/ CycleGenerates \/ CycleConsumes \/ CycleStores
  \/ CycleSettles \/ CycleFails \/ CycleResolves \/ CyclePasses

TrxTask == TrxHandsOver \/ TrxAims \/ TrxStores \/ TrxSettlesAll \/ TrxDies

\* A task of the engine, a settleBet call, or a request or the clock.
LEMMA NextCases ==
  ASSUME Typed, [Next]_vars
  PROVE  \/ CycleTask /\ UNCHANGED <<lifecycle, draw, settle, block>>
         \/ TrxTask /\ UNCHANGED cycle
         \/ UNCHANGED tasks /\ \E j \in jobs : SettlesBet(j)
         \/ UNCHANGED tasks /\ \E b \in Bets : CheckBet(b) \/ CommitBet(b) \/ DropBet(b)
         \/ UNCHANGED tasks /\ (SetResults \/ Tick \/ ClockBack)
         \/ UNCHANGED vars
<1>1. CASE Request
  BY <1>1 DEF Request, PlaceBet, K3Bet, FiveDBet, MotoBet, TrxBet
<1>2. CASE CycleTasks
  BY <1>2, CycleCases DEF CycleTasks, CycleTask, tasks
<1>3. CASE TronTasks
  BY <1>3, TronCases DEF TronTasks, TrxTask, tasks
<1> QED
  BY <1>1, <1>2, <1>3 DEF Next, Clock

\* What the task writes into the tables.
LEMMA CycleEffect ==
  ASSUME Typed, CycleTask
  PROVE  \/ Ends \/ Creates \/ Quiet \/ DropsJobs
         \/ \E S : ResolvesSome(S)
         \/ \E s \in Slots, n \in Numbers : Stores(s, n)
         \/ \E S : StartsJobs(S) /\ S \subseteq {s \in Slots : Drawn(s)}
<1>1. CASE CycleStores
  BY <1>1, LeastSlot DEF CycleStores, Typed, TaskTypes, CycleStates, At
<1>2. CASE CycleSettles
  BY <1>2, SettlesDrawn DEF CycleSettles
<1> QED
  BY <1>1, <1>2 DEF CycleTask, CycleEnds, CycleCreates, CycleLists, CycleGenerates, CycleConsumes,
                   CycleFails, CycleResolves, CyclePasses

LEMMA TrxEffect ==
  ASSUME Typed, TrxTask
  PROVE  \/ Ends \/ Creates \/ Quiet \/ DropsJobs
         \/ \E S : ResolvesSome(S)
         \/ \E s \in Slots, n \in Numbers : Stores(s, n)
         \/ \E S : StartsJobs(S) /\ S \subseteq {s \in Slots : Drawn(s)}
<1>1. CASE TrxStores
  <2>1. First(draw.todo) \in Slots /\ Digit[draw.tip] \in Numbers
    BY <1>1, LeastSlot, DigitAssumption DEF TrxStores, Typed, TaskTypes, DrawStates
  <2> QED
    BY <1>1, <2>1 DEF TrxStores
<1>2. CASE TrxSettlesAll
  BY <1>2 DEF TrxSettlesAll, TrxSettles, Drawn
<1> QED
  BY <1>1, <1>2 DEF TrxTask, TrxHandsOver, TrxAims, TrxDies

\* The tasks of the engine leave the game, the clock and the rows of bets alone.
LEMMA TasksKeepRows ==
  ASSUME Typed, CycleTask \/ TrxTask
  PROVE  RowsKept
BY CycleEffect, TrxEffect
DEF Ends, Creates, Quiet, DropsJobs, ResolvesSome, Stores, StartsJobs, OnlyStatus

LEMMA CycleTaskTypes ==
  ASSUME Typed, CycleTask
  PROVE  /\ cycle' \in CycleStates
         /\ cycle'.pc \in {"consume", "store"} => (cycle'.todo # {} /\ cycle'.number \in Numbers)
         /\ game # "trx" \/ cycle' = cycle
<1> USE IdleStates DEF Typed, TaskTypes, CycleStates, At, Goto, Results, IdleCycle
<1>1. game # "trx" \/ cycle' = cycle
  BY DEF CycleTask, OneScheduler, CycleEnds, CycleCreates, CycleLists, CycleGenerates, CycleConsumes,
         CycleStores, CycleSettles, CycleFails, CycleResolves, CyclePasses
<1>2. CASE CycleGenerates
  BY <1>1, <1>2 DEF CycleGenerates
<1>3. CASE CycleConsumes
  BY <1>1, <1>3 DEF CycleConsumes
<1>4. CASE CycleStores
  BY <1>1, <1>4 DEF CycleStores
<1>5. CASE CycleSettles
  BY <1>1, <1>5, SettlesDrawn DEF CycleSettles
<1>6. CASE CycleEnds \/ CycleCreates \/ CycleLists \/ CycleFails \/ CycleResolves \/ CyclePasses
  BY <1>1, <1>6 DEF CycleEnds, CycleCreates, CycleLists, CycleFails, CycleResolves, CyclePasses
<1> QED
  BY <1>2, <1>3, <1>4, <1>5, <1>6 DEF CycleTask

LEMMA TrxTaskTypes ==
  ASSUME Typed, TrxTask
  PROVE  /\ lifecycle' \in {"idle", "end", "create"}
         /\ draw' \in DrawStates
         /\ draw'.pc \in {"tip", "store"} =>
              (draw'.todo # {} /\ \A s \in draw'.todo : DrawTime(s)' <= MaxTime)
         /\ draw'.pc = "store" => draw'.tip \in 0 .. MaxTime
         /\ settle' \in SettleStates
         /\ block' \in [Slots -> (0 .. MaxTime) \cup {NoBlock}]
         /\ game = "trx"
<1> USE IdleStates DEF Typed, TaskTypes, DrawStates, SettleStates
<1>1. game' = game /\ \A s \in Slots : DrawTime(s)' = DrawTime(s)
  BY TasksKeepRows DEF RowsKept, DrawTime
<1>2. now <= MaxTime
  BY TablesAssumption DEF TableTypes
<1>3. CASE TrxHandsOver
  BY <1>1, <1>3 DEF TrxHandsOver
<1>4. CASE TrxAims
  <2>1. UNCHANGED <<lifecycle, settle, block>> /\ game = "trx"
    BY <1>4 DEF TrxAims
  <2>2. CASE draw' = IdleDraw
    BY <2>1, <2>2
  <2>3. CASE draw' = [draw EXCEPT !.pc = "sleep", !.todo = Candidates]
    BY <2>1, <2>3 DEF Candidates
  <2>4. ASSUME NEW ready \in SUBSET draw.todo, ready # {}, \A s \in ready : DrawTime(s) <= now,
               draw' = [draw EXCEPT !.pc = "tip", !.todo = ready]
        PROVE  /\ draw' \in DrawStates /\ draw'.pc = "tip" /\ draw'.todo # {}
               /\ \A s \in draw'.todo : DrawTime(s)' <= MaxTime
    <3>1. draw' \in DrawStates /\ draw'.pc = "tip" /\ draw'.todo = ready
      BY <2>4
    <3>2. \A s \in ready : s \in Slots /\ DrawTime(s) \in Nat /\ now \in Nat
      BY <2>4, Timeline, TablesAssumption DEF TableTypes
    <3>3. \A s \in ready : DrawTime(s)' <= MaxTime
      BY <1>1, <1>2, <2>4, <3>2, TablesAssumption
    <3> QED
      BY <2>4, <3>1, <3>3
  <2>5. ASSUME NEW b \in 0 .. MaxTime, draw.pc = "tip", draw' = [draw EXCEPT !.pc = "store", !.tip = b]
        PROVE  /\ draw' \in DrawStates /\ draw'.todo # {} /\ draw'.tip \in 0 .. MaxTime
               /\ \A s \in draw'.todo : DrawTime(s)' <= MaxTime
    <3>1. draw' \in DrawStates /\ draw'.todo = draw.todo /\ draw'.tip = b
      BY <2>5
    <3>2. draw.todo # {} /\ draw.todo \subseteq Slots /\ \A s \in draw.todo : DrawTime(s) <= MaxTime
      BY <2>5
    <3>3. \A s \in draw.todo : DrawTime(s)' <= MaxTime
      BY <1>1, <3>2
    <3> QED
      BY <3>1, <3>2, <3>3
  <2> QED
    BY <1>4, <2>1, <2>2, <2>3, <2>4, <2>5 DEF TrxAims
<1>5. CASE TrxStores
  <2> DEFINE s == First(draw.todo)
  <2>1. s \in draw.todo /\ s \in Slots
    BY <1>5, LeastSlot DEF TrxStores
  <2>2. block' \in [Slots -> (0 .. MaxTime) \cup {NoBlock}]
    BY <1>5, <2>1 DEF TrxStores
  <2>3. \/ draw' = IdleDraw
        \/ draw.todo # {s} /\ draw' = [draw EXCEPT !.todo = @ \ {s}]
    BY <1>5 DEF TrxStores
  <2> HIDE DEF s
  <2>4. CASE draw.todo # {s} /\ draw' = [draw EXCEPT !.todo = @ \ {s}]
    BY <1>1, <1>5, <2>1, <2>2, <2>4 DEF TrxStores
  <2> QED
    BY <1>5, <2>2, <2>3, <2>4 DEF TrxStores
<1>6. CASE TrxSettlesAll
  BY <1>1, <1>6 DEF TrxSettlesAll, TrxSettles
<1>7. CASE TrxDies
  BY <1>1, <1>7 DEF TrxDies
<1> QED
  BY <1>3, <1>4, <1>5, <1>6, <1>7 DEF TrxTask

LEMMA TypeNext == Typed /\ [Next]_vars => Typed'
<1> SUFFICES ASSUME Typed, [Next]_vars PROVE Typed'
  OBVIOUS
<1>1. ASSUME TableTypes', UNCHANGED <<tasks, game>> PROVE Typed'
  BY <1>1 DEF Typed, TaskTypes, OneScheduler, tasks, DrawTime
<1>2. CASE CycleTask /\ UNCHANGED <<lifecycle, draw, settle, block>>
  <2>1. TableTypes'
    BY <1>2, CycleEffect, TypeEffects DEF Typed
  <2>2. game' = game
    BY <1>2, TasksKeepRows DEF RowsKept
  <2> QED
    BY <1>2, <2>1, <2>2, CycleTaskTypes DEF Typed, TaskTypes, OneScheduler, DrawTime
<1>3. CASE TrxTask /\ UNCHANGED cycle
  <2>1. TableTypes'
    BY <1>3, TrxEffect, TypeEffects DEF Typed
  <2>2. game' = game
    BY <1>3, TasksKeepRows DEF RowsKept
  <2> QED
    BY <1>3, <2>1, <2>2, TrxTaskTypes DEF Typed, TaskTypes, OneScheduler
<1>4. CASE UNCHANGED tasks /\ \E j \in jobs : SettlesBet(j)
  BY <1>1, <1>4, TypeSettle DEF SettlesBet, SettleInOne, FiveDRecord, FiveDPay, Typed
<1>5. CASE UNCHANGED tasks /\ \E b \in Bets : CheckBet(b) \/ CommitBet(b) \/ DropBet(b)
  BY <1>1, <1>5, TypeBet DEF CheckBet, CommitBet, DropBet, Typed
<1>6. CASE UNCHANGED tasks /\ (SetResults \/ Tick \/ ClockBack)
  <2>1. game' = game
    BY <1>6 DEF SetResults, AdminCheck, AdminWrite, Tick, ClockBack
  <2> QED
    BY <1>1, <1>6, <2>1, TypeAdmin, TypeClock DEF Typed
<1>7. CASE UNCHANGED vars
  BY <1>1, <1>7 DEF vars, tableVars, Typed, TableTypes, adminVars, moneyVars
<1> QED
  BY <1>2, <1>3, <1>4, <1>5, <1>6, <1>7, NextCases

LEMMA TypeInvariant == Spec => []Typed
BY TypeInit, TypeNext, PTL DEF Spec

\* The variables of a table keep their types; so no interleaving of bets and
\* settlements overdraws an account (debitUserBalanceForBet), and what is stored in a
\* period is always a number of the game.
THEOREM TypeCorrect == Spec => []TypeOK
<1>1. Typed => TypeOK
  BY DEF Typed, TableTypes, TaskTypes, CycleStates, DrawStates, SettleStates, Jobs, Results, TypeOK
<1> QED
  BY <1>1, TypeInvariant, PTL

--------------------------------------------------------------------------------
(* How far a period is, and who may hold it                                 *)

\* A period with a number is over, or TRX and in its lock, and a resolved one has a
\* number; what a task is about to draw is ENDED and not drawn, what a run has read is
\* ENDED and drawn.  So a stored number is never replaced, though K3 and Moto store
\* without a condition.
PeriodInv ==
  /\ \A s \in Slots : resultNumber[s] # NoResult =>
       status[s] \in (IF game = "trx" THEN {"ACTIVE", "ENDED", "RESOLVED"} ELSE {"ENDED", "RESOLVED"})
  /\ \A s \in Slots : status[s] = "RESOLVED" => resultNumber[s] # NoResult
  /\ cycle.pc \in {"draw", "consume", "store"} =>
       \A s \in cycle.todo : status[s] = "ENDED" /\ Undrawn(s)
  /\ cycle.pc = "await" => \A s \in cycle.todo : Drawn(s)
  /\ \A s \in draw.todo : status[s] # "NONE"
  /\ settle.pc = "await" => \A s \in settle.todo : Drawn(s)

LEMMA PeriodInit == Init => PeriodInv
BY Timeline
DEF Init, TablesInit, CycleInit, TronInit, IdleCycle, IdleDraw, IdleSettle, PeriodInv

LEMMA PeriodFrame ==
  ASSUME PeriodInv, UNCHANGED <<status, resultNumber, game, tasks>>
  PROVE  PeriodInv'
BY DEF PeriodInv, Undrawn, Drawn, tasks

LEMMA CycleGame ==
  ASSUME Typed, CycleTask
  PROVE  game # "trx"
<1> SUFFICES ASSUME game = "trx" PROVE FALSE
  OBVIOUS
<1>1. cycle.pc = "idle"
  BY IdleStates DEF Typed, OneScheduler
<1> QED
  BY <1>1
  DEF CycleTask, CycleEnds, CycleCreates, CycleLists, CycleGenerates, CycleConsumes, CycleStores,
      CycleSettles, CycleFails, CycleResolves, CyclePasses, At

\* Where the tasks of a cycle are in their periods.
LEMMA PeriodCycle ==
  ASSUME Typed, PeriodInv, CycleTask, UNCHANGED <<lifecycle, draw, settle, block>>
  PROVE  PeriodInv'
<1>1. game' = game
  BY TasksKeepRows DEF RowsKept
<1>2. game # "trx"
  BY CycleGame
<1> USE DEF PeriodInv, Drawn, Undrawn, At, Goto, IdleCycle
<1>3. draw.todo = {} /\ settle.pc = "idle"
  BY <1>2, IdleStates DEF Typed, OneScheduler, IdleDraw
<1>4. CASE CycleEnds
  BY <1>1, <1>2, <1>3, <1>4 DEF CycleEnds, Ends, OnlyStatus, Typed, TaskTypes, CycleStates
<1>5. CASE CycleCreates
  BY <1>1, <1>2, <1>3, <1>5 DEF CycleCreates, Creates, OnlyStatus, Typed, TaskTypes, CycleStates
<1>6. CASE CycleLists
  BY <1>1, <1>2, <1>3, <1>6 DEF CycleLists, Quiet, Typed, TaskTypes, CycleStates
<1>7. CASE CycleGenerates
  BY <1>1, <1>2, <1>3, <1>7 DEF CycleGenerates, Quiet, Typed, TaskTypes, CycleStates
<1>8. CASE CycleConsumes
  BY <1>1, <1>2, <1>3, <1>8 DEF CycleConsumes, Quiet, Typed, TaskTypes, CycleStates
<1>9. CASE CycleStores
  <2> DEFINE s == Earliest(cycle.todo)
  <2>1. s \in cycle.todo /\ s \in Slots /\ status[s] = "ENDED" /\ cycle.number # NoResult
    BY <1>9, LeastSlot, TablesAssumption DEF CycleStores, Typed, TaskTypes, CycleStates
  <2>2. cycle' = [cycle EXCEPT !.pc = "draw", !.todo = @ \ {s}, !.number = NoResult]
        /\ At("store")
        /\ (Stores(s, cycle.number) \/ Quiet)
    BY <1>9 DEF CycleStores
  <2> HIDE DEF s
  <2>3. cycle'.pc = "draw" /\ cycle'.todo = cycle.todo \ {s}
    BY <2>2 DEF Typed, TaskTypes, CycleStates
  <2>4. CASE Stores(s, cycle.number)
    <3>1. /\ resultNumber' = [resultNumber EXCEPT ![s] = cycle.number]
          /\ status' = status
      BY <2>4 DEF Stores
    <3>2. \A t \in Slots : t # s => resultNumber'[t] = resultNumber[t]
      BY <3>1 DEF Typed, TableTypes
    <3>3. \A t \in cycle.todo : t \in Slots
      BY DEF Typed, TaskTypes, CycleStates
    <3> QED
      BY <1>1, <1>2, <1>3, <2>1, <2>2, <2>3, <3>1, <3>2, <3>3
  <2>5. CASE Quiet
    BY <1>1, <1>2, <1>3, <2>2, <2>3, <2>5 DEF Quiet
  <2> QED
    BY <2>2, <2>4, <2>5
<1>10. CASE CycleSettles
  BY <1>1, <1>2, <1>3, <1>10, SettlesDrawn
  DEF CycleSettles, StartsJobs, Quiet, Typed, TaskTypes, CycleStates
<1>11. CASE CycleFails
  BY <1>1, <1>2, <1>3, <1>11 DEF CycleFails, DropsJobs, Typed, TaskTypes, CycleStates
<1>12. CASE CycleResolves
  <2>1. Resolves \subseteq cycle.todo
    BY <1>2 DEF Resolves, K3Resolves, FiveDResolves, MotoResolves, Typed, TableTypes
  <2> QED
    BY <1>1, <1>2, <1>3, <1>12, <2>1
    DEF CycleResolves, ResolvesSome, OnlyStatus, Typed, TaskTypes, CycleStates
<1>13. CASE CyclePasses
  BY <1>1, <1>2, <1>3, <1>13 DEF CyclePasses, Quiet, DropsJobs, Typed, TaskTypes, CycleStates
<1> QED
  BY <1>4, <1>5, <1>6, <1>7, <1>8, <1>9, <1>10, <1>11, <1>12, <1>13 DEF CycleTask

LEMMA PeriodTrx ==
  ASSUME Typed, PeriodInv, TrxTask, UNCHANGED cycle
  PROVE  PeriodInv'
<1> USE DEF PeriodInv, Drawn, Undrawn
<1>1. game' = game /\ game = "trx" /\ cycle.pc = "idle"
  BY TasksKeepRows, TrxTaskTypes, IdleStates DEF RowsKept, Typed, OneScheduler
<1>2. draw.todo \subseteq Slots /\ settle.todo \subseteq Slots
  BY DEF Typed, TaskTypes, DrawStates, SettleStates
<1>3. CASE TrxHandsOver
  <2>1. draw'.todo = draw.todo /\ settle'.todo = settle.todo
        /\ (settle'.pc = "await" => settle.pc = "await")
    BY <1>3 DEF TrxHandsOver, Typed, TaskTypes, DrawStates, SettleStates
  <2>2. CASE Ends
    BY <1>1, <1>2, <2>1, <2>2 DEF Ends, OnlyStatus
  <2>3. CASE Creates
    BY <1>1, <1>2, <2>1, <2>3 DEF Creates, OnlyStatus
  <2>4. CASE Quiet
    BY <1>1, <1>2, <2>1, <2>4 DEF Quiet
  <2> QED
    BY <1>3, <2>2, <2>3, <2>4 DEF TrxHandsOver
<1>4. CASE TrxAims
  <2>1. UNCHANGED <<status, resultNumber, settle>>
    BY <1>4 DEF TrxAims, Quiet
  <2> DEFINE aims == \A s \in draw'.todo : s \in draw.todo \/ s \in Candidates
  <2>3. draw \in DrawStates
    BY DEF Typed, TaskTypes
  <2>4. draw' = IdleDraw => aims
    BY DEF IdleDraw
  <2>5. draw' = [draw EXCEPT !.pc = "sleep", !.todo = Candidates] => aims
    BY <2>3 DEF DrawStates
  <2>6. ASSUME NEW ready \in SUBSET draw.todo, draw' = [draw EXCEPT !.pc = "tip", !.todo = ready]
        PROVE  aims
    BY <2>3, <2>6 DEF DrawStates
  <2>7. ASSUME NEW b, draw' = [draw EXCEPT !.pc = "store", !.tip = b]
        PROVE  aims
    BY <2>3, <2>7 DEF DrawStates
  <2>2. aims
    BY <1>4, <2>4, <2>5, <2>6, <2>7 DEF TrxAims
  <2> QED
    BY <1>1, <2>1, <2>2 DEF Candidates
<1>5. CASE TrxStores
  <2> DEFINE s == First(draw.todo)
             n == Digit[draw.tip]
  <2>1. s \in draw.todo /\ s \in Slots /\ n # NoResult
    BY <1>5, LeastSlot, DigitAssumption, TablesAssumption DEF TrxStores, Typed, TaskTypes, DrawStates
  <2>2. settle' = settle /\ ((MayStore(s) /\ Stores(s, n)) \/ Quiet)
    BY <1>5 DEF TrxStores
  <2>3. draw'.todo \subseteq draw.todo
    BY <1>5 DEF TrxStores, IdleDraw, Typed, TaskTypes, DrawStates
  <2> HIDE DEF s, n
  <2>4. CASE MayStore(s) /\ Stores(s, n)
    <3>1. /\ resultNumber' = [resultNumber EXCEPT ![s] = n] /\ status' = status
          /\ resultNumber[s] = NoResult /\ status[s] # "RESOLVED"
      BY <2>4 DEF Stores, MayStore
    <3>2. \A t \in Slots : resultNumber'[t] = IF t = s THEN n ELSE resultNumber[t]
      BY <3>1 DEF Typed, TableTypes
    <3>3. status[s] \in {"ACTIVE", "ENDED"}
      BY <2>1, <3>1 DEF Typed, TableTypes
    <3> QED
      BY <1>1, <1>2, <2>1, <2>2, <2>3, <3>1, <3>2, <3>3
  <2>5. CASE Quiet
    BY <1>1, <2>2, <2>3, <2>5 DEF Quiet
  <2> QED
    BY <2>2, <2>4, <2>5
<1>6. CASE TrxSettlesAll
  <2>1. draw' = draw
    BY <1>6 DEF TrxSettlesAll
  <2>2. CASE StartsJobs(TrxSettles) /\ settle' = [pc |-> "await", todo |-> TrxSettles]
    BY <1>1, <2>1, <2>2 DEF StartsJobs, TrxSettles
  <2>3. CASE settle' = IdleSettle /\ (Quiet \/ DropsJobs)
    BY <1>1, <2>1, <2>3, IdleStates DEF Quiet, DropsJobs
  <2>4. CASE UNCHANGED settle /\ DropsJobs
    BY <1>1, <2>1, <2>4 DEF DropsJobs
  <2>5. CASE settle.pc = "await" /\ settle' = IdleSettle /\ ResolvesSome(settle.todo)
    BY <1>1, <1>2, <2>1, <2>5, IdleStates DEF ResolvesSome, OnlyStatus
  <2> QED
    BY <1>6, <2>2, <2>3, <2>4, <2>5 DEF TrxSettlesAll
<1>7. CASE TrxDies
  BY <1>1, <1>7, IdleStates DEF TrxDies, DropsJobs, IdleDraw
<1> QED
  BY <1>3, <1>4, <1>5, <1>6, <1>7 DEF TrxTask

LEMMA PeriodNext == Typed /\ PeriodInv /\ [Next]_vars => PeriodInv'
<1> SUFFICES ASSUME Typed, PeriodInv, [Next]_vars PROVE PeriodInv'
  OBVIOUS
<1>1. CASE UNCHANGED tasks /\ \E j \in jobs : SettlesBet(j)
  BY <1>1, PeriodFrame DEF SettlesBet, SettleInOne, FiveDRecord, FiveDPay
<1>2. CASE UNCHANGED tasks /\ \E b \in Bets : CheckBet(b) \/ CommitBet(b) \/ DropBet(b)
  BY <1>2, PeriodFrame DEF CheckBet, CommitBet, DropBet
<1>3. CASE UNCHANGED tasks /\ (SetResults \/ Tick \/ ClockBack)
  BY <1>3, PeriodFrame DEF SetResults, AdminCheck, AdminWrite, Tick, ClockBack
<1>4. CASE UNCHANGED vars
  BY <1>4, PeriodFrame DEF vars, tableVars
<1> QED
  BY <1>1, <1>2, <1>3, <1>4, NextCases, PeriodCycle, PeriodTrx

LEMMA PeriodInvariant == Spec => [](Typed /\ PeriodInv)
<1>1. Typed /\ PeriodInv /\ [Next]_vars => Typed' /\ PeriodInv'
  BY TypeNext, PeriodNext
<1> QED
  BY <1>1, TypeInit, PeriodInit, PTL DEF Spec


--------------------------------------------------------------------------------
(* A draw is final                                                          *)

\* What the tables show of a step of the engine, given how far the periods are: only
\* drawn periods are settled and resolved, only undrawn ones get a number.
LEMMA EngineEffect ==
  ASSUME Typed, PeriodInv,
         \/ CycleTask /\ UNCHANGED <<lifecycle, draw, settle, block>>
         \/ TrxTask /\ UNCHANGED cycle
  PROVE  \/ Ends \/ Creates \/ Quiet \/ DropsJobs
         \/ \E S : ResolvesSome(S) /\ S \subseteq {s \in Slots : Drawn(s)}
         \/ \E s \in Slots, n \in Numbers :
              /\ Stores(s, n) /\ Undrawn(s)
              /\ \/ game # "trx" /\ status[s] = "ENDED"
                 \/ game = "trx" /\ DrawTime(s) <= now
         \/ \E S : StartsJobs(S) /\ S \subseteq {s \in Slots : Drawn(s)}
<1>1. CASE CycleStores
  <2>1. Earliest(cycle.todo) \in cycle.todo /\ cycle.todo \subseteq Slots /\ cycle.number \in Numbers
    BY <1>1, LeastSlot DEF CycleStores, Typed, TaskTypes, CycleStates, At
  <2>2. status[Earliest(cycle.todo)] = "ENDED" /\ Undrawn(Earliest(cycle.todo))
    BY <1>1, <2>1 DEF CycleStores, PeriodInv, At
  <2> QED
    BY <1>1, <2>1, <2>2, CycleGame DEF CycleStores, CycleTask
<1>2. CASE CycleSettles
  BY <1>2, SettlesDrawn DEF CycleSettles
<1>3. CASE CycleResolves
  <2>1. Resolves \subseteq cycle.todo
    BY <1>3 DEF CycleResolves, Resolves, K3Resolves, FiveDResolves, MotoResolves, Typed, TableTypes
  <2>2. cycle.todo \subseteq {s \in Slots : Drawn(s)}
    BY <1>3 DEF CycleResolves, At, PeriodInv, Typed, TaskTypes, CycleStates
  <2> QED
    BY <1>3, <2>1, <2>2 DEF CycleResolves
<1>4. CASE TrxStores
  <2>1. First(draw.todo) \in Slots /\ Digit[draw.tip] \in Numbers
    BY <1>4, LeastSlot, DigitAssumption DEF TrxStores, Typed, TaskTypes, DrawStates
  <2> QED
    BY <1>4, <2>1 DEF TrxStores, MayStore, Undrawn
<1>5. CASE TrxSettlesAll
  <2>1. settle.pc = "await" => settle.todo \subseteq {s \in Slots : Drawn(s)}
    BY DEF PeriodInv, Typed, TaskTypes, SettleStates
  <2>2. TrxSettles \subseteq {s \in Slots : Drawn(s)}
    BY DEF TrxSettles, Drawn
  <2> QED
    BY <1>5, <2>1, <2>2 DEF TrxSettlesAll
<1> QED
  BY <1>1, <1>2, <1>3, <1>4, <1>5
  DEF CycleTask, CycleEnds, CycleCreates, CycleLists, CycleGenerates, CycleConsumes, CycleFails,
      CyclePasses, TrxTask, TrxHandsOver, TrxAims, TrxDies

\* A drawn period keeps its number, an ended or resolved one does not run again.
LEMMA DrawnKept ==
  ASSUME Typed, PeriodInv, [Next]_vars, NEW s \in Slots, resultNumber[s] # NoResult
  PROVE  /\ resultNumber'[s] = resultNumber[s]
         /\ status[s] \in {"ENDED", "RESOLVED"} => status'[s] \in {"ENDED", "RESOLVED"}
         /\ status[s] = "RESOLVED" => status'[s] = "RESOLVED"
<1> USE DEF Undrawn
<1>1. CASE UNCHANGED <<status, resultNumber>>
  BY <1>1
<1>2. CASE Ends \/ Creates
  BY <1>2 DEF Ends, Creates, OnlyStatus
<1>3. ASSUME NEW S, ResolvesSome(S) PROVE UNCHANGED resultNumber /\ (status'[s] = status[s] \/ status'[s] = "RESOLVED")
  BY <1>3 DEF ResolvesSome, OnlyStatus
<1>4. ASSUME NEW t \in Slots, NEW n \in Numbers, Stores(t, n), Undrawn(t)
      PROVE  status' = status /\ resultNumber'[s] = resultNumber[s]
  BY <1>4 DEF Stores, Typed, TableTypes
<1>5. ASSUME NEW S, StartsJobs(S) PROVE UNCHANGED <<status, resultNumber>>
  BY <1>5 DEF StartsJobs
<1>6. CASE \/ CycleTask /\ UNCHANGED <<lifecycle, draw, settle, block>>
           \/ TrxTask /\ UNCHANGED cycle
  BY <1>1, <1>2, <1>3, <1>4, <1>5, <1>6, EngineEffect DEF Quiet, DropsJobs
<1>7. CASE \/ \E j \in jobs : SettlesBet(j)
           \/ \E b \in Bets : CheckBet(b) \/ CommitBet(b) \/ DropBet(b)
           \/ SetResults \/ Tick \/ ClockBack
           \/ UNCHANGED vars
  BY <1>1, <1>7
  DEF SettlesBet, SettleInOne, FiveDRecord, FiveDPay, CheckBet, CommitBet, DropBet, SetResults,
      AdminCheck, AdminWrite, Tick, ClockBack, vars, tableVars
<1> QED
  BY <1>6, <1>7, NextCases

\* A period that has been drawn is not offered to players again, even when the clock is
\* set back into its window: createPeriodIfNeeded takes back undrawn periods only, and no
\* task of the engine gives a drawn one another status than ENDED or RESOLVED.
THEOREM DrawnStaysClosed == Spec => NoReopenAfterDraw
<1> DEFINE Closed ==
      \A s \in Slots :
        (resultNumber[s] # NoResult /\ (game # "trx" \/ status[s] # "ACTIVE"))
          => (~Live(s) /\ ~Live(s)')
<1>1. Typed /\ PeriodInv /\ [Next]_vars => Closed
  <2> SUFFICES ASSUME Typed, PeriodInv, [Next]_vars, NEW s \in Slots,
                      resultNumber[s] # NoResult, game # "trx" \/ status[s] # "ACTIVE"
               PROVE  ~Live(s) /\ ~Live(s)'
    OBVIOUS
  <2>1. status[s] \in {"ENDED", "RESOLVED"}
    BY DEF PeriodInv
  <2>2. status'[s] \in {"ENDED", "RESOLVED"}
    BY <2>1, DrawnKept
  <2> QED
    BY <2>1, <2>2 DEF Live
<1>2. Spec => [][Closed]_vars
  <2>1. Typed /\ PeriodInv /\ [Next]_vars => [Closed]_vars
    BY <1>1
  <2> QED
    BY <2>1, PeriodInvariant, PTL DEF Spec
<1> QED
  BY <1>2 DEF NoReopenAfterDraw

--------------------------------------------------------------------------------
(* The rows of a bet and its settlement                                     *)

\* A bet has a result row once it is WON or LOST; 5D alone commits the row of a bet that
\* wins before it pays.
RowsAgree ==
  \A b \in Bets :
    /\ betResult[b] = NoRow <=> bet[b] \notin {"WON", "LOST"}
    /\ b \in paid => betResult[b] # NoRow
    /\ (betResult[b] # NoRow /\ b \notin paid) => (game = "5d" /\ betResult[b] > 0)

\* A settleBet call in flight carries the stored number, and one that is about to pay is
\* the only one for a bet whose row is there and that is not paid: overlapping and given
\* up runs cannot pay twice.
JobsAgree ==
  /\ \A j \in jobs : /\ j.number = resultNumber[j.bet.slot]
                     /\ bet[j.bet] \in {"PENDING", "WON", "LOST"}
                     /\ j.pc = "pay" => /\ game = "5d" /\ j.bet \notin paid
                                        /\ betResult[j.bet] = WinAmount(j.bet, j.number)
                                        /\ betResult[j.bet] > 0
  /\ \A i, j \in jobs : (i.pc = "pay" /\ j.pc = "pay" /\ i.bet = j.bet) => i = j

BetInv == RowsAgree /\ JobsAgree

LEMMA BetInit == Init => BetInv
BY DEF Init, TablesInit, BetInv, RowsAgree, JobsAgree

LEMMA BetFrame ==
  ASSUME Typed, BetInv, UNCHANGED <<game, bet, betResult, paid, jobs>>,
         \A s \in Slots : resultNumber[s] # NoResult => resultNumber'[s] = resultNumber[s]
  PROVE  BetInv'
<1>1. \A j \in jobs : j.number \in Numbers /\ j.bet \in Bets /\ j.bet.slot \in Slots
  BY TablesAssumption DEF Typed, TableTypes, Jobs
<1>2. \A j \in jobs : resultNumber[j.bet.slot] # NoResult
  BY <1>1, TablesAssumption DEF BetInv, JobsAgree
<1> QED
  BY <1>1, <1>2 DEF BetInv, RowsAgree, JobsAgree, WinAmount

\* The calls a run starts are for PENDING bets, at the stored number.
LEMMA BetStart ==
  ASSUME Typed, BetInv, NEW S, StartsJobs(S), S \subseteq {s \in Slots : Drawn(s)}
  PROVE  BetInv'
<1> DEFINE new == {Job(b, resultNumber[b.slot]) : b \in UNION {PendingBets(s) : s \in S}}
<1>1. \A j \in new : /\ j.bet \in Bets /\ bet[j.bet] = "PENDING" /\ j.pc = "record"
                     /\ j.number = resultNumber[j.bet.slot]
  BY DEF PendingBets, Job
<1>2. jobs' = jobs \cup new /\ UNCHANGED <<game, bet, betResult, paid, resultNumber>>
  BY DEF StartsJobs, RowsKept, moneyVars
<1> HIDE DEF new
<1>3. RowsAgree'
  BY <1>2 DEF BetInv, RowsAgree
<1>4. JobsAgree'
  <2>1. \A j \in jobs' : j \in jobs \/ (j \in new /\ j.pc # "pay")
    BY <1>1, <1>2
  <2> QED
    BY <1>1, <1>2, <2>1 DEF BetInv, JobsAgree, WinAmount
<1> QED
  BY <1>3, <1>4 DEF BetInv

LEMMA BetDrop ==
  ASSUME Typed, BetInv, DropsJobs
  PROVE  BetInv'
<1>1. UNCHANGED <<game, bet, betResult, paid, resultNumber>>
  BY DEF DropsJobs, RowsKept, moneyVars
<1>2. \A j \in jobs' : \E i \in jobs : /\ j.bet = i.bet /\ j.number = i.number /\ j.pc = i.pc
                                       /\ (j = i \/ j = [i EXCEPT !.run = FALSE])
  BY DEF DropsJobs
<1>3. \A j \in jobs' : /\ j.number = resultNumber'[j.bet.slot]
                       /\ bet'[j.bet] \in {"PENDING", "WON", "LOST"}
                       /\ j.pc = "pay" => /\ game' = "5d" /\ j.bet \notin paid'
                                          /\ betResult'[j.bet] = WinAmount(j.bet, j.number)
                                          /\ betResult'[j.bet] > 0
  BY <1>1, <1>2 DEF BetInv, JobsAgree
<1>4. ASSUME NEW i \in jobs', NEW j \in jobs', i.pc = "pay", j.pc = "pay", i.bet = j.bet
      PROVE  i = j
  <2>1. CASE jobs' \subseteq jobs
    BY <1>4, <2>1 DEF BetInv, JobsAgree
  <2>2. CASE \A k \in jobs' : ~k.run
    <3>1. PICK p \in jobs : i.bet = p.bet /\ i.number = p.number /\ i.pc = p.pc
      BY <1>2
    <3>2. PICK q \in jobs : j.bet = q.bet /\ j.number = q.number /\ j.pc = q.pc
      BY <1>2
    <3>3. p = q
      BY <1>4, <3>1, <3>2 DEF BetInv, JobsAgree
    <3>4. i \in Jobs /\ j \in Jobs /\ i.run = FALSE /\ j.run = FALSE
      BY <2>2 DEF DropsJobs, Jobs
    <3> QED
      BY <3>1, <3>2, <3>3, <3>4 DEF Jobs
  <2> QED
    BY <2>1, <2>2 DEF DropsJobs
<1>5. RowsAgree'
  BY <1>1 DEF BetInv, RowsAgree
<1> QED
  BY <1>3, <1>4, <1>5 DEF BetInv, JobsAgree, WinAmount

\* settleBet(): the row decides between two calls for the same bet.
LEMMA BetSettle ==
  ASSUME Typed, BetInv, NEW j \in jobs, SettlesBet(j)
  PROVE  BetInv'
<1> DEFINE b == j.bet
           win == WinAmount(j.bet, j.number)
<1>1. b \in Bets /\ j.number \in Numbers /\ win \in Nat /\ win # NoRow
  BY Earns, Timeline DEF Typed, TableTypes, Jobs
<1>2. \A i \in jobs : i \in Jobs /\ i.bet \in Bets
  BY DEF Typed, TableTypes, Jobs
<1> DEFINE after == IF win > 0 THEN "WON" ELSE "LOST"
<1>3. ASSUME betResult[b] = NoRow, betResult' = [betResult EXCEPT ![b] = win],
             bet' = [bet EXCEPT ![b] = after],
             UNCHANGED <<game, resultNumber>>, paid' \in {paid, paid \cup {b}},
             b \in paid' \/ (game = "5d" /\ win > 0),
             NEW more, jobs' = (jobs \ {j}) \cup more,
             more # {} => (b \notin paid' /\ more = {[j EXCEPT !.pc = "pay"]})
      PROVE  BetInv'
  <2> HIDE DEF win, after
  <2>1. after \in {"WON", "LOST"}
    BY DEF after
  <2>2. \A c \in Bets : /\ betResult'[c] = IF c = b THEN win ELSE betResult[c]
                        /\ bet'[c] = IF c = b THEN after ELSE bet[c]
                        /\ c # b => (c \in paid' <=> c \in paid)
    BY <1>1, <1>3 DEF Typed, TableTypes
  <2>3. RowsAgree'
    <3> SUFFICES ASSUME NEW c \in Bets
                 PROVE  /\ betResult'[c] = NoRow <=> bet'[c] \notin {"WON", "LOST"}
                        /\ c \in paid' => betResult'[c] # NoRow
                        /\ (betResult'[c] # NoRow /\ c \notin paid') => (game' = "5d" /\ betResult'[c] > 0)
      BY DEF RowsAgree, NoRow
    <3>1. CASE c = b
      BY <1>1, <1>3, <2>1, <2>2, <3>1
    <3>2. CASE c # b
      BY <1>3, <2>2, <3>2 DEF BetInv, RowsAgree
    <3> QED
      BY <3>1, <3>2
  <2>4. ASSUME NEW i \in jobs, i.pc = "pay", i.bet = b PROVE FALSE
    <3>1. betResult[b] > 0
      BY <2>4 DEF BetInv, JobsAgree
    <3>2. betResult[b] = -1
      BY <1>3 DEF NoRow
    <3> QED
      BY <3>1, <3>2
  <2>5. ASSUME NEW i \in more
        PROVE  i = [j EXCEPT !.pc = "pay"] /\ i.bet = b /\ i.number = j.number /\ i.pc = "pay"
    BY <1>2, <1>3 DEF Jobs
  <2>6. ASSUME NEW i \in jobs'
        PROVE  /\ i.number = resultNumber'[i.bet.slot]
               /\ bet'[i.bet] \in {"PENDING", "WON", "LOST"}
               /\ i.pc = "pay" => /\ game' = "5d" /\ i.bet \notin paid'
                                  /\ betResult'[i.bet] = WinAmount(i.bet, i.number)
                                  /\ betResult'[i.bet] > 0
    <3>1. CASE i \in jobs
      BY <1>2, <1>3, <2>1, <2>2, <2>4, <3>1 DEF BetInv, JobsAgree
    <3>2. CASE i \in more
      BY <1>1, <1>3, <2>1, <2>2, <2>5, <3>2 DEF BetInv, JobsAgree, win
    <3> QED
      BY <1>3, <3>1, <3>2
  <2>7. ASSUME NEW i \in jobs', NEW k \in jobs', i.pc = "pay", k.pc = "pay", i.bet = k.bet
        PROVE  i = k
    BY <1>2, <1>3, <2>4, <2>5, <2>7 DEF BetInv, JobsAgree
  <2> QED
    BY <2>3, <2>6, <2>7 DEF BetInv, JobsAgree, WinAmount
<1>4. CASE SettleInOne(j)
  <2>1. jobs' = (jobs \ {j}) \cup {}
    BY <1>4 DEF SettleInOne
  <2> QED
    BY <1>3, <1>4, <2>1 DEF SettleInOne, NoResultRow
<1>5. CASE FiveDRecord(j)
  <2>1. CASE win > 0
    <3>1. b \notin paid
      BY <1>1, <1>5 DEF FiveDRecord, NoResultRow, BetInv, RowsAgree
    <3> QED
      BY <1>3, <1>5, <2>1, <3>1 DEF FiveDRecord, NoResultRow
  <2>2. CASE ~(win > 0)
    BY <1>3, <1>5, <2>2 DEF FiveDRecord, NoResultRow
  <2> QED
    BY <2>1, <2>2
<1>6. CASE FiveDPay(j)
  <2> HIDE DEF win, after
  <2>1. /\ jobs' = jobs \ {j} /\ paid' = paid \cup {b}
        /\ UNCHANGED <<game, bet, betResult, resultNumber>> /\ j.pc = "pay"
    BY <1>6 DEF FiveDPay
  <2>2. betResult[b] # NoRow
    BY <2>1, <1>1, Timeline DEF BetInv, JobsAgree, win
  <2>3. RowsAgree'
    BY <2>1, <2>2 DEF BetInv, RowsAgree
  <2>4. \A i \in jobs' : i.pc = "pay" => i.bet # b
    BY <2>1 DEF BetInv, JobsAgree
  <2>5. JobsAgree'
    BY <2>1, <2>4 DEF BetInv, JobsAgree, WinAmount
  <2> QED
    BY <2>3, <2>5 DEF BetInv
<1> QED
  BY <1>4, <1>5, <1>6 DEF SettlesBet

\* A bet that is placed is new to the settlement.
LEMMA BetPlace ==
  ASSUME Typed, BetInv, NEW b \in Bets, CheckBet(b) \/ CommitBet(b) \/ DropBet(b)
  PROVE  BetInv'
<1>1. /\ UNCHANGED <<game, betResult, paid, jobs, resultNumber>>
      /\ bet[b] \in {"none", "checked"}
  BY DEF CheckBet, CommitBet, DropBet
<1>2. \/ bet' = bet
      \/ bet' = [bet EXCEPT ![b] = "checked"] \/ bet' = [bet EXCEPT ![b] = "PENDING"]
      \/ bet' = [bet EXCEPT ![b] = "none"]
  BY DEF CheckBet, CommitBet, DropBet
<1>3. \A c \in Bets : bet'[c] = bet[c] \/ (c = b /\ bet'[c] \in {"none", "checked", "PENDING"})
  BY <1>2 DEF Typed, TableTypes
<1>4. \A j \in jobs : j.bet \in Bets
  BY DEF Typed, TableTypes, Jobs
<1>5. RowsAgree'
  BY <1>1, <1>3 DEF BetInv, RowsAgree
<1>6. JobsAgree'
  BY <1>1, <1>3, <1>4 DEF BetInv, JobsAgree, WinAmount
<1> QED
  BY <1>5, <1>6 DEF BetInv

LEMMA BetNext == Typed /\ PeriodInv /\ BetInv /\ [Next]_vars => BetInv'
<1> SUFFICES ASSUME Typed, PeriodInv, BetInv, [Next]_vars PROVE BetInv'
  OBVIOUS
<1>1. \A s \in Slots : resultNumber[s] # NoResult => resultNumber'[s] = resultNumber[s]
  BY DrawnKept
<1>2. CASE \/ CycleTask /\ UNCHANGED <<lifecycle, draw, settle, block>>
           \/ TrxTask /\ UNCHANGED cycle
  <2>1. CASE UNCHANGED jobs
    BY <1>1, <1>2, <2>1, TasksKeepRows, BetFrame DEF RowsKept, moneyVars
  <2>2. jobs' = jobs \/ DropsJobs \/ \E S : StartsJobs(S) /\ S \subseteq {s \in Slots : Drawn(s)}
    BY <1>2, EngineEffect DEF Ends, Creates, Quiet, ResolvesSome, Stores, OnlyStatus
  <2> QED
    BY <2>1, <2>2, BetDrop, BetStart
<1>3. CASE \E j \in jobs : SettlesBet(j)
  BY <1>3, BetSettle
<1>4. CASE \E b \in Bets : CheckBet(b) \/ CommitBet(b) \/ DropBet(b)
  BY <1>4, BetPlace
<1>5. CASE SetResults \/ Tick \/ ClockBack \/ UNCHANGED vars
  BY <1>1, <1>5, BetFrame
  DEF SetResults, AdminCheck, AdminWrite, Tick, ClockBack, vars, tableVars, moneyVars
<1> QED
  BY <1>2, <1>3, <1>4, <1>5, NextCases

LEMMA BetInvariant == Spec => [](Typed /\ PeriodInv /\ BetInv)
<1>1. Typed /\ PeriodInv /\ BetInv /\ [Next]_vars => Typed' /\ PeriodInv' /\ BetInv'
  BY TypeNext, PeriodNext, BetNext
<1> QED
  BY <1>1, TypeInit, PeriodInit, BetInit, PTL DEF Spec

--------------------------------------------------------------------------------
(* Requests that do not outlast the draw, and what a resolved period owes   *)

\* A request that has been checked is for a period that still runs.
CheckedInv ==
  "bet" \in Prompt =>
    \A b \in Bets : bet[b] = "checked" => (now < DrawTime(b.slot) /\ status[b.slot] = "ACTIVE")

\* Each PENDING bet of the periods a run has read is settled by a call of that run.
Awaited(S) ==
  \A b \in Bets : (b.slot \in S /\ bet[b] = "PENDING") => \E j \in jobs : j.bet = b /\ j.run

SettledInv ==
  "bet" \in Prompt =>
    /\ \A b \in Bets : status[b.slot] = "RESOLVED" => bet[b] # "PENDING"
    /\ cycle.pc = "await" => Awaited(cycle.todo)
    /\ settle.pc = "await" => Awaited(settle.todo)

LEMMA CheckedInit == Init => CheckedInv /\ SettledInv
BY DEF Init, TablesInit, CycleInit, TronInit, IdleCycle, IdleSettle, CheckedInv, SettledInv

LEMMA CheckedNext == Typed /\ PeriodInv /\ CheckedInv /\ [Next]_vars => CheckedInv'
<1> SUFFICES ASSUME Typed, PeriodInv, CheckedInv, [Next]_vars, "bet" \in Prompt,
                    NEW b \in Bets, bet'[b] = "checked"
             PROVE  now' < DrawTime(b.slot)' /\ status'[b.slot] = "ACTIVE"
  BY DEF CheckedInv
<1>1. b.slot \in Slots
  BY TablesAssumption
<1>2. now \in Nat /\ DrawTime(b.slot) \in Nat /\ DrawTime(b.slot) <= EndTime(b.slot)
      /\ LockTime(b.slot) < DrawTime(b.slot) /\ EndTime(b.slot) \in Nat /\ LockTime(b.slot) \in Nat
  <2>1. now \in Nat
    BY DEF Typed, TableTypes
  <2> QED
    BY <1>1, <2>1, Timeline
<1>3. bet[b] = "checked" => (now < DrawTime(b.slot) /\ status[b.slot] = "ACTIVE")
  BY DEF CheckedInv
<1>4. game' = game => DrawTime(b.slot)' = DrawTime(b.slot)
  BY DEF DrawTime
<1> USE <1>1, <1>2, <1>3, <1>4
<1>5. CASE \/ CycleTask /\ UNCHANGED <<lifecycle, draw, settle, block>>
           \/ TrxTask /\ UNCHANGED cycle
  <2>1. UNCHANGED <<game, now, bet>>
    BY <1>5, TasksKeepRows DEF RowsKept, moneyVars
  <2>2. status'[b.slot] = "ACTIVE"
    <3>1. CASE Ends
      BY <2>1, <3>1 DEF Ends
    <3>2. CASE Creates
      BY <2>1, <3>2 DEF Creates
    <3>3. ASSUME NEW S, ResolvesSome(S), S \subseteq {s \in Slots : Drawn(s)}
          PROVE  status'[b.slot] = "ACTIVE"
      BY <2>1, <3>3 DEF ResolvesSome, Drawn
    <3> QED
      BY <1>5, <2>1, <3>1, <3>2, <3>3, EngineEffect DEF Quiet, DropsJobs, Stores, StartsJobs
  <2> QED
    BY <2>1, <2>2
<1>6. ASSUME NEW j \in jobs, SettlesBet(j)
      PROVE  now' < DrawTime(b.slot)' /\ status'[b.slot] = "ACTIVE"
  <2>1. UNCHANGED <<game, now, status>>
        /\ (bet' = bet \/ bet' = [bet EXCEPT ![j.bet] = "WON"] \/ bet' = [bet EXCEPT ![j.bet] = "LOST"])
    BY <1>6 DEF SettlesBet, SettleInOne, FiveDRecord, FiveDPay
  <2>2. bet[b] = "checked"
    BY <2>1 DEF Typed, TableTypes
  <2> QED
    BY <2>1, <2>2
<1>7. ASSUME NEW c \in Bets, CheckBet(c) \/ CommitBet(c) \/ DropBet(c)
      PROVE  now' < DrawTime(b.slot)' /\ status'[b.slot] = "ACTIVE"
  <2>1. UNCHANGED <<game, now, status>>
    BY <1>7 DEF CheckBet, CommitBet, DropBet
  <2>2. bet[b] = "checked" \/ CheckBet(b)
    BY <1>7 DEF CheckBet, CommitBet, DropBet, Typed, TableTypes
  <2>3. CASE CheckBet(b)
    BY <2>1, <2>3 DEF CheckBet, OpenForBets
  <2> QED
    BY <2>1, <2>2, <2>3
<1>8. CASE SetResults \/ UNCHANGED vars
  BY <1>8 DEF SetResults, AdminCheck, AdminWrite, vars, tableVars, moneyVars
<1>9. CASE Tick
  <2>1. UNCHANGED <<game, status, bet>> /\ (bet[b] = "checked" => now' < DrawTime(b.slot))
    BY <1>9 DEF Tick, moneyVars
  <2> QED
    BY <2>1
<1>10. CASE ClockBack
  BY <1>10 DEF ClockBack, moneyVars
<1> QED
  BY <1>5, <1>6, <1>7, <1>8, <1>9, <1>10, NextCases

\* A run resolves nothing while a bet of what it has read is left.
LEMMA AwaitedDone ==
  ASSUME NEW S, Awaited(S), RunDone
  PROVE  \A b \in Bets : b.slot \in S => bet[b] # "PENDING"
BY DEF Awaited, RunDone

\* The steps that leave the periods and tasks alone.
LEMMA AwaitedFrame ==
  ASSUME SettledInv, UNCHANGED <<status, cycle, settle>>,
         \A b \in Bets : bet'[b] = "PENDING" =>
           /\ status[b.slot] \notin {"RESOLVED"}
           /\ \/ bet[b] = "PENDING" /\ \A j \in jobs : (j.bet = b /\ j.run) => j \in jobs'
              \/ /\ cycle.pc = "await" => b.slot \notin cycle.todo
                 /\ settle.pc = "await" => b.slot \notin settle.todo
  PROVE  SettledInv'
BY DEF SettledInv, Awaited

LEMMA SettledCycle ==
  ASSUME Typed, PeriodInv, SettledInv, CycleTask, UNCHANGED <<lifecycle, draw, settle, block>>
  PROVE  SettledInv'
<1> SUFFICES ASSUME "bet" \in Prompt
             PROVE  /\ \A b \in Bets : status'[b.slot] = "RESOLVED" => bet'[b] # "PENDING"
                    /\ cycle'.pc = "await" => Awaited(cycle.todo)'
                    /\ settle'.pc = "await" => Awaited(settle.todo)'
  BY DEF SettledInv
<1>1. UNCHANGED <<bet, game>>
  BY TasksKeepRows DEF RowsKept, moneyVars
<1>2. \A b \in Bets : b.slot \in Slots
  BY TablesAssumption
<1>3. game # "trx" /\ settle.pc = "idle"
  BY CycleGame, IdleStates DEF Typed, OneScheduler
<1>4. cycle \in CycleStates
  BY DEF Typed, TaskTypes
<1> USE <1>1, <1>2, <1>3, <1>4 DEF At, Goto, IdleCycle, CycleStates
<1>5. CASE CycleEnds \/ CycleCreates
  <2>1. \A s \in Slots : status'[s] = "RESOLVED" => status[s] = "RESOLVED"
    BY <1>5 DEF CycleEnds, CycleCreates, Ends, Creates
  <2> QED
    BY <1>5, <2>1 DEF CycleEnds, CycleCreates, SettledInv
<1>6. CASE CycleLists \/ CycleGenerates \/ CycleConsumes \/ CycleStores
  <2>1. status' = status
    BY <1>6 DEF CycleLists, CycleGenerates, CycleConsumes, CycleStores, Quiet, Stores
  <2>2. cycle'.pc # "await"
    BY <1>6 DEF CycleLists, CycleGenerates, CycleConsumes, CycleStores
  <2> QED
    BY <2>1, <2>2 DEF SettledInv
<1>7. CASE CycleSettles
  <2>1. status' = status
    BY <1>7 DEF CycleSettles, StartsJobs, Quiet
  <2>2. CASE StartsJobs(Settles) /\ cycle' = [IdleCycle EXCEPT !.pc = "await", !.todo = Settles]
    <3>1. cycle'.todo = Settles
      BY <2>2
    <3>2. ASSUME NEW b \in Bets, b.slot \in Settles, bet[b] = "PENDING"
          PROVE  \E j \in jobs' : j.bet = b /\ j.run
      <4>1. b \in PendingBets(b.slot)
        BY <3>2 DEF PendingBets
      <4>2. Job(b, resultNumber[b.slot]) \in jobs'
        BY <2>2, <3>2, <4>1 DEF StartsJobs
      <4> QED
        BY <4>2 DEF Job
    <3> QED
      BY <2>1, <3>1, <3>2 DEF SettledInv, Awaited
  <2>3. CASE Goto("idle")
    BY <2>1, <2>3 DEF SettledInv
  <2> QED
    BY <1>7, <2>2, <2>3 DEF CycleSettles
<1>8. CASE CycleFails
  <2>1. status' = status
    BY <1>8 DEF CycleFails, DropsJobs
  <2>2. CASE Goto("idle")
    BY <2>1, <2>2 DEF SettledInv
  <2>3. CASE UNCHANGED cycle /\ \A j \in jobs : (j.run /\ At("await")) => j \in jobs'
    BY <2>1, <2>3 DEF SettledInv, Awaited
  <2> QED
    BY <1>8, <2>2, <2>3 DEF CycleFails
<1>9. CASE CycleResolves
  <2>1. Resolves \subseteq cycle.todo
    BY DEF Resolves, K3Resolves, FiveDResolves, MotoResolves, Typed, TableTypes
  <2>2. \A b \in Bets : b.slot \in cycle.todo => bet[b] # "PENDING"
    BY <1>9, AwaitedDone DEF CycleResolves, SettledInv
  <2>3. \A s \in Slots : status'[s] = status[s] \/ s \in Resolves
    BY <1>9 DEF CycleResolves, ResolvesSome
  <2>4. cycle'.pc = "idle"
    BY <1>9 DEF CycleResolves
  <2> QED
    BY <2>1, <2>2, <2>3, <2>4 DEF SettledInv
<1>10. CASE CyclePasses
  <2>1. status' = status /\ cycle'.pc # "await"
    BY <1>10 DEF CyclePasses, Quiet, DropsJobs
  <2> QED
    BY <2>1 DEF SettledInv
<1> QED
  BY <1>5, <1>6, <1>7, <1>8, <1>9, <1>10 DEF CycleTask

LEMMA SettledTrx ==
  ASSUME Typed, PeriodInv, SettledInv, TrxTask, UNCHANGED cycle
  PROVE  SettledInv'
<1> SUFFICES ASSUME "bet" \in Prompt
             PROVE  /\ \A b \in Bets : status'[b.slot] = "RESOLVED" => bet'[b] # "PENDING"
                    /\ settle'.pc = "await" => Awaited(settle.todo)'
  <2>1. cycle'.pc # "await"
    BY TrxTaskTypes, IdleStates DEF Typed, OneScheduler
  <2> QED
    BY <2>1 DEF SettledInv
<1>1. UNCHANGED <<bet, game>>
  BY TasksKeepRows DEF RowsKept, moneyVars
<1>2. \A b \in Bets : b.slot \in Slots
  BY TablesAssumption
<1>3. settle \in SettleStates /\ IdleSettle.pc = "idle"
  BY IdleStates DEF Typed, TaskTypes
<1> USE <1>1, <1>2, <1>3
<1>4. CASE TrxHandsOver
  <2>1. \A s \in Slots : status'[s] = "RESOLVED" => status[s] = "RESOLVED"
    BY <1>4 DEF TrxHandsOver, Ends, Creates, Quiet
  <2>2. jobs' = jobs
    BY <1>4 DEF TrxHandsOver, Ends, Creates, Quiet, OnlyStatus
  <2>3. settle'.pc = "await" => settle' = settle
    BY <1>4 DEF TrxHandsOver, SettleStates
  <2> QED
    BY <2>1, <2>2, <2>3 DEF SettledInv, Awaited
<1>5. CASE TrxAims \/ TrxStores
  <2>1. UNCHANGED <<status, jobs, settle>>
    BY <1>5 DEF TrxAims, TrxStores, Quiet, Stores
  <2> QED
    BY <2>1 DEF SettledInv, Awaited
<1>6. CASE TrxSettlesAll
  <2>1. CASE settle' = [pc |-> "await", todo |-> TrxSettles] /\ StartsJobs(TrxSettles)
    <3>1. settle'.todo = TrxSettles /\ status' = status
      BY <2>1 DEF StartsJobs
    <3>2. ASSUME NEW b \in Bets, b.slot \in TrxSettles, bet[b] = "PENDING"
          PROVE  \E j \in jobs' : j.bet = b /\ j.run
      <4>1. b \in PendingBets(b.slot)
        BY <3>2 DEF PendingBets
      <4>2. Job(b, resultNumber[b.slot]) \in jobs'
        BY <2>1, <3>2, <4>1 DEF StartsJobs
      <4> QED
        BY <4>2 DEF Job
    <3> QED
      BY <3>1, <3>2 DEF SettledInv, Awaited
  <2>2. CASE settle' = IdleSettle /\ (Quiet \/ DropsJobs)
    BY <2>2 DEF SettledInv, Quiet, DropsJobs
  <2>3. CASE UNCHANGED settle /\ DropsJobs /\ \A j \in jobs : (j.run /\ settle.pc = "await") => j \in jobs'
    BY <2>3 DEF SettledInv, Awaited, DropsJobs
  <2>4. CASE settle.pc = "await" /\ RunDone /\ settle' = IdleSettle /\ ResolvesSome(settle.todo)
    <3>1. \A b \in Bets : b.slot \in settle.todo => bet[b] # "PENDING"
      BY <2>4, AwaitedDone DEF SettledInv
    <3> QED
      BY <2>4, <3>1 DEF SettledInv, ResolvesSome
  <2> QED
    BY <1>6, <2>1, <2>2, <2>3, <2>4 DEF TrxSettlesAll
<1>7. CASE TrxDies
  BY <1>7 DEF TrxDies, SettledInv, DropsJobs
<1> QED
  BY <1>4, <1>5, <1>6, <1>7 DEF TrxTask

LEMMA SettledNext ==
  Typed /\ PeriodInv /\ BetInv /\ CheckedInv /\ SettledInv /\ [Next]_vars => SettledInv'
<1> SUFFICES ASSUME Typed, PeriodInv, BetInv, CheckedInv, SettledInv, [Next]_vars
             PROVE  SettledInv'
  OBVIOUS
<1> SUFFICES ASSUME "bet" \in Prompt PROVE SettledInv'
  BY DEF SettledInv
<1>1. CASE UNCHANGED tasks /\ \E j \in jobs : SettlesBet(j)
  <2>1. PICK j \in jobs : SettlesBet(j)
    BY <1>1
  <2>2. j.bet \in Bets /\ j.pc \in {"record", "pay"}
    BY DEF Typed, TableTypes, Jobs
  <2>3. status' = status /\ \A i \in jobs : i # j => i \in jobs'
    BY <2>1 DEF SettlesBet, SettleInOne, FiveDRecord, FiveDPay
  <2>4. bet'[j.bet] # "PENDING" /\ \A b \in Bets : bet'[b] = "PENDING" => bet[b] = "PENDING"
    <3>1. CASE SettleInOne(j) \/ FiveDRecord(j)
      BY <2>2, <3>1 DEF SettleInOne, FiveDRecord, Typed, TableTypes
    <3>2. CASE FiveDPay(j)
      <4>1. betResult[j.bet] > 0 /\ bet' = bet
        BY <3>2 DEF FiveDPay, BetInv, JobsAgree
      <4> QED
        BY <2>2, <4>1 DEF BetInv, RowsAgree, NoRow
    <3> QED
      BY <2>1, <3>1, <3>2 DEF SettlesBet
  <2>5. ASSUME NEW b \in Bets, bet'[b] = "PENDING"
        PROVE  /\ bet[b] = "PENDING" /\ status[b.slot] # "RESOLVED"
               /\ \A i \in jobs : (i.bet = b /\ i.run) => i \in jobs'
    BY <2>3, <2>4, <2>5 DEF SettledInv
  <2> QED
    BY <1>1, <2>3, <2>5, AwaitedFrame DEF tasks
<1>2. CASE UNCHANGED tasks /\ \E b \in Bets : CheckBet(b) \/ CommitBet(b) \/ DropBet(b)
  <2>1. PICK c \in Bets : CheckBet(c) \/ CommitBet(c) \/ DropBet(c)
    BY <1>2
  <2>2. UNCHANGED <<status, jobs>>
    BY <2>1 DEF CheckBet, CommitBet, DropBet
  <2>3. \A b \in Bets : bet'[b] = "PENDING" => (bet[b] = "PENDING" \/ (b = c /\ bet[b] = "checked"))
    BY <2>1 DEF CheckBet, CommitBet, DropBet, Typed, TableTypes
  <2>4. ASSUME NEW b \in Bets, bet[b] = "checked"
        PROVE  /\ status[b.slot] # "RESOLVED"
               /\ cycle.pc = "await" => b.slot \notin cycle.todo
               /\ settle.pc = "await" => b.slot \notin settle.todo
    BY <2>4 DEF CheckedInv, PeriodInv, Drawn
  <2>5. \A b \in Bets : (status[b.slot] = "RESOLVED" => bet[b] # "PENDING")
    BY DEF SettledInv
  <2> QED
    BY <1>2, <2>2, <2>3, <2>4, <2>5, AwaitedFrame DEF tasks
<1>3. CASE UNCHANGED tasks /\ (SetResults \/ Tick \/ ClockBack)
  <2>1. UNCHANGED <<status, jobs, bet, cycle, settle>>
    BY <1>3 DEF SetResults, AdminCheck, AdminWrite, Tick, ClockBack, moneyVars, tasks
  <2> QED
    BY <2>1 DEF SettledInv, Awaited
<1>4. CASE UNCHANGED vars
  BY <1>4 DEF vars, tableVars, moneyVars, tasks, SettledInv, Awaited
<1> QED
  BY <1>1, <1>2, <1>3, <1>4, NextCases, SettledCycle, SettledTrx

LEMMA BookInvariant == Spec => [](Typed /\ PeriodInv /\ BetInv /\ CheckedInv /\ SettledInv)
<1> DEFINE All == Typed /\ PeriodInv /\ BetInv /\ CheckedInv /\ SettledInv
<1>1. Init => All
  BY TypeInit, PeriodInit, BetInit, CheckedInit
<1>2. All /\ [Next]_vars => All'
  BY TypeNext, PeriodNext, BetNext, CheckedNext, SettledNext
<1> QED
  BY <1>1, <1>2, PTL DEF Spec

\* No bet of a RESOLVED period is PENDING, provided no place-bet request outlasts the draw
\* of its slot: each run resolves what it has read, all of its calls are back by then, and
\* the periods it has read take no bets.
THEOREM ResolvedHasSettled == Spec => []ResolvedOwesNothing
<1>1. SettledInv => ResolvedOwesNothing
  BY DEF SettledInv, ResolvedOwesNothing, PendingBets
<1> QED
  BY <1>1, BookInvariant, PTL

\* What a player is shown stays: a listed period keeps its number, takes no bet, and for
\* K3 and Moto, which list RESOLVED periods, the winnings listed with a bet do not change.
THEOREM ShownStays == Spec => ShownIsFinal
<1> DEFINE Final ==
      \A s \in Slots : Listed(s) =>
        /\ Listed(s)'
        /\ resultNumber'[s] = resultNumber[s]
        /\ ("bet" \in Prompt /\ game \in {"k3", "moto"}) =>
             \A b \in Bets : b.slot = s => (bet'[b] = bet[b] /\ ShownWin(b)' = ShownWin(b))
      All == Typed /\ PeriodInv /\ BetInv /\ CheckedInv /\ SettledInv
<1> USE DEF Listed, K3Listed, FiveDListed, MotoListed, TrxListed
<1>1. All /\ [Next]_vars => Final
  <2> SUFFICES ASSUME All, [Next]_vars, NEW s \in Slots, Listed(s)
               PROVE  /\ Listed(s)' /\ resultNumber'[s] = resultNumber[s]
                      /\ ("bet" \in Prompt /\ game \in {"k3", "moto"}) =>
                           \A b \in Bets : b.slot = s => (bet'[b] = bet[b] /\ ShownWin(b)' = ShownWin(b))
    OBVIOUS
  <2>1. resultNumber[s] # NoResult
    BY DEF PeriodInv
  <2>2. resultNumber'[s] = resultNumber[s] /\ (status[s] = "RESOLVED" => status'[s] = "RESOLVED")
    BY <2>1, DrawnKept
  <2>3. game' = game
    <3>1. CASE CycleTask \/ TrxTask
      BY <3>1, TasksKeepRows DEF RowsKept
    <3> QED
      BY <3>1, NextCases
      DEF SettlesBet, SettleInOne, FiveDRecord, FiveDPay, CheckBet, CommitBet, DropBet, SetResults,
          AdminCheck, AdminWrite, Tick, ClockBack, vars, tableVars
  <2>4. ASSUME "bet" \in Prompt, game \in {"k3", "moto"}, NEW b \in Bets, b.slot = s
        PROVE  bet'[b] = bet[b] /\ ShownWin(b)' = ShownWin(b)
    <3>1. status[s] = "RESOLVED"
      BY <2>4
    <3>2. bet[b] # "PENDING" /\ bet[b] # "checked"
      BY <2>4, <3>1 DEF SettledInv, CheckedInv
    <3>3. bet \in [Bets -> {"none", "checked", "PENDING", "WON", "LOST"}]
          /\ betResult \in [Bets -> Nat \cup {NoRow}]
      BY DEF Typed, TableTypes
    <3>4. ASSUME NEW j \in jobs, SettlesBet(j) PROVE bet'[b] = bet[b] /\ betResult'[b] = betResult[b]
      <4>1. j.bet \in Bets /\ bet[j.bet] \in {"PENDING", "WON", "LOST"}
        BY DEF Typed, TableTypes, Jobs, BetInv, JobsAgree
      <4>2. betResult[j.bet] = NoRow => j.bet # b
        BY <3>2, <4>1 DEF BetInv, RowsAgree
      <4>3. \/ UNCHANGED <<bet, betResult>>
            \/ /\ betResult[j.bet] = NoRow
               /\ \E st \in {"WON", "LOST"} : bet' = [bet EXCEPT ![j.bet] = st]
               /\ betResult' = [betResult EXCEPT ![j.bet] = WinAmount(j.bet, j.number)]
        BY <3>4 DEF SettlesBet, SettleInOne, FiveDRecord, FiveDPay, NoResultRow
      <4> QED
        BY <3>3, <4>2, <4>3
    <3>5. ASSUME NEW c \in Bets, CheckBet(c) \/ CommitBet(c) \/ DropBet(c)
          PROVE  bet'[b] = bet[b] /\ betResult'[b] = betResult[b]
      <4>1. c # b
        BY <2>4, <3>1, <3>2, <3>5 DEF CheckBet, CommitBet, DropBet, OpenForBets
      <4> QED
        BY <3>3, <3>5, <4>1 DEF CheckBet, CommitBet, DropBet
    <3>6. ASSUME CycleTask \/ TrxTask PROVE UNCHANGED <<bet, betResult>>
      BY <3>6, TasksKeepRows DEF RowsKept, moneyVars
    <3>7. (SetResults \/ Tick \/ ClockBack \/ UNCHANGED vars) => UNCHANGED <<bet, betResult>>
      BY DEF SetResults, AdminCheck, AdminWrite, Tick, ClockBack, vars, tableVars, moneyVars
    <3>8. bet'[b] = bet[b] /\ betResult'[b] = betResult[b]
      BY <3>4, <3>5, <3>6, <3>7, NextCases
    <3> QED
      BY <3>8 DEF ShownWin
  <2> QED
    BY <2>1, <2>2, <2>3, <2>4
<1>2. Spec => [][Final]_vars
  <2>1. All /\ [Next]_vars => [Final]_vars
    BY <1>1
  <2> QED
    BY <2>1, BookInvariant, PTL DEF Spec
<1> QED
  BY <1>2 DEF ShownIsFinal

--------------------------------------------------------------------------------
(* A table is a RoundLedger                                                 *)

\* No failure is taken back.
LEMMA FaultsGrow ==
  ASSUME Typed, [Next]_vars
  PROVE  faults' = faults \/ faults' = faults + 1
<1> USE DEF Fault
<1>1. CASE PlaceBet \/ SetResults \/ Tick \/ ClockBack
  BY <1>1 DEF PlaceBet, K3Bet, FiveDBet, MotoBet, TrxBet, CheckBet, CommitBet, DropBet, SetResults,
              AdminCheck, AdminWrite, Tick, ClockBack
<1>2. CASE K3Cycle \/ FiveDCycle \/ MotoCycle
  <2>1. CASE K3Cycle
    BY <2>1 DEF K3Cycle, K3Tick, K3EndActivePeriods, K3CreatePeriod, K3ListUndrawn,
                K3ProcessPeriodResult, StartCycle, EndInOneUpdate, CreateCurrent, ListUndrawn,
                Generate, ConsumeAdminResult, StoreResult, tableVars
  <2>2. CASE FiveDCycle
    BY <2>2 DEF FiveDCycle, FiveDTick, FiveDEndActivePeriods, FiveDCreatePeriod, FiveDListUndrawn,
                FiveDProcessPeriodResult, StartCycle, EndInOneUpdate, CreateCurrent, ListUndrawn,
                Generate, ConsumeAdminResult, StoreResult, tableVars
  <2>3. CASE MotoCycle
    BY <2>3 DEF MotoCycle, MotoTick, MotoEndActivePeriods, MotoCreatePeriod, MotoListUndrawn,
                MotoProcessPeriodResult, StartCycle, CreateCurrent, ListUndrawn,
                Generate, StoreResult, tableVars
  <2> QED
    BY <1>2, <2>1, <2>2, <2>3
<1>3. CASE DrawsDone \/ SettleStart \/ ResolvePeriods \/ (\E j \in jobs : SettleFails(j)) \/ CycleCrash
  BY <1>3 DEF DrawsDone, SettleStart, ResolvePeriods, SettleFails, CycleCrash, tableVars
<1>4. CASE TrxLifecycle \/ TrxDraw
  BY <1>4 DEF TrxLifecycle, TrxTick, TrxEndActivePeriods, TrxCreatePeriod, TrxDraw, TrxListDue,
              TrxWake, TrxFetchTip, TrxStoreResult, tableVars
<1>5. CASE TrxSettleStart \/ TrxResolve \/ (\E j \in jobs : TrxSettleFails(j)) \/ TrxCrash
  BY <1>5 DEF TrxSettleStart, TrxResolve, TrxSettleFails, TrxCrash
<1>6. CASE SettleStep \/ TrxSettleStep
  BY <1>6 DEF SettleStep, TrxSettleStep, K3SettleBet, MotoSettleBet, TrxSettleBet, SettleInOne,
              FiveDRecord, FiveDPay
<1>7. CASE UNCHANGED vars
  BY <1>7 DEF vars, tableVars
<1> QED
  BY <1>1, <1>2, <1>3, <1>4, <1>5, <1>6, <1>7
  DEF Next, Request, Clock, CycleTasks, CycleNext, CycleStep, TronTasks, TronNext

\* The clock of a TRX table is not set back across the whole time between the lock and the
\* draw of a period: the draw is not repeated, but bets would be taken on a known number.
SmallSetBacks ==
  ("trx" \in Games /\ "clock" \in FaultKinds) => MaxFaults <= LockLen - DrawOffset

SetBacks == IF "clock" \in FaultKinds THEN faults ELSE 0

\* A drawn TRX period is past its draw, but for the times the clock was set back.
DrawnLate ==
  game = "trx" =>
    \A s \in Slots : resultNumber[s] # NoResult => DrawTime(s) <= now + SetBacks

\* A checked bet is for a period without a number.
BookOpen ==
  "bet" \in Prompt => \A b \in Bets : bet[b] = "checked" => resultNumber[b.slot] = NoResult

LEMMA LateInit == Init => DrawnLate /\ BookOpen
BY TablesAssumption DEF Init, TablesInit, DrawnLate, BookOpen

LEMMA SetBacksGrow ==
  ASSUME Typed, [Next]_vars
  PROVE  SetBacks \in Nat /\ SetBacks' \in Nat /\ SetBacks <= SetBacks'
<1>1. faults \in Nat
  BY TablesAssumption DEF Typed, TableTypes
<1> QED
  BY <1>1, FaultsGrow DEF SetBacks

LEMMA LateNext ==
  Typed /\ PeriodInv /\ DrawnLate /\ [Next]_vars => DrawnLate'
<1> SUFFICES ASSUME Typed, PeriodInv, DrawnLate, [Next]_vars, game' = "trx",
                    NEW s \in Slots, resultNumber'[s] # NoResult
             PROVE  DrawTime(s)' <= now' + SetBacks'
  BY DEF DrawnLate
<1>1. now \in Nat /\ now' \in Nat /\ DrawTime(s) \in Nat
      /\ SetBacks \in Nat /\ SetBacks' \in Nat /\ SetBacks <= SetBacks'
  <2>1. now \in Nat /\ now' \in Nat
    BY TypeNext DEF Typed, TableTypes
  <2> QED
    BY <2>1, Timeline, SetBacksGrow
<1>2. ASSUME game' = game, now <= now', resultNumber[s] # NoResult
      PROVE  DrawTime(s)' <= now' + SetBacks'
  <2>1. DrawTime(s)' = DrawTime(s) /\ DrawTime(s) <= now + SetBacks
    BY <1>2 DEF DrawTime, DrawnLate
  <2> QED
    BY <1>1, <1>2, <2>1
<1>3. CASE \/ CycleTask /\ UNCHANGED <<lifecycle, draw, settle, block>>
           \/ TrxTask /\ UNCHANGED cycle
  <2>1. UNCHANGED <<game, now>>
    BY <1>3, TasksKeepRows DEF RowsKept
  <2>2. ASSUME NEW t \in Slots, NEW n \in Numbers, Stores(t, n), Undrawn(t), DrawTime(t) <= now
        PROVE  DrawTime(s)' <= now' + SetBacks'
    <3>1. CASE s = t
      <4>1. DrawTime(s)' = DrawTime(s)
        BY <2>1 DEF DrawTime
      <4> QED
        BY <1>1, <2>1, <2>2, <3>1, <4>1
    <3>2. CASE s # t
      <4>1. resultNumber[s] # NoResult
        BY <2>2, <3>2 DEF Stores, Typed, TableTypes
      <4> QED
        BY <1>1, <1>2, <2>1, <4>1
    <3> QED
      BY <3>1, <3>2
  <2>3. CASE resultNumber' = resultNumber
    BY <1>1, <1>2, <2>1, <2>3
  <2>4. \/ resultNumber' = resultNumber
        \/ \E t \in Slots, n \in Numbers : Stores(t, n) /\ Undrawn(t) /\ DrawTime(t) <= now
    BY <1>3, <2>1, EngineEffect
    DEF Ends, Creates, Quiet, DropsJobs, ResolvesSome, StartsJobs, OnlyStatus
  <2> QED
    BY <2>2, <2>3, <2>4
<1>4. CASE \/ \E j \in jobs : SettlesBet(j)
           \/ \E b \in Bets : CheckBet(b) \/ CommitBet(b) \/ DropBet(b)
           \/ SetResults \/ UNCHANGED vars
  <2>1. UNCHANGED <<game, now, resultNumber>>
    BY <1>4 DEF SettlesBet, SettleInOne, FiveDRecord, FiveDPay, CheckBet, CommitBet, DropBet,
                SetResults, AdminCheck, AdminWrite, vars, tableVars
  <2> QED
    BY <1>1, <1>2, <2>1
<1>5. CASE Tick
  BY <1>1, <1>2, <1>5 DEF Tick
<1>6. CASE ClockBack
  <2>1. now' = now - 1 /\ UNCHANGED <<game, resultNumber>> /\ faults' = faults + 1 /\ "clock" \in FaultKinds
    BY <1>6 DEF ClockBack, Fault
  <2>2. DrawTime(s)' = DrawTime(s) /\ DrawTime(s) <= now + SetBacks
    BY <2>1 DEF DrawTime, DrawnLate
  <2>3. SetBacks' = SetBacks + 1
    BY <2>1 DEF SetBacks
  <2> QED
    BY <1>1, <2>1, <2>2, <2>3
<1> QED
  BY <1>3, <1>4, <1>5, <1>6, NextCases

LEMMA BookOpenNext ==
  ASSUME SmallSetBacks
  PROVE  Typed /\ PeriodInv /\ CheckedInv /\ DrawnLate /\ BookOpen /\ [Next]_vars => BookOpen'
<1> SUFFICES ASSUME Typed, PeriodInv, CheckedInv, DrawnLate, BookOpen, [Next]_vars, "bet" \in Prompt,
                    NEW b \in Bets, bet'[b] = "checked"
             PROVE  resultNumber'[b.slot] = NoResult
  BY DEF BookOpen
<1> DEFINE s == b.slot
<1>1. s \in Slots
  BY TablesAssumption
<1>2. /\ now \in Nat /\ DrawTime(s) \in Nat /\ EndTime(s) \in Nat /\ LockTime(s) \in Nat
      /\ DrawTime(s) <= EndTime(s) /\ LockTime(s) < DrawTime(s)
  <2>1. now \in Nat
    BY DEF Typed, TableTypes
  <2> QED
    BY <1>1, <2>1, Timeline
<1>3. bet[b] = "checked" => (now < DrawTime(s) /\ status[s] = "ACTIVE" /\ resultNumber[s] = NoResult)
  BY DEF CheckedInv, BookOpen
<1> HIDE DEF s
<1>4. CASE \/ CycleTask /\ UNCHANGED <<lifecycle, draw, settle, block>>
           \/ TrxTask /\ UNCHANGED cycle
  <2>1. bet[b] = "checked"
    BY <1>4, TasksKeepRows DEF RowsKept, moneyVars
  <2>2. ASSUME NEW t \in Slots, NEW n \in Numbers, Stores(t, n),
               \/ game # "trx" /\ status[t] = "ENDED"
               \/ game = "trx" /\ DrawTime(t) <= now
        PROVE  resultNumber'[s] = NoResult
    <3>1. t # s
      BY <1>2, <1>3, <2>1, <2>2
    <3> QED
      BY <1>1, <1>3, <2>1, <2>2, <3>1 DEF Stores, Typed, TableTypes
  <2>3. \/ resultNumber' = resultNumber
        \/ \E t \in Slots, n \in Numbers :
             /\ Stores(t, n)
             /\ \/ game # "trx" /\ status[t] = "ENDED"
                \/ game = "trx" /\ DrawTime(t) <= now
    BY <1>4, EngineEffect
    DEF Ends, Creates, Quiet, DropsJobs, ResolvesSome, StartsJobs, OnlyStatus
  <2> QED
    BY <1>3, <2>1, <2>2, <2>3 DEF s
<1>5. CASE \E c \in Bets : CheckBet(c) \/ CommitBet(c) \/ DropBet(c)
  <2>1. resultNumber' = resultNumber /\ (bet[b] = "checked" \/ CheckBet(b))
    BY <1>5 DEF CheckBet, CommitBet, DropBet, Typed, TableTypes
  <2>2. ASSUME CheckBet(b) PROVE resultNumber[s] = NoResult
    <3>1. status[s] = "ACTIVE" /\ now < LockTime(s)
      BY <2>2 DEF CheckBet, OpenForBets, s
    <3>2. CASE game # "trx"
      BY <1>1, <3>1, <3>2 DEF PeriodInv
    <3>3. CASE game = "trx"
      <4>1. SetBacks \in Nat /\ SetBacks <= LockLen - DrawOffset
        BY <3>3, TablesAssumption DEF SetBacks, SmallSetBacks, Typed, TableTypes
      <4>2. DrawTime(s) = LockTime(s) + (LockLen - DrawOffset)
        BY <1>2, <3>3, TablesAssumption DEF DrawTime, TrxDrawTime, LockTime
      <4>3. ~(DrawTime(s) <= now + SetBacks)
        BY <1>2, <3>1, <4>1, <4>2, TablesAssumption
      <4> QED
        BY <1>1, <3>3, <4>3 DEF DrawnLate
    <3> QED
      BY <3>2, <3>3
  <2> QED
    BY <1>3, <2>1, <2>2 DEF s
<1>6. CASE \/ \E j \in jobs : SettlesBet(j)
           \/ SetResults \/ Tick \/ ClockBack
           \/ UNCHANGED vars
  <2>1. resultNumber' = resultNumber
    BY <1>6 DEF SettlesBet, SettleInOne, FiveDRecord, FiveDPay, SetResults, AdminCheck, AdminWrite,
                Tick, ClockBack, vars, tableVars
  <2>2. bet[b] = "checked"
    <3>1. \/ bet' = bet
          \/ \E j \in jobs, st \in {"WON", "LOST"} : bet' = [bet EXCEPT ![j.bet] = st]
      BY <1>6 DEF SettlesBet, SettleInOne, FiveDRecord, FiveDPay, SetResults, AdminCheck, AdminWrite,
                  Tick, ClockBack, vars, tableVars, moneyVars
    <3> QED
      BY <3>1 DEF Typed, TableTypes
  <2> QED
    BY <1>3, <2>1, <2>2 DEF s
<1> QED
  BY <1>4, <1>5, <1>6, NextCases

\* What the ledger sees of a bet.
Ticket(b) ==
  IF bet[b] \in {"none", "checked"} THEN "none"
  ELSE IF b \notin paid THEN "open"
  ELSE IF betResult[b] > 0 THEN "won" ELSE "lost"

Tickets == [b \in Bets |-> Ticket(b)]

LEMMA MoneyInit == Init => Money!Init
BY DEF Init, TablesInit, Money!Init

LEMMA MoneyStutter ==
  ASSUME UNCHANGED <<Tickets, balance, resultNumber>>
  PROVE  UNCHANGED Money!ledgerVars
BY DEF Money!ledgerVars, Tickets, Ticket

\* The rows of one bet change, and so does what the ledger sees of that bet only.
LEMMA MoneyTicket ==
  ASSUME Typed, NEW b \in Bets,
         \A c \in Bets : c # b => /\ bet'[c] = bet[c] /\ betResult'[c] = betResult[c]
                                  /\ c \in paid' <=> c \in paid
  PROVE  /\ Tickets' = [Tickets EXCEPT ![b] = Ticket(b)']
         /\ Ticket(b)' = Ticket(b) => Tickets' = Tickets
<1>1. \A c \in Bets : c # b => Ticket(c)' = Ticket(c)
  BY DEF Ticket
<1> QED
  BY <1>1 DEF Tickets

\* A stake is taken for a period that is still open to the ledger.
LEMMA MoneyPlace ==
  ASSUME Typed, BetInv, BookOpen, "bet" \in Prompt,
         NEW b \in Bets, CheckBet(b) \/ CommitBet(b) \/ DropBet(b)
  PROVE  [Money!Next]_(Money!ledgerVars)
<1>1. UNCHANGED <<resultNumber, betResult, paid>>
      /\ \E st \in {"none", "checked", "PENDING"} : bet' = [bet EXCEPT ![b] = st]
  BY DEF CheckBet, CommitBet, DropBet
<1>2. Tickets' = [Tickets EXCEPT ![b] = Ticket(b)'] /\ (Ticket(b)' = Ticket(b) => Tickets' = Tickets)
  BY <1>1, MoneyTicket DEF Typed, TableTypes
<1>3. bet[b] \in {"none", "checked"}
  BY DEF CheckBet, CommitBet, DropBet
<1>4. b \notin paid /\ Ticket(b) = "none" /\ Tickets[b] = "none"
  BY <1>3 DEF BetInv, RowsAgree, Ticket, Tickets
<1>5. CASE bet'[b] \in {"none", "checked"} /\ balance' = balance
  <2>1. Ticket(b)' = "none"
    BY <1>5 DEF Ticket
  <2> QED
    BY <1>1, <1>2, <1>4, <1>5, <2>1, MoneyStutter
<1>6. CASE CommitBet(b) /\ Covers(b)
  <2>1. /\ bet[b] = "checked" /\ balance[b.user] >= Stake
        /\ bet' = [bet EXCEPT ![b] = "PENDING"]
        /\ balance' = [balance EXCEPT ![b.user] = @ - Stake]
    BY <1>6 DEF CommitBet, Covers
  <2>2. bet'[b] = "PENDING"
    BY <2>1 DEF Typed, TableTypes
  <2>3. resultNumber[b.slot] = NoResult
    BY <2>1 DEF BookOpen
  <2>4. Ticket(b)' = "open"
    BY <1>1, <1>4, <2>2 DEF Ticket
  <2>5. Money!Place(b)
    BY <1>1, <1>2, <1>4, <2>1, <2>3, <2>4 DEF Money!Place, Tickets, Ticket
  <2> QED
    BY <2>5 DEF Money!Next
<1> QED
  BY <1>5, <1>6 DEF CheckBet, CommitBet, DropBet, Typed, TableTypes

\* A bet is settled for the ledger when its outcome reaches the balance: for a 5D bet that
\* wins, in the statement after the one that commits its row.
LEMMA MoneySettle ==
  ASSUME Typed, BetInv, NEW j \in jobs, SettlesBet(j)
  PROVE  [Money!Next]_(Money!ledgerVars)
<1> DEFINE b == j.bet
           win == WinAmount(b, j.number)
<1>1. b \in Bets /\ j.number \in Numbers /\ win \in Nat /\ b.user \in Users
  BY Earns DEF Typed, TableTypes, Jobs
<1>2. j.number = resultNumber[b.slot] /\ resultNumber[b.slot] # NoResult
      /\ win = b.pays[resultNumber[b.slot]]
  BY <1>1, TablesAssumption DEF BetInv, JobsAgree, WinAmount
<1>3. resultNumber' = resultNumber
  BY DEF SettlesBet, SettleInOne, FiveDRecord, FiveDPay
<1>4. Tickets' = [Tickets EXCEPT ![b] = Ticket(b)'] /\ (Ticket(b)' = Ticket(b) => Tickets' = Tickets)
  <2>1. /\ betResult' = betResult \/ betResult' = [betResult EXCEPT ![b] = win]
        /\ bet' = bet \/ \E st \in {"WON", "LOST"} : bet' = [bet EXCEPT ![b] = st]
        /\ paid' \in {paid, paid \cup {b}}
    BY DEF SettlesBet, SettleInOne, FiveDRecord, FiveDPay
  <2> QED
    BY <1>1, <2>1, MoneyTicket DEF Typed, TableTypes
<1>5. b \notin paid => (Tickets[b] = "open" /\ Ticket(b) = "open")
  BY <1>1 DEF Tickets, Ticket, BetInv, JobsAgree
<1>6. ASSUME b \notin paid, b \in paid', bet'[b] \in {"WON", "LOST"}, betResult'[b] = win,
             balance' = [balance EXCEPT ![b.user] = @ + win]
      PROVE  Money!Next
  <2>1. Ticket(b)' = IF win > 0 THEN "won" ELSE "lost"
    BY <1>6 DEF Ticket
  <2> HIDE DEF b, win
  <2>2. Money!Settle(b)
    BY <1>1, <1>2, <1>3, <1>4, <1>5, <1>6, <2>1 DEF Money!Settle, Tickets, Ticket
  <2> QED
    BY <1>1, <2>2 DEF Money!Next
<1>7. betResult[b] = NoRow => b \notin paid
  BY <1>1 DEF BetInv, RowsAgree
<1>8. CASE SettleInOne(j)
  <2>1. b \notin paid /\ b \in paid'
    BY <1>7, <1>8 DEF SettleInOne, NoResultRow
  <2>2. bet'[b] \in {"WON", "LOST"} /\ betResult'[b] = win
        /\ balance' = [balance EXCEPT ![b.user] = @ + win]
    BY <1>1, <1>8 DEF SettleInOne, Typed, TableTypes
  <2> QED
    BY <1>6, <2>1, <2>2
<1>9. CASE FiveDRecord(j)
  <2>1. b \notin paid
    BY <1>7, <1>9 DEF FiveDRecord, NoResultRow
  <2>2. bet'[b] \in {"WON", "LOST"} /\ betResult'[b] = win /\ balance' = balance
    BY <1>1, <1>9 DEF FiveDRecord, Typed, TableTypes
  <2>3. CASE win > 0
    <3>1. b \notin paid'
      BY <1>9, <2>1, <2>3 DEF FiveDRecord
    <3>2. Ticket(b)' = "open"
      BY <2>2, <3>1 DEF Ticket
    <3> QED
      BY <1>3, <1>4, <1>5, <2>1, <2>2, <3>2, MoneyStutter
  <2>4. CASE ~(win > 0)
    <3>1. b \in paid' /\ win = 0
      BY <1>1, <1>9, <2>4 DEF FiveDRecord
    <3>2. balance' = [balance EXCEPT ![b.user] = @ + win]
      <4>1. balance[b.user] + win = balance[b.user] /\ balance \in [Users -> Nat]
        BY <1>1, <3>1 DEF Typed, TableTypes
      <4> QED
        BY <1>1, <2>2, <4>1
    <3> QED
      BY <1>6, <2>1, <2>2, <3>1, <3>2
  <2> QED
    BY <2>3, <2>4
<1>10. CASE FiveDPay(j)
  <2>1. b \notin paid /\ betResult[b] = win /\ betResult[b] > 0
    BY <1>10 DEF FiveDPay, BetInv, JobsAgree
  <2>2. bet[b] \in {"WON", "LOST"}
    BY <1>1, <2>1 DEF BetInv, RowsAgree, NoRow
  <2>3. b \in paid' /\ UNCHANGED <<bet, betResult>> /\ balance' = [balance EXCEPT ![b.user] = @ + win]
    BY <1>10 DEF FiveDPay
  <2> QED
    BY <1>6, <2>1, <2>2, <2>3
<1> QED
  BY <1>8, <1>9, <1>10 DEF SettlesBet

LEMMA MoneyNext ==
  ASSUME Typed, PeriodInv, BetInv, BookOpen, "bet" \in Prompt, [Next]_vars
  PROVE  [Money!Next]_(Money!ledgerVars)
<1>1. CASE \/ CycleTask /\ UNCHANGED <<lifecycle, draw, settle, block>>
           \/ TrxTask /\ UNCHANGED cycle
  <2>1. UNCHANGED <<bet, betResult, paid, balance>>
    BY <1>1, TasksKeepRows DEF RowsKept, moneyVars
  <2>2. Tickets' = Tickets
    BY <2>1 DEF Tickets, Ticket
  <2>3. ASSUME NEW s \in Slots, NEW n \in Numbers, Stores(s, n), Undrawn(s)
        PROVE  Money!Next
    <3>1. Money!Draw(s)
      BY <2>1, <2>2, <2>3 DEF Money!Draw, Stores, Undrawn, Tickets, Ticket
    <3> QED
      BY <3>1 DEF Money!Next
  <2>4. resultNumber' = resultNumber \/ \E s \in Slots, n \in Numbers : Stores(s, n) /\ Undrawn(s)
    BY <1>1, EngineEffect
    DEF Ends, Creates, Quiet, DropsJobs, ResolvesSome, StartsJobs, OnlyStatus
  <2> QED
    BY <2>1, <2>2, <2>3, <2>4, MoneyStutter
<1>2. CASE SetResults \/ Tick \/ ClockBack \/ UNCHANGED vars
  <2>1. UNCHANGED <<bet, betResult, paid, balance, resultNumber>>
    BY <1>2 DEF SetResults, AdminCheck, AdminWrite, Tick, ClockBack, vars, tableVars, moneyVars
  <2> QED
    BY <2>1, MoneyStutter DEF Tickets, Ticket
<1> QED
  BY <1>1, <1>2, NextCases, MoneyPlace, MoneySettle

\* Whatever the game, the failure and the restart, a table does nothing to outcomes, bets
\* and balances that a RoundLedger does not do: one outcome per slot, chosen while no bet
\* of the slot is still to come, and each bet paid once and against it (settleBet of runs
\* that overlap or are given up).  It takes that no place-bet request outlasts the draw,
\* and, for TRX, a clock that is not set back from the draw to before the lock.
THEOREM TableIsLedger ==
  ASSUME "bet" \in Prompt, SmallSetBacks
  PROVE  Spec => LedgerSpec
<1> DEFINE All == /\ Typed /\ PeriodInv /\ BetInv /\ CheckedInv
                  /\ DrawnLate /\ BookOpen
<1>1. Init => All /\ Money!Init
  BY TypeInit, PeriodInit, BetInit, CheckedInit, LateInit, MoneyInit
<1>2. All /\ [Next]_vars => All'
  BY TypeNext, PeriodNext, BetNext, CheckedNext, LateNext, BookOpenNext
<1>3. All /\ [Next]_vars => [Money!Next]_(Money!ledgerVars)
  BY MoneyNext
<1> QED
  BY <1>1, <1>2, <1>3, PTL DEF Spec, LedgerSpec, Money!Spec

--------------------------------------------------------------------------------
(* Where a draw comes from, as long as nothing fails                        *)

\* The cycle has the number for the earliest of its periods.
Holds(s) == cycle.pc \in {"consume", "store"} /\ s = Earliest(cycle.todo)

\* An accepted result waits in Redis until the cycle holds it, and is stored then; a
\* request that is still to be written is for a period that runs.
AdminSource ==
  /\ \A s \in Slots : accepted[s] # NoResult =>
       /\ game # "trx"
       /\ resultNumber[s] # NoResult => resultNumber[s] = accepted[s]
       /\ resultNumber[s] = NoResult => (adminResult[s] = accepted[s] \/ Holds(s))
       /\ Holds(s) => cycle.number = accepted[s]
  /\ adminRequest # NoRequest =>
       /\ game # "trx" /\ adminRequest.number # NoResult
       /\ now < EndTime(adminRequest.slot) /\ status[adminRequest.slot] = "ACTIVE"

\* The block of a draw is one the node has seen after all of the periods were locked.
BlockSource ==
  /\ \A s \in Slots : block[s] # NoBlock => LockTime(s) <= block[s]
  /\ draw.pc = "tip" => \A s \in draw.todo : DrawTime(s) <= now
  /\ draw.pc = "store" => \A s \in draw.todo : LockTime(s) <= draw.tip

SourceInv == faults = 0 => (AdminSource /\ BlockSource)

LEMMA SourceInit == Init => SourceInv
BY DEF Init, TablesInit, CycleInit, TronInit, IdleCycle, IdleDraw, SourceInv, AdminSource,
       BlockSource, Holds

\* A period that runs is left running by the engine.
LEMMA RunsOn ==
  ASSUME Typed, PeriodInv, NEW s \in Slots, status[s] = "ACTIVE", now < EndTime(s),
         \/ CycleTask /\ UNCHANGED <<lifecycle, draw, settle, block>>
         \/ TrxTask /\ UNCHANGED cycle
  PROVE  status'[s] = "ACTIVE"
<1>1. now \in Nat /\ EndTime(s) \in Nat
  BY Timeline DEF Typed, TableTypes
<1>2. CASE Ends
  BY <1>1, <1>2 DEF Ends
<1>3. CASE Creates
  BY <1>3 DEF Creates
<1>4. ASSUME NEW S, ResolvesSome(S), S \subseteq {t \in Slots : Drawn(t)}
      PROVE  status'[s] = "ACTIVE"
  BY <1>4 DEF ResolvesSome, Drawn
<1> QED
  BY <1>2, <1>3, <1>4, EngineEffect DEF Quiet, DropsJobs, Stores, StartsJobs

\* The steps that neither draw nor look at an admin's result.
LEMMA AdminFrame ==
  ASSUME Typed, AdminSource, UNCHANGED <<game, now, resultNumber, adminVars>>,
         \A s \in Slots : (status[s] = "ACTIVE" /\ now < EndTime(s)) => status'[s] = "ACTIVE",
         \/ cycle' = cycle
         \/ cycle.pc \notin {"consume", "store"} /\ cycle'.pc \notin {"consume", "store"}
  PROVE  AdminSource'
<1>1. \A s \in Slots : Holds(s)' <=> Holds(s)
  BY DEF Holds
<1>2. adminRequest.slot \in Slots
  BY DEF Typed, TableTypes
<1>3. \A s \in Slots : Holds(s) => cycle' = cycle
  BY DEF Holds
<1> QED
  BY <1>1, <1>2, <1>3 DEF AdminSource, adminVars, EndTime, StartTime

\* The draw of K3, 5D and Moto: read, deleted, stored.
LEMMA AdminDraw ==
  ASSUME Typed, PeriodInv, AdminSource, faults = 0, faults' = 0, UNCHANGED now,
         ConsumeAdminResult \/ StoreResult \/ \E s \in Slots : Generate(s)
  PROVE  AdminSource'
<1> DEFINE e == Earliest(cycle.todo)
<1>1. UNCHANGED <<game, status, adminRequest, accepted>>
  BY DEF ConsumeAdminResult, StoreResult, Generate, adminVars
<1>2. ~Fault("redis") /\ ~Fault("draw")
  BY DEF Fault
<1>3. cycle \in CycleStates
  BY DEF Typed, TaskTypes
<1>4. cycle.todo # {} => (e \in cycle.todo /\ e \in Slots)
  BY <1>3, LeastSlot DEF CycleStates
<1>5. adminRequest # NoRequest =>
        /\ game' # "trx" /\ adminRequest'.number # NoResult
        /\ now' < EndTime(adminRequest'.slot) /\ status'[adminRequest'.slot] = "ACTIVE"
  BY <1>1 DEF AdminSource
<1> DEFINE Kept(s) ==
      accepted'[s] # NoResult =>
        /\ game' # "trx"
        /\ resultNumber'[s] # NoResult => resultNumber'[s] = accepted'[s]
        /\ resultNumber'[s] = NoResult => (adminResult'[s] = accepted'[s] \/ Holds(s)')
        /\ Holds(s)' => cycle'.number = accepted'[s]
<1> HIDE DEF e
<1>6. ASSUME NEW s \in Slots, Generate(s), NEW t \in Slots PROVE Kept(t)
  <2>1. /\ cycle.pc = "draw" /\ s = e /\ cycle.todo # {}
        /\ UNCHANGED <<resultNumber, adminResult>>
        /\ \E n \in Numbers, pc \in {"consume", "store"} :
             cycle' = [cycle EXCEPT !.pc = pc, !.number = n]
                      /\ (adminResult[s] # NoResult => n = adminResult[s])
    <3>1. adminResult[s] # NoResult => adminResult[s] \in Numbers
      BY DEF Typed, TableTypes, Results
    <3> QED
      BY <1>2, <1>6, <3>1 DEF Generate, Predetermined, At, adminVars, e
  <2>2. cycle'.todo = cycle.todo /\ cycle'.pc \in {"consume", "store"}
        /\ (adminResult[s] # NoResult => cycle'.number = adminResult[s])
    BY <1>3, <2>1 DEF CycleStates
  <2>3. Holds(t)' <=> t = s
    BY <2>1, <2>2 DEF Holds, e
  <2>4. ~Holds(t)
    BY <2>1 DEF Holds
  <2>5. resultNumber[s] = NoResult
    BY <1>4, <2>1 DEF PeriodInv, Undrawn
  <2> QED
    BY <1>1, <2>1, <2>2, <2>3, <2>4, <2>5 DEF AdminSource
<1>7. ASSUME ConsumeAdminResult, NEW t \in Slots PROVE Kept(t)
  <2>1. /\ cycle.pc = "consume" /\ resultNumber' = resultNumber
        /\ cycle' = [cycle EXCEPT !.pc = "store"]
        /\ adminResult' = [adminResult EXCEPT ![e] = NoResult]
    BY <1>2, <1>7 DEF ConsumeAdminResult, At, e
  <2>2. cycle'.pc = "store" /\ cycle'.todo = cycle.todo /\ cycle'.number = cycle.number
    BY <1>3, <2>1 DEF CycleStates
  <2>3. (Holds(t)' <=> t = e) /\ (Holds(t) <=> t = e)
    BY <2>1, <2>2 DEF Holds, e
  <2>4. t # e => adminResult'[t] = adminResult[t]
    BY <2>1 DEF Typed, TableTypes
  <2> QED
    BY <1>1, <2>1, <2>2, <2>3, <2>4 DEF AdminSource
<1>8. ASSUME StoreResult, NEW t \in Slots PROVE Kept(t)
  <2>1. /\ cycle.pc = "store" /\ adminResult' = adminResult
        /\ cycle' = [cycle EXCEPT !.pc = "draw", !.todo = @ \ {e}, !.number = NoResult]
        /\ resultNumber' = [resultNumber EXCEPT ![e] = cycle.number]
    BY <1>2, <1>8 DEF StoreResult, At, adminVars, e
  <2>2. cycle'.pc = "draw"
    BY <1>3, <2>1 DEF CycleStates
  <2>3. ~Holds(t)' /\ (Holds(t) <=> t = e)
    BY <2>1, <2>2 DEF Holds, e
  <2>4. resultNumber'[t] = IF t = e THEN cycle.number ELSE resultNumber[t]
    BY <2>1 DEF Typed, TableTypes
  <2>5. cycle.number # NoResult
    BY <2>1, TablesAssumption DEF Typed, TaskTypes
  <2> QED
    BY <1>1, <2>1, <2>3, <2>4, <2>5 DEF AdminSource
<1>9. \A t \in Slots : Kept(t)
  BY <1>6, <1>7, <1>8
<1> QED
  BY <1>1, <1>5, <1>9 DEF AdminSource

LEMMA BlockFrame ==
  ASSUME BlockSource, UNCHANGED <<game, now, block, draw>>
  PROVE  BlockSource'
BY DEF BlockSource, DrawTime, TrxDrawTime, LockTime, EndTime, StartTime

LEMMA AdminRequests ==
  ASSUME "admin" \in Prompt, Typed, PeriodInv, AdminSource, SetResults, UNCHANGED tasks,
         faults = 0, faults' = 0
  PROVE  AdminSource'
<1>1. UNCHANGED <<game, now, status, resultNumber, cycle>>
  BY DEF SetResults, AdminCheck, AdminWrite, tasks
<1>2. \A s \in Slots : Holds(s)' <=> Holds(s)
  BY <1>1 DEF Holds
<1>3. ASSUME NEW s \in Slots, NEW n \in Numbers, AdminInTime(s), AdminCheck(s, n)
      PROVE  AdminSource'
  <2>1. /\ adminRequest' = [slot |-> s, number |-> n] /\ status[s] = "ACTIVE" /\ now < EndTime(s)
        /\ game # "trx" /\ n # NoResult
        /\ UNCHANGED <<adminResult, accepted>>
    BY <1>3, TablesAssumption DEF AdminCheck, AdminInTime
  <2>2. adminRequest'.slot = s /\ adminRequest'.number = n
    BY <2>1
  <2> QED
    BY <1>1, <1>2, <1>3, <2>1, <2>2 DEF AdminSource
<1>4. CASE AdminWrite
  <2> DEFINE r == adminRequest.slot
             n == adminRequest.number
  <2>1. /\ r \in Slots /\ n # NoResult /\ game # "trx" /\ status[r] = "ACTIVE"
        /\ adminResult' = [adminResult EXCEPT ![r] = n]
        /\ accepted' = [accepted EXCEPT ![r] = n]
        /\ adminRequest' = NoRequest
    BY <1>4 DEF AdminWrite, AdminSource, Fault, Typed, TableTypes
  <2>2. resultNumber[r] = NoResult
    BY <2>1 DEF PeriodInv
  <2>3. ~Holds(r)
    <3>1. ASSUME Holds(r) PROVE FALSE
      <4>1. r \in cycle.todo
        BY <3>1, LeastSlot DEF Holds, Typed, TaskTypes, CycleStates
      <4> QED
        BY <2>1, <3>1, <4>1 DEF Holds, PeriodInv
    <3> QED
      BY <3>1
  <2> HIDE DEF r, n
  <2>4. \A s \in Slots : /\ adminResult'[s] = IF s = r THEN n ELSE adminResult[s]
                         /\ accepted'[s] = IF s = r THEN n ELSE accepted[s]
    BY <2>1 DEF Typed, TableTypes
  <2> QED
    BY <1>1, <1>2, <1>4, <2>1, <2>2, <2>3, <2>4 DEF AdminSource
<1> QED
  BY <1>3, <1>4 DEF SetResults

\* The draw of TRX waits until all of its periods are due, and a period is due later than
\* it is locked, so a block that is at most one unit old will do for all of them.
LEMMA BlockDraw ==
  ASSUME Typed, BlockSource, TrxLifecycle \/ TrxDraw, UNCHANGED now, faults = 0, faults' = 0
  PROVE  BlockSource'
<1>1. ~Fault("tron") /\ ~Fault("draw")
  BY DEF Fault
<1>2. draw \in DrawStates /\ block \in [Slots -> (0 .. MaxTime) \cup {NoBlock}] /\ now \in Nat
  BY DEF Typed, TableTypes, TaskTypes
<1>3. \A s \in Slots : /\ DrawTime(s)' = DrawTime(s) /\ LockTime(s)' = LockTime(s)
                       /\ DrawTime(s) \in Nat /\ LockTime(s) \in Nat /\ LockTime(s) < DrawTime(s)
  <2>1. game' = game
    BY DEF TrxLifecycle, TrxTick, TrxEndActivePeriods, TrxCreatePeriod, TrxDraw, TrxListDue, TrxWake,
           TrxFetchTip, TrxStoreResult, tableVars
  <2> QED
    BY <2>1, Timeline DEF DrawTime, LockTime, EndTime, StartTime, TrxDrawTime
<1>4. draw.todo \subseteq Slots
  BY <1>2 DEF DrawStates
<1> USE <1>2, <1>3, <1>4
<1>5. ASSUME UNCHANGED block, draw'.pc \notin {"tip", "store"} PROVE BlockSource'
  BY <1>5 DEF BlockSource
<1>6. CASE TrxLifecycle
  <2>1. UNCHANGED block /\ (draw' = draw \/ draw' = [draw EXCEPT !.pc = "list"])
    BY <1>6 DEF TrxLifecycle, TrxTick, TrxEndActivePeriods, TrxCreatePeriod
  <2>2. CASE draw' = draw
    BY <2>1, <2>2, BlockFrame DEF BlockSource
  <2>3. CASE draw' = [draw EXCEPT !.pc = "list"]
    BY <1>5, <2>1, <2>3 DEF DrawStates
  <2> QED
    BY <2>1, <2>2, <2>3
<1>7. CASE TrxListDue
  <2>1. UNCHANGED block
        /\ (draw' = IdleDraw \/ draw' = [draw EXCEPT !.pc = "sleep", !.todo = Candidates])
    BY <1>7 DEF TrxListDue
  <2> QED
    BY <1>5, <2>1, IdleStates DEF DrawStates
<1>8. CASE TrxWake
  <2> DEFINE ready == {s \in draw.todo : DrawTime(s) <= now}
  <2>1. UNCHANGED block /\ draw' = [draw EXCEPT !.pc = "tip", !.todo = ready]
    BY <1>8 DEF TrxWake
  <2>2. draw'.pc = "tip" /\ draw'.todo = ready
    BY <2>1 DEF DrawStates
  <2> QED
    BY <2>1, <2>2 DEF BlockSource
<1>9. CASE TrxFetchTip
  <2>2. PICK b \in 0 .. now :
          now - b <= 1 /\ draw' = [draw EXCEPT !.pc = "store", !.tip = b]
    BY <1>1, <1>9 DEF TrxFetchTip
  <2>3. b \in Int
    BY <2>2
  <2>4. draw'.pc = "store" /\ draw'.todo = draw.todo /\ draw'.tip = b
    BY <2>2 DEF DrawStates
  <2>5. \A s \in draw.todo : DrawTime(s) <= now
    BY <1>9 DEF TrxFetchTip, BlockSource
  <2>6. \A s \in draw.todo : LockTime(s) <= b
    BY <2>2, <2>3, <2>5
  <2> QED
    BY <1>9, <2>4, <2>6 DEF TrxFetchTip, BlockSource
<1>10. CASE TrxStoreResult
  <2> DEFINE s == First(draw.todo)
  <2>1. s \in draw.todo /\ draw.pc = "store"
    BY <1>10, LeastSlot DEF TrxStoreResult, Typed, TaskTypes
  <2>2. LockTime(s) <= draw.tip
    BY <2>1 DEF BlockSource
  <2>3. block' = block \/ block' = [block EXCEPT ![s] = draw.tip]
    BY <1>10 DEF TrxStoreResult
  <2>4. draw' = IdleDraw \/ draw' = [draw EXCEPT !.todo = @ \ {s}]
    BY <1>10 DEF TrxStoreResult
  <2> HIDE DEF s
  <2>5. \A t \in Slots : block'[t] # NoBlock => LockTime(t)' <= block'[t]
    BY <2>1, <2>2, <2>3 DEF BlockSource
  <2>6. draw'.pc # "tip" /\ (draw'.pc = "store" => (draw'.todo \subseteq draw.todo /\ draw'.tip = draw.tip))
    BY <2>1, <2>4, IdleStates DEF DrawStates
  <2> QED
    BY <2>1, <2>5, <2>6 DEF BlockSource
<1> QED
  BY <1>6, <1>7, <1>8, <1>9, <1>10 DEF TrxDraw

LEMMA SourceNext ==
  ASSUME "admin" \in Prompt
  PROVE  Typed /\ PeriodInv /\ SourceInv /\ [Next]_vars => SourceInv'
<1> SUFFICES ASSUME Typed, PeriodInv, SourceInv, [Next]_vars, faults' = 0
             PROVE  AdminSource' /\ BlockSource'
  BY DEF SourceInv
<1>1. faults = 0 /\ AdminSource /\ BlockSource
  BY FaultsGrow DEF SourceInv, Typed, TableTypes
<1>2. \A kind : ~Fault(kind)
  BY <1>1 DEF Fault
<1>3. ASSUME UNCHANGED <<game, now, resultNumber, adminVars>>,
             \/ CycleTask /\ UNCHANGED <<lifecycle, draw, settle, block>>
             \/ TrxTask /\ UNCHANGED cycle,
             \/ cycle' = cycle
             \/ cycle.pc \notin {"consume", "store"} /\ cycle'.pc \notin {"consume", "store"}
      PROVE  AdminSource'
  BY <1>1, <1>3, RunsOn, AdminFrame
<1>4. ASSUME UNCHANGED <<game, now, resultNumber, adminVars, status, cycle>> PROVE AdminSource'
  BY <1>1, <1>4, AdminFrame
<1>5. CASE UNCHANGED vars
  BY <1>1, <1>4, <1>5, BlockFrame DEF vars, tableVars, tasks
<1>6. CASE PlaceBet /\ UNCHANGED tasks
  <2>1. UNCHANGED <<game, now, resultNumber, adminVars, status>>
    BY <1>6 DEF PlaceBet, K3Bet, FiveDBet, MotoBet, TrxBet, CheckBet, CommitBet, DropBet
  <2> QED
    BY <1>1, <1>4, <1>6, <2>1, BlockFrame DEF tasks
<1>7. CASE SetResults /\ UNCHANGED tasks
  <2>1. UNCHANGED <<game, now>>
    BY <1>7 DEF SetResults, AdminCheck, AdminWrite
  <2> QED
    BY <1>1, <1>7, <2>1, AdminRequests, BlockFrame DEF tasks
<1>8. CASE Tick /\ UNCHANGED tasks
  <2>1. /\ UNCHANGED <<game, status, resultNumber, adminResult, adminRequest, accepted>>
        /\ now' = now + 1 /\ now \in Nat
        /\ adminRequest # NoRequest => now' < EndTime(adminRequest.slot)
    BY <1>8 DEF Tick, adminVars, Typed, TableTypes
  <2>2. AdminSource'
    BY <1>1, <1>8, <2>1 DEF AdminSource, Holds, EndTime, StartTime, tasks
  <2>3. \A s \in Slots : DrawTime(s)' = DrawTime(s) /\ LockTime(s)' = LockTime(s) /\ DrawTime(s) \in Nat
    BY <2>1, Timeline DEF DrawTime, TrxDrawTime, LockTime, EndTime, StartTime
  <2>4. draw.todo \subseteq Slots
    BY DEF Typed, TaskTypes, DrawStates
  <2>5. ASSUME NEW s \in draw.todo, DrawTime(s) <= now PROVE DrawTime(s)' <= now'
    <3>1. DrawTime(s)' = DrawTime(s) /\ DrawTime(s) \in Nat
      BY <2>3, <2>4
    <3> QED
      BY <2>1, <2>5, <3>1
  <2>6. BlockSource'
    BY <1>1, <1>8, <2>3, <2>4, <2>5 DEF BlockSource, tasks
  <2> QED
    BY <2>2, <2>6
<1>9. CASE CycleTasks
  <2>1. UNCHANGED <<lifecycle, draw, settle, block>>
    BY <1>9 DEF CycleTasks
  <2>2. CASE K3ProcessPeriodResult \/ FiveDProcessPeriodResult \/ MotoProcessPeriodResult
    <3>1. ConsumeAdminResult \/ StoreResult \/ \E s \in Slots : Generate(s)
      BY <2>2 DEF K3ProcessPeriodResult, FiveDProcessPeriodResult, MotoProcessPeriodResult
    <3>2. UNCHANGED <<game, now>>
      BY <3>1 DEF ConsumeAdminResult, StoreResult, Generate
    <3> QED
      BY <1>1, <2>1, <3>1, <3>2, AdminDraw, BlockFrame
  <2>3. CASE SettleStep
    <3>1. UNCHANGED <<game, now, resultNumber, adminVars, status, cycle>>
      BY <2>3 DEF SettleStep, K3SettleBet, MotoSettleBet, SettleInOne, FiveDRecord, FiveDPay
    <3> QED
      BY <1>1, <1>4, <2>1, <3>1, BlockFrame
  <2>4. ASSUME CycleTask, UNCHANGED <<game, now, resultNumber, adminVars>>,
               \/ cycle' = cycle
               \/ cycle.pc \notin {"consume", "store"} /\ cycle'.pc \notin {"consume", "store"}
        PROVE  AdminSource' /\ BlockSource'
    BY <1>1, <1>3, <2>1, <2>4, BlockFrame
  <2>5. CASE \/ K3EndActivePeriods \/ FiveDEndActivePeriods \/ MotoEndActivePeriods
             \/ K3CreatePeriod \/ FiveDCreatePeriod \/ MotoCreatePeriod
    <3>1. CycleTask
      BY <2>5, CycleEndSteps, CycleCreateSteps DEF CycleTask
    <3>2. UNCHANGED <<game, now, resultNumber, adminVars>>
          /\ cycle.pc \in {"end", "create"} /\ cycle'.pc \in {"create", "list"}
      BY <2>5 DEF K3EndActivePeriods, FiveDEndActivePeriods, EndInOneUpdate, MotoEndActivePeriods,
                  K3CreatePeriod, FiveDCreatePeriod, MotoCreatePeriod, CreateCurrent, At, Goto, IdleCycle
    <3> QED
      BY <2>4, <3>1, <3>2
  <2>6. CASE K3ListUndrawn \/ FiveDListUndrawn \/ MotoListUndrawn
    <3>1. CycleTask
      BY <2>6, CycleListSteps DEF CycleTask
    <3>2. UNCHANGED <<game, now, resultNumber, adminVars>>
          /\ cycle.pc = "list" /\ cycle'.pc \in {"draw", "settle"}
      BY <2>6 DEF K3ListUndrawn, FiveDListUndrawn, MotoListUndrawn, ListUndrawn, At, Goto, IdleCycle
    <3> QED
      BY <2>4, <3>1, <3>2
  <2>7. CASE K3Tick \/ FiveDTick \/ MotoTick \/ DrawsDone
    <3>1. CycleTask
      BY <2>7, CyclePassSteps DEF CycleTask
    <3>2. UNCHANGED <<game, now, resultNumber, adminVars>>
          /\ cycle.pc \in {"idle", "draw"} /\ cycle'.pc \in {"end", "settle"}
      BY <2>7 DEF K3Tick, FiveDTick, MotoTick, StartCycle, DrawsDone, At, Goto, IdleCycle, tableVars
    <3> QED
      BY <2>4, <3>1, <3>2
  <2>8. CASE SettleStart \/ ResolvePeriods
    <3>1. CycleTask
      BY <2>8, CycleSettleSteps DEF CycleTask
    <3>2. UNCHANGED <<game, now, resultNumber, adminVars>>
          /\ cycle.pc \in {"settle", "await"} /\ cycle'.pc \in {"await", "idle"}
      BY <2>8 DEF SettleStart, ResolvePeriods, At, Goto, IdleCycle
    <3> QED
      BY <2>4, <3>1, <3>2
  <2>9. CASE \E j \in jobs : SettleFails(j)
    <3>1. CycleTask
      BY <2>9, CycleFailSteps DEF CycleTask
    <3>2. UNCHANGED <<game, now, resultNumber, adminVars>>
          /\ (cycle' = cycle \/ (cycle.pc = "await" /\ cycle'.pc = "idle"))
      BY <2>9 DEF SettleFails, At, Goto, IdleCycle
    <3> QED
      BY <2>4, <3>1, <3>2
  <2>10. ~CycleCrash
    BY <1>2 DEF CycleCrash
  <2> QED
    BY <1>9, <2>2, <2>3, <2>5, <2>6, <2>7, <2>8, <2>9, <2>10
    DEF CycleTasks, CycleNext, CycleStep, K3Cycle, FiveDCycle, MotoCycle
<1>10. CASE TronTasks
  <2>1. ASSUME game = "trx", UNCHANGED <<game, accepted, adminRequest>> PROVE AdminSource'
    BY <1>1, <2>1 DEF AdminSource
  <2>2. CASE TrxLifecycle \/ TrxDraw
    <3>1. UNCHANGED <<game, now, accepted, adminRequest>>
      BY <2>2 DEF TrxLifecycle, TrxTick, TrxEndActivePeriods, TrxCreatePeriod, TrxDraw, TrxListDue,
                  TrxWake, TrxFetchTip, TrxStoreResult, tableVars, adminVars
    <3>2. game = "trx"
      BY <2>2, TrxLifecycleSteps, TrxDrawSteps DEF TrxHandsOver, TrxAims, TrxStores
    <3> QED
      BY <1>1, <2>1, <2>2, <3>1, <3>2, BlockDraw
  <2>3. CASE TrxSettleStart \/ TrxResolve \/ (\E j \in jobs : TrxSettleFails(j)) \/ TrxSettleStep
    <3>1. UNCHANGED <<game, now, accepted, adminRequest, block, draw>>
      BY <2>3 DEF TrxSettleStart, TrxResolve, TrxSettleFails, TrxSettleStep, TrxSettleBet, SettleInOne,
                  adminVars
    <3>2. game = "trx"
      BY <2>3, TrxSettleSteps DEF TrxSettlesAll, TrxSettleStep, TrxSettleBet
    <3> QED
      BY <1>1, <2>1, <3>1, <3>2, BlockFrame
  <2>4. ~TrxCrash
    BY <1>2 DEF TrxCrash
  <2> QED
    BY <1>10, <2>2, <2>3, <2>4 DEF TronTasks, TronNext
<1>11. ~ClockBack
  BY <1>2 DEF ClockBack
<1> QED
  BY <1>5, <1>6, <1>7, <1>8, <1>9, <1>10, <1>11 DEF Next, Request, Clock

\* Without a failure a draw comes from where it is said to come from: what an admin was
\* told is set for a running k3 or 5d period is what is drawn, though the engine reads,
\* deletes and stores it in three steps, and the block that decides a TRX period is mined
\* after its bets are locked.  It takes a setResults request that is written before the
\* end of the period it has checked.
THEOREM DrawHasItsSource ==
  ASSUME "admin" \in Prompt
  PROVE  Spec => []DrawnFromSource
<1>1. Init => SourceInv
  BY SourceInit
<1>2. Typed /\ PeriodInv /\ SourceInv /\ [Next]_vars => SourceInv'
  BY SourceNext
<1>3. Typed /\ SourceInv => DrawnFromSource
  <2> SUFFICES ASSUME Typed, AdminSource, BlockSource, NEW s \in Slots
               PROVE  /\ (resultNumber[s] # NoResult /\ accepted[s] # NoResult)
                           => resultNumber[s] = accepted[s]
                      /\ block[s] # NoBlock => block[s] >= LockTime(s)
    BY DEF SourceInv, DrawnFromSource
  <2> QED
    BY Timeline DEF AdminSource, BlockSource, Typed, TaskTypes
<1> QED
  BY <1>1, <1>2, <1>3, PeriodInvariant, PTL DEF Spec

================================================================================
