-------------------------------- MODULE TeamRebate --------------------------------
(***************************************************************************)
(* The commission an agent earns on the bets of the team                   *)
(* (packages/rebate/dailyTeamRebate.ts, rebateCalculator.ts,               *)
(* rebateScheduler.ts).  At midnight the engine closes the day before: it  *)
(* prices the day's bets for the six uplines of each bettor, at the level  *)
(* each upline reached that day, and credits the rows.  A close that was   *)
(* missed or cut short is caught up with when the engine starts.           *)
(*                                                                         *)
(* Left out: that the figures shown are rounded to three decimals, and the *)
(* 500 bets after which the list of one person's bets ends.  Amounts are   *)
(* naturals.  Who is a demo account does not change while we watch, and    *)
(* the engine runs one close at a time.                                    *)
(***************************************************************************)
EXTENDS RewardDesk

CONSTANTS
  Members, Nobody,
  Trees,        \* the values of User.referredBy: functions from Members to Members or Nobody
  Demos,        \* the sets of demo accounts explored
  Staff,        \* members whose role is not USER
  Newcomers,    \* members without downline who join while we watch
  MaxLayer,     \* 6 in the code
  Rates,        \* RebateRateConfig: for each level, the rate of each layer
  Requirements, \* VipLevelRequirement: for each level above 0
  Stakes,       \* the amounts of bets and deposits
  MaxEvents     \* bound on bets and deposits

\* Who registers names an account that exists (auth.ts): it has a lower serial number.
Invited(tree) ==
  \E serial \in [Members -> 1 .. Cardinality(Members)] : \A m \in Members : tree[m] # Nobody => serial[tree[m]] < serial[m]

ASSUME RebateAssumption ==
  /\ Nobody \notin Members /\ IsFiniteSet(Members)
  /\ Trees \subseteq [Members -> Members \cup {Nobody}]
  /\ \A tree \in Trees : Invited(tree)
  /\ Demos \subseteq SUBSET Members /\ Staff \subseteq Members /\ Newcomers \subseteq Members
  /\ MaxLayer \in Nat \ {0} /\ MaxEvents \in Nat /\ Stakes \subseteq Nat \ {0}
  /\ IsFiniteSet(DOMAIN Requirements) /\ DOMAIN Requirements \subseteq Nat \ {0}
  /\ \A l \in {0} \cup DOMAIN Requirements : Rates[l] \in [1 .. MaxLayer -> Nat]

VARIABLES
  referredBy,  \* User.referredBy
  demo,        \* the users with isDemo
  joined,      \* the day of User.createdAt
  events,      \* bets and SUCCESS deposits, oldest first
  rebates,     \* the Rebate rows, oldest first
  credits,     \* how often a row was credited (for properties)
  engine,      \* "up" or "down"
  tick,        \* the cron job of this midnight has not begun
  begun,       \* days a close has begun for (for properties)
  closed,      \* days a close has settled in full (for properties)
  late         \* days that changed after a close had begun (for properties)

teamVars == <<referredBy, demo, joined, events, rebates, credits, engine, tick, begun, closed, late>>

LongAgo == -1
NotYet == MaxDay + 1

TeamInit ==
  /\ referredBy \in Trees
  /\ demo \in Demos
  /\ joined = [m \in Members |-> IF m \in Newcomers THEN NotYet ELSE LongAgo]
  /\ events = <<>> /\ rebates = <<>> /\ credits = <<>>
  /\ engine = "up" /\ tick = FALSE
  /\ begun = {} /\ closed = {} /\ late = {}

--------------------------------------------------------------------------------
(* Teams and chains: three ways to walk the same tree                       *)

Above(m) == IF m = Nobody THEN Nobody ELSE referredBy[m]
Ancestors[n \in 0 .. MaxLayer] ==
  [m \in Members |-> IF n = 0 THEN m ELSE Above(Ancestors[n - 1][m])]
Upline(m, n) == Ancestors[n][m]

\* teamMembers(): from the agent down, layer by layer; a demo account and all
\* below it are left out.
InTeam(u, m, layer) ==
  /\ joined[m] # NotYet
  /\ Upline(m, layer) = u
  /\ \A n \in 0 .. layer - 1 : Upline(m, n) \notin demo
Layers == 1 .. MaxLayer
Team(u) == {m \in Members : \E l \in Layers : InTeam(u, m, l)}
LayerOf(u, m) == CHOOSE l \in Layers : InTeam(u, m, l)

\* uplineIds(): from the bettor up; a demo account is passed over and takes no layer.
NotDemo(u) == u \notin demo
Chain(m) ==
  {[user |-> Upline(m, k), layer |-> Cardinality({n \in 1 .. k : NotDemo(Upline(m, n))})] :
     k \in {l \in Layers : Upline(m, l) # Nobody /\ NotDemo(Upline(m, l))}}

\* uplineChainsForUsers(): from the bettor up; the chain ends at a demo account.
PreviewChain(m) ==
  {[user |-> Upline(m, l), layer |-> l] :
     l \in {k \in Layers : Upline(m, k) # Nobody /\ \A n \in 1 .. k : Upline(m, n) \notin demo}}

--------------------------------------------------------------------------------
(* The day's numbers                                                        *)

Counted(e) == ~e.rolledBack
BetsOf(ms, d) ==
  {i \in DOMAIN events : events[i].kind = "bet" /\ events[i].user \in ms /\ events[i].day = d /\ Counted(events[i])}
DepositsOf(ms, d) ==
  {i \in DOMAIN events : events[i].kind = "deposit" /\ events[i].user \in ms /\ events[i].day = d}
Volume(is) == SumFunction([i \in is |-> events[i].amount])

\* metricsForDay()
Metrics(u, d) ==
  [teamSize |-> Cardinality({m \in Team(u) : joined[m] = d}),
   teamBetting |-> Volume(BetsOf(Team(u), d)),
   teamDeposit |-> Volume(DepositsOf(Team(u), d))]

\* qualifyLevel(): the highest level all of whose requirements are met
Meets(metrics, l) ==
  /\ metrics.teamSize >= Requirements[l].teamSize
  /\ metrics.teamBetting >= Requirements[l].teamBetting
  /\ metrics.teamDeposit >= Requirements[l].teamDeposit
QualifyLevel(metrics) == Max({0} \cup {l \in DOMAIN Requirements : Meets(metrics, l)})
Rate(level, layer) == Rates[level][layer]

\* previewForUser(), in hundredths
Preview(u, d) ==
  LET level == QualifyLevel(Metrics(u, d))
  IN SumFunction([i \in BetsOf(Team(u), d) |-> events[i].amount * Rate(level, LayerOf(u, events[i].user))])

\* previewTotalForAllUsers(): the same from the events up, in batches
Receivers(m) == {c \in PreviewChain(m) : c.user \notin Staff}
EventMetrics(u, d) ==
  LET reaching(is) == {i \in is : \E c \in Receivers(events[i].user) : c.user = u}
  IN [teamSize |-> Cardinality({m \in Members \ demo : joined[m] = d /\ \E c \in Receivers(m) : c.user = u}),
      teamBetting |-> Volume(reaching(BetsOf(Members \ demo, d))),
      teamDeposit |-> Volume(reaching(DepositsOf(Members \ demo, d)))]
PreviewTotal(d) ==
  SumFunction([i \in BetsOf(Members \ demo, d) |->
    SumFunction([c \in Receivers(events[i].user) |->
      events[i].amount * Rate(QualifyLevel(EventMetrics(c.user, d)), c.layer)])])

--------------------------------------------------------------------------------
(* What happens to the day                                                  *)

Touch(d) == late' = IF d \in begun THEN late \cup {d} ELSE late

Join(m) ==
  /\ joined[m] = NotYet
  /\ AtOnce
  /\ joined' = [joined EXCEPT ![m] = day]
  /\ Touch(day)
  /\ UNCHANGED <<referredBy, demo, events, rebates, credits, engine, tick, begun, closed>>

\* A deposit or bet of the day before may become visible after midnight.
Record(kind, m, a, d) ==
  /\ Len(events) < MaxEvents
  /\ joined[m] <= day
  /\ d \in {day, day - 1} \cap Nat
  /\ AtOnce
  /\ events' = Append(events, [kind |-> kind, user |-> m, amount |-> a, day |-> d, rolledBack |-> FALSE])
  /\ Touch(d)
  /\ UNCHANGED <<referredBy, demo, joined, rebates, credits, engine, tick, begun, closed>>

\* The vendor takes a bet back (inout.ts).
RollBack(i) ==
  /\ events[i].kind = "bet"
  /\ ~events[i].rolledBack
  /\ AtOnce
  /\ events' = [events EXCEPT ![i].rolledBack = TRUE]
  /\ Touch(events[i].day)
  /\ UNCHANGED <<referredBy, demo, joined, rebates, credits, engine, tick, begun, closed>>

--------------------------------------------------------------------------------
(* The close                                                                *)

\* accrueClosedDay(): the bets are read and the uplines qualified before the
\* first row is written; then bet by bet, layer by layer.
RowsDue(i, d) ==
  {[bet |-> i, layer |-> c.layer, user |-> c.user,
    amount |-> events[i].amount * Rate(QualifyLevel(Metrics(c.user, d)), c.layer)] : c \in Chain(events[i].user)}
Work(d) == UNION {RowsDue(i, d) : i \in BetsOf(Members \ demo, d)}
Comes(w, x) == w.bet < x.bet \/ (w.bet = x.bet /\ w.layer <= x.layer)

ClosedDayRunning == day
ClosedDay == day - 1
\* closeYesterday(), unless a close is running
CloseDay ==
  /\ calls = {}
  /\ Begin([made |-> made, pc |-> "accrue", day |-> ClosedDay, work |-> Work(ClosedDay)])
  /\ begun' = begun \cup {ClosedDay}

CronClose ==
  /\ tick
  /\ engine = "up"
  /\ tick' = FALSE
  /\ (IF calls = {} THEN CloseDay ELSE UNCHANGED <<deskVars, begun>>)
  /\ UNCHANGED <<referredBy, demo, joined, events, rebates, credits, engine, closed, late>>

\* One row of the loop, unless the upline has a row for the bet or earns nothing.
AlreadyIgnored(u, bet) == FALSE
Already(u, bet) == \E r \in DOMAIN rebates : rebates[r].user = u /\ rebates[r].bet = bet

AccrueRow(c, w) ==
  /\ \A x \in c.work : Comes(w, x)
  /\ IF ~Already(w.user, w.bet) /\ w.amount > 0
     THEN /\ rebates' = Append(rebates, [user |-> w.user, bet |-> w.bet, amount |-> w.amount, settled |-> FALSE])
          /\ credits' = Append(credits, 0)
     ELSE UNCHANGED <<rebates, credits>>
  /\ calls' = {[c EXCEPT !.work = c.work \ {w}]}
  /\ UNCHANGED <<scheme, day, made, overlapped, referredBy, demo, joined, events, engine, tick, begun, closed, late>>

\* settleAllUnsettledRebates(): reads the day's unsettled rows ...
Unsettled(d) == {r \in DOMAIN rebates : ~rebates[r].settled /\ events[rebates[r].bet].day = d}

SettleRead(c) ==
  /\ c.pc = "accrue"
  /\ c.work = {}
  /\ calls' = {[pc |-> "settle", day |-> c.day, rows |-> Unsettled(c.day), failed |-> FALSE]}
  /\ UNCHANGED <<scheme, day, made, overlapped>>
  /\ UNCHANGED teamVars

SettledUnmarked(row) == row
Settled(row) == [row EXCEPT !.settled = TRUE]

\* ... and credits and marks them, a transaction for every user ...
SettleUser(c, u) ==
  LET mine == {r \in c.rows : rebates[r].user = u}
  IN /\ c.pc = "settle"
     /\ mine # {}
     /\ rebates' = [r \in DOMAIN rebates |-> IF r \in mine THEN Settled(rebates[r]) ELSE rebates[r]]
     /\ credits' = [r \in DOMAIN credits |-> IF r \in mine THEN credits[r] + 1 ELSE credits[r]]
     /\ calls' = {[c EXCEPT !.rows = c.rows \ mine]}
     /\ UNCHANGED <<scheme, day, made, overlapped, referredBy, demo, joined, events, engine, tick, begun, closed, late>>

\* ... which may fail: the rows stay unsettled until a start of the engine.
SettleUserFails(c, u) ==
  LET mine == {r \in c.rows : rebates[r].user = u}
  IN /\ c.pc = "settle"
     /\ mine # {}
     /\ calls' = {[c EXCEPT !.rows = c.rows \ mine, !.failed = TRUE]}
     /\ UNCHANGED <<scheme, day, made, overlapped>>
     /\ UNCHANGED teamVars

\* rebateLevel = 0 for everybody: nothing writes another value.
CloseEnd(c) ==
  /\ c.pc = "settle"
  /\ c.rows = {}
  /\ End(c)
  /\ closed' = IF c.failed THEN closed ELSE closed \cup {c.day}
  /\ UNCHANGED <<scheme, day, made, overlapped, referredBy, demo, joined, events, rebates, credits, engine, tick, begun, late>>

EngineDies ==
  /\ engine = "up"
  /\ engine' = "down"
  /\ tick' = FALSE
  /\ calls' = {}
  /\ UNCHANGED <<scheme, day, made, overlapped, referredBy, demo, joined, events, rebates, credits, begun, closed, late>>

\* needsClose(): an unpaid row, or bets and no row at all.
RowsOfDay(d) == {r \in DOMAIN rebates : events[rebates[r].bet].day = d}
NeedsClose(d) ==
  \/ Unsettled(d) # {}
  \/ RowsOfDay(d) = {} /\ BetsOf(Members, d) # {}

\* start(), with catchUpMissedClose()
EngineStarts ==
  /\ engine = "down"
  /\ engine' = "up"
  /\ (IF NeedsClose(ClosedDay) THEN CloseDay ELSE UNCHANGED <<deskVars, begun>>)
  /\ UNCHANGED <<referredBy, demo, joined, events, rebates, credits, tick, closed, late>>

\* The cron job of a midnight begins before the next one.
Midnight ==
  /\ ~tick
  /\ NewDay
  /\ tick' = (engine = "up")
  /\ UNCHANGED <<referredBy, demo, joined, events, rebates, credits, engine, begun, closed, late>>

CloseStep(c) ==
  \/ c.pc = "accrue" /\ \E w \in c.work : AccrueRow(c, w)
  \/ SettleRead(c) \/ CloseEnd(c)
  \/ \E u \in Members : SettleUser(c, u) \/ SettleUserFails(c, u)

TeamNext ==
  /\ scheme = "team-rebate"
  /\ \/ \E m \in Newcomers : Join(m)
     \/ \E kind \in {"bet", "deposit"}, m \in Members, a \in Stakes, d \in {day - 1, day} : Record(kind, m, a, d)
     \/ \E i \in DOMAIN events : RollBack(i)
     \/ CronClose \/ EngineDies \/ EngineStarts \/ Midnight
     \/ \E c \in calls : CloseStep(c)

--------------------------------------------------------------------------------
(* What an agent is shown of one member                                     *)

\* previewBetsForPerson()
PersonPreview(u, m, d) ==
  IF m \notin Team(u) THEN 0
  ELSE LET rate == Rate(QualifyLevel(Metrics(u, d)), LayerOf(u, m))
       IN SumFunction([i \in BetsOf({m}, d) |-> events[i].amount * rate])

\* personBetsForAgent() over all days: today live, then the settled rows before today
PersonRows(u, m) ==
  {r \in DOMAIN rebates :
     rebates[r].user = u /\ rebates[r].settled /\ events[rebates[r].bet].user = m /\ events[rebates[r].bet].day < day}
PersonBets(u, m) ==
  PersonPreview(u, m, day) + SumFunction([r \in PersonRows(u, m) |-> rebates[r].amount])

================================================================================
