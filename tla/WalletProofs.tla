------------------------------- MODULE WalletProofs -------------------------------
(***************************************************************************)
(* The account of Wallet, for every number of rounds, markets, factors,    *)
(* vendor transactions and requests.                                       *)
(*                                                                         *)
(* PenaltiesBacked: three lemmas say what the code does to the rows of an  *)
(* account: a row is cleared, the recharges follow a factor, a row is      *)
(* appended; only the last can make an open PENALTY row, and whoever       *)
(* appends one has cleared those there were.  That a round raises the      *)
(* factor once follows from the IllegalBet rows, which are written in the  *)
(* same transaction.                                                       *)
(*                                                                         *)
(* WithdrawalEarned: a row that is cleared was earned, whichever read,     *)
(* factor or admin cleared it (Earned), and bets only grow (BetsGrow).     *)
(*                                                                         *)
(* VendorBooks: as long as requests have not overlapped, what the one call *)
(* in flight has read still holds, and the balance differs from the books  *)
(* by what that call has still to write (BookInv).                         *)
(*                                                                         *)
(* HouseKeepsWhole: over the ten numbers of a draw no stake wins more than *)
(* ten times itself, so the least of the payouts is at most the average.   *)
(*                                                                         *)
(* IllegalAsPaid: at a place of a game the rules and the payouts decide    *)
(* alike by the number drawn there, but for the triples of K3 (WinningIs), *)
(* and every number of a place is drawn (NumbersDrawn); what a round has   *)
(* been found for is still found when more bets join it (FoundInv).        *)
(***************************************************************************)
EXTENDS Wallet, Sums, SequenceTheorems, FiniteSetTheorems, TLAPS

\* A row as the database has it, whatever its amounts are.
Shape(row) ==
  row = [kind |-> row.kind, amount |-> row.amount, required |-> row.required, at |-> row.at,
         cleared |-> row.cleared]

Table(rs) == (\E S : rs \in Seq(S)) /\ \A i \in DOMAIN rs : Shape(rs[i])

AtMostOne(is) == \A i, j \in is : i = j

\* A penalty row that is open is the only one, and its penalty is on.
SnapshotInv ==
  /\ AtMostOne(PenaltyRows(rows))
  /\ PenaltyRows(rows) # {} => (penalty.on /\ penalty.model = "BALANCE_SNAPSHOT")

\* A round has raised the factor when it has IllegalBet rows, and then once.
OnceInv ==
  /\ illegal = [r \in Rounds |-> illegal[r]]
  /\ penalized \in [Rounds -> Nat]
  /\ \A r \in Rounds : penalized[r] = IF illegal[r] = {} THEN 0 ELSE 1

PenaltyInv == Table(rows) /\ SnapshotInv /\ OnceInv

--------------------------------------------------------------------------------
(* What happens to the rows                                                 *)

LEMMA SameDomain ==
  ASSUME NEW rs, \E S : rs \in Seq(S), NEW f, f = [i \in DOMAIN rs |-> f[i]]
  PROVE  \E S : f \in Seq(S)
<1> PICK S : rs \in Seq(S)
  OBVIOUS
<1>1. DOMAIN rs = 1 .. Len(rs) /\ Len(rs) \in Nat
  OBVIOUS
<1>2. f \in [1 .. Len(rs) -> {f[i] : i \in DOMAIN rs}]
  BY <1>1
<1>3. f \in Seq({f[i] : i \in DOMAIN rs})
  BY <1>1, <1>2, SeqDef
<1> QED
  BY <1>3

\* isCleared is set on some rows: those are no longer open, the others are as before.
LEMMA ClearedRows ==
  ASSUME NEW rs, Table(rs), NEW is
  PROVE  Table(Cleared(rs, is)) /\ PenaltyRows(Cleared(rs, is)) = PenaltyRows(rs) \ is
<1> DEFINE after == Cleared(rs, is)
<1>1. after = [i \in DOMAIN rs |-> after[i]]
  BY DEF Cleared
<1>2. \A i \in DOMAIN rs :
        after[i] = IF i \in is THEN [rs[i] EXCEPT !.cleared = TRUE] ELSE rs[i]
  BY DEF Cleared
<1> HIDE DEF after
<1>3. \E S : after \in Seq(S)
  BY <1>1, SameDomain DEF Table
<1>4. \A i \in DOMAIN rs :
        /\ Shape(after[i]) /\ after[i].kind = rs[i].kind
        /\ i \in is => after[i].cleared
        /\ i \notin is => after[i] = rs[i]
  BY <1>2 DEF Table, Shape
<1>5. DOMAIN after = DOMAIN rs
  BY <1>1
<1>6. Table(after)
  BY <1>3, <1>4, <1>5 DEF Table
<1>7. PenaltyRows(after) = PenaltyRows(rs) \ is
  BY <1>4, <1>5 DEF PenaltyRows, OpenRows
<1> QED
  BY <1>6, <1>7 DEF after

\* syncRechargeWagerToLiveFactor touches recharges, never a penalty.
LEMMA SyncedRows ==
  ASSUME NEW rs, Table(rs), NEW live
  PROVE  Table(Synced(rs, live)) /\ PenaltyRows(Synced(rs, live)) = PenaltyRows(rs)
<1> DEFINE after == Synced(rs, live)
<1>1. after = [i \in DOMAIN rs |-> after[i]]
  BY DEF Synced
<1>2. \A i \in DOMAIN rs :
        after[i] = IF rs[i].kind = "RECHARGE"
                   THEN [rs[i] EXCEPT !.required = rs[i].amount * live,
                            !.cleared = @ /\ rs[i].amount * live <= rs[i].required]
                   ELSE rs[i]
  BY DEF Synced
<1> HIDE DEF after
<1>3. \E S : after \in Seq(S)
  BY <1>1, SameDomain DEF Table
<1>4. \A i \in DOMAIN rs :
        /\ Shape(after[i]) /\ after[i].kind = rs[i].kind
        /\ rs[i].kind # "RECHARGE" => after[i] = rs[i]
  BY <1>2 DEF Table, Shape
<1>5. DOMAIN after = DOMAIN rs
  BY <1>1
<1>6. Table(after)
  BY <1>3, <1>4, <1>5 DEF Table
<1>7. PenaltyRows(after) = PenaltyRows(rs)
  BY <1>4, <1>5 DEF PenaltyRows, OpenRows
<1> QED
  BY <1>6, <1>7 DEF after

\* A new row is the last one.
LEMMA AppendedRow ==
  ASSUME NEW rs, Table(rs), NEW row, Shape(row)
  PROVE  /\ Table(Append(rs, row))
         /\ PenaltyRows(Append(rs, row)) \subseteq PenaltyRows(rs) \cup {Len(rs) + 1}
         /\ row.kind # "PENALTY" => PenaltyRows(Append(rs, row)) = PenaltyRows(rs)
<1> PICK S : rs \in Seq(S)
  BY DEF Table
<1> DEFINE T == S \cup {row}
           after == Append(rs, row)
<1>1. rs \in Seq(T) /\ row \in T
  BY SeqDef
<1>2. /\ after \in Seq(T) /\ Len(after) = Len(rs) + 1 /\ Len(rs) \in Nat
      /\ \A i \in 1 .. Len(rs) : after[i] = rs[i]
      /\ after[Len(rs) + 1] = row
  BY <1>1, AppendProperties
<1>3. DOMAIN rs = 1 .. Len(rs) /\ DOMAIN after = 1 .. Len(rs) + 1
  BY <1>1, <1>2
<1> HIDE DEF after, T
<1>4. Table(after)
  BY <1>2, <1>3 DEF Table
<1>5. PenaltyRows(after) \subseteq PenaltyRows(rs) \cup {Len(rs) + 1}
  BY <1>2, <1>3 DEF PenaltyRows, OpenRows
<1>6. ASSUME row.kind # "PENALTY" PROVE PenaltyRows(after) = PenaltyRows(rs)
  BY <1>2, <1>3, <1>6 DEF PenaltyRows, OpenRows
<1> QED
  BY <1>4, <1>5, <1>6 DEF after

LEMMA NewRow ==
  ASSUME NEW kind, NEW amount, NEW factor
  PROVE  Shape(Row(kind, amount, factor)) /\ Row(kind, amount, factor).kind = kind
  BY DEF Shape, Row

\* clearOpenPenalty leaves no open penalty.
LEMMA PenaltyCleared ==
  ASSUME NEW rs, Table(rs)
  PROVE  Table(ClearOpenPenalty(rs)) /\ PenaltyRows(ClearOpenPenalty(rs)) = {}
  BY ClearedRows DEF ClearOpenPenalty

\* getUserWagerStatus makes no penalty.
LEMMA StatusRows ==
  ASSUME Table(rows)
  PROVE  Table(Status) /\ PenaltyRows(Status) \subseteq PenaltyRows(rows)
<1>1. Table(Synced(rows, Live(penalty, wager)))
      /\ PenaltyRows(Synced(rows, Live(penalty, wager))) = PenaltyRows(rows)
  BY SyncedRows
<1> QED
  BY <1>1, ClearedRows DEF Status

\* replaceBalancePenaltySnapshot leaves one open penalty at most.
LEMMA SnapshotRows ==
  ASSUME NEW rs, Table(rs), NEW ws, NEW amount, NEW factor, Snapshot(rs, ws, amount, factor)
  PROVE  Table(rows') /\ AtMostOne(PenaltyRows(rows'))
<1>1. Table(ClearOpenPenalty(rs)) /\ PenaltyRows(ClearOpenPenalty(rs)) = {}
  BY PenaltyCleared
<1>2. \/ rows' = ClearOpenPenalty(rs)
      \/ rows' = Append(ClearOpenPenalty(rs), Row("PENALTY", amount, factor))
  BY DEF Snapshot, CreateRow
<1>3. Shape(Row("PENALTY", amount, factor))
  BY NewRow
<1>4. PenaltyRows(rows') \subseteq {Len(ClearOpenPenalty(rs)) + 1} /\ Table(rows')
  BY <1>1, <1>2, <1>3, AppendedRow
<1> QED
  BY <1>4 DEF AtMostOne

--------------------------------------------------------------------------------
(* The steps                                                                *)

\* A row that is no penalty, or rows the code has cleared or synced, keep SnapshotInv.
LEMMA FewerPenalties ==
  ASSUME PenaltyInv, UNCHANGED <<penalty, illegal, penalized>>,
         Table(rows'), PenaltyRows(rows') \subseteq PenaltyRows(rows)
  PROVE  PenaltyInv'
<1>1. PenaltyRows(rows)' = PenaltyRows(rows')
  BY DEF PenaltyRows, OpenRows
<1>2. Table(rows)'
  BY DEF Table
<1> QED
  BY <1>1, <1>2 DEF PenaltyInv, SnapshotInv, OnceInv, AtMostOne

\* A recharge, a reward, or an admin's correction of the balance.
LEMMA CreateKeeps ==
  ASSUME PenaltyInv, UNCHANGED <<penalty, illegal, penalized>>,
         NEW kind, NEW amount, NEW factor, kind # "PENALTY",
         CreateRow(rows, waived, Row(kind, amount, factor))
  PROVE  PenaltyInv'
<1>1. rows' = Append(rows, Row(kind, amount, factor))
  BY DEF CreateRow
<1>2. Table(rows') /\ PenaltyRows(rows') = PenaltyRows(rows)
  BY <1>1, NewRow, AppendedRow DEF PenaltyInv
<1> QED
  BY <1>2, FewerPenalties

\* Every operation that turns the penalty off clears its rows.
LEMMA OffKeeps ==
  ASSUME PenaltyInv, UNCHANGED <<illegal, penalized>>, Table(rows'), PenaltyRows(rows') = {}
  PROVE  PenaltyInv'
  BY DEF PenaltyInv, SnapshotInv, OnceInv, AtMostOne, Table, PenaltyRows, OpenRows

\* A penalty of an admin or of an illegal round comes with the snapshot it replaces.
LEMMA PenaltySet ==
  ASSUME NEW rs, Table(rs), NEW ws, NEW amount, NEW factor, NEW f,
         Snapshot(rs, ws, amount, factor),
         penalty' = [on |-> TRUE, factor |-> f, model |-> "BALANCE_SNAPSHOT"]
  PROVE  Table(rows)' /\ SnapshotInv'
<1>1. Table(rows') /\ AtMostOne(PenaltyRows(rows'))
  BY SnapshotRows
<1>2. penalty'.on /\ penalty'.model = "BALANCE_SNAPSHOT"
  OBVIOUS
<1> QED
  BY <1>1, <1>2 DEF SnapshotInv, Table, AtMostOne, PenaltyRows, OpenRows

\* Whatever bets a transaction looks at, only the first event of the round counts.
LEMMA ApplyKeeps ==
  ASSUME PenaltyInv, NEW r \in Rounds, NEW ps, NEW stake, ApplyPenalty(r, ps, stake)
  PROVE  PenaltyInv'
<1> DEFINE found == Found(ps)
<1>1. illegal' = [illegal EXCEPT ![r] = @ \cup found]
  BY DEF ApplyPenalty
<1>2. CASE FirstEvent(r, found)
  <2>1. /\ penalized' = [penalized EXCEPT ![r] = @ + 1]
        /\ penalty' = [on |-> TRUE, factor |-> Raised, model |-> "BALANCE_SNAPSHOT"]
        /\ Snapshot(Synced(rows, wager), Waive(waived, rows, PenaltyRows(rows)), balance - stake,
                    Raised)
    BY <1>2 DEF ApplyPenalty
  <2>2. Table(Synced(rows, wager))
    BY SyncedRows DEF PenaltyInv
  <2>3. Table(rows)' /\ SnapshotInv'
    BY <2>1, <2>2, PenaltySet
  <2>4. found # {} /\ illegal[r] = {}
    BY <1>2 DEF FirstEvent
  <2> HIDE DEF found
  <2>5. OnceInv'
    <3>1. illegal' = [s \in Rounds |-> illegal'[s]]
      BY <1>1 DEF PenaltyInv, OnceInv
    <3>2. penalized' \in [Rounds -> Nat] /\ penalized'[r] = 1
      BY <2>1, <2>4 DEF PenaltyInv, OnceInv
    <3>3. illegal'[r] = illegal[r] \cup found
      BY <1>1 DEF PenaltyInv, OnceInv
    <3>4. \A s \in Rounds : s # r => illegal'[s] = illegal[s] /\ penalized'[s] = penalized[s]
      BY <1>1, <2>1 DEF PenaltyInv, OnceInv
    <3>5. illegal'[r] # {}
      BY <2>4, <3>3
    <3>6. \A s \in Rounds : penalized'[s] = IF illegal'[s] = {} THEN 0 ELSE 1
      BY <3>2, <3>4, <3>5 DEF PenaltyInv, OnceInv
    <3> QED
      BY <3>1, <3>2, <3>6 DEF OnceInv
  <2> QED
    BY <2>3, <2>5 DEF PenaltyInv
<1>3. CASE ~FirstEvent(r, found)
  <2>1. UNCHANGED <<penalized, penalty, rows>>
    BY <1>3 DEF ApplyPenalty
  <2>2. found = {} \/ illegal[r] # {}
    BY <1>3 DEF FirstEvent
  <2> HIDE DEF found
  <2>3. OnceInv'
    BY <1>1, <2>1, <2>2 DEF PenaltyInv, OnceInv
  <2>4. Table(rows)' /\ SnapshotInv'
    BY <2>1 DEF PenaltyInv, Table, SnapshotInv, AtMostOne, PenaltyRows, OpenRows
  <2> QED
    BY <2>3, <2>4 DEF PenaltyInv
<1> QED
  BY <1>2, <1>3

\* debitWithdrawal clears the penalty with the requirements that were met.
LEMMA DebitKeeps ==
  ASSUME PenaltyInv, NEW a, DebitWithdrawal(a)
  PROVE  PenaltyInv'
<1>1. rows' = ClearOpenPenalty(Status) /\ UNCHANGED <<illegal, penalized>>
  BY DEF DebitWithdrawal
<1>2. Table(rows') /\ PenaltyRows(rows') = {}
  BY <1>1, StatusRows, PenaltyCleared DEF PenaltyInv
<1> QED
  BY <1>1, <1>2, OffKeeps

\* clear-wager persists the status, clears what is not a recharge, and persists again.
LEMMA ClearWagerKeeps ==
  ASSUME PenaltyInv, AdminClearWager
  PROVE  PenaltyInv'
<1> DEFINE extra == {i \in OpenRows(Status) : Status[i].kind \in {"REWARD", "PENALTY"}}
           synced == Synced(Cleared(Status, extra), wager)
           after == IF Low THEN OpenRows(synced) ELSE MetRows(synced)
<1>1. rows' = Cleared(synced, after) /\ UNCHANGED <<illegal, penalized>>
  BY DEF AdminClearWager
<1>2. Table(Cleared(Status, extra)) /\ PenaltyRows(Cleared(Status, extra)) = PenaltyRows(Status) \ extra
  BY StatusRows, ClearedRows DEF PenaltyInv
<1>3. PenaltyRows(Status) \subseteq extra
  BY DEF PenaltyRows
<1>4. Table(synced) /\ PenaltyRows(synced) = {}
  BY <1>2, <1>3, SyncedRows
<1> HIDE DEF synced, after
<1>5. Table(rows') /\ PenaltyRows(rows') = {}
  BY <1>1, <1>4, ClearedRows
<1> QED
  BY <1>1, <1>5, OffKeeps

\* Turning the penalty off clears its row before the recharges fall back.
LEMMA PenaltyOffKeeps ==
  ASSUME PenaltyInv, AdminPenaltyOff
  PROVE  PenaltyInv'
<1>1. rows' = Synced(ClearOpenPenalty(rows), wager) /\ UNCHANGED <<illegal, penalized>>
  BY DEF AdminPenaltyOff
<1>2. Table(rows') /\ PenaltyRows(rows') = {}
  BY <1>1, PenaltyCleared, SyncedRows DEF PenaltyInv
<1> QED
  BY <1>1, <1>2, OffKeeps

LEMMA AdminPenaltyKeeps ==
  ASSUME PenaltyInv, NEW f, AdminPenalty(f)
  PROVE  PenaltyInv'
<1>1. Table(Synced(rows, wager))
  BY SyncedRows DEF PenaltyInv
<1>2. Table(rows)' /\ SnapshotInv'
  BY <1>1, PenaltySet DEF AdminPenalty
<1>3. OnceInv'
  BY DEF AdminPenalty, PenaltyInv, OnceInv
<1> QED
  BY <1>2, <1>3 DEF PenaltyInv

\* What touches neither rows nor penalties.
LEMMA OtherSteps ==
  ASSUME PenaltyInv, UNCHANGED <<rows, penalty, illegal, penalized>>
  PROVE  PenaltyInv'
  BY DEF PenaltyInv, Table, SnapshotInv, OnceInv, AtMostOne, PenaltyRows, OpenRows

\* Whatever a player, a settle run or an admin does to the account.
LEMMA AccountKeeps ==
  ASSUME PenaltyInv, AccountWrite
  PROVE  PenaltyInv'
<1>1. ASSUME NEW a \in Amounts, Recharge(a) PROVE PenaltyInv'
  BY <1>1, CreateKeeps DEF Recharge
<1>2. ASSUME NEW a \in Amounts, Reward(a) PROVE PenaltyInv'
  BY <1>2, CreateKeeps DEF Reward
<1>3. ASSUME NEW a \in Amounts, DebitWithdrawal(a) PROVE PenaltyInv'
  BY <1>3, DebitKeeps
<1>4. ASSUME NEW r \in Rounds, NEW p, PlaceBet(r, p) PROVE PenaltyInv'
  BY <1>4, ApplyKeeps DEF PlaceBet
<1>5. ASSUME NEW r \in Rounds, NEW n, SettleRound(r, n) PROVE PenaltyInv'
  BY <1>5, OtherSteps DEF SettleRound
<1>6. ASSUME NEW r \in Rounds, DetectSettled(r) PROVE PenaltyInv'
  BY <1>6, ApplyKeeps DEF DetectSettled
<1>7. ASSUME NEW f, AdminPenalty(f) PROVE PenaltyInv'
  BY <1>7, AdminPenaltyKeeps
<1>8. CASE ReadStatus
  BY <1>8, StatusRows, FewerPenalties DEF ReadStatus, PenaltyInv
<1>9. CASE AdminPenaltyOff
  BY <1>9, PenaltyOffKeeps
<1>10. CASE AdminClearWager
  BY <1>10, ClearWagerKeeps
<1> QED
  BY <1>1, <1>2, <1>3, <1>4, <1>5, <1>6, <1>7, <1>8, <1>9, <1>10 DEF AccountWrite

\* The vendor's callbacks write the balance and their own rows; the admin's balance
\* update may add a recharge requirement.
LEMMA VendorKeeps ==
  ASSUME PenaltyInv, VendorNext
  PROVE  PenaltyInv'
<1>1. ASSUME NEW call, Begin(call) PROVE PenaltyInv'
  BY <1>1, OtherSteps DEF Begin, wagerVars
<1>2. ASSUME NEW amount, OnlyBalance(amount) PROVE PenaltyInv'
  BY <1>2, OtherSteps DEF OnlyBalance, AccountRest
<1>3. ASSUME UNCHANGED wagerVars PROVE PenaltyInv'
  BY <1>3, OtherSteps DEF wagerVars
<1>4. ASSUME NEW c \in calls, AdminSet(c) PROVE PenaltyInv'
  <2>1. UNCHANGED <<penalty, illegal, penalized>>
    BY <1>4 DEF AdminSet
  <2>2. CASE CreateRow(rows, waived, Row("RECHARGE", c.amount, Live(penalty, wager)))
    BY <2>1, <2>2, CreateKeeps
  <2>3. CASE UNCHANGED <<rows, waived>>
    BY <2>1, <2>3, OtherSteps
  <2> QED
    BY <1>4, <2>2, <2>3 DEF AdminSet
<1>5. ASSUME NEW c \in calls, VendorStep(c) PROVE PenaltyInv'
  BY <1>2, <1>3, <1>4, <1>5
  DEF VendorStep, BetCreate, BetDebit, Credit, ResultMark, RollbackMark, CallDies
<1>6. ASSUME NEW t \in Tx, BetRead(t) \/ RollbackRead(t) PROVE PenaltyInv'
  BY <1>1, <1>6 DEF BetRead, RollbackRead
<1>7. ASSUME NEW t \in Tx, NEW w \in Results, ResultRead(t, w) PROVE PenaltyInv'
  BY <1>1, <1>7 DEF ResultRead
<1>8. ASSUME NEW a \in Corrections, AdminRead(a) PROVE PenaltyInv'
  BY <1>1, <1>8 DEF AdminRead
<1> QED
  BY <1>5, <1>6, <1>7, <1>8 DEF VendorNext

LEMMA PenaltyStep == PenaltyInv /\ [Next]_walletVars => PenaltyInv'
<1> SUFFICES ASSUME PenaltyInv, [Next]_walletVars PROVE PenaltyInv'
  OBVIOUS
<1>1. CASE AccountStep
  BY <1>1, AccountKeeps DEF AccountStep
<1>2. CASE World
  BY <1>2, OtherSteps DEF World, WagerTick, ConfigWager
<1>3. CASE VendorNext
  BY <1>3, VendorKeeps
<1>4. CASE UNCHANGED walletVars
  BY <1>4, OtherSteps DEF walletVars, vars, wagerVars
<1> QED
  BY <1>1, <1>2, <1>3, <1>4 DEF Next

\* An account has no requirement and no illegal round at first.
LEMMA PenaltyStarts == Init => PenaltyInv
<1> SUFFICES ASSUME Init PROVE PenaltyInv
  OBVIOUS
<1>1. rows = <<>> /\ illegal = [r \in Rounds |-> {}] /\ penalized = [r \in Rounds |-> 0]
  BY DEF Init, WagerInit
<1>2. <<>> \in Seq({}) /\ DOMAIN <<>> = {}
  OBVIOUS
<1>3. PenaltyRows(rows) = {}
  BY <1>1, <1>2 DEF PenaltyRows, OpenRows
<1> QED
  BY <1>1, <1>2, <1>3 DEF PenaltyInv, Table, SnapshotInv, OnceInv, AtMostOne

\* Whatever requests, settle runs, admins and vendor calls interleave, a round raises
\* the penalty factor of an account once, and its open balance snapshot is one at
\* most, under a penalty that is on (applyIllegalRoundPenalty, penalty.ts).
THEOREM PenaltiesAreBacked == Spec => []PenaltiesBacked
<1>1. Spec => []PenaltyInv
  BY PenaltyStarts, PenaltyStep, PTL DEF Spec
<1>2. PenaltyInv => PenaltiesBacked
  <2> SUFFICES ASSUME PenaltyInv PROVE PenaltiesBacked
    OBVIOUS
  <2>1. Cardinality(PenaltyRows(rows)) <= 1
    <3>1. CASE PenaltyRows(rows) = {}
      BY <3>1, FS_EmptySet
    <3>2. CASE PenaltyRows(rows) # {}
      <4> PICK i : i \in PenaltyRows(rows)
        BY <3>2
      <4>1. PenaltyRows(rows) = {i}
        BY DEF PenaltyInv, SnapshotInv, AtMostOne
      <4> QED
        BY <4>1, FS_Singleton
    <3> QED
      BY <3>1, <3>2
  <2> QED
    BY <2>1 DEF PenaltyInv, SnapshotInv, OnceInv, PenaltiesBacked
<1> QED
  BY <1>1, <1>2, PTL

--------------------------------------------------------------------------------
(* Types                                                                    *)

Factors == 1 .. MaxFactor \cup WagerFactors \cup {PenaltyBase}
RowType == [kind : Kinds, amount : Nat, required : Nat, at : 0 .. MaxTime, cleared : BOOLEAN]
RowsTyped(rs, ws) == rs \in Seq(RowType) /\ ws \in Seq(Nat) /\ Len(ws) = Len(rs)

\* A cleared requirement was met by the bets made since, or waived to its height.
RowEarned(row, waivedTo) ==
  row.cleared => (BetsSince(row.at) >= row.required \/ waivedTo >= row.required)
Earned(rs, ws) == RowsTyped(rs, ws) /\ \A i \in DOMAIN rs : RowEarned(rs[i], ws[i])

\* What the clock, the bets and the penalty are.
ClockTyped ==
  /\ now \in 0 .. MaxTime
  /\ bets \in [0 .. MaxTime -> Nat]
  /\ penalty \in [on : BOOLEAN, factor : Factors, model : {"LEGACY_DEPOSIT", "BALANCE_SNAPSHOT"}]
  /\ wager \in WagerFactors
  /\ balance \in Int /\ others \in Int

LEMMA FactorsAreNat == Factors \subseteq Nat \ {0} /\ WagerFactors \subseteq Factors
BY WagerAssumption DEF Factors

LEMMA LiveIsNat == ClockTyped => Live(penalty, wager) \in Nat
<1> SUFFICES ASSUME ClockTyped PROVE Live(penalty, wager) \in Nat
  OBVIOUS
<1>1. wager \in Nat /\ penalty.factor \in Nat
  BY FactorsAreNat DEF ClockTyped
<1> QED
  BY <1>1 DEF Live

LEMMA BetsSinceIsNat ==
  ASSUME ClockTyped, NEW t \in 0 .. MaxTime
  PROVE  BetsSince(t) \in Nat
<1> DEFINE since == t .. now
<1>1. IsFiniteSet(since)
  BY FS_Interval, WagerAssumption DEF ClockTyped
<1>2. \A u \in since : bets[u] \in Nat
  BY WagerAssumption DEF ClockTyped
<1>3. \A u \in since : bets[u] \in Int
  BY <1>2
<1> HIDE DEF since
<1>4. SumFunctionOnSet(bets, since) \in Nat
  BY <1>1, <1>2, <1>3, SumType
<1> QED
  BY <1>4 DEF BetsSince, since

--------------------------------------------------------------------------------
(* What clearing, syncing and waiving keep                                  *)

LEMMA EarnedSynced ==
  ASSUME ClockTyped, NEW rs, NEW ws, Earned(rs, ws), NEW live \in Nat
  PROVE  Earned(Synced(rs, live), ws) /\ Len(Synced(rs, live)) = Len(rs)
<1> DEFINE after == Synced(rs, live)
<1>1. after = [i \in DOMAIN rs |-> after[i]]
  BY DEF Synced
<1>2. \A i \in DOMAIN rs :
        after[i] = IF rs[i].kind = "RECHARGE"
                   THEN [rs[i] EXCEPT !.required = rs[i].amount * live,
                            !.cleared = @ /\ rs[i].amount * live <= rs[i].required]
                   ELSE rs[i]
  BY DEF Synced
<1> HIDE DEF after
<1>3. rs \in Seq(RowType) /\ \A i \in DOMAIN rs : rs[i] \in RowType
  BY DEF Earned, RowsTyped
<1>4. ASSUME NEW i \in DOMAIN rs
      PROVE  after[i] \in RowType /\ RowEarned(after[i], ws[i])
  <2>1. rs[i] \in RowType /\ RowEarned(rs[i], ws[i])
    BY <1>3 DEF Earned
  <2>2. CASE rs[i].kind # "RECHARGE"
    BY <1>2, <2>1, <2>2
  <2>3. CASE rs[i].kind = "RECHARGE"
    <3> DEFINE req == rs[i].amount * live
    <3>1. req \in Nat
      BY <2>1 DEF RowType
    <3>2. after[i] = [rs[i] EXCEPT !.required = req, !.cleared = @ /\ req <= rs[i].required]
      BY <1>2, <2>3
    <3> HIDE DEF req
    <3>3. /\ after[i] \in RowType
          /\ after[i].at = rs[i].at /\ after[i].required = req
          /\ after[i].cleared = (rs[i].cleared /\ req <= rs[i].required)
      BY <2>1, <3>1, <3>2 DEF RowType
    <3>4. BetsSince(rs[i].at) \in Nat /\ ws[i] \in Nat /\ rs[i].required \in Nat
      BY <2>1, BetsSinceIsNat DEF RowType, Earned, RowsTyped
    <3>5. RowEarned(after[i], ws[i])
      <4> SUFFICES ASSUME after[i].cleared
                   PROVE  BetsSince(after[i].at) >= req \/ ws[i] >= req
        BY <3>3 DEF RowEarned
      <4>1. rs[i].cleared /\ req <= rs[i].required
        BY <3>3
      <4>2. BetsSince(rs[i].at) >= rs[i].required \/ ws[i] >= rs[i].required
        BY <2>1, <4>1 DEF RowEarned
      <4>3. BetsSince(rs[i].at) >= req \/ ws[i] >= req
        BY <3>1, <3>4, <4>1, <4>2
      <4> QED
        BY <3>3, <4>3
    <3> QED
      BY <3>3, <3>5
  <2> QED
    BY <2>2, <2>3
<1>5. after \in Seq(RowType) /\ Len(after) = Len(rs) /\ DOMAIN after = DOMAIN rs
  BY <1>1, <1>3, <1>4, RowByRow
<1> QED
  BY <1>4, <1>5 DEF Earned, RowsTyped, after

\* Clearing rows and waiving them to what they require.
LEMMA EarnedWaived ==
  ASSUME NEW rs, NEW ws, Earned(rs, ws), NEW is
  PROVE  /\ Earned(Cleared(rs, is), Waive(ws, rs, is))
         /\ Len(Cleared(rs, is)) = Len(rs)
<1> DEFINE after == Cleared(rs, is)
           to == Waive(ws, rs, is)
<1>1. after = [i \in DOMAIN rs |-> after[i]] /\ to = [i \in DOMAIN ws |-> to[i]]
  BY DEF Cleared, Waive
<1>2. \A i \in DOMAIN rs :
        after[i] = IF i \in is THEN [rs[i] EXCEPT !.cleared = TRUE] ELSE rs[i]
  BY DEF Cleared
<1>3. \A i \in DOMAIN ws :
        to[i] = IF i \in is /\ rs[i].required > ws[i] THEN rs[i].required ELSE ws[i]
  BY DEF Waive
<1> HIDE DEF after, to
<1>4. /\ rs \in Seq(RowType) /\ ws \in Seq(Nat) /\ DOMAIN ws = DOMAIN rs /\ Len(ws) = Len(rs)
      /\ \A i \in DOMAIN rs : rs[i] \in RowType /\ ws[i] \in Nat /\ RowEarned(rs[i], ws[i])
  BY DEF Earned, RowsTyped
<1>5. ASSUME NEW i \in DOMAIN rs
      PROVE  after[i] \in RowType /\ to[i] \in Nat /\ RowEarned(after[i], to[i])
  <2>1. rs[i] \in RowType /\ ws[i] \in Nat /\ RowEarned(rs[i], ws[i])
    BY <1>4
  <2>2. rs[i].required \in Nat
    BY <2>1 DEF RowType
  <2>3. CASE i \notin is
    BY <1>2, <1>3, <1>4, <2>1, <2>3
  <2>4. CASE i \in is
    <3>1. after[i] \in RowType /\ after[i].required = rs[i].required
      BY <1>2, <2>1, <2>4 DEF RowType
    <3>2. to[i] \in Nat /\ to[i] >= rs[i].required
      BY <1>3, <1>4, <2>1, <2>2, <2>4
    <3> QED
      BY <3>1, <3>2 DEF RowEarned
  <2> QED
    BY <2>3, <2>4
<1>6. after \in Seq(RowType) /\ Len(after) = Len(rs) /\ DOMAIN after = DOMAIN rs
  BY <1>1, <1>4, <1>5, RowByRow
<1>7. to \in Seq(Nat) /\ Len(to) = Len(ws)
  BY <1>1, <1>4, <1>5, RowByRow
<1> QED
  BY <1>4, <1>5, <1>6, <1>7 DEF Earned, RowsTyped, after, to

\* What earlier rows of the same instant take of the bets.
LEMMA TakenIsNat ==
  ASSUME NEW rs \in Seq(RowType), NEW i \in DOMAIN rs
  PROVE  Taken(rs, i) \in Nat
<1> DEFINE js == Sharing(rs, i)
           v == [j \in DOMAIN rs |-> rs[j].required]
<1>1. js \subseteq DOMAIN rs
  BY DEF Sharing, OpenRows
<1>2. IsFiniteSet(DOMAIN rs)
  BY FS_Interval
<1>3. IsFiniteSet(js)
  BY <1>1, <1>2, FS_Subset
<1>4. \A j \in js : v[j] \in Nat
  <2> TAKE j \in js
  <2>1. rs[j] \in RowType /\ v[j] = rs[j].required
    BY <1>1
  <2> QED
    BY <2>1 DEF RowType
<1> HIDE DEF js, v
<1>5. \A j \in js : v[j] \in Int
  BY <1>4
<1>6. SumFunctionOnSet(v, js) \in Nat
  BY <1>3, <1>4, <1>5, SumType
<1> QED
  BY <1>6 DEF Taken, js, v

\* A row that is found met is met by the bets since.
LEMMA MetIsEarned ==
  ASSUME ClockTyped, NEW rs \in Seq(RowType), NEW i \in MetRows(rs)
  PROVE  BetsSince(rs[i].at) >= rs[i].required
<1>1. i \in DOMAIN rs /\ rs[i] \in RowType
  BY DEF MetRows, OpenRows
<1>2. BetsSince(rs[i].at) \in Nat /\ rs[i].required \in Nat
  BY <1>1, BetsSinceIsNat DEF RowType
<1>3. Taken(rs, i) \in Nat
  BY <1>1, TakenIsNat
<1>4. (IF Available(rs, i) > 0 THEN Available(rs, i) ELSE 0) >= rs[i].required
  BY DEF MetRows
<1> QED
  BY <1>2, <1>3, <1>4 DEF Available

LEMMA EarnedMet ==
  ASSUME ClockTyped, NEW rs, NEW ws, Earned(rs, ws)
  PROVE  Earned(Cleared(rs, MetRows(rs)), ws) /\ Len(Cleared(rs, MetRows(rs))) = Len(rs)
<1> DEFINE is == MetRows(rs)
           after == Cleared(rs, is)
<1>1. after = [i \in DOMAIN rs |-> after[i]]
  BY DEF Cleared
<1>2. \A i \in DOMAIN rs :
        after[i] = IF i \in is THEN [rs[i] EXCEPT !.cleared = TRUE] ELSE rs[i]
  BY DEF Cleared
<1> HIDE DEF after
<1>3. /\ rs \in Seq(RowType) /\ ws \in Seq(Nat) /\ DOMAIN ws = DOMAIN rs /\ Len(ws) = Len(rs)
      /\ \A i \in DOMAIN rs : rs[i] \in RowType /\ RowEarned(rs[i], ws[i])
  BY DEF Earned, RowsTyped
<1>4. \A i \in is : BetsSince(rs[i].at) >= rs[i].required
  BY <1>3, MetIsEarned
<1> HIDE DEF is
<1>5. ASSUME NEW i \in DOMAIN rs
      PROVE  after[i] \in RowType /\ RowEarned(after[i], ws[i])
  <2>1. CASE i \notin is
    BY <1>2, <1>3, <2>1
  <2>2. CASE i \in is
    <3>1. after[i] \in RowType /\ after[i].required = rs[i].required /\ after[i].at = rs[i].at
      BY <1>2, <1>3, <2>2 DEF RowType
    <3> QED
      BY <1>4, <2>2, <3>1 DEF RowEarned
  <2> QED
    BY <2>1, <2>2
<1>6. after \in Seq(RowType) /\ Len(after) = Len(rs) /\ DOMAIN after = DOMAIN rs
  BY <1>1, <1>3, <1>5, RowByRow
<1> QED
  BY <1>3, <1>5, <1>6 DEF Earned, RowsTyped, after, is

\* A new requirement is closed when it requires nothing.
LEMMA EarnedAppend ==
  ASSUME ClockTyped, NEW rs, NEW ws, Earned(rs, ws), NEW row \in RowType,
         row.cleared => row.required = 0
  PROVE  Earned(Append(rs, row), Append(ws, 0)) /\ Len(Append(rs, row)) = Len(rs) + 1
<1> DEFINE after == Append(rs, row)
           to == Append(ws, 0)
<1>1. /\ rs \in Seq(RowType) /\ ws \in Seq(Nat) /\ Len(ws) = Len(rs) /\ Len(rs) \in Nat
      /\ DOMAIN rs = 1 .. Len(rs)
      /\ \A i \in DOMAIN rs : RowEarned(rs[i], ws[i])
  BY DEF Earned, RowsTyped
<1>2. /\ after \in Seq(RowType) /\ Len(after) = Len(rs) + 1
      /\ \A i \in 1 .. Len(rs) : after[i] = rs[i]
      /\ after[Len(rs) + 1] = row
  BY <1>1, AppendProperties
<1>3. /\ to \in Seq(Nat) /\ Len(to) = Len(rs) + 1
      /\ \A i \in 1 .. Len(rs) : to[i] = ws[i]
      /\ to[Len(rs) + 1] = 0
  BY <1>1, AppendProperties
<1> HIDE DEF after, to
<1>4. RowEarned(row, 0)
  BY DEF RowEarned
<1>5. DOMAIN after = 1 .. Len(rs) + 1
  BY <1>1, <1>2
<1>6. ASSUME NEW i \in DOMAIN after PROVE RowEarned(after[i], to[i])
  <2>1. CASE i = Len(rs) + 1
    BY <1>2, <1>3, <1>4, <2>1
  <2>2. CASE i # Len(rs) + 1
    <3>1. i \in DOMAIN rs
      BY <1>1, <1>5, <2>2
    <3>2. after[i] = rs[i] /\ to[i] = ws[i]
      BY <1>1, <1>2, <1>3, <3>1
    <3> QED
      BY <1>1, <3>1, <3>2
  <2> QED
    BY <2>1, <2>2
<1> QED
  BY <1>2, <1>3, <1>6 DEF Earned, RowsTyped, after, to

\* A recharge factor leaves penalties as they are: waiving before or after is the same.
LEMMA WaiveSynced ==
  ASSUME NEW rs, NEW ws, RowsTyped(rs, ws), NEW live
  PROVE  Waive(ws, Synced(rs, live), PenaltyRows(rs)) = Waive(ws, rs, PenaltyRows(rs))
<1>1. \A i \in PenaltyRows(rs) : Synced(rs, live)[i] = rs[i]
  BY DEF PenaltyRows, OpenRows, Synced
<1> QED
  BY <1>1, Zenon DEF Waive

LEMMA WaiveNone ==
  ASSUME NEW rs, NEW ws, RowsTyped(rs, ws)
  PROVE  Waive(ws, rs, {}) = ws
<1>1. ws = [i \in DOMAIN ws |-> ws[i]]
  BY DEF RowsTyped
<1> QED
  BY <1>1, Zenon DEF Waive

\* What syncing and clearing by getUserWagerStatus leaves earned.
LEMMA StatusEarned ==
  ASSUME ClockTyped, Earned(rows, waived)
  PROVE  Earned(Status, WaivedByStatus) /\ Len(Status) = Len(rows)
<1>1. CASE Low
  BY <1>1, EarnedWaived DEF Status, WaivedByStatus
<1>2. CASE ~Low
  <2> DEFINE synced == Synced(rows, Live(penalty, wager))
  <2>1. Earned(synced, waived) /\ Len(synced) = Len(rows)
    BY LiveIsNat, EarnedSynced
  <2> HIDE DEF synced
  <2>2. Earned(Cleared(synced, MetRows(synced)), waived)
        /\ Len(Cleared(synced, MetRows(synced))) = Len(rows)
    BY <2>1, EarnedMet
  <2>3. WaivedByStatus = waived
    BY <1>2, WaiveNone DEF WaivedByStatus, Earned
  <2> QED
    BY <1>2, <2>2, <2>3 DEF Status, synced
<1> QED
  BY <1>1, <1>2

\* The rows of the database have the shape the lemmas on penalties ask for.
LEMMA TypedTable ==
  ASSUME NEW rs \in Seq(RowType)
  PROVE  Table(rs)
<1>1. \A row \in RowType : Shape(row)
  BY DEF RowType, Shape
<1>2. \A i \in DOMAIN rs : rs[i] \in RowType
  OBVIOUS
<1> QED
  BY <1>1, <1>2 DEF Table

LEMMA RowTyped ==
  ASSUME ClockTyped, NEW kind \in Kinds, NEW amount \in Nat, NEW factor \in Nat
  PROVE  /\ Row(kind, amount, factor) \in RowType
         /\ Row(kind, amount, factor).cleared => Row(kind, amount, factor).required = 0
<1> DEFINE required == amount * factor
<1>1. required \in Nat
  OBVIOUS
<1>2. Row(kind, amount, factor) =
        [kind |-> kind, amount |-> amount, required |-> required, at |-> now,
         cleared |-> required = 0]
  BY DEF Row
<1> DEFINE closed == required = 0
<1>3. now \in 0 .. MaxTime /\ closed \in BOOLEAN
  BY DEF ClockTyped
<1>4. Row(kind, amount, factor) =
        [kind |-> kind, amount |-> amount, required |-> required, at |-> now, cleared |-> closed]
  BY <1>2
<1>5. closed => required = 0
  OBVIOUS
<1> HIDE DEF required, closed
<1> QED
  BY <1>1, <1>3, <1>4, <1>5 DEF RowType

\* A recharge, a reward or an admin's correction.
LEMMA CreateEarned ==
  ASSUME ClockTyped, Earned(rows, waived), Len(rows) < MaxRows, NEW kind \in Kinds,
         NEW amount \in Nat, NEW factor \in Nat,
         CreateRow(rows, waived, Row(kind, amount, factor))
  PROVE  Earned(rows', waived') /\ Len(rows') <= MaxRows
<1>1. rows' = Append(rows, Row(kind, amount, factor)) /\ waived' = Append(waived, 0)
  BY DEF CreateRow
<1>2. Earned(rows', waived') /\ Len(rows') = Len(rows) + 1
  BY <1>1, RowTyped, EarnedAppend
<1>3. Len(rows) \in Nat
  BY DEF Earned, RowsTyped
<1> QED
  BY <1>2, <1>3, WagerAssumption

\* A penalty clears and waives the one before, and appends its snapshot.
LEMMA PenaltyEarned ==
  ASSUME ClockTyped, Earned(rows, waived), Len(rows) < MaxRows,
         NEW amount \in Int, NEW factor \in Nat,
         Snapshot(Synced(rows, wager), Waive(waived, rows, PenaltyRows(rows)), amount, factor)
  PROVE  Earned(rows', waived') /\ Len(rows') <= MaxRows
<1> DEFINE synced == Synced(rows, wager)
           open == PenaltyRows(rows)
           rs == Cleared(synced, open)
           ws == Waive(waived, rows, open)
<1>1. Earned(synced, waived) /\ Len(synced) = Len(rows) /\ PenaltyRows(synced) = open
  <2>1. wager \in Nat
    BY FactorsAreNat DEF ClockTyped
  <2>2. Table(rows)
    BY TypedTable DEF Earned, RowsTyped
  <2> QED
    BY <2>1, <2>2, EarnedSynced, SyncedRows
<1>2. Waive(waived, synced, open) = ws
  BY WaiveSynced DEF Earned
<1>3. Earned(rs, ws) /\ Len(rs) = Len(rows)
  <2> HIDE DEF synced, open
  <2>1. /\ Earned(Cleared(synced, open), Waive(waived, synced, open))
        /\ Len(Cleared(synced, open)) = Len(synced)
    BY <1>1, EarnedWaived
  <2> QED
    BY <1>1, <1>2, <2>1
<1>4. /\ amount > LowBalance => CreateRow(rs, ws, Row("PENALTY", amount, factor))
      /\ ~(amount > LowBalance) => rows' = rs /\ waived' = ws
  BY <1>1 DEF Snapshot, ClearOpenPenalty
<1> HIDE DEF rs, ws
<1>5. Len(rows) \in Nat
  BY DEF Earned, RowsTyped
<1>6. CASE amount > LowBalance
  <2>1. rows' = Append(rs, Row("PENALTY", amount, factor)) /\ waived' = Append(ws, 0)
    BY <1>4, <1>6 DEF CreateRow
  <2>2. amount \in Nat /\ "PENALTY" \in Kinds
    BY <1>6, WagerAssumption DEF Kinds
  <2>3. Earned(rows', waived') /\ Len(rows') = Len(rs) + 1
    BY <1>3, <2>1, <2>2, RowTyped, EarnedAppend
  <2> QED
    BY <1>3, <1>5, <2>3, WagerAssumption
<1>7. CASE ~(amount > LowBalance)
  BY <1>3, <1>4, <1>5, <1>7, WagerAssumption
<1> QED
  BY <1>6, <1>7

LEMMA RaisedIsFactor == ClockTyped => Raised \in 1 .. MaxFactor
<1> SUFFICES ASSUME ClockTyped PROVE Raised \in 1 .. MaxFactor
  OBVIOUS
<1> DEFINE from == IF penalty.on THEN penalty.factor ELSE 1
           next == from * PenaltyBase
<1>1. from \in Nat \ {0} /\ PenaltyBase \in Nat \ {0} /\ MaxFactor \in Nat \ {0}
  <2>1. penalty.factor \in Factors
    BY DEF ClockTyped
  <2>2. penalty.factor \in Nat \ {0}
    BY <2>1, FactorsAreNat
  <2> QED
    BY <2>2, WagerAssumption
<1> HIDE DEF from
<1>2. from * PenaltyBase \in Nat \ {0}
  BY <1>1
<1>3. Raised = IF next > MaxFactor THEN MaxFactor ELSE next
  BY DEF Raised, from
<1> QED
  BY <1>1, <1>2, <1>3

\* An illegal round, found when a bet is placed or when the round is settled.
LEMMA ApplyEarned ==
  ASSUME ClockTyped, Earned(rows, waived), Len(rows) <= MaxRows, NEW r \in Rounds, NEW ps,
         NEW stake \in Int, ApplyPenalty(r, ps, stake)
  PROVE  /\ Earned(rows', waived') /\ Len(rows') <= MaxRows
         /\ penalty' \in [on : BOOLEAN, factor : Factors, model : {"LEGACY_DEPOSIT", "BALANCE_SNAPSHOT"}]
<1>1. CASE FirstEvent(r, Found(ps))
  <2>1. /\ Len(rows) < MaxRows
        /\ penalty' = [on |-> TRUE, factor |-> Raised, model |-> "BALANCE_SNAPSHOT"]
        /\ Snapshot(Synced(rows, wager), Waive(waived, rows, PenaltyRows(rows)), balance - stake,
                    Raised)
    BY <1>1 DEF ApplyPenalty
  <2>2. balance - stake \in Int
    BY DEF ClockTyped
  <2>3. Raised \in Nat /\ Raised \in Factors
    BY RaisedIsFactor, WagerAssumption DEF Factors
  <2>4. Earned(rows', waived') /\ Len(rows') <= MaxRows
    BY <2>1, <2>2, <2>3, PenaltyEarned
  <2> QED
    BY <2>1, <2>3, <2>4
<1>2. CASE ~FirstEvent(r, Found(ps))
  BY <1>2 DEF ApplyPenalty, ClockTyped
<1> QED
  BY <1>1, <1>2

--------------------------------------------------------------------------------
(* What a round of Win Go may pay                                           *)

LEMMA WingoBetsFinite == IsFiniteSet(WingoBets)
<1> DEFINE bet == [n \in WingoNumbers |-> OnNumber("WINGO", "RESULT", "NUMBER", n)]
           color == [g \in {"RED", "GREEN", "VIOLET"} |-> OnGroup("WINGO", "RESULT", "COLOR", g)]
           size == [g \in {"BIG", "SMALL"} |-> OnGroup("WINGO", "RESULT", "SIZE", g)]
           bets1 == {OnNumber("WINGO", "RESULT", "NUMBER", n) : n \in WingoNumbers}
           colors == {OnGroup("WINGO", "RESULT", "COLOR", g) : g \in {"RED", "GREEN", "VIOLET"}}
           sizes == {OnGroup("WINGO", "RESULT", "SIZE", g) : g \in {"BIG", "SMALL"}}
<1>1. IsFiniteSet(bets1)
  <2>1. bet \in Surjection(WingoNumbers, bets1)
    <3>1. bet \in [WingoNumbers -> bets1]
      BY Zenon
    <3>2. \A b \in bets1 : \E x \in WingoNumbers : bet[x] = b
      BY Zenon
    <3> HIDE DEF bet, bets1
    <3> QED
      BY <3>1, <3>2, Zenon DEF Surjection
  <2>2. IsFiniteSet(WingoNumbers)
    <3>1. 0 \in Int /\ 9 \in Int
      OBVIOUS
    <3> QED
      BY <3>1, FS_Interval, Zenon DEF WingoNumbers
  <2> HIDE DEF bet, bets1
  <2> QED
    BY <2>1, <2>2, FS_Surjection
<1>2. IsFiniteSet(colors)
  <2>1. color \in Surjection({"RED", "GREEN", "VIOLET"}, colors)
    <3>1. color \in [{"RED", "GREEN", "VIOLET"} -> colors]
      BY Zenon
    <3>2. \A b \in colors : \E x \in {"RED", "GREEN", "VIOLET"} : color[x] = b
      BY Zenon
    <3> HIDE DEF color, colors
    <3> QED
      BY <3>1, <3>2, Zenon DEF Surjection
  <2>2. IsFiniteSet({"RED", "GREEN", "VIOLET"})
    <3>1. {"RED", "GREEN", "VIOLET"} = ({"RED"} \cup {"GREEN"}) \cup {"VIOLET"}
      OBVIOUS
    <3>2. IsFiniteSet({"RED"}) /\ IsFiniteSet({"GREEN"}) /\ IsFiniteSet({"VIOLET"})
      BY FS_Singleton
    <3>3. IsFiniteSet({"RED"} \cup {"GREEN"})
      BY <3>2, FS_Union
    <3> QED
      BY <3>1, <3>2, <3>3, FS_Union
  <2> HIDE DEF color, colors
  <2> QED
    BY <2>1, <2>2, FS_Surjection
<1>3. IsFiniteSet(sizes)
  <2>1. size \in Surjection({"BIG", "SMALL"}, sizes)
    <3>1. size \in [{"BIG", "SMALL"} -> sizes]
      BY Zenon
    <3>2. \A b \in sizes : \E x \in {"BIG", "SMALL"} : size[x] = b
      BY Zenon
    <3> HIDE DEF size, sizes
    <3> QED
      BY <3>1, <3>2, Zenon DEF Surjection
  <2>2. IsFiniteSet({"BIG", "SMALL"})
    <3>1. {"BIG", "SMALL"} = {"BIG"} \cup {"SMALL"}
      OBVIOUS
    <3>2. IsFiniteSet({"BIG"}) /\ IsFiniteSet({"SMALL"})
      BY FS_Singleton
    <3> QED
      BY <3>1, <3>2, FS_Union
  <2> HIDE DEF size, sizes
  <2> QED
    BY <2>1, <2>2, FS_Surjection
<1>4. WingoBets = (bets1 \cup colors) \cup sizes
  BY DEF WingoBets
<1> HIDE DEF bets1, colors, sizes
<1> QED
  BY <1>1, <1>2, <1>3, <1>4, FS_Union

\* What one player's stakes of 1 win is a whole amount, and never negative.
LEMMA PayoutIsNat ==
  ASSUME NEW ps \in SUBSET WingoBets, NEW n
  PROVE  Payout([bet : ps, contract : {1}], n) \in Nat
<1> DEFINE stakes == [bet : ps, contract : {1}]
           stake == [b \in ps |-> [bet |-> b, contract |-> 1]]
           v == [s \in stakes |-> Pays(s, n)]
<1>1. IsFiniteSet(stakes)
  <2>1. stake \in Surjection(ps, stakes)
    BY DEF Surjection
  <2>2. IsFiniteSet(ps)
    BY WingoBetsFinite, FS_Subset
  <2> HIDE DEF stake, stakes
  <2> QED
    BY <2>1, <2>2, FS_Surjection
<1>2. \A s \in stakes : v[s] \in Nat
  <2> TAKE s \in stakes
  <2>1. WingoMultiplier(s.bet, n) \in Nat
    BY DEF WingoMultiplier
  <2>2. s.contract = 1
    OBVIOUS
  <2>3. Pays(s, n) \in Nat
    BY <2>1, <2>2 DEF Pays
  <2> QED
    BY <2>3
<1> HIDE DEF v, stakes
<1>3. \A s \in stakes : v[s] \in Int
  BY <1>2
<1>4. SumFunctionOnSet(v, stakes) \in Nat
  BY <1>1, <1>2, <1>3, SumType
<1> QED
  BY <1>4 DEF Payout, v, stakes

--------------------------------------------------------------------------------
(* Types of the composition                                                 *)

VendorCalls ==
  [kind : {"bet", "result", "rollback"}, tx : Tx, pc : {"create", "debit", "credit", "mark"},
   amount : Nat, id : Nat]
AdminCalls == [kind : {"admin"}, amount : Int, to : Int, id : Nat]
BetRow == [exists : BOOLEAN, isSettled : BOOLEAN, isRolledback : BOOLEAN, winAmount : Nat]

CallsTyped ==
  /\ calls \subseteq VendorCalls \cup AdminCalls
  /\ inoutBet \in [Tx -> BetRow]
  /\ made \in Nat /\ faults \in Nat /\ overlapped \in BOOLEAN

PlacedTyped == placed \in [Rounds -> SUBSET market] /\ market \in Markets

EarnedInv == Earned(rows, waived) /\ Len(rows) <= MaxRows

WalletInv == ClockTyped /\ PlacedTyped /\ CallsTyped /\ EarnedInv

\* The bets made since a row was created only grow.
BetsGrow ==
  \A t \in 0 .. MaxTime :
    SumFunctionOnSet(bets', t .. now') >= SumFunctionOnSet(bets, t .. now)

LEMMA OffTyped == Off \in [on : BOOLEAN, factor : Factors, model : {"LEGACY_DEPOSIT", "BALANCE_SNAPSHOT"}]
  BY WagerAssumption DEF Off, Factors

LEMMA AmountsAreNat == Amounts \subseteq Nat \ {0} /\ LowBalance \in Nat /\ RewardFactor \in Nat
  BY WagerAssumption

LEMMA PlaceBetTyped ==
  ASSUME ClockTyped, PlacedTyped, EarnedInv, NEW r \in Rounds, NEW p \in market, PlaceBet(r, p)
  PROVE  ClockTyped' /\ placed' \in [Rounds -> SUBSET market]
<1>1. ApplyPenalty(r, placed'[r], 1)
      /\ balance' = balance - 1 /\ others' = others - 1 /\ now' = now /\ wager' = wager
      /\ bets' = [bets EXCEPT ![now] = @ + 1]
      /\ placed' = [placed EXCEPT ![r] = @ \cup {p}]
  BY DEF PlaceBet
<1>2. penalty' \in [on : BOOLEAN, factor : Factors, model : {"LEGACY_DEPOSIT", "BALANCE_SNAPSHOT"}]
  BY <1>1, ApplyEarned DEF EarnedInv
<1>3. bets' \in [0 .. MaxTime -> Nat]
  BY <1>1 DEF ClockTyped
<1>4. placed' \in [Rounds -> SUBSET market]
  BY <1>1 DEF PlacedTyped
<1> QED
  BY <1>1, <1>2, <1>3, <1>4 DEF ClockTyped

LEMMA SettleTyped ==
  ASSUME ClockTyped, NEW r \in Rounds, NEW n \in WingoNumbers, SettleRound(r, n)
  PROVE  /\ ClockTyped' /\ balance' >= balance /\ others' - others = balance' - balance
         /\ balance' \in Int /\ others' \in Int
<1> DEFINE won == Payout([bet : placed[r], contract : {1}], n) \div 100
<1>1. placed[r] \subseteq WingoBets /\ balance' = balance + won /\ others' = others + won
      /\ UNCHANGED <<now, bets, penalty, wager>>
  BY DEF SettleRound
<1>2. Payout([bet : placed[r], contract : {1}], n) \in Nat
  BY <1>1, PayoutIsNat
<1>3. won \in Nat
  BY <1>2
<1> HIDE DEF won
<1> QED
  BY <1>1, <1>3 DEF ClockTyped

\* What an account does keeps its types.
LEMMA AccountTyped ==
  ASSUME ClockTyped, PlacedTyped, EarnedInv, AccountWrite
  PROVE  ClockTyped' /\ placed' \in [Rounds -> SUBSET market]
<1> USE AmountsAreNat
<1>1. ASSUME NEW a \in Amounts, Recharge(a) \/ Reward(a) \/ DebitWithdrawal(a)
      PROVE  ClockTyped' /\ placed' = placed
  <2>1. a \in Nat
    OBVIOUS
  <2> QED
    BY <1>1, <2>1, OffTyped DEF Recharge, Reward, DebitWithdrawal, ClockTyped
<1>2. ASSUME NEW r \in Rounds, NEW n \in WingoNumbers, SettleRound(r, n)
      PROVE  ClockTyped' /\ placed' = placed
  BY <1>2, SettleTyped DEF SettleRound
<1>3. ASSUME NEW r \in Rounds, DetectSettled(r) PROVE ClockTyped' /\ placed' = placed
  <2>1. ApplyPenalty(r, placed[r], 0)
    BY <1>3 DEF DetectSettled
  <2>2. penalty' \in [on : BOOLEAN, factor : Factors, model : {"LEGACY_DEPOSIT", "BALANCE_SNAPSHOT"}]
    BY <2>1, ApplyEarned DEF EarnedInv
  <2> QED
    BY <1>3, <2>2 DEF DetectSettled, ClockTyped
<1>4. ASSUME NEW f \in WagerFactors, AdminPenalty(f) PROVE ClockTyped' /\ placed' = placed
  <2>1. f \in Factors
    BY FactorsAreNat
  <2> QED
    BY <1>4, <2>1 DEF AdminPenalty, ClockTyped
<1>5. CASE ReadStatus
  BY <1>5 DEF ReadStatus, ClockTyped, PlacedTyped
<1>6. CASE AdminPenaltyOff
  BY <1>6, OffTyped DEF AdminPenaltyOff, ClockTyped, PlacedTyped
<1>7. CASE AdminClearWager
  BY <1>7, OffTyped DEF AdminClearWager, ClockTyped, PlacedTyped
<1> QED
  BY <1>1, <1>2, <1>3, <1>4, <1>5, <1>6, <1>7, PlaceBetTyped DEF AccountWrite, PlacedTyped

--------------------------------------------------------------------------------
(* What was cleared was earned                                              *)

LEMMA BetAdds ==
  ASSUME ClockTyped, now' = now, bets' = [bets EXCEPT ![now] = @ + 1]
  PROVE  BetsGrow
<1> SUFFICES ASSUME NEW t \in 0 .. MaxTime
             PROVE  SumFunctionOnSet(bets', t .. now') >= SumFunctionOnSet(bets, t .. now)
  BY DEF BetsGrow
<1> DEFINE since == t .. now
<1>1. IsFiniteSet(since) /\ since \subseteq 0 .. MaxTime
  <2>1. t \in Int /\ now \in 0 .. MaxTime /\ MaxTime \in Nat
    BY WagerAssumption DEF ClockTyped
  <2>2. IsFiniteSet(t .. now)
    BY <2>1, FS_Interval
  <2>3. t .. now \subseteq 0 .. MaxTime
    BY <2>1
  <2> QED
    BY <2>2, <2>3
<1>2. \A u \in 0 .. MaxTime : bets[u] \in Int /\ bets'[u] \in Int /\ bets[u] <= bets'[u]
  BY DEF ClockTyped
<1>3. BetsSince(t) \in Nat
  BY BetsSinceIsNat
<1>4. \A u \in since : bets[u] \in Int /\ bets'[u] \in Int /\ bets[u] <= bets'[u]
  BY <1>1, <1>2
<1> HIDE DEF since
<1>5. SumFunctionOnSet(bets, since) <= SumFunctionOnSet(bets', since)
  BY <1>1, <1>4, SumLeq
<1>6. SumFunctionOnSet(bets, since) \in Int /\ SumFunctionOnSet(bets', since) \in Int
  BY <1>1, <1>4, SumType
<1>7. SumFunctionOnSet(bets', since) >= SumFunctionOnSet(bets, since)
  BY <1>5, <1>6
<1> QED
  BY <1>7 DEF since

LEMMA TimeAdds ==
  ASSUME ClockTyped, now < MaxTime, now' = now + 1, bets' = bets
  PROVE  BetsGrow
<1> SUFFICES ASSUME NEW t \in 0 .. MaxTime
             PROVE  SumFunctionOnSet(bets, t .. now + 1) >= SumFunctionOnSet(bets, t .. now)
  BY DEF BetsGrow
<1> DEFINE since == t .. now + 1
           before == t .. now
<1>1. IsFiniteSet(since) /\ since \subseteq 0 .. MaxTime /\ before \subseteq since
  <2>1. t \in Int /\ now \in 0 .. MaxTime /\ MaxTime \in Nat /\ now + 1 \in Int
    BY WagerAssumption DEF ClockTyped
  <2>2. IsFiniteSet(t .. now + 1)
    BY <2>1, FS_Interval
  <2>3. t .. now + 1 \subseteq 0 .. MaxTime /\ t .. now \subseteq t .. now + 1
    BY <2>1
  <2> QED
    BY <2>2, <2>3
<1>2. \A u \in since : bets[u] \in Nat
  BY <1>1 DEF ClockTyped
<1> HIDE DEF since, before
<1>3. SumFunctionOnSet(bets, before) <= SumFunctionOnSet(bets, since)
  BY <1>1, <1>2, SumSubset
<1>4. SumFunctionOnSet(bets, since) \in Int
  <2>1. \A u \in since : bets[u] \in Int
    BY <1>2
  <2> QED
    BY <1>1, <2>1, SumType
<1>5. IsFiniteSet(before) /\ \A u \in before : bets[u] \in Int
  <2>1. IsFiniteSet(before)
    BY <1>1, FS_Subset
  <2> QED
    BY <1>1, <1>2, <2>1
<1>6. SumFunctionOnSet(bets, before) \in Int
  BY <1>5, SumType
<1> QED
  BY <1>3, <1>4, <1>6 DEF since, before

LEMMA SameBets ==
  ASSUME ClockTyped, UNCHANGED <<now, bets>>
  PROVE  BetsGrow
<1> SUFFICES ASSUME NEW t \in 0 .. MaxTime PROVE BetsSince(t) >= BetsSince(t)
  BY DEF BetsGrow, BetsSince
<1> QED
  BY BetsSinceIsNat

LEMMA BetsAreNat == ClockTyped => \A u \in 0 .. MaxTime : BetsSince(u) \in Nat
  BY BetsSinceIsNat

\* What was earned before a step is earned after it, for bets only grow.
LEMMA EarnedLater ==
  ASSUME ClockTyped, ClockTyped', Earned(rows', waived'), Len(rows') <= MaxRows, BetsGrow
  PROVE  EarnedInv'
<1>1. RowsTyped(rows', waived') /\ \A i \in DOMAIN rows' : RowEarned(rows'[i], waived'[i])
  BY DEF Earned
<1>2. ASSUME NEW i \in DOMAIN rows' PROVE RowEarned(rows[i], waived[i])'
  <2> DEFINE t == rows'[i].at
             required == rows'[i].required
  <2>1. t \in 0 .. MaxTime /\ required \in Nat
    <3>1. rows'[i] \in RowType
      BY <1>1 DEF RowsTyped
    <3> QED
      BY <3>1 DEF RowType
  <2>2. SumFunctionOnSet(bets', t .. now') >= SumFunctionOnSet(bets, t .. now)
    BY <2>1 DEF BetsGrow
  <2>3. SumFunctionOnSet(bets, t .. now) \in Nat
    BY <2>1, BetsSinceIsNat DEF BetsSince
  <2>4. (\A u \in 0 .. MaxTime : BetsSince(u) \in Nat)'
    BY BetsAreNat, PTL
  <2>5. SumFunctionOnSet(bets', t .. now') \in Nat
    BY <2>1, <2>4 DEF BetsSince
  <2>6. rows'[i].cleared =>
          (SumFunctionOnSet(bets, t .. now) >= required \/ waived'[i] >= required)
    BY <1>1 DEF RowEarned, BetsSince
  <2>7. rows'[i].cleared =>
          (SumFunctionOnSet(bets', t .. now') >= required \/ waived'[i] >= required)
    <3> HIDE DEF t, required
    <3> QED
      BY <2>1, <2>2, <2>3, <2>5, <2>6
  <2> QED
    BY <2>7 DEF RowEarned, BetsSince
<1>3. RowsTyped(rows, waived)'
  BY <1>1 DEF RowsTyped
<1> QED
  BY <1>2, <1>3 DEF EarnedInv, Earned

\* A withdrawal clears and waives the snapshot of its penalty.
LEMMA DebitEarned ==
  ASSUME ClockTyped, EarnedInv, NEW a, DebitWithdrawal(a)
  PROVE  Earned(rows', waived') /\ Len(rows') <= MaxRows
<1>1. /\ rows' = Cleared(Status, PenaltyRows(Status))
      /\ waived' = Waive(WaivedByStatus, Status, PenaltyRows(Status))
  BY DEF DebitWithdrawal, ClearOpenPenalty
<1>2. Earned(Status, WaivedByStatus) /\ Len(Status) = Len(rows)
  BY StatusEarned DEF EarnedInv
<1> QED
  BY <1>1, <1>2, EarnedWaived DEF EarnedInv

LEMMA PenaltyOffEarned ==
  ASSUME ClockTyped, EarnedInv, AdminPenaltyOff
  PROVE  Earned(rows', waived') /\ Len(rows') <= MaxRows
<1> DEFINE rs == Cleared(rows, PenaltyRows(rows))
           ws == Waive(waived, rows, PenaltyRows(rows))
<1>1. rows' = Synced(rs, wager) /\ waived' = ws
  BY DEF AdminPenaltyOff, ClearOpenPenalty
<1>2. Earned(rs, ws) /\ Len(rs) = Len(rows)
  BY EarnedWaived DEF EarnedInv
<1> HIDE DEF rs, ws
<1>3. wager \in Nat
  BY FactorsAreNat DEF ClockTyped
<1> QED
  BY <1>1, <1>2, <1>3, EarnedSynced DEF EarnedInv

\* clear-wager waives what is no recharge; recharges are met, or waived at a low balance.
LEMMA ClearWagerEarned ==
  ASSUME ClockTyped, EarnedInv, AdminClearWager
  PROVE  Earned(rows', waived') /\ Len(rows') <= MaxRows
<1> DEFINE extra == {i \in OpenRows(Status) : Status[i].kind \in {"REWARD", "PENALTY"}}
           rs == Cleared(Status, extra)
           ws == Waive(WaivedByStatus, Status, extra)
           synced == Synced(rs, wager)
           after == IF Low THEN OpenRows(synced) ELSE MetRows(synced)
<1>1. /\ rows' = Cleared(synced, after)
      /\ waived' = Waive(ws, synced, IF Low THEN after ELSE {})
  BY DEF AdminClearWager
<1>2. Earned(Status, WaivedByStatus) /\ Len(Status) = Len(rows)
  BY StatusEarned DEF EarnedInv
<1>3. Earned(rs, ws) /\ Len(rs) = Len(rows)
  <2> HIDE DEF extra
  <2> QED
    BY <1>2, EarnedWaived
<1> HIDE DEF rs, ws
<1>4. Earned(synced, ws) /\ Len(synced) = Len(rows)
  <2>1. wager \in Nat
    BY FactorsAreNat DEF ClockTyped
  <2> QED
    BY <1>3, <2>1, EarnedSynced
<1> HIDE DEF synced
<1>5. CASE Low
  <2>1. rows' = Cleared(synced, OpenRows(synced)) /\ waived' = Waive(ws, synced, OpenRows(synced))
    BY <1>1, <1>5
  <2> QED
    BY <1>4, <2>1, EarnedWaived DEF EarnedInv
<1>6. CASE ~Low
  <2>1. rows' = Cleared(synced, MetRows(synced)) /\ waived' = Waive(ws, synced, {})
    BY <1>1, <1>6
  <2>2. Waive(ws, synced, {}) = ws
    BY <1>4, WaiveNone DEF Earned
  <2> QED
    BY <1>4, <2>1, <2>2, EarnedMet DEF EarnedInv
<1> QED
  BY <1>5, <1>6

LEMMA SameRows ==
  ASSUME EarnedInv, UNCHANGED <<rows, waived>>
  PROVE  Earned(rows', waived') /\ Len(rows') <= MaxRows
<1>1. rows' = rows /\ waived' = waived
  OBVIOUS
<1> QED
  BY <1>1 DEF EarnedInv

\* Whatever is written to the rows of an account, cleared rows were earned.
LEMMA AccountEarned ==
  ASSUME ClockTyped, PlacedTyped, EarnedInv, AccountWrite
  PROVE  Earned(rows', waived') /\ Len(rows') <= MaxRows
<1> DEFINE Goal == Earned(rows', waived') /\ Len(rows') <= MaxRows
<1>1. ASSUME NEW a \in Amounts, Recharge(a) PROVE Goal
  <2>1. a \in Nat /\ "RECHARGE" \in Kinds
    BY AmountsAreNat DEF Kinds
  <2>2. Len(rows) < MaxRows /\ CreateRow(rows, waived, Row("RECHARGE", a, Live(penalty, wager)))
    BY <1>1 DEF Recharge
  <2> QED
    BY <2>1, <2>2, LiveIsNat, CreateEarned DEF EarnedInv
<1>2. ASSUME NEW a \in Amounts, Reward(a) PROVE Goal
  <2>1. a \in Nat /\ "REWARD" \in Kinds /\ RewardFactor \in Nat
    BY AmountsAreNat DEF Kinds
  <2>2. Len(rows) < MaxRows /\ CreateRow(rows, waived, Row("REWARD", a, RewardFactor))
    BY <1>2 DEF Reward
  <2> QED
    BY <2>1, <2>2, CreateEarned DEF EarnedInv
<1>3. ASSUME NEW a \in Amounts, DebitWithdrawal(a) PROVE Goal
  BY <1>3, DebitEarned
<1>4. ASSUME NEW r \in Rounds, NEW p, PlaceBet(r, p) PROVE Goal
  <2>1. ApplyPenalty(r, placed'[r], 1)
    BY <1>4 DEF PlaceBet
  <2> QED
    BY <2>1, ApplyEarned DEF EarnedInv
<1>5. ASSUME NEW r \in Rounds, NEW n, SettleRound(r, n) PROVE Goal
  BY <1>5, SameRows DEF SettleRound
<1>6. ASSUME NEW r \in Rounds, DetectSettled(r) PROVE Goal
  <2>1. ApplyPenalty(r, placed[r], 0)
    BY <1>6 DEF DetectSettled
  <2> QED
    BY <2>1, ApplyEarned DEF EarnedInv
<1>7. ASSUME NEW f \in WagerFactors, AdminPenalty(f) PROVE Goal
  <2>1. f \in Nat /\ balance \in Int
    BY FactorsAreNat DEF ClockTyped
  <2>2. /\ Len(rows) < MaxRows
        /\ Snapshot(Synced(rows, wager), Waive(waived, rows, PenaltyRows(rows)), balance, f)
    BY <1>7 DEF AdminPenalty
  <2> QED
    BY <2>1, <2>2, PenaltyEarned DEF EarnedInv
<1>8. ASSUME ReadStatus PROVE Goal
  <2>1. rows' = Status /\ waived' = WaivedByStatus
    BY <1>8 DEF ReadStatus
  <2> QED
    BY <2>1, StatusEarned DEF EarnedInv
<1>9. ASSUME AdminPenaltyOff PROVE Goal
  BY <1>9, PenaltyOffEarned
<1>10. ASSUME AdminClearWager PROVE Goal
  BY <1>10, ClearWagerEarned
<1> HIDE DEF Goal
<1>11. Goal
  BY <1>1, <1>2, <1>3, <1>4, <1>5, <1>6, <1>7, <1>8, <1>9, <1>10 DEF AccountWrite
<1> QED
  BY <1>11 DEF Goal

LEMMA AccountBets ==
  ASSUME ClockTyped, AccountWrite
  PROVE  BetsGrow
<1>1. ASSUME NEW r \in Rounds, NEW p, PlaceBet(r, p) PROVE BetsGrow
  BY <1>1, BetAdds DEF PlaceBet
<1>2. \/ \E r \in Rounds, p \in market : PlaceBet(r, p)
      \/ UNCHANGED <<now, bets>>
  BY DEF AccountWrite, Recharge, Reward, DebitWithdrawal, SettleRound, DetectSettled, AdminPenalty,
         ReadStatus, AdminPenaltyOff, AdminClearWager
<1> QED
  BY <1>1, <1>2, SameBets

--------------------------------------------------------------------------------
(* The vendor and the admin's balance update                                *)

\* A call and the row it is about.
LEMMA CallTyped ==
  ASSUME CallsTyped, NEW c \in calls
  PROVE  /\ c.kind # "admin" => c \in VendorCalls
         /\ c.kind = "admin" => c \in AdminCalls
  BY DEF CallsTyped, VendorCalls, AdminCalls

LEMMA BeginTyped ==
  ASSUME WalletInv, NEW call \in VendorCalls \cup AdminCalls, Begin(call)
  PROVE  CallsTyped' /\ UNCHANGED wagerVars
<1>1. CallWeight \in Nat
  BY VendorAssumption
<1> QED
  BY <1>1 DEF WalletInv, CallsTyped, Begin

LEMMA ReadsTyped ==
  ASSUME WalletInv, NEW t \in Tx,
         \/ BetRead(t) \/ RollbackRead(t)
         \/ \E w \in Results : ResultRead(t, w)
  PROVE  CallsTyped' /\ UNCHANGED wagerVars
<1>1. VendorStake \in Nat /\ Results \subseteq Nat /\ made \in Nat
  BY VendorAssumption DEF WalletInv, CallsTyped
<1>2. \A kind \in {"bet", "result", "rollback"}, pc \in {"create", "credit", "mark"}, n \in Nat :
        Call(kind, t, pc, n) \in VendorCalls
  BY <1>1 DEF Call, VendorCalls
<1>3. CASE BetRead(t)
  BY <1>1, <1>2, <1>3, BeginTyped DEF BetRead
<1>4. CASE RollbackRead(t)
  BY <1>1, <1>2, <1>4, BeginTyped DEF RollbackRead
<1>5. ASSUME NEW w \in Results, ResultRead(t, w) PROVE CallsTyped' /\ UNCHANGED wagerVars
  <2>1. \E call \in VendorCalls : Begin(call)
    BY <1>1, <1>2, <1>5 DEF ResultRead
  <2> QED
    BY <2>1, BeginTyped
<1> QED
  BY <1>3, <1>4, <1>5

LEMMA AdminReadTyped ==
  ASSUME WalletInv, NEW a \in Corrections, AdminRead(a)
  PROVE  CallsTyped' /\ UNCHANGED wagerVars
<1>1. a \in Int /\ balance \in Int /\ made \in Nat
  BY VendorAssumption DEF WalletInv, CallsTyped, ClockTyped
<1>2. [kind |-> "admin", amount |-> a, to |-> balance + a, id |-> made] \in AdminCalls
  BY <1>1 DEF AdminCalls
<1> QED
  BY <1>2, BeginTyped DEF AdminRead

\* A call of the vendor takes its next step.
LEMMA MoveTyped ==
  ASSUME CallsTyped, NEW c \in calls, c.kind # "admin", NEW pc \in {"debit", "mark"}, Move(c, pc)
  PROVE  calls' \subseteq VendorCalls \cup AdminCalls
<1>1. c \in VendorCalls
  BY CallTyped
<1>2. [c EXCEPT !.pc = pc] \in VendorCalls
  BY <1>1 DEF VendorCalls
<1> QED
  BY <1>2 DEF Move, CallsTyped

LEMMA OnlyBalanceTyped ==
  ASSUME ClockTyped, NEW amount \in Int, OnlyBalance(amount)
  PROVE  ClockTyped' /\ balance' = balance + amount
  BY DEF OnlyBalance, AccountRest, ClockTyped

LEMMA VendorStepTyped ==
  ASSUME WalletInv, NEW c \in calls, VendorStep(c), ~AdminSet(c)
  PROVE  /\ CallsTyped' /\ ClockTyped'
         /\ UNCHANGED <<now, rows, bets, penalty, wager, placed, over, illegal, waived, penalized, others>>
<1> USE DEF WalletInv
<1> DEFINE Kept == UNCHANGED <<now, rows, bets, penalty, wager, placed, over, illegal, waived,
                               penalized, others>>
<1>1. ASSUME BetCreate(c) PROVE CallsTyped' /\ ClockTyped' /\ Kept
  <2>1. c \in VendorCalls /\ c.tx \in Tx /\ c.kind # "admin"
    BY <1>1, CallTyped DEF BetCreate, VendorCalls
  <2>2. inoutBet' \in [Tx -> BetRow]
    <3>1. [NoBet EXCEPT !.exists = TRUE] \in BetRow
      BY DEF NoBet, BetRow
    <3> QED
      BY <1>1, <2>1, <3>1 DEF BetCreate, CallsTyped
  <2>3. calls' \subseteq VendorCalls \cup AdminCalls
    BY <1>1, <2>1, MoveTyped DEF BetCreate, End, CallsTyped
  <2>4. UNCHANGED wagerVars /\ made' = made /\ faults' = faults /\ overlapped' \in BOOLEAN
    BY <1>1 DEF BetCreate, Writes
  <2> QED
    BY <2>2, <2>3, <2>4 DEF wagerVars, CallsTyped, ClockTyped
<1>2. ASSUME BetDebit(c) PROVE CallsTyped' /\ ClockTyped' /\ Kept
  <2>1. c \in VendorCalls /\ -c.amount \in Int
    BY <1>2, CallTyped DEF BetDebit, VendorCalls
  <2>2. ClockTyped' /\ Kept
    BY <1>2, <2>1, OnlyBalanceTyped DEF BetDebit, OnlyBalance, AccountRest
  <2>3. CallsTyped'
    BY <1>2 DEF BetDebit, End, Writes, CallsTyped
  <2> QED
    BY <2>2, <2>3
<1>3. ASSUME Credit(c) PROVE CallsTyped' /\ ClockTyped' /\ Kept
  <2>1. c.kind # "admin" /\ c \in VendorCalls /\ c.amount \in Int
    BY <1>3, CallTyped DEF Credit, VendorCalls
  <2>2. ClockTyped' /\ Kept
    BY <1>3, <2>1, OnlyBalanceTyped DEF Credit, OnlyBalance, AccountRest
  <2>3. calls' \subseteq VendorCalls \cup AdminCalls
    BY <1>3, <2>1, MoveTyped DEF Credit
  <2>4. inoutBet' = inoutBet /\ made' = made /\ faults' = faults /\ overlapped' \in BOOLEAN
    BY <1>3 DEF Credit, Writes
  <2> QED
    BY <2>2, <2>3, <2>4 DEF CallsTyped
<1>4. ASSUME ResultMark(c) \/ RollbackMark(c) PROVE CallsTyped' /\ ClockTyped' /\ Kept
  <2>1. c \in VendorCalls /\ c.tx \in Tx /\ c.amount \in Nat
    BY <1>4, CallTyped DEF ResultMark, RollbackMark, VendorCalls
  <2>2. UNCHANGED wagerVars /\ made' = made /\ faults' = faults /\ calls' = calls \ {c}
        /\ overlapped' \in BOOLEAN
    BY <1>4 DEF ResultMark, RollbackMark, End, Writes
  <2>3. inoutBet[c.tx] \in BetRow
    BY <2>1 DEF CallsTyped
  <2>4. /\ [inoutBet[c.tx] EXCEPT !.winAmount = c.amount, !.isSettled = TRUE] \in BetRow
        /\ [inoutBet[c.tx] EXCEPT !.winAmount = 0, !.isRolledback = TRUE] \in BetRow
    BY <2>1, <2>3 DEF BetRow
  <2>5. \/ inoutBet' = [inoutBet EXCEPT ![c.tx] = [inoutBet[c.tx] EXCEPT !.winAmount = c.amount, !.isSettled = TRUE]]
        \/ inoutBet' = [inoutBet EXCEPT ![c.tx] = [inoutBet[c.tx] EXCEPT !.winAmount = 0, !.isRolledback = TRUE]]
    BY <1>4 DEF ResultMark, RollbackMark
  <2>6. inoutBet' \in [Tx -> BetRow]
    BY <2>4, <2>5 DEF CallsTyped
  <2> QED
    BY <2>2, <2>6 DEF wagerVars, CallsTyped, ClockTyped
<1>5. ASSUME CallDies(c) PROVE CallsTyped' /\ ClockTyped' /\ Kept
  BY <1>5 DEF CallDies, End, wagerVars, CallsTyped, ClockTyped
<1> QED
  BY <1>1, <1>2, <1>3, <1>4, <1>5 DEF VendorStep

LEMMA AdminSetTyped ==
  ASSUME WalletInv, NEW c \in calls, AdminSet(c)
  PROVE  CallsTyped' /\ ClockTyped' /\ Earned(rows', waived') /\ Len(rows') <= MaxRows
         /\ UNCHANGED <<now, bets, placed>>
<1> USE DEF WalletInv
<1>1. c.amount \in Int /\ c.to \in Int
  BY CallTyped DEF AdminSet, AdminCalls
<1>2. CallsTyped' /\ ClockTyped' /\ UNCHANGED <<now, bets, placed>>
  BY <1>1 DEF AdminSet, End, Writes, CallsTyped, ClockTyped
<1>3. Earned(rows', waived') /\ Len(rows') <= MaxRows
  <2>1. CASE /\ c.amount > 0
             /\ CreateRow(rows, waived, Row("RECHARGE", c.amount, Live(penalty, wager)))
    <3>1. c.amount \in Nat /\ "RECHARGE" \in Kinds
      BY <1>1, <2>1 DEF Kinds
    <3>2. Len(rows) < MaxRows
      BY DEF AdminSet
    <3> QED
      BY <2>1, <3>1, <3>2, LiveIsNat, CreateEarned DEF EarnedInv
  <2>2. CASE UNCHANGED <<rows, waived>>
    BY <2>2, SameRows DEF AdminSet
  <2> QED
    BY <2>1, <2>2 DEF AdminSet
<1> QED
  BY <1>2, <1>3

LEMMA VendorTyped ==
  ASSUME WalletInv, VendorNext
  PROVE  CallsTyped' /\ ClockTyped' /\ Earned(rows', waived') /\ Len(rows') <= MaxRows
         /\ UNCHANGED <<now, bets, placed>>
<1> DEFINE Goal == CallsTyped' /\ ClockTyped' /\ Earned(rows', waived') /\ Len(rows') <= MaxRows
                   /\ UNCHANGED <<now, bets, placed>>
<1>1. ASSUME CallsTyped', UNCHANGED wagerVars PROVE Goal
  BY <1>1, SameRows DEF WalletInv, wagerVars, ClockTyped
<1>2. ASSUME NEW c \in calls, VendorStep(c) PROVE Goal
  <2>1. CASE AdminSet(c)
    BY <2>1, AdminSetTyped
  <2>2. CASE ~AdminSet(c)
    BY <1>2, <2>2, VendorStepTyped, SameRows DEF WalletInv
  <2> QED
    BY <2>1, <2>2
<1> HIDE DEF Goal
<1>3. Goal
  BY <1>1, <1>2, ReadsTyped, AdminReadTyped DEF VendorNext
<1> QED
  BY <1>3 DEF Goal

--------------------------------------------------------------------------------

LEMMA WalletStarts == Init => WalletInv
<1> SUFFICES ASSUME Init PROVE WalletInv
  OBVIOUS
<1>1. ClockTyped
  <2>1. [on |-> TRUE, factor |-> PenaltyBase, model |-> "LEGACY_DEPOSIT"]
          \in [on : BOOLEAN, factor : Factors, model : {"LEGACY_DEPOSIT", "BALANCE_SNAPSHOT"}]
    BY DEF Factors
  <2>2. /\ now = 0 /\ balance = InitBalance /\ others = 0 /\ wager \in WagerFactors
        /\ bets = [t \in 0 .. MaxTime |-> 0]
        /\ penalty \in {Off, [on |-> TRUE, factor |-> PenaltyBase, model |-> "LEGACY_DEPOSIT"]}
    BY DEF Init, WagerInit
  <2>3. MaxTime \in Nat /\ InitBalance \in Nat
    BY WagerAssumption
  <2>4. now \in 0 .. MaxTime /\ bets \in [0 .. MaxTime -> Nat]
    BY <2>2, <2>3
  <2>5. penalty \in [on : BOOLEAN, factor : Factors, model : {"LEGACY_DEPOSIT", "BALANCE_SNAPSHOT"}]
    BY <2>1, <2>2, OffTyped
  <2> QED
    BY <2>2, <2>3, <2>4, <2>5 DEF ClockTyped
<1>2. PlacedTyped
  BY SpentAssumption DEF Init, WagerInit, PlacedTyped
<1>3. CallsTyped
  <2>1. NoBet \in BetRow
    BY DEF NoBet, BetRow
  <2>2. made \in Nat
    BY SpentAssumption, VendorAssumption DEF Init
  <2> QED
    BY <2>1, <2>2 DEF Init, VendorInit, CallsTyped
<1>4. EarnedInv
  <2>1. rows = <<>> /\ waived = <<>>
    BY DEF Init, WagerInit
  <2>2. <<>> \in Seq(RowType) /\ <<>> \in Seq(Nat) /\ Len(<<>>) = 0 /\ DOMAIN <<>> = {}
    OBVIOUS
  <2> QED
    BY <2>1, <2>2, WagerAssumption DEF EarnedInv, Earned, RowsTyped
<1> QED
  BY <1>1, <1>2, <1>3, <1>4 DEF WalletInv

LEMMA WalletStep == WalletInv /\ [Next]_walletVars => WalletInv'
<1> SUFFICES ASSUME WalletInv, [Next]_walletVars PROVE WalletInv'
  OBVIOUS
<1> USE DEF WalletInv
<1>1. ASSUME ClockTyped', placed' \in [Rounds -> SUBSET market], market' = market
      PROVE  PlacedTyped'
  BY <1>1 DEF PlacedTyped
<1>2. CASE AccountStep /\ market' = market
  <2>1. AccountWrite /\ CallsTyped'
    BY <1>2 DEF AccountStep, CallsTyped
  <2>2. ClockTyped' /\ placed' \in [Rounds -> SUBSET market]
    BY <2>1, AccountTyped
  <2>3. EarnedInv'
    BY <2>1, <2>2, AccountEarned, AccountBets, EarnedLater
  <2> QED
    BY <1>1, <1>2, <2>1, <2>2, <2>3
<1>3. CASE World /\ market' = market
  <2>1. CallsTyped' /\ UNCHANGED <<rows, waived, placed>>
    BY <1>3 DEF World, WagerTick, ConfigWager, vendorVars, CallsTyped
  <2>2. ClockTyped' /\ BetsGrow
    <3>1. CASE WagerTick
      BY <3>1, TimeAdds, WagerAssumption DEF WagerTick, ClockTyped
    <3>2. ASSUME NEW f \in WagerFactors, ConfigWager(f) PROVE ClockTyped' /\ BetsGrow
      BY <3>2, SameBets DEF ConfigWager, ClockTyped
    <3> QED
      BY <1>3, <3>1, <3>2 DEF World
  <2>3. EarnedInv'
    BY <2>1, <2>2, SameRows, EarnedLater
  <2> QED
    BY <1>1, <1>3, <2>1, <2>2, <2>3 DEF PlacedTyped
<1>4. CASE VendorNext /\ market' = market
  <2>1. CallsTyped' /\ ClockTyped' /\ Earned(rows', waived') /\ Len(rows') <= MaxRows
        /\ UNCHANGED <<now, bets, placed>>
    BY <1>4, VendorTyped
  <2>2. EarnedInv'
    BY <2>1, SameBets, EarnedLater
  <2> QED
    BY <1>1, <1>4, <2>1, <2>2 DEF PlacedTyped
<1>5. CASE UNCHANGED walletVars
  <2>1. ClockTyped' /\ CallsTyped' /\ PlacedTyped'
    BY <1>5 DEF walletVars, vars, wagerVars, vendorVars, ClockTyped, CallsTyped, PlacedTyped
  <2>2. EarnedInv'
    BY <1>5, <2>1, SameRows, SameBets, EarnedLater DEF walletVars, vars, wagerVars
  <2> QED
    BY <2>1, <2>2
<1> QED
  BY <1>2, <1>3, <1>4, <1>5 DEF Next

\* At the factor that is live, what a row requires.
LEMMA SyncedRequires ==
  ASSUME ClockTyped, Earned(rows, waived), NEW i \in DOMAIN rows
  PROVE  /\ Synced(rows, Live(penalty, wager))[i].required = LiveRequired(i)
         /\ Synced(rows, Live(penalty, wager))[i].at = rows[i].at
         /\ Synced(rows, Live(penalty, wager))[i].kind = rows[i].kind
         /\ LiveRequired(i) \in Nat /\ rows[i].at \in 0 .. MaxTime
<1> DEFINE live == Live(penalty, wager)
           req == rows[i].amount * live
<1>1. rows[i] \in RowType
  BY DEF Earned, RowsTyped
<1>2. live \in Nat
  BY LiveIsNat
<1>3. req \in Nat
  <2> HIDE DEF live
  <2>1. rows[i].amount \in Nat
    BY <1>1 DEF RowType
  <2> QED
    BY <1>2, <2>1
<1>4. Synced(rows, live)[i] =
        IF rows[i].kind = "RECHARGE"
        THEN [rows[i] EXCEPT !.required = req, !.cleared = @ /\ req <= rows[i].required]
        ELSE rows[i]
  BY DEF Synced
<1>5. LiveRequired(i) = IF rows[i].kind = "RECHARGE" THEN req ELSE rows[i].required
  BY DEF LiveRequired
<1> HIDE DEF req, live
<1>6. /\ Synced(rows, live)[i].required = IF rows[i].kind = "RECHARGE" THEN req ELSE rows[i].required
      /\ Synced(rows, live)[i].at = rows[i].at /\ Synced(rows, live)[i].kind = rows[i].kind
  BY <1>1, <1>4 DEF RowType
<1> QED
  BY <1>1, <1>3, <1>5, <1>6 DEF RowType, live

\* What a withdrawal that is not frozen knows of every requirement.
LEMMA DebitNeedsEarned ==
  ASSUME WalletInv, PenaltyInv, NEW a, DebitWithdrawal(a), ~Low, NEW i \in DOMAIN rows
  PROVE  BetsSince(rows[i].at) >= LiveRequired(i) \/ waived[i] >= LiveRequired(i)
<1> DEFINE live == Live(penalty, wager)
           synced == Synced(rows, live)
<1>1. ClockTyped /\ Earned(rows, waived)
  BY DEF WalletInv, EarnedInv
<1>2. Needed(synced, penalty) = {}
  BY DEF DebitWithdrawal, IsWithdrawalFrozen
<1>3. Earned(synced, waived) /\ synced \in Seq(RowType) /\ i \in DOMAIN synced
  <2>1. live \in Nat
    BY <1>1, LiveIsNat
  <2>2. Earned(synced, waived) /\ Len(synced) = Len(rows)
    BY <1>1, <2>1, EarnedSynced
  <2>3. rows \in Seq(RowType) /\ synced \in Seq(RowType)
    BY <1>1, <2>2 DEF Earned, RowsTyped
  <2> HIDE DEF synced
  <2> QED
    BY <2>2, <2>3
<1>4. /\ synced[i].required = LiveRequired(i) /\ synced[i].at = rows[i].at
      /\ synced[i].kind = rows[i].kind /\ LiveRequired(i) \in Nat
  BY <1>1, SyncedRequires
<1>5. PenaltyRows(synced) = PenaltyRows(rows)
  BY SyncedRows DEF PenaltyInv
<1> HIDE DEF synced
<1>6. CASE synced[i].cleared
  <2>1. RowEarned(synced[i], waived[i])
    BY <1>3 DEF Earned
  <2> QED
    BY <1>4, <1>6, <2>1 DEF RowEarned
<1>7. CASE ~synced[i].cleared
  <2>1. i \in OpenRows(synced)
    BY <1>3, <1>7 DEF OpenRows
  <2>2. synced[i].kind = "PENALTY" => penalty.model = "BALANCE_SNAPSHOT"
    BY <1>5, <2>1 DEF PenaltyRows, PenaltyInv, SnapshotInv
  <2>3. i \in MetRows(synced)
    BY <1>2, <2>1, <2>2 DEF Needed
  <2>4. BetsSince(synced[i].at) >= synced[i].required
    BY <1>1, <1>3, <2>3, MetIsEarned
  <2> QED
    BY <1>4, <2>4
<1> QED
  BY <1>6, <1>7

\* Whatever reads, penalties, factors and admins have done to the flags before, a
\* withdrawal of an account that is not almost empty finds every requirement met by
\* bets, or waived to its height (debitWithdrawal, summarizeRequirements,
\* syncRechargeWagerToLiveFactor).
THEOREM WithdrawalsEarned == Spec => WithdrawalEarned
<1>1. Spec => []WalletInv
  BY WalletStarts, WalletStep, PTL DEF Spec
<1>2. Spec => []PenaltyInv
  BY PenaltyStarts, PenaltyStep, PTL DEF Spec
<1>3. WalletInv /\ PenaltyInv =>
        [(\E a \in Amounts : DebitWithdrawal(a)) =>
           (balance <= LowBalance \/
            \A i \in DOMAIN rows : \/ BetsSince(rows[i].at) >= LiveRequired(i)
                                   \/ waived[i] >= LiveRequired(i))]_walletVars
  BY DebitNeedsEarned DEF Low
<1> QED
  BY <1>1, <1>2, <1>3, PTL DEF WithdrawalEarned

--------------------------------------------------------------------------------
(* The vendor's books                                                       *)

\* The rows of the vendor: nothing is won before it is settled, and a result or a
\* rollback is about a row there is.
RowsInv ==
  /\ \A t \in Tx : ~inoutBet[t].exists => inoutBet[t] = NoBet
  /\ \A t \in Tx : ~inoutBet[t].isSettled => inoutBet[t].winAmount = 0
  /\ \A c \in calls : c.kind \in {"result", "rollback"} => inoutBet[c.tx].exists

\* What a call has read still holds.
StillAsRead(c) ==
  CASE c.kind = "bet" -> c.pc \in {"create", "debit"} /\ c.amount = VendorStake /\ balance >= VendorStake
    [] c.kind = "result" -> c.pc \in {"credit", "mark"} /\ ~inoutBet[c.tx].isSettled
    [] c.kind = "rollback" -> c.pc \in {"credit", "mark"} /\ c.amount = VendorStake
                                /\ ~inoutBet[c.tx].isRolledback
    [] OTHER -> c.to = balance + c.amount /\ c.to >= 0

\* Nobody has written while a call was in flight: what it read still holds.
ReadInv == ~overlapped => balance >= 0 /\ \A c \in calls : StillAsRead(c)

\* The books are claimed of accounts where this is so.
Clean == ~overlapped /\ faults = 0 /\ \A t \in Tx : ~(inoutBet[t].isSettled /\ inoutBet[t].isRolledback)

\* What a call still has to write to one of the balance and the row.
Pending(c) == IF c.kind # "admin" /\ c.pc \in {"debit", "mark"} THEN c.amount ELSE 0

Books == InitBalance + others + VendorTotal

\* The one call in flight is what the balance and the rows differ by.
BooksInv ==
  Clean => /\ calls = {} => balance = Books
           /\ \A c \in calls : calls = {c} => balance = Books + Pending(c)

BookInv == RowsInv /\ ReadInv /\ BooksInv

LEMMA RowEffectIsInt ==
  ASSUME NEW row \in BetRow
  PROVE  RowEffect(row) \in Int
<1>1. VendorStake \in Int /\ row.winAmount \in Int
  BY VendorAssumption DEF BetRow
<1> QED
  BY <1>1 DEF RowEffect

LEMMA TotalIsInt == CallsTyped => VendorTotal \in Int
<1> SUFFICES ASSUME CallsTyped PROVE VendorTotal \in Int
  OBVIOUS
<1> DEFINE v == [t \in Tx |-> RowEffect(inoutBet[t])]
<1>1. \A t \in Tx : v[t] \in Int
  BY RowEffectIsInt DEF CallsTyped
<1>2. IsFiniteSet(Tx)
  BY VendorAssumption
<1> HIDE DEF v
<1>3. SumFunctionOnSet(v, Tx) \in Int
  BY <1>1, <1>2, SumType
<1> QED
  BY <1>3 DEF VendorTotal, v

\* One row changes: the total changes by what that row changes.
LEMMA TotalChanges ==
  ASSUME CallsTyped, NEW t \in Tx, NEW row \in BetRow, inoutBet' = [inoutBet EXCEPT ![t] = row]
  PROVE  VendorTotal' = VendorTotal + RowEffect(row) - RowEffect(inoutBet[t])
<1> DEFINE v == [u \in Tx |-> RowEffect(inoutBet[u])]
           w == [u \in Tx |-> RowEffect(inoutBet'[u])]
<1>1. \A u \in Tx : inoutBet[u] \in BetRow /\ inoutBet'[u] \in BetRow
  BY DEF CallsTyped
<1>2. inoutBet'[t] = row /\ \A u \in Tx \ {t} : inoutBet'[u] = inoutBet[u]
  BY DEF CallsTyped
<1>3. \A u \in Tx : v[u] \in Int /\ w[u] \in Int
  BY <1>1, RowEffectIsInt
<1>4. \A u \in Tx \ {t} : w[u] = v[u]
  BY <1>2
<1>5. w[t] = RowEffect(row) /\ v[t] = RowEffect(inoutBet[t])
  BY <1>2
<1>6. IsFiniteSet(Tx)
  BY VendorAssumption
<1>7. VendorTotal' = SumFunctionOnSet(w, Tx) /\ VendorTotal = SumFunctionOnSet(v, Tx)
  BY DEF VendorTotal, RowEffect
<1> HIDE DEF v, w
<1>8. SumFunctionOnSet(w, Tx) = SumFunctionOnSet(v, Tx) + w[t] - v[t]
  BY <1>3, <1>4, <1>6, SumChange
<1> QED
  BY <1>5, <1>7, <1>8

\* A step that leaves the vendor's rows alone leaves the total.
LEMMA TotalStays == UNCHANGED inoutBet => VendorTotal' = VendorTotal
  BY DEF VendorTotal, RowEffect

\* The end of a call, and its next step, when it is the only one.
LEMMA OnlyCall ==
  ASSUME NEW c \in calls, Writes(c), ~overlapped'
  PROVE  /\ ~overlapped /\ calls = {c}
         /\ End(c) => calls' = {}
         /\ \A pc : Move(c, pc) => calls' = {[c EXCEPT !.pc = pc]}
  BY DEF Writes, End, Move

\* What the account does beside the vendor adds as much to the balance as to others.
LEMMA AccountBooks ==
  ASSUME ClockTyped, AccountWrite
  PROVE  /\ balance' = others' + (balance - others)
         /\ balance >= 0 => balance' >= 0
<1>1. balance \in Int /\ others \in Int /\ Amounts \subseteq Nat
  BY AmountsAreNat DEF ClockTyped
<1>2. ASSUME NEW a \in Amounts, Recharge(a) \/ Reward(a) \/ DebitWithdrawal(a)
      PROVE  balance' = others' + (balance - others) /\ (balance >= 0 => balance' >= 0)
  <2>1. a \in Nat
    BY <1>1
  <2> QED
    BY <1>1, <1>2, <2>1 DEF Recharge, Reward, DebitWithdrawal
<1>3. ASSUME NEW r \in Rounds, NEW p, PlaceBet(r, p)
      PROVE  balance' = others' + (balance - others) /\ (balance >= 0 => balance' >= 0)
  BY <1>1, <1>3 DEF PlaceBet
<1>4. ASSUME NEW r \in Rounds, NEW n \in WingoNumbers, SettleRound(r, n)
      PROVE  balance' = others' + (balance - others) /\ (balance >= 0 => balance' >= 0)
  BY <1>1, <1>4, SettleTyped
<1>5. ASSUME UNCHANGED <<balance, others>>
      PROVE  balance' = others' + (balance - others) /\ (balance >= 0 => balance' >= 0)
  BY <1>1, <1>5
<1> QED
  BY <1>2, <1>3, <1>4, <1>5
  DEF AccountWrite, DetectSettled, AdminPenalty, ReadStatus, AdminPenaltyOff, AdminClearWager

LEMMA BookAccount ==
  ASSUME WalletInv, BookInv, AccountStep
  PROVE  BookInv'
<1>1. /\ UNCHANGED <<inoutBet, calls, faults>> /\ overlapped' = (overlapped \/ calls # {})
      /\ balance' = others' + (balance - others) /\ (balance >= 0 => balance' >= 0)
  BY AccountBooks DEF AccountStep, WalletInv
<1>2. RowsInv'
  BY <1>1 DEF BookInv, RowsInv
<1>3. CASE overlapped'
  BY <1>2, <1>3 DEF BookInv, ReadInv, BooksInv, Clean
<1>4. CASE ~overlapped'
  <2>1. ~overlapped /\ calls = {} /\ calls' = {}
    BY <1>1, <1>4
  <2>2. ReadInv'
    BY <1>1, <2>1 DEF BookInv, ReadInv
  <2>3. ASSUME Clean' PROVE balance' = Books'
    <3>1. Clean
      BY <1>1, <2>1, <2>3 DEF Clean
    <3>2. balance = Books
      BY <2>1, <3>1 DEF BookInv, BooksInv
    <3>3. VendorTotal' = VendorTotal
      BY <1>1, TotalStays
    <3>4. VendorTotal \in Int /\ balance \in Int /\ others \in Int /\ InitBalance \in Int
          /\ balance' \in Int /\ others' \in Int
      <4>1. AccountWrite
        BY DEF AccountStep
      <4>2. ClockTyped'
        BY <4>1, AccountTyped DEF WalletInv
      <4>3. balance' \in Int /\ others' \in Int
        BY <4>2 DEF ClockTyped
      <4>4. InitBalance \in Int
        BY WagerAssumption
      <4>5. VendorTotal \in Int
        BY TotalIsInt DEF WalletInv
      <4>6. balance \in Int /\ others \in Int
        BY DEF WalletInv, ClockTyped
      <4> QED
        BY <4>3, <4>4, <4>5, <4>6
    <3>5. balance = InitBalance + others + VendorTotal
      BY <3>2 DEF Books
    <3>6. Books' = InitBalance + others' + VendorTotal
      BY <3>3 DEF Books
    <3>7. balance' = others' + (balance - others)
      BY <1>1
    <3>8. balance' = InitBalance + others' + VendorTotal
      BY <3>4, <3>5, <3>7
    <3> QED
      BY <3>6, <3>8
  <2>4. BooksInv'
    BY <2>1, <2>3 DEF BooksInv
  <2> QED
    BY <1>2, <2>2, <2>4 DEF BookInv
<1> QED
  BY <1>3, <1>4

\* The clock and the configuration.
LEMMA BookSame ==
  ASSUME BookInv, UNCHANGED <<balance, others, vendorVars>>
  PROVE  BookInv'
<1>1. UNCHANGED <<balance, others, inoutBet, calls, faults, overlapped>>
  BY DEF vendorVars
<1>2. VendorTotal' = VendorTotal
  BY <1>1, TotalStays
<1>3. RowsInv' /\ ReadInv'
  BY <1>1 DEF BookInv, RowsInv, ReadInv, StillAsRead
<1>4. Books' = Books /\ Clean' = Clean /\ \A c : Pending(c)' = Pending(c)
  BY <1>1, <1>2 DEF Books, Clean, Pending
<1>5. BooksInv'
  BY <1>1, <1>4 DEF BookInv, BooksInv, Pending
<1> QED
  BY <1>3, <1>5 DEF BookInv

\* A call that begins has read what holds, and has nothing written yet.
LEMMA BookBegin ==
  ASSUME BookInv, NEW call, Begin(call),
         ~overlapped /\ balance >= 0 => StillAsRead(call), Pending(call) = 0,
         call.kind \in {"result", "rollback"} => inoutBet[call.tx].exists,
         WalletInv
  PROVE  BookInv'
<1>1. calls' = calls \cup {call} /\ UNCHANGED <<balance, others, inoutBet, faults, overlapped>>
  BY DEF Begin, wagerVars
<1>2. RowsInv'
  BY <1>1 DEF BookInv, RowsInv
<1>3. ReadInv'
  BY <1>1 DEF BookInv, ReadInv, StillAsRead
<1>4. Books' = Books /\ Clean' = Clean
  BY <1>1, TotalStays DEF Books, Clean
<1>5. ASSUME Clean', NEW c \in calls', calls' = {c} PROVE balance' = Books' + Pending(c)
  <2>1. c = call /\ calls \subseteq {call}
    BY <1>1, <1>5
  <2>2. balance = Books
    <3>1. Books \in Int
      BY TotalIsInt, WagerAssumption DEF WalletInv, ClockTyped, Books
    <3>2. CASE calls = {}
      BY <1>4, <1>5, <3>2 DEF BookInv, BooksInv
    <3>3. CASE calls = {call}
      BY <1>4, <1>5, <3>1, <3>3 DEF BookInv, BooksInv
    <3> QED
      BY <2>1, <3>2, <3>3
  <2>3. balance \in Int
    BY DEF WalletInv, ClockTyped
  <2> QED
    BY <1>1, <1>4, <2>1, <2>2, <2>3
<1>6. BooksInv'
  BY <1>1, <1>5 DEF BooksInv, Pending
<1> QED
  BY <1>2, <1>3, <1>6 DEF BookInv

LEMMA BookReads ==
  ASSUME WalletInv, BookInv,
         \/ \E t \in Tx : BetRead(t) \/ RollbackRead(t)
         \/ \E t \in Tx, w \in Results : ResultRead(t, w)
         \/ \E a \in Corrections : AdminRead(a)
  PROVE  BookInv'
<1>1. ASSUME NEW t \in Tx, BetRead(t) PROVE BookInv'
  BY <1>1, BookBegin DEF BetRead, Affordable, Call, StillAsRead, Pending
<1>2. ASSUME NEW t \in Tx, RollbackRead(t) PROVE BookInv'
  BY <1>2, BookBegin DEF RollbackRead, Call, StillAsRead, Pending
<1>3. ASSUME NEW t \in Tx, NEW w \in Results, ResultRead(t, w) PROVE BookInv'
  <2>1. ResultWanted(t)
    BY <1>3 DEF ResultRead
  <2>2. CASE w >= VendorStake
    <3>1. Begin(Call("result", t, "credit", w))
      BY <1>3, <2>2 DEF ResultRead
    <3> QED
      BY <2>1, <3>1, BookBegin DEF ResultWanted, Call, StillAsRead, Pending
  <2>3. CASE ~(w >= VendorStake)
    <3>1. Begin(Call("result", t, "mark", 0))
      BY <1>3, <2>3 DEF ResultRead
    <3> QED
      BY <2>1, <3>1, BookBegin DEF ResultWanted, Call, StillAsRead, Pending
  <2> QED
    BY <2>2, <2>3
<1>4. ASSUME NEW a \in Corrections, AdminRead(a) PROVE BookInv'
  <2>1. balance + a >= 0 /\ Begin([kind |-> "admin", amount |-> a, to |-> balance + a, id |-> made])
    BY <1>4 DEF AdminRead
  <2> QED
    BY <2>1, BookBegin DEF StillAsRead, Pending
<1> QED
  BY <1>1, <1>2, <1>3, <1>4

--------------------------------------------------------------------------------
(* The writes of a call                                                     *)

\* A write while another call is in flight: nothing is claimed any more.
LEMMA BookOverlap ==
  ASSUME overlapped', RowsInv'
  PROVE  BookInv'
  BY DEF BookInv, ReadInv, BooksInv, Clean

\* The only call in flight, with what it read and what the books say of it.
LEMMA BookOnly ==
  ASSUME WalletInv, BookInv, NEW c \in calls, Writes(c), ~overlapped'
  PROVE  /\ ~overlapped /\ calls = {c} /\ balance >= 0 /\ StillAsRead(c)
         /\ Clean => balance = Books + Pending(c)
         /\ balance \in Int /\ others \in Int /\ InitBalance \in Int /\ VendorTotal \in Int
<1>1. ~overlapped /\ calls = {c}
  BY OnlyCall
<1>2. balance >= 0 /\ StillAsRead(c)
  BY <1>1 DEF BookInv, ReadInv
<1>3. Clean => balance = Books + Pending(c)
  BY <1>1 DEF BookInv, BooksInv
<1>4. balance \in Int /\ others \in Int
  BY DEF WalletInv, ClockTyped
<1>5. InitBalance \in Int
  BY WagerAssumption
<1>6. VendorTotal \in Int
  BY TotalIsInt DEF WalletInv
<1> QED
  BY <1>1, <1>2, <1>3, <1>4, <1>5, <1>6

\* What is to be shown when the only call ends with its write ...
LEMMA BookEnds ==
  ASSUME RowsInv', ~overlapped', calls' = {}, balance' >= 0, Clean' => balance' = Books'
  PROVE  BookInv'
<1>1. ReadInv'
  BY DEF ReadInv
<1>2. BooksInv'
  BY DEF BooksInv
<1> QED
  BY <1>1, <1>2 DEF BookInv

\* ... and when it has another one to do.
LEMMA BookMoves ==
  ASSUME RowsInv', NEW d, calls' = {d}, balance' >= 0, StillAsRead(d)',
         Clean' => balance' = Books' + Pending(d)
  PROVE  BookInv'
<1>1. ReadInv'
  <2>1. \A x \in calls' : x = d
    OBVIOUS
  <2> QED
    BY <2>1 DEF ReadInv, StillAsRead
<1>2. BooksInv'
  <2>1. \A x \in calls' : x = d
    OBVIOUS
  <2>2. calls' # {}
    OBVIOUS
  <2> QED
    BY <2>1, <2>2 DEF BooksInv, Pending
<1> QED
  BY <1>1, <1>2 DEF BookInv

LEMMA BookBetCreate ==
  ASSUME WalletInv, BookInv, NEW c \in calls, BetCreate(c)
  PROVE  BookInv'
<1> DEFINE row == [NoBet EXCEPT !.exists = TRUE]
<1>1. c.kind = "bet" /\ c.pc = "create" /\ Writes(c) /\ UNCHANGED wagerVars /\ faults' = faults
  BY DEF BetCreate
<1>2. c \in VendorCalls /\ c.tx \in Tx
  BY <1>1, CallTyped DEF WalletInv, VendorCalls
<1>3. row.exists /\ ~row.isSettled /\ ~row.isRolledback /\ row.winAmount = 0
  BY DEF NoBet
<1>4. row \in BetRow
  BY DEF NoBet, BetRow
<1>5. UNCHANGED <<balance, others>>
  BY <1>1 DEF wagerVars
<1>6. CASE inoutBet[c.tx].exists
  <2>1. inoutBet' = inoutBet /\ End(c)
    BY <1>6 DEF BetCreate
  <2>2. RowsInv'
    BY <2>1 DEF End, BookInv, RowsInv
  <2>3. CASE overlapped'
    BY <2>2, <2>3, BookOverlap
  <2>4. CASE ~overlapped'
    <3>1. /\ ~overlapped /\ balance >= 0 /\ calls' = {} /\ VendorTotal' = VendorTotal
          /\ Clean => balance = Books + Pending(c)
          /\ balance \in Int /\ others \in Int /\ InitBalance \in Int /\ VendorTotal \in Int
      BY <1>1, <2>1, <2>4, OnlyCall, BookOnly, TotalStays
    <3>2. Pending(c) = 0
      BY <1>1 DEF Pending
    <3>3. Books' = Books /\ Books \in Int
      BY <1>5, <3>1 DEF Books
    <3>4. Clean' => Clean
      BY <1>1, <2>1, <3>1 DEF Clean
    <3>5. Clean' => balance' = Books'
      BY <1>5, <3>1, <3>2, <3>3, <3>4
    <3> QED
      BY <1>5, <2>2, <2>4, <3>1, <3>5, BookEnds
  <2> QED
    BY <2>3, <2>4
<1>7. CASE ~inoutBet[c.tx].exists
  <2> DEFINE d == [c EXCEPT !.pc = "debit"]
  <2>1. inoutBet' = [inoutBet EXCEPT ![c.tx] = row] /\ Move(c, "debit")
    BY <1>7 DEF BetCreate
  <2>2. inoutBet[c.tx] = NoBet
    BY <1>2, <1>7 DEF BookInv, RowsInv
  <2>3. inoutBet'[c.tx] = row /\ \A t \in Tx \ {c.tx} : inoutBet'[t] = inoutBet[t]
    BY <1>2, <2>1 DEF WalletInv, CallsTyped
  <2>4. d \in VendorCalls /\ d.kind = "bet" /\ d.pc = "debit" /\ d.amount = c.amount
    BY <1>1, <1>2 DEF VendorCalls
  <2>5. calls' = (calls \ {c}) \cup {d}
    BY <2>1 DEF Move
  <2> HIDE DEF row, d
  <2>6. RowsInv'
    <3>1. \A t \in Tx : /\ ~inoutBet'[t].exists => inoutBet'[t] = NoBet
                        /\ ~inoutBet'[t].isSettled => inoutBet'[t].winAmount = 0
      BY <1>3, <2>3 DEF BookInv, RowsInv
    <3>2. ASSUME NEW x \in calls', x.kind \in {"result", "rollback"} PROVE inoutBet'[x.tx].exists
      <4>1. x \in calls
        BY <2>4, <2>5, <3>2
      <4>2. x.tx \in Tx
        BY <3>2, <4>1, CallTyped DEF WalletInv, VendorCalls
      <4> QED
        BY <1>7, <2>3, <3>2, <4>1, <4>2 DEF BookInv, RowsInv
    <3> QED
      BY <3>1, <3>2 DEF RowsInv
  <2>7. CASE overlapped'
    BY <2>6, <2>7, BookOverlap
  <2>8. CASE ~overlapped'
    <3>1. /\ ~overlapped /\ calls = {c} /\ balance >= 0 /\ StillAsRead(c)
          /\ Clean => balance = Books + Pending(c)
          /\ balance \in Int /\ others \in Int /\ InitBalance \in Int /\ VendorTotal \in Int
      BY <1>1, <2>8, BookOnly
    <3>2. calls' = {d}
      BY <2>5, <3>1
    <3>3. Pending(c) = 0 /\ Pending(d) = c.amount /\ c.amount = VendorStake /\ balance >= VendorStake
      BY <1>1, <2>4, <3>1 DEF Pending, StillAsRead
    <3>4. StillAsRead(d)'
      BY <1>5, <2>4, <3>3 DEF StillAsRead
    <3>5. VendorTotal' = VendorTotal + RowEffect(row) - RowEffect(inoutBet[c.tx])
      BY <1>2, <1>4, <2>1, TotalChanges DEF WalletInv
    <3>6. RowEffect(row) = -VendorStake /\ RowEffect(inoutBet[c.tx]) = 0 /\ VendorStake \in Nat
      <4>1. VendorStake \in Nat
        BY VendorAssumption
      <4>2. RowEffect(row) = -VendorStake
        BY <1>3, <4>1 DEF RowEffect
      <4>3. RowEffect(inoutBet[c.tx]) = 0
        BY <2>2 DEF RowEffect, NoBet
      <4> QED
        BY <4>1, <4>2, <4>3
    <3>7. Clean' => Clean
      <4>1. \A t \in Tx : inoutBet[t].isSettled => inoutBet'[t].isSettled
        BY <2>2, <2>3 DEF NoBet
      <4>2. \A t \in Tx : inoutBet[t].isRolledback => inoutBet'[t].isRolledback
        BY <2>2, <2>3 DEF NoBet
      <4> QED
        BY <1>1, <3>1, <4>1, <4>2 DEF Clean
    <3>8. Clean' => balance' = Books' + Pending(d)
      <4>1. VendorTotal' = VendorTotal - VendorStake
        BY <3>1, <3>5, <3>6
      <4>2. Books' = InitBalance + others + (VendorTotal - VendorStake)
        BY <1>5, <4>1 DEF Books
      <4>3. Clean => balance = InitBalance + others + VendorTotal
        BY <3>1, <3>3 DEF Books
      <4>4. Books' + Pending(d) = InitBalance + others + VendorTotal
        BY <3>1, <3>3, <3>6, <4>2
      <4> QED
        BY <1>5, <3>7, <4>3, <4>4
    <3> QED
      BY <1>5, <2>6, <3>1, <3>2, <3>4, <3>8, BookMoves
  <2> QED
    BY <2>7, <2>8
<1> QED
  BY <1>6, <1>7

LEMMA BookBetDebit ==
  ASSUME WalletInv, BookInv, NEW c \in calls, BetDebit(c)
  PROVE  BookInv'
<1>1. /\ c.kind = "bet" /\ c.pc = "debit" /\ Writes(c) /\ End(c) /\ balance' = balance - c.amount
      /\ others' = others /\ inoutBet' = inoutBet /\ faults' = faults
  <2>1. c.amount \in Nat
    BY CallTyped DEF BetDebit, WalletInv, VendorCalls
  <2>2. balance \in Int
    BY DEF WalletInv, ClockTyped
  <2>3. balance + (-c.amount) = balance - c.amount
    BY <2>1, <2>2
  <2> QED
    BY <2>3 DEF BetDebit, OnlyBalance
<1>2. RowsInv'
  BY <1>1 DEF End, BookInv, RowsInv
<1>3. CASE overlapped'
  BY <1>2, <1>3, BookOverlap
<1>4. CASE ~overlapped'
  <2>1. /\ ~overlapped /\ calls' = {} /\ balance >= 0 /\ StillAsRead(c)
        /\ Clean => balance = Books + Pending(c)
        /\ balance \in Int /\ others \in Int /\ InitBalance \in Int /\ VendorTotal \in Int
    BY <1>1, <1>4, OnlyCall, BookOnly
  <2>2. c.amount = VendorStake /\ balance >= VendorStake /\ Pending(c) = VendorStake
        /\ VendorStake \in Nat
    BY <1>1, <2>1, VendorAssumption DEF StillAsRead, Pending
  <2>3. Books' = Books /\ Books \in Int
    BY <1>1, <2>1, TotalStays DEF Books
  <2>4. Clean' => Clean
    BY <1>1, <2>1 DEF Clean
  <2>5. balance' >= 0 /\ (Clean' => balance' = Books')
    BY <1>1, <2>1, <2>2, <2>3, <2>4
  <2> QED
    BY <1>2, <1>4, <2>1, <2>5, BookEnds
<1> QED
  BY <1>3, <1>4

LEMMA BookCredit ==
  ASSUME WalletInv, BookInv, NEW c \in calls, Credit(c)
  PROVE  BookInv'
<1> DEFINE d == [c EXCEPT !.pc = "mark"]
<1>1. /\ c.kind \in {"result", "rollback"} /\ c.pc = "credit" /\ Writes(c) /\ Move(c, "mark")
      /\ balance' = balance + c.amount
      /\ others' = others /\ inoutBet' = inoutBet /\ faults' = faults
  BY DEF Credit, OnlyBalance
<1>2. c \in VendorCalls /\ c.amount \in Nat
  BY <1>1, CallTyped DEF WalletInv, VendorCalls
<1>3. /\ d \in VendorCalls /\ d.kind = c.kind /\ d.pc = "mark" /\ d.amount = c.amount /\ d.tx = c.tx
  BY <1>2 DEF VendorCalls
<1>4. calls' = (calls \ {c}) \cup {d}
  BY <1>1 DEF Move
<1> HIDE DEF d
<1>5. RowsInv'
  BY <1>1, <1>3, <1>4 DEF BookInv, RowsInv
<1>6. CASE overlapped'
  BY <1>5, <1>6, BookOverlap
<1>7. CASE ~overlapped'
  <2>1. /\ ~overlapped /\ calls = {c} /\ balance >= 0 /\ StillAsRead(c)
        /\ Clean => balance = Books + Pending(c)
        /\ balance \in Int /\ others \in Int /\ InitBalance \in Int /\ VendorTotal \in Int
    BY <1>1, <1>7, BookOnly
  <2>2. calls' = {d}
    BY <1>4, <2>1
  <2>3. Pending(c) = 0 /\ Pending(d) = c.amount
    BY <1>1, <1>3 DEF Pending
  <2>4. StillAsRead(d)'
    BY <1>1, <1>3, <2>1 DEF StillAsRead
  <2>5. Books' = Books /\ Books \in Int
    BY <1>1, <2>1, TotalStays DEF Books
  <2>6. Clean' => Clean
    BY <1>1, <2>1 DEF Clean
  <2>7. balance' >= 0 /\ (Clean' => balance' = Books' + Pending(d))
    BY <1>1, <1>2, <2>1, <2>3, <2>5, <2>6
  <2> QED
    BY <1>5, <2>2, <2>4, <2>7, BookMoves
<1> QED
  BY <1>6, <1>7

\* A row is marked, and pays what the call has credited.
LEMMA BookMark ==
  ASSUME WalletInv, BookInv, NEW c \in calls, ResultMark(c) \/ RollbackMark(c)
  PROVE  BookInv'
<1> DEFINE old == inoutBet[c.tx]
           row == IF c.kind = "result"
                  THEN [old EXCEPT !.winAmount = c.amount, !.isSettled = TRUE]
                  ELSE [old EXCEPT !.winAmount = 0, !.isRolledback = TRUE]
<1>1. /\ c.kind \in {"result", "rollback"} /\ c.pc = "mark" /\ Writes(c) /\ End(c)
      /\ balance' = balance /\ others' = others /\ faults' = faults
  BY DEF ResultMark, RollbackMark, wagerVars
<1>2. inoutBet' = [inoutBet EXCEPT ![c.tx] = row]
  <2>1. CASE ResultMark(c)
    BY <2>1 DEF ResultMark
  <2>2. CASE RollbackMark(c)
    BY <2>2 DEF RollbackMark
  <2> QED
    BY <2>1, <2>2
<1>3. c \in VendorCalls /\ c.amount \in Nat /\ c.tx \in Tx
  BY <1>1, CallTyped DEF WalletInv, VendorCalls
<1>4. old \in BetRow /\ old.exists
  BY <1>1, <1>3 DEF WalletInv, CallsTyped, BookInv, RowsInv
<1>5. /\ row \in BetRow /\ row.exists /\ (~row.isSettled => ~old.isSettled /\ row.winAmount = 0)
      /\ c.kind = "result" =>
           row.winAmount = c.amount /\ row.isSettled /\ row.isRolledback = old.isRolledback
      /\ c.kind = "rollback" =>
           row.winAmount = 0 /\ row.isRolledback /\ row.isSettled = old.isSettled
  BY <1>1, <1>3, <1>4 DEF BetRow
<1>6. inoutBet'[c.tx] = row /\ \A t \in Tx \ {c.tx} : inoutBet'[t] = inoutBet[t]
  BY <1>2, <1>3 DEF WalletInv, CallsTyped
<1>7. calls' = calls \ {c}
  BY <1>1 DEF End
<1> HIDE DEF row
<1>8. RowsInv'
  <2>1. \A t \in Tx : /\ ~inoutBet'[t].exists => inoutBet'[t] = NoBet
                      /\ ~inoutBet'[t].isSettled => inoutBet'[t].winAmount = 0
    BY <1>5, <1>6 DEF BookInv, RowsInv
  <2>2. ASSUME NEW x \in calls', x.kind \in {"result", "rollback"} PROVE inoutBet'[x.tx].exists
    <3>1. x \in calls
      BY <1>7
    <3>2. x.tx \in Tx
      BY <2>2, <3>1, CallTyped DEF WalletInv, VendorCalls
    <3> QED
      BY <1>5, <1>6, <2>2, <3>1, <3>2 DEF BookInv, RowsInv
  <2> QED
    BY <2>1, <2>2 DEF RowsInv
<1>9. CASE overlapped'
  BY <1>8, <1>9, BookOverlap
<1>10. CASE ~overlapped'
  <2>1. /\ ~overlapped /\ calls' = {} /\ balance >= 0 /\ StillAsRead(c)
        /\ Clean => balance = Books + Pending(c)
        /\ balance \in Int /\ others \in Int /\ InitBalance \in Int /\ VendorTotal \in Int
    BY <1>1, <1>10, OnlyCall, BookOnly
  <2>2. Pending(c) = c.amount
    BY <1>1 DEF Pending
  <2>3. VendorTotal' = VendorTotal + RowEffect(row) - RowEffect(old)
    BY <1>2, <1>3, <1>5, TotalChanges DEF WalletInv
  <2>4. /\ ~old.isSettled => old.winAmount = 0
        /\ c.kind = "result" => ~old.isSettled
        /\ c.kind = "rollback" => ~old.isRolledback /\ c.amount = VendorStake
    BY <1>1, <1>3, <2>1 DEF BookInv, RowsInv, StillAsRead
  <2> HIDE DEF old
  <2>5. Clean' => Clean
    <3>1. \A t \in Tx : inoutBet[t].isSettled => inoutBet'[t].isSettled
      BY <1>1, <1>5, <1>6 DEF old
    <3>2. \A t \in Tx : inoutBet[t].isRolledback => inoutBet'[t].isRolledback
      BY <1>1, <1>5, <1>6 DEF old
    <3>3. ~overlapped /\ faults' = faults
      BY <1>1, <2>1
    <3> QED
      BY <3>1, <3>2, <3>3 DEF Clean
  <2>6. ASSUME Clean' PROVE RowEffect(row) = RowEffect(old) + c.amount
    <3>1. VendorStake \in Nat
      BY VendorAssumption
    <3>2. ~(row.isSettled /\ row.isRolledback)
      BY <1>3, <1>6, <2>6 DEF Clean
    <3>3. RowEffect(row) = row.winAmount - VendorStake + (IF row.isRolledback THEN VendorStake ELSE 0)
      <4>1. row.exists
        BY <1>5
      <4> QED
        BY <4>1, Zenon DEF RowEffect
    <3>4. RowEffect(old) = old.winAmount - VendorStake + (IF old.isRolledback THEN VendorStake ELSE 0)
      <4>1. old.exists
        BY <1>4
      <4> QED
        BY <4>1, Zenon DEF RowEffect
    <3>5. CASE c.kind = "result"
      <4>1. old.winAmount = 0 /\ ~row.isRolledback /\ ~old.isRolledback /\ row.winAmount = c.amount
        BY <1>5, <2>4, <3>2, <3>5
      <4> QED
        BY <1>3, <3>1, <3>3, <3>4, <4>1
    <3>6. CASE c.kind = "rollback"
      <4>1. old.winAmount = 0 /\ row.isRolledback /\ ~old.isRolledback /\ row.winAmount = 0
            /\ c.amount = VendorStake
        BY <1>5, <2>4, <3>2, <3>6
      <4> QED
        BY <3>1, <3>3, <3>4, <4>1
    <3> QED
      BY <1>1, <3>5, <3>6
  <2>7. ASSUME Clean' PROVE balance' = Books'
    <3>1. RowEffect(old) \in Int /\ RowEffect(row) = RowEffect(old) + c.amount
      BY <1>4, <2>6, <2>7, RowEffectIsInt
    <3>2. VendorTotal' = VendorTotal + c.amount
      BY <1>3, <2>1, <2>3, <3>1
    <3>3. balance = InitBalance + others + VendorTotal + c.amount
      BY <2>1, <2>2, <2>5, <2>7 DEF Books
    <3>4. Books' = InitBalance + others + (VendorTotal + c.amount)
      BY <1>1, <3>2 DEF Books
    <3>5. InitBalance + others + VendorTotal + c.amount = InitBalance + others + (VendorTotal + c.amount)
      BY <1>3, <2>1
    <3> QED
      BY <1>1, <3>3, <3>4, <3>5
  <2> QED
    BY <1>1, <1>8, <1>10, <2>1, <2>7, BookEnds
<1> QED
  BY <1>9, <1>10

\* The admin's balance update writes what it read and added to.
LEMMA BookAdminSet ==
  ASSUME WalletInv, BookInv, NEW c \in calls, AdminSet(c)
  PROVE  BookInv'
<1>1. /\ c.kind = "admin" /\ Writes(c) /\ End(c) /\ balance' = c.to
      /\ others' = others + c.amount /\ inoutBet' = inoutBet /\ faults' = faults
  BY DEF AdminSet
<1>2. c.amount \in Int /\ c.to \in Int
  BY <1>1, CallTyped DEF WalletInv, AdminCalls
<1>3. RowsInv'
  BY <1>1 DEF End, BookInv, RowsInv
<1>4. CASE overlapped'
  BY <1>3, <1>4, BookOverlap
<1>5. CASE ~overlapped'
  <2>1. /\ ~overlapped /\ calls' = {} /\ balance >= 0 /\ StillAsRead(c)
        /\ Clean => balance = Books + Pending(c)
        /\ balance \in Int /\ others \in Int /\ InitBalance \in Int /\ VendorTotal \in Int
    BY <1>1, <1>5, OnlyCall, BookOnly
  <2>2. c.to = balance + c.amount /\ c.to >= 0 /\ Pending(c) = 0
    BY <1>1, <2>1 DEF StillAsRead, Pending
  <2>3. Books' = InitBalance + (others + c.amount) + VendorTotal
    BY <1>1, TotalStays DEF Books
  <2>4. Clean' => Clean
    BY <1>1, <2>1 DEF Clean
  <2>5. Clean => balance = InitBalance + others + VendorTotal
    BY <2>1, <2>2 DEF Books
  <2>6. ASSUME Clean' PROVE balance' = Books'
    <3>1. balance' = InitBalance + others + VendorTotal + c.amount
      BY <1>1, <2>2, <2>4, <2>5, <2>6
    <3>2. InitBalance + others + VendorTotal + c.amount
            = InitBalance + (others + c.amount) + VendorTotal
      BY <1>2, <2>1
    <3> QED
      BY <2>3, <3>1, <3>2
  <2> QED
    BY <1>1, <1>3, <1>5, <2>1, <2>2, <2>6, BookEnds
<1> QED
  BY <1>4, <1>5

\* A call that dies has written less than it should: the books are no longer claimed.
LEMMA BookDies ==
  ASSUME WalletInv, BookInv, NEW c \in calls, CallDies(c)
  PROVE  BookInv'
<1>1. /\ faults' = faults + 1 /\ calls' \subseteq calls
      /\ UNCHANGED <<balance, inoutBet, overlapped>>
  BY DEF CallDies, End, wagerVars
<1>2. RowsInv' /\ ReadInv'
  BY <1>1 DEF BookInv, RowsInv, ReadInv, StillAsRead
<1>3. ~Clean'
  BY <1>1 DEF WalletInv, CallsTyped, Clean
<1> QED
  BY <1>2, <1>3 DEF BookInv, BooksInv

LEMMA BookStep == WalletInv /\ BookInv /\ [Next]_walletVars => BookInv'
<1> SUFFICES ASSUME WalletInv, BookInv, [Next]_walletVars PROVE BookInv'
  OBVIOUS
<1>1. CASE AccountStep
  BY <1>1, BookAccount
<1>2. CASE World
  BY <1>2, BookSame DEF World, WagerTick, ConfigWager
<1>3. ASSUME NEW c \in calls, VendorStep(c) PROVE BookInv'
  BY <1>3, BookBetCreate, BookBetDebit, BookCredit, BookMark, BookAdminSet, BookDies DEF VendorStep
<1>4. CASE VendorNext
  BY <1>3, <1>4, BookReads DEF VendorNext
<1>5. CASE UNCHANGED walletVars
  BY <1>5, BookSame DEF walletVars, vars, wagerVars
<1> QED
  BY <1>1, <1>2, <1>4, <1>5 DEF Next

LEMMA BookStarts == Init => BookInv
<1> SUFFICES ASSUME Init PROVE BookInv
  OBVIOUS
<1>1. /\ inoutBet = [t \in Tx |-> NoBet] /\ calls = {} /\ balance = InitBalance /\ others = 0
  BY DEF Init, WagerInit, VendorInit
<1>2. RowsInv
  BY <1>1 DEF RowsInv, NoBet
<1>3. InitBalance \in Nat
  BY WagerAssumption
<1>4. ReadInv
  BY <1>1, <1>3 DEF ReadInv
<1>5. VendorTotal = 0
  <2> DEFINE v == [t \in Tx |-> RowEffect(inoutBet[t])]
  <2>1. \A t \in Tx : v[t] = 0
    BY <1>1 DEF RowEffect, NoBet
  <2>2. IsFiniteSet(Tx)
    BY VendorAssumption
  <2> HIDE DEF v
  <2>3. SumFunctionOnSet(v, Tx) = 0
    BY <2>1, <2>2, SumZero
  <2> QED
    BY <2>3 DEF VendorTotal, v
<1>6. balance = Books
  BY <1>1, <1>3, <1>5 DEF Books
<1>7. BooksInv
  BY <1>1, <1>6 DEF BooksInv
<1> QED
  BY <1>2, <1>4, <1>7 DEF BookInv

\* However often the vendor repeats its calls, and whatever the account and its
\* admins do meanwhile, the bet rows account for the balance as long as no two
\* requests overlap, none dies half way and no bet is both settled and rolled back
\* (inout.ts).
THEOREM VendorBooksBalance == Spec => []VendorBooks
<1>1. Spec => []WalletInv
  BY WalletStarts, WalletStep, PTL DEF Spec
<1>2. BookInv /\ WalletInv /\ [Next]_walletVars => BookInv'
  BY BookStep
<1>3. Spec => []BookInv
  BY <1>1, <1>2, BookStarts, PTL DEF Spec
<1>4. BookInv => VendorBooks
  BY DEF BookInv, BooksInv, Clean, Books, VendorBooks
<1> QED
  BY <1>3, <1>4, PTL

\* An account is what its columns say it is; and its balance is negative only after
\* requests overlapped, whatever was bet with the vendor.
THEOREM WalletTypes == Spec => []TypeOK
<1>1. Spec => []WalletInv
  BY WalletStarts, WalletStep, PTL DEF Spec
<1>2. BookInv /\ WalletInv /\ [Next]_walletVars => BookInv'
  BY BookStep
<1>3. Spec => []BookInv
  BY <1>1, <1>2, BookStarts, PTL DEF Spec
<1>4. WalletInv /\ BookInv => TypeOK
  <2> SUFFICES ASSUME WalletInv, BookInv PROVE TypeOK
    OBVIOUS
  <2>1. ClockTyped /\ PlacedTyped /\ CallsTyped /\ RowsTyped(rows, waived) /\ Len(rows) <= MaxRows
    BY DEF WalletInv, EarnedInv, Earned
  <2>2. balance \in Int /\ (balance < 0 => overlapped)
    BY <2>1 DEF ClockTyped, BookInv, ReadInv
  <2>3. penalty.factor \in 1 .. MaxFactor \cup WagerFactors \cup {PenaltyBase}
    BY <2>1 DEF ClockTyped, Factors
  <2> QED
    BY <2>1, <2>2, <2>3
    DEF TypeOK, ClockTyped, PlacedTyped, CallsTyped, RowsTyped, RowType, BetRow
<1> QED
  BY <1>1, <1>3, <1>4, PTL

--------------------------------------------------------------------------------
(* The house under WINNING                                                  *)

\* A set of integers that is finite has a least one.
LEMMA LeastExists ==
  ASSUME NEW S \in SUBSET Int, IsFiniteSet(S), S # {}
  PROVE  \E x \in S : \A y \in S : x <= y
<1> DEFINE G == {T \in SUBSET S : T # {} => \E x \in T : \A y \in T : x <= y}
<1>1. ASSUME NEW T \in SUBSET S, \A U \in SUBSET T : U # T => U \in G
      PROVE  T \in G
  <2>1. CASE T = {}
    BY <2>1
  <2>2. CASE T # {}
    <3> PICK z \in T : TRUE
      BY <2>2
    <3>1. T \ {z} \in G
      BY <1>1
    <3>2. CASE T \ {z} = {}
      <4>1. \A y \in T : y = z /\ z \in Int
        BY <3>2
      <4> QED
        BY <4>1
    <3>3. CASE T \ {z} # {}
      <4>1. PICK x \in T \ {z} : \A y \in T \ {z} : x <= y
        BY <3>1, <3>3
      <4>2. \A y \in T : y = z \/ x <= y
        BY <4>1
      <4>3. x \in Int /\ z \in Int /\ \A y \in T : y \in Int
        OBVIOUS
      <4>4. CASE x <= z
        <5>1. \A y \in T : x <= y
          BY <4>2, <4>4
        <5> QED
          BY <5>1
      <4>5. CASE ~(x <= z)
        <5>1. \A y \in T : z <= y
          BY <4>2, <4>3, <4>5
        <5> QED
          BY <5>1
      <4> QED
        BY <4>4, <4>5
    <3> QED
      BY <3>2, <3>3
  <2> QED
    BY <2>1, <2>2
<1>2. S \in G
  <2> HIDE DEF G
  <2> QED
    BY <1>1, SetInduction
<1> QED
  BY <1>2

\* What a stake of 1 wins over all numbers of a draw.
OverAll(s) ==
  Pays(s, 0) + Pays(s, 1) + Pays(s, 2) + Pays(s, 3) + Pays(s, 4) + Pays(s, 5) + Pays(s, 6)
    + Pays(s, 7) + Pays(s, 8) + Pays(s, 9)

LEMMA BetsGivenBack ==
  ASSUME NEW s, s.bet \in WingoBets, s.contract = 1
  PROVE  OverAll(s) <= 1000
<1> USE DEF OverAll, Pays, WingoWins, WingoMultiplier, ColorOf, SizeOf, Special
<1>1. ASSUME NEW k \in WingoNumbers, s.bet = OnNumber("WINGO", "RESULT", "NUMBER", k)
      PROVE  OverAll(s) <= 1000
  <2>1. s.bet.type = "NUMBER" /\ s.bet.number = k /\ s.bet.group = ""
    BY <1>1 DEF OnNumber, Bet
  <2>2. k \in 0 .. 9
    BY DEF WingoNumbers
  <2>3. \A n \in 0 .. 9 : Pays(s, n) = IF n = k THEN 900 ELSE 0
    <3> TAKE n \in 0 .. 9
    <3>1. WingoWins(s.bet, n) <=> k = n
      BY <2>1
    <3>2. WingoMultiplier(s.bet, n) = 900
      BY <2>1
    <3> HIDE DEF WingoWins, WingoMultiplier
    <3> QED
      BY <3>1, <3>2
  <2> HIDE DEF Pays
  <2>4. /\ Pays(s, 0) = (IF k = 0 THEN 900 ELSE 0) /\ Pays(s, 1) = (IF k = 1 THEN 900 ELSE 0)
        /\ Pays(s, 2) = (IF k = 2 THEN 900 ELSE 0) /\ Pays(s, 3) = (IF k = 3 THEN 900 ELSE 0)
        /\ Pays(s, 4) = (IF k = 4 THEN 900 ELSE 0) /\ Pays(s, 5) = (IF k = 5 THEN 900 ELSE 0)
        /\ Pays(s, 6) = (IF k = 6 THEN 900 ELSE 0) /\ Pays(s, 7) = (IF k = 7 THEN 900 ELSE 0)
        /\ Pays(s, 8) = (IF k = 8 THEN 900 ELSE 0) /\ Pays(s, 9) = (IF k = 9 THEN 900 ELSE 0)
    BY <2>3
  <2> QED
    BY <2>2, <2>4
<1>2. ASSUME NEW g \in {"RED", "GREEN", "VIOLET"}, s.bet = OnGroup("WINGO", "RESULT", "COLOR", g)
      PROVE  OverAll(s) <= 1000
  <2>1. s.bet.type = "COLOR" /\ s.bet.group = g
    BY <1>2 DEF OnGroup, Bet
  <2> QED
    BY <2>1
<1>3. ASSUME NEW g \in {"BIG", "SMALL"}, s.bet = OnGroup("WINGO", "RESULT", "SIZE", g)
      PROVE  OverAll(s) <= 1000
  <2>1. s.bet.type = "SIZE" /\ s.bet.group = g
    BY <1>3 DEF OnGroup, Bet
  <2> QED
    BY <2>1
<1> QED
  BY <1>1, <1>2, <1>3 DEF WingoBets

\* The stakes that are added up are each taken out once, at every number of the draw.
LEMMA PayoutsBounded ==
  ASSUME NEW stakes, IsFiniteSet(stakes),
         \A s \in stakes : s.bet \in WingoBets /\ s.contract = 1
  PROVE  /\ \A n \in WingoNumbers : Payout(stakes, n) \in Int
         /\ Payout(stakes, 0) + Payout(stakes, 1) + Payout(stakes, 2) + Payout(stakes, 3)
              + Payout(stakes, 4) + Payout(stakes, 5) + Payout(stakes, 6) + Payout(stakes, 7)
              + Payout(stakes, 8) + Payout(stakes, 9) <= 1000 * Cardinality(stakes)
<1> DEFINE v == [n \in WingoNumbers |-> [s \in stakes |-> Pays(s, n)]]
           P(T, n) == SumFunctionOnSet(v[n], T)
           All(T) == P(T, 0) + P(T, 1) + P(T, 2) + P(T, 3) + P(T, 4) + P(T, 5) + P(T, 6)
                       + P(T, 7) + P(T, 8) + P(T, 9)
           G == {T \in SUBSET stakes : All(T) <= 1000 * Cardinality(T)}
<1>1. \A n \in WingoNumbers, s \in stakes : v[n][s] = Pays(s, n) /\ v[n][s] \in Int
  <2> TAKE n \in WingoNumbers, s \in stakes
  <2>1. v[n][s] = Pays(s, n)
    OBVIOUS
  <2>2. WingoMultiplier(s.bet, n) \in Int
    BY DEF WingoMultiplier
  <2>3. Pays(s, n) \in Int
    BY <2>2 DEF Pays
  <2> QED
    BY <2>1, <2>3
<1>2. \A n \in WingoNumbers : Payout(stakes, n) = P(stakes, n)
  BY DEF Payout
<1> HIDE DEF v
<1>3. \A n \in WingoNumbers, T \in SUBSET stakes : P(T, n) \in Int
  <2> TAKE n \in WingoNumbers, T \in SUBSET stakes
  <2>1. IsFiniteSet(T)
    BY FS_Subset
  <2>2. \A s \in T : v[n][s] \in Int
    BY <1>1
  <2> QED
    BY <2>1, <2>2, SumType
<1>4. WingoNumbers = {0, 1, 2, 3, 4, 5, 6, 7, 8, 9}
  BY DEF WingoNumbers
<1>5. ASSUME NEW T \in SUBSET stakes, \A U \in SUBSET T : U # T => U \in G
      PROVE  T \in G
  <2>1. CASE T = {}
    <3>1. \A n \in WingoNumbers : P(T, n) = 0
      BY <2>1, SumEmpty
    <3>2. Cardinality(T) = 0
      BY <2>1, FS_EmptySet
    <3> HIDE DEF P
    <3> QED
      BY <1>4, <3>1, <3>2
  <2>2. CASE T # {}
    <3> PICK y \in T : TRUE
      BY <2>2
    <3> DEFINE U == T \ {y}
    <3>1. U \in G
      BY <1>5
    <3>2. IsFiniteSet(T) /\ U \in SUBSET stakes
      BY FS_Subset
    <3>3. Cardinality(U) = Cardinality(T) - 1 /\ Cardinality(T) \in Nat
      BY <3>2, FS_RemoveElement, FS_CardinalityType
    <3>4. \A n \in WingoNumbers : P(T, n) = Pays(y, n) + P(U, n) /\ Pays(y, n) \in Int
      <4> TAKE n \in WingoNumbers
      <4>1. \A s \in T : v[n][s] \in Int
        BY <1>1
      <4>2. SumFunctionOnSet(v[n], T) = v[n][y] + SumFunctionOnSet(v[n], T \ {y})
        BY <3>2, <4>1, SumWithout
      <4> QED
        BY <1>1, <4>2
    <3>5. \A n \in WingoNumbers : P(U, n) \in Int
      BY <1>3, <3>2
    <3>6. OverAll(y) <= 1000
      BY BetsGivenBack
    <3> HIDE DEF P, U
    <3>7. All(T) = OverAll(y) + All(U) /\ OverAll(y) \in Int /\ All(U) \in Int
      BY <1>4, <3>4, <3>5 DEF OverAll
    <3>8. All(U) <= 1000 * Cardinality(U)
      BY <3>1
    <3> HIDE DEF All
    <3>9. All(T) <= 1000 * Cardinality(T)
      BY <3>3, <3>6, <3>7, <3>8
    <3> QED
      BY <3>9
  <2> QED
    BY <2>1, <2>2
<1>6. stakes \in G
  <2> HIDE DEF G
  <2> QED
    BY <1>5, SetInduction
<1>7. All(stakes) <= 1000 * Cardinality(stakes)
  BY <1>6
<1>8. \A n \in WingoNumbers : P(stakes, n) \in Int
  BY <1>3
<1> HIDE DEF P
<1> QED
  BY <1>2, <1>4, <1>7, <1>8

\* The cheapest number pays no more than any other.
LEMMA CheapestPays ==
  ASSUME NEW stakes, \A n \in WingoNumbers : Payout(stakes, n) \in Int,
         NEW n \in CheapestNumbers(stakes), NEW m \in WingoNumbers
  PROVE  n \in WingoNumbers /\ Payout(stakes, n) <= Payout(stakes, m)
<1> DEFINE payouts == {Payout(stakes, k) : k \in WingoNumbers}
           pay == [k \in WingoNumbers |-> Payout(stakes, k)]
<1>1. n \in WingoNumbers /\ Payout(stakes, n) = Min(payouts)
  BY DEF CheapestNumbers
<1>2. payouts \subseteq Int /\ Payout(stakes, m) \in payouts
  OBVIOUS
<1>3. IsFiniteSet(payouts)
  <2>1. 0 \in Int /\ 9 \in Int
    OBVIOUS
  <2>2. IsFiniteSet(WingoNumbers)
    BY <2>1, FS_Interval, Zenon DEF WingoNumbers
  <2>3. pay \in Surjection(WingoNumbers, payouts)
    <3>1. pay \in [WingoNumbers -> payouts]
      BY Zenon
    <3>2. \A b \in payouts : \E k \in WingoNumbers : pay[k] = b
      BY Zenon
    <3> HIDE DEF pay, payouts
    <3> QED
      BY <3>1, <3>2, Zenon DEF Surjection
  <2> HIDE DEF pay, payouts
  <2> QED
    BY <2>2, <2>3, FS_Surjection
<1> HIDE DEF payouts
<1>4. \E x \in payouts : \A y \in payouts : x <= y
  BY <1>2, <1>3, LeastExists
<1>5. \A y \in payouts : Min(payouts) <= y
  BY <1>4, Zenon DEF Min
<1> QED
  BY <1>1, <1>2, <1>5

\* A player's stakes are as many as the bets.
LEMMA AsManyStakes ==
  ASSUME NEW ps \in SUBSET WingoBets
  PROVE  /\ IsFiniteSet([bet : ps, contract : {1}])
         /\ Cardinality([bet : ps, contract : {1}]) = Cardinality(ps)
<1> DEFINE stakes == [bet : ps, contract : {1}]
           stake == [b \in ps |-> [bet |-> b, contract |-> 1]]
<1>1. IsFiniteSet(ps)
  BY WingoBetsFinite, FS_Subset
<1>2. stake \in Bijection(ps, stakes)
  <2>1. stake \in [ps -> stakes]
    OBVIOUS
  <2>2. \A a, b \in ps : stake[a] = stake[b] => a = b
    OBVIOUS
  <2>3. \A s \in stakes : \E b \in ps : stake[b] = s
    <3> TAKE s \in stakes
    <3>1. s.bet \in ps /\ s = [bet |-> s.bet, contract |-> 1]
      OBVIOUS
    <3>2. stake[s.bet] = s
      BY <3>1
    <3> HIDE DEF stake
    <3> QED
      BY <3>1, <3>2
  <2> HIDE DEF stake, stakes
  <2>4. stake \in Injection(ps, stakes)
    BY <2>1, <2>2 DEF Injection, IsInjective
  <2>5. stake \in Surjection(ps, stakes)
    BY <2>1, <2>3 DEF Surjection
  <2> QED
    BY <2>4, <2>5 DEF Bijection
<1> HIDE DEF stake, stakes
<1>3. ExistsBijection(ps, stakes)
  BY <1>2 DEF ExistsBijection
<1>4. IsFiniteSet(stakes) /\ Cardinality(stakes) = Cardinality(ps)
  BY <1>1, <1>3, FS_Bijection
<1> QED
  BY <1>4 DEF stakes

\* Whatever one player bets on in a round of Win Go, the number that pays least pays
\* back no more than was staked: WINNING never loses to a player who bets alone
\* (calculateWinningNumber).
THEOREM HouseKeeps == Spec => []HouseKeepsWhole
<1>1. ASSUME NEW ps \in SUBSET WingoBets, NEW n \in CheapestNumbers([bet : ps, contract : {1}])
      PROVE  Payout([bet : ps, contract : {1}], n) <= 100 * Cardinality(ps)
  <2> DEFINE stakes == [bet : ps, contract : {1}]
  <2>1. IsFiniteSet(stakes) /\ Cardinality(stakes) = Cardinality(ps) /\ Cardinality(ps) \in Nat
    <3>1. IsFiniteSet(ps)
      BY WingoBetsFinite, FS_Subset
    <3> QED
      BY <3>1, AsManyStakes, FS_CardinalityType
  <2>2. \A s \in stakes : s.bet \in WingoBets /\ s.contract = 1
    OBVIOUS
  <2> HIDE DEF stakes
  <2>3. /\ \A k \in WingoNumbers : Payout(stakes, k) \in Int
        /\ Payout(stakes, 0) + Payout(stakes, 1) + Payout(stakes, 2) + Payout(stakes, 3)
             + Payout(stakes, 4) + Payout(stakes, 5) + Payout(stakes, 6) + Payout(stakes, 7)
             + Payout(stakes, 8) + Payout(stakes, 9) <= 1000 * Cardinality(stakes)
    BY <2>1, <2>2, PayoutsBounded
  <2>4. n \in CheapestNumbers(stakes)
    BY DEF stakes
  <2>5. \A m \in WingoNumbers : n \in WingoNumbers /\ Payout(stakes, n) <= Payout(stakes, m)
    BY <2>3, <2>4, CheapestPays
  <2>6. Payout(stakes, n) <= 100 * Cardinality(ps)
    <3> DEFINE least == Payout(stakes, n)
    <3>1. 0 \in WingoNumbers /\ 1 \in WingoNumbers /\ 2 \in WingoNumbers /\ 3 \in WingoNumbers
          /\ 4 \in WingoNumbers /\ 5 \in WingoNumbers /\ 6 \in WingoNumbers /\ 7 \in WingoNumbers
          /\ 8 \in WingoNumbers /\ 9 \in WingoNumbers
      BY DEF WingoNumbers
    <3>2. least \in Int
      BY <2>3, <2>5, <3>1
    <3> HIDE DEF least
    <3>3. /\ least <= Payout(stakes, 0) /\ least <= Payout(stakes, 1) /\ least <= Payout(stakes, 2)
          /\ least <= Payout(stakes, 3) /\ least <= Payout(stakes, 4) /\ least <= Payout(stakes, 5)
          /\ least <= Payout(stakes, 6) /\ least <= Payout(stakes, 7) /\ least <= Payout(stakes, 8)
          /\ least <= Payout(stakes, 9)
      BY <2>5, <3>1 DEF least
    <3>4. 10 * least <= 1000 * Cardinality(stakes)
      <4> DEFINE pay(k) == Payout(stakes, k)
      <4>1. /\ pay(0) \in Int /\ pay(1) \in Int /\ pay(2) \in Int /\ pay(3) \in Int /\ pay(4) \in Int
            /\ pay(5) \in Int /\ pay(6) \in Int /\ pay(7) \in Int /\ pay(8) \in Int /\ pay(9) \in Int
        BY <2>3, <3>1
      <4>2. pay(0) + pay(1) + pay(2) + pay(3) + pay(4) + pay(5) + pay(6) + pay(7) + pay(8) + pay(9)
              <= 1000 * Cardinality(stakes)
        BY <2>3
      <4>3. 1000 * Cardinality(stakes) \in Int
        BY <2>1
      <4>4. /\ least <= pay(0) /\ least <= pay(1) /\ least <= pay(2) /\ least <= pay(3) /\ least <= pay(4)
            /\ least <= pay(5) /\ least <= pay(6) /\ least <= pay(7) /\ least <= pay(8) /\ least <= pay(9)
        BY <3>3
      <4> HIDE DEF pay
      <4> QED
        BY <3>2, <4>1, <4>2, <4>3, <4>4
    <3>5. least <= 100 * Cardinality(ps)
      BY <2>1, <3>2, <3>4
    <3> QED
      BY <3>5 DEF least
  <2> QED
    BY <2>6 DEF stakes
<1>2. HouseKeepsWhole
  BY <1>1 DEF HouseKeepsWhole
<1> QED
  BY <1>2, PTL

--------------------------------------------------------------------------------
(* The illegal-bet rules and what the games pay                             *)

\* The number of its place that a result has for a bet, and whether the rules say
\* that the bet covers it.
ValueAt(b, r) ==
  CASE b.game = "WINGO" -> r
    [] b.game = "K3" -> DiceSum(r)
    [] b.game = "MOTO" -> r[b.at]
    [] b.game = "5D" -> IF b.at = "SUM" THEN FiveDSum(r) ELSE r[b.at]
Covers(b, n) == IF Exact(b) THEN n = b.number ELSE CoversNumber(b, n)

OneGame(ps) == ps \subseteq AllBets /\ \A a, b \in ps : a.game = b.game
LosesOnTriples(b) == b.game = "K3" /\ b.group \in {"BIG", "SMALL"}

\* Which numbers a group covers by the rules.
LEMMA CoversIs ==
  ASSUME NEW b, NEW n \in Int, NEW from \in Int, HighFrom(b) = from
  PROVE  /\ b.group \in {"RED", "EVEN"} => (CoversNumber(b, n) <=> n % 2 = 0)
         /\ b.group \in {"GREEN", "ODD"} => (CoversNumber(b, n) <=> n % 2 = 1)
         /\ b.group = "VIOLET" => (CoversNumber(b, n) <=> n \in {0, 5})
         /\ b.group \in {"BIG", "HIGH"} => (CoversNumber(b, n) <=> n >= from)
         /\ b.group \in {"SMALL", "LOW"} => (CoversNumber(b, n) <=> n < from)
<1>1. CASE b.group \in {"RED", "EVEN"}
  BY <1>1, Zenon DEF CoversNumber
<1>2. CASE b.group \in {"GREEN", "ODD"}
  BY <1>2 DEF CoversNumber
<1>3. CASE b.group = "VIOLET"
  BY <1>3 DEF CoversNumber
<1>4. CASE b.group \in {"BIG", "HIGH"}
  BY <1>4 DEF CoversNumber
<1>5. CASE b.group \in {"SMALL", "LOW"}
  BY <1>5 DEF CoversNumber
<1> QED BY <1>1, <1>2, <1>3, <1>4, <1>5

\* What the bets are that the rules look at, game by game.
LEMMA LookedAtWingo ==
  ASSUME NEW b \in WingoBets
  PROVE  /\ b.game = "WINGO" /\ b.at = "RESULT"
         /\ \/ b.type = "NUMBER" /\ b.number \in 0 .. 9 /\ b.group = ""
            \/ b.type = "COLOR" /\ b.group \in {"RED", "GREEN", "VIOLET"}
            \/ b.type = "SIZE" /\ b.group \in {"BIG", "SMALL"}
  BY DEF WingoBets, WingoNumbers, OnNumber, OnGroup, Bet

LEMMA LookedAtK3 ==
  ASSUME NEW b \in K3Bets, Selected(b)
  PROVE  /\ b.game = "K3" /\ b.at = "RESULT"
         /\ \/ b.type = "SUM" /\ b.number \in 3 .. 18 /\ b.group = ""
            \/ b.type = b.group /\ b.group \in {"BIG", "SMALL", "ODD", "EVEN"}
<1>1. CASE \E n \in 3 .. 18 : b = OnNumber("K3", "RESULT", "SUM", n)
  BY <1>1 DEF OnNumber, Bet
<1>2. CASE \E f \in 1 .. 6 : b = OnNumber("K3", "RESULT", "TRIPLE_SPECIFIC", f)
  BY <1>2 DEF OnNumber, Bet, Selected, Exact
<1>3. CASE \E t \in {"TRIPLE_ANY", "DOUBLE_ANY", "ALL_DIFFERENT", "CONSECUTIVE"} : b = Bet("K3", "RESULT", t)
  <2>1. PICK t \in {"TRIPLE_ANY", "DOUBLE_ANY", "ALL_DIFFERENT", "CONSECUTIVE"} : b = Bet("K3", "RESULT", t)
    BY <1>3
  <2>2. b.group = "" /\ b.type = t
    BY <2>1 DEF Bet
  <2> QED BY <2>2 DEF Selected, Exact
<1>4. CASE \E g \in {"BIG", "SMALL", "ODD", "EVEN"} : b = OnGroup("K3", "RESULT", g, g)
  BY <1>4 DEF OnGroup, Bet
<1>5. CASE \E ds : b = OnDice("DOUBLE_SPECIFIC", ds) \/ b = OnDice("TWO_NUMBERS", ds)
  BY <1>5 DEF OnDice, Bet, Selected, Exact
<1> QED BY <1>1, <1>2, <1>3, <1>4, <1>5 DEF K3Bets

LEMMA LookedAtMoto ==
  ASSUME NEW b \in MotoBets
  PROVE  /\ b.game = "MOTO" /\ b.at \in Races
         /\ \/ b.type = "POSITION" /\ b.number \in 1 .. 10 /\ b.group = ""
            \/ b.type = "ODD_EVEN" /\ b.group \in {"ODD", "EVEN"}
            \/ b.type = "BIG_SMALL" /\ b.group \in {"BIG", "SMALL"}
<1>1. PICK p \in Races :
        \/ \E n \in 1 .. 10 : b = OnNumber("MOTO", p, "POSITION", n)
        \/ \E g \in {"ODD", "EVEN"} : b = OnGroup("MOTO", p, "ODD_EVEN", g)
        \/ \E g \in {"BIG", "SMALL"} : b = OnGroup("MOTO", p, "BIG_SMALL", g)
  BY DEF MotoBets
<1> QED BY <1>1 DEF OnNumber, OnGroup, Bet

LEMMA LookedAtFiveD ==
  ASSUME NEW b \in FiveDBets
  PROVE  /\ b.game = "5D" /\ b.at \in Digits \cup {"SUM"}
         /\ \/ b.type = "EXACT_NUMBER" /\ b.at \in Digits /\ b.number \in 0 .. 9 /\ b.group = ""
            \/ b.type = "SUM_EXACT" /\ b.at = "SUM" /\ b.number \in 0 .. 45 /\ b.group = ""
            \/ b.type = b.group /\ b.group \in FiveDGroups
<1>1. CASE \E d \in Digits : \E n \in WingoNumbers : b = OnNumber("5D", d, "EXACT_NUMBER", n)
  BY <1>1 DEF OnNumber, Bet, WingoNumbers
<1>2. CASE \E d \in Digits : \E g \in FiveDGroups : b = OnGroup("5D", d, g, g)
  BY <1>2 DEF OnGroup, Bet
<1>3. CASE \E n \in 0 .. 45 : b = OnNumber("5D", "SUM", "SUM_EXACT", n)
  BY <1>3 DEF OnNumber, Bet
<1>4. CASE \E g \in FiveDGroups : b = OnGroup("5D", "SUM", g, g)
  BY <1>4 DEF OnGroup, Bet
<1>5. \/ \E d \in Digits : \E n \in WingoNumbers : b = OnNumber("5D", d, "EXACT_NUMBER", n)
      \/ \E d \in Digits : \E g \in FiveDGroups : b = OnGroup("5D", d, g, g)
      \/ \E n \in 0 .. 45 : b = OnNumber("5D", "SUM", "SUM_EXACT", n)
      \/ \E g \in FiveDGroups : b = OnGroup("5D", "SUM", g, g)
  <2>1. CASE b \in UNION {{OnNumber("5D", d, "EXACT_NUMBER", n) : n \in WingoNumbers}
                           \cup {OnGroup("5D", d, g, g) : g \in FiveDGroups} : d \in Digits}
    <3>1. PICK d \in Digits : b \in {OnNumber("5D", d, "EXACT_NUMBER", n) : n \in WingoNumbers}
                                      \cup {OnGroup("5D", d, g, g) : g \in FiveDGroups}
      BY <2>1
    <3> QED BY <3>1
  <2>2. CASE b \in {OnNumber("5D", "SUM", "SUM_EXACT", n) : n \in 0 .. 45}
    BY <2>2
  <2>3. CASE b \in {OnGroup("5D", "SUM", g, g) : g \in FiveDGroups}
    BY <2>3
  <2> QED BY <2>1, <2>2, <2>3, Zenon DEF FiveDBets
<1> QED BY <1>1, <1>2, <1>3, <1>4, <1>5

LEMMA GroupsHaveNoNumber ==
  ASSUME NEW b \in K3Bets, b.group \in {"BIG", "SMALL", "ODD", "EVEN"}
  PROVE  b.number = NoNumber
<1>1. PICK g : b = OnGroup("K3", "RESULT", g, g)
  <2>1. ~\E n, t : b = OnNumber("K3", "RESULT", t, n)
    BY DEF OnNumber, Bet
  <2>2. ~\E ds, t : b = OnDice(t, ds)
    BY DEF OnDice, Bet
  <2>3. ASSUME NEW t, b = Bet("K3", "RESULT", t) PROVE FALSE
    <3>1. b.group = ""
      BY <2>3 DEF Bet
    <3> QED BY <3>1
  <2> QED BY <2>1, <2>2, <2>3 DEF K3Bets
<1> QED BY <1>1 DEF OnGroup, Bet

\* A roll of the dice is a triple when the three are the same.
LEMMA TripleIs ==
  ASSUME NEW r \in K3Results
  PROVE  IsTriple(r) <=> (r[1] = r[2] /\ r[2] = r[3])
<1>1. Faces(r) = {r[1], r[2], r[3]}
  BY DEF K3Results, Faces
<1>2. IsFiniteSet(Faces(r))
  <2>1. Faces(r) = ({r[1]} \cup {r[2]}) \cup {r[3]}
    BY <1>1
  <2>2. IsFiniteSet({r[1]}) /\ IsFiniteSet({r[2]}) /\ IsFiniteSet({r[3]})
    BY FS_Singleton
  <2>3. IsFiniteSet({r[1]} \cup {r[2]})
    BY <2>2, FS_Union
  <2> QED BY <2>1, <2>2, <2>3, FS_Union
<1>3. Cardinality(Faces(r)) = 1 <=> \E x : Faces(r) = {x}
  BY <1>2, FS_Singleton
<1> QED BY <1>1, <1>3 DEF IsTriple

\* What the bets of K3 that the rules look at win on.
LEMMA K3WinsIs ==
  ASSUME NEW b, NEW r
  PROVE  /\ b.type = "SUM" => (K3Wins(b, r) <=> b.number = DiceSum(r))
         /\ b.type = "BIG" => (K3Wins(b, r) <=> ~IsTriple(r) /\ DiceSum(r) >= 11)
         /\ b.type = "SMALL" => (K3Wins(b, r) <=> ~IsTriple(r) /\ DiceSum(r) <= 10)
         /\ b.type = "ODD" => (K3Wins(b, r) <=> DiceSum(r) % 2 = 1)
         /\ b.type = "EVEN" => (K3Wins(b, r) <=> DiceSum(r) % 2 = 0)
<1>1. CASE b.type = "SUM"
  BY <1>1 DEF K3Wins
<1>2. CASE b.type = "BIG"
  BY <1>2 DEF K3Wins
<1>3. CASE b.type = "SMALL"
  BY <1>3 DEF K3Wins
<1>4. CASE b.type = "ODD"
  BY <1>4 DEF K3Wins
<1>5. CASE b.type = "EVEN"
  BY <1>5 DEF K3Wins
<1> QED BY <1>1, <1>2, <1>3, <1>4, <1>5

\* A bet wins on the results whose number it covers by the rules; only K3's big and
\* small lose on triples besides.
WinsAsCovered(b, r) ==
  /\ ValueAt(b, r) \in Least(b) .. Greatest(b)
  /\ Wins(b, r) <=> (Covers(b, ValueAt(b, r)) /\ ~(LosesOnTriples(b) /\ IsTriple(r)))

LEMMA WingoWinsAsCovered ==
  ASSUME NEW b \in WingoBets, NEW r \in ResultsOf["WINGO"]
  PROVE  WinsAsCovered(b, r)
<1>1. r \in 0 .. 9
  BY DEF ResultsOf, WingoNumbers
<1>2. b.game = "WINGO" /\ ValueAt(b, r) = r /\ Least(b) = 0 /\ Greatest(b) = 9 /\ HighFrom(b) = 5 /\ ~LosesOnTriples(b)
  BY LookedAtWingo DEF ValueAt, Least, Greatest, HighFrom, LosesOnTriples
<1>3. Wins(b, r) = WingoWins(b, r)
  BY <1>2 DEF Wins
<1>4. CASE b.type = "NUMBER" /\ b.number \in 0 .. 9
  BY <1>1, <1>2, <1>3, <1>4 DEF WinsAsCovered, Covers, Exact, WingoWins
<1>5. CASE b.type = "COLOR" /\ b.group \in {"RED", "GREEN", "VIOLET"}
  BY <1>1, <1>2, <1>3, <1>5, CoversIs DEF WinsAsCovered, Covers, Exact, WingoWins, ColorOf, Special
<1>6. CASE b.type = "SIZE" /\ b.group \in {"BIG", "SMALL"}
  BY <1>1, <1>2, <1>3, <1>6, CoversIs DEF WinsAsCovered, Covers, Exact, WingoWins, SizeOf
<1> QED BY <1>4, <1>5, <1>6, LookedAtWingo

LEMMA K3WinsAsCovered ==
  ASSUME NEW b \in K3Bets, Selected(b), NEW r \in ResultsOf["K3"]
  PROVE  WinsAsCovered(b, r)
<1>1. r \in K3Results /\ r[1] \in 1 .. 6 /\ r[2] \in 1 .. 6 /\ r[3] \in 1 .. 6
  BY DEF ResultsOf, K3Results
<1>2. DiceSum(r) \in 3 .. 18
  BY <1>1 DEF DiceSum
<1>3. b.game = "K3" /\ ValueAt(b, r) = DiceSum(r) /\ Least(b) = 3 /\ Greatest(b) = 18 /\ HighFrom(b) = 11
  BY LookedAtK3 DEF ValueAt, Least, Greatest, HighFrom
<1>4. Wins(b, r) = K3Wins(b, r)
  BY <1>3 DEF Wins
<1>5. CASE b.type = "SUM" /\ b.number \in 3 .. 18 /\ b.group = ""
  BY <1>2, <1>3, <1>4, <1>5, K3WinsIs DEF WinsAsCovered, Covers, Exact, LosesOnTriples
<1>6. CASE b.type = b.group /\ b.group \in {"BIG", "SMALL"}
  BY <1>2, <1>3, <1>4, <1>6, CoversIs, K3WinsIs DEF WinsAsCovered, Covers, Exact, LosesOnTriples
<1>7. CASE b.type = b.group /\ b.group \in {"ODD", "EVEN"}
  BY <1>2, <1>3, <1>4, <1>7, CoversIs, K3WinsIs DEF WinsAsCovered, Covers, Exact, LosesOnTriples
<1> QED BY <1>5, <1>6, <1>7, LookedAtK3

LEMMA MotoWinsAsCovered ==
  ASSUME NEW b \in MotoBets, NEW r \in ResultsOf["MOTO"]
  PROVE  WinsAsCovered(b, r)
<1>1. r[b.at] \in 1 .. 10
  BY LookedAtMoto DEF ResultsOf, MotoResults
<1>2. b.game = "MOTO" /\ ValueAt(b, r) = r[b.at] /\ Least(b) = 1 /\ Greatest(b) = 10 /\ HighFrom(b) = 6 /\ ~LosesOnTriples(b)
  BY LookedAtMoto DEF ValueAt, Least, Greatest, HighFrom, LosesOnTriples
<1>3. Wins(b, r) = MotoWins(b, r)
  BY <1>2 DEF Wins
<1>4. CASE b.type = "POSITION" /\ b.number \in 1 .. 10
  BY <1>1, <1>2, <1>3, <1>4 DEF WinsAsCovered, Covers, Exact, MotoWins
<1>5. CASE b.type = "ODD_EVEN" /\ b.group \in {"ODD", "EVEN"}
  BY <1>1, <1>2, <1>3, <1>5, CoversIs DEF WinsAsCovered, Covers, Exact, MotoWins
<1>6. CASE b.type = "BIG_SMALL" /\ b.group \in {"BIG", "SMALL"}
  BY <1>1, <1>2, <1>3, <1>6, CoversIs DEF WinsAsCovered, Covers, Exact, MotoWins
<1> QED BY <1>4, <1>5, <1>6, LookedAtMoto

LEMMA FiveDWinsAsCovered ==
  ASSUME NEW b \in FiveDBets, NEW r \in ResultsOf["5D"]
  PROVE  WinsAsCovered(b, r)
<1>1. \A d \in Digits : r[d] \in 0 .. 9
  BY FiveDAssumption DEF ResultsOf, WingoNumbers
<1>2. FiveDSum(r) \in 0 .. 45
  BY <1>1 DEF FiveDSum, Digits
<1>3. b.game = "5D" /\ ~LosesOnTriples(b) /\ Wins(b, r) = FiveDWins(b, r)
  BY LookedAtFiveD DEF LosesOnTriples, Wins
<1> DEFINE low == IF b.at = "SUM" THEN 22 ELSE 4
           value == IF b.at = "SUM" THEN FiveDSum(r) ELSE r[b.at]
<1>4. ValueAt(b, r) = value /\ HighFrom(b) = low + 1 /\ Least(b) = 0 /\ Greatest(b) = (IF b.at = "SUM" THEN 45 ELSE 9)
  BY <1>3 DEF ValueAt, Least, Greatest, HighFrom
<1>5. value \in Least(b) .. Greatest(b) /\ value \in Int
  <2>1. CASE b.at = "SUM"
    BY <1>2, <1>4, <2>1
  <2>2. CASE b.at \in Digits /\ b.at # "SUM"
    BY <1>1, <1>4, <2>2
  <2> QED BY <2>1, <2>2, LookedAtFiveD
<1>6. /\ b.type \in {"EXACT_NUMBER", "SUM_EXACT"} => (FiveDWins(b, r) <=> b.number = value)
      /\ b.type = "LOW" => (FiveDWins(b, r) <=> value <= low)
      /\ b.type = "HIGH" => (FiveDWins(b, r) <=> value > low)
      /\ b.type = "ODD" => (FiveDWins(b, r) <=> value % 2 = 1)
      /\ b.type = "EVEN" => (FiveDWins(b, r) <=> value % 2 = 0)
  <2>1. CASE b.type \in {"EXACT_NUMBER", "SUM_EXACT"}
    BY <2>1, <1>5 DEF FiveDWins
  <2>2. CASE b.type = "LOW"
    BY <2>2, <1>5 DEF FiveDWins
  <2>3. CASE b.type = "HIGH"
    BY <2>3, <1>5 DEF FiveDWins
  <2>4. CASE b.type = "ODD"
    BY <2>4, <1>5 DEF FiveDWins
  <2>5. CASE b.type = "EVEN"
    BY <2>5, <1>5 DEF FiveDWins
  <2> QED BY <2>1, <2>2, <2>3, <2>4, <2>5
<1> HIDE DEF value
<1>7. CASE b.type \in {"EXACT_NUMBER", "SUM_EXACT"} /\ b.number \in Int
  BY <1>3, <1>4, <1>5, <1>6, <1>7 DEF WinsAsCovered, Covers, Exact
<1>8. CASE b.type = b.group /\ b.group \in {"LOW", "HIGH"}
  BY <1>3, <1>4, <1>5, <1>6, <1>8, CoversIs DEF WinsAsCovered, Covers, Exact
<1>9. CASE b.type = b.group /\ b.group \in {"ODD", "EVEN"}
  BY <1>3, <1>4, <1>5, <1>6, <1>9, CoversIs DEF WinsAsCovered, Covers, Exact
<1>10. \/ b.type \in {"EXACT_NUMBER", "SUM_EXACT"} /\ b.number \in Int
       \/ b.type = b.group /\ b.group \in {"LOW", "HIGH", "ODD", "EVEN"}
  <2>1. CASE b.type = "EXACT_NUMBER" /\ b.number \in 0 .. 9
    BY <2>1
  <2>2. CASE b.type = "SUM_EXACT" /\ b.number \in 0 .. 45
    BY <2>2
  <2>3. CASE b.type = b.group /\ b.group \in FiveDGroups
    BY <2>3 DEF FiveDGroups
  <2> QED BY <2>1, <2>2, <2>3, LookedAtFiveD
<1> QED BY <1>7, <1>8, <1>9, <1>10

LEMMA WinsCovered ==
  ASSUME NEW b \in AllBets, Selected(b), NEW r \in ResultsOf[b.game]
  PROVE  WinsAsCovered(b, r)
<1>1. CASE b \in WingoBets
  BY <1>1, WingoWinsAsCovered, LookedAtWingo
<1>2. CASE b \in K3Bets
  BY <1>2, K3WinsAsCovered, LookedAtK3
<1>3. CASE b \in MotoBets
  BY <1>3, MotoWinsAsCovered, LookedAtMoto
<1>4. CASE b \in FiveDBets
  BY <1>4, FiveDWinsAsCovered, LookedAtFiveD
<1> QED BY <1>1, <1>2, <1>3, <1>4 DEF AllBets

\* Every number of a place is drawn, the numbers of K3 that need no triple without one.
LEMMA RollOf ==
  ASSUME NEW n \in 3 .. 18
  PROVE  \E r \in K3Results : DiceSum(r) = n /\ (n \in 4 .. 17 => ~IsTriple(r))
<1> DEFINE Roll(x, y, z) == [i \in 1 .. 3 |-> IF i = 1 THEN x ELSE IF i = 2 THEN y ELSE z]
<1>1. ASSUME NEW x \in 1 .. 6, NEW y \in 1 .. 6, NEW z \in 1 .. 6
      PROVE  /\ Roll(x, y, z) \in K3Results /\ DiceSum(Roll(x, y, z)) = x + y + z
             /\ ~(x = y /\ y = z) => ~IsTriple(Roll(x, y, z))
  <2>1. Roll(x, y, z) \in K3Results
    BY DEF K3Results
  <2>2. Roll(x, y, z)[1] = x /\ Roll(x, y, z)[2] = y /\ Roll(x, y, z)[3] = z
    OBVIOUS
  <2> QED BY <2>1, <2>2, TripleIs DEF DiceSum
<1> HIDE DEF Roll
<1>2. CASE n = 3
  <2>1. Roll(1, 1, 1) \in K3Results /\ DiceSum(Roll(1, 1, 1)) = 3
    BY <1>1
  <2> QED BY <1>2, <2>1
<1>3. CASE n \in 4 .. 8
  <2>1. n - 2 \in 1 .. 6 /\ n - 2 # 1 /\ 1 + 1 + (n - 2) = n
    BY <1>3
  <2> QED BY <1>1, <2>1
<1>4. CASE n \in 9 .. 13
  <2>1. n - 7 \in 1 .. 6 /\ 1 + 6 + (n - 7) = n
    BY <1>4
  <2> QED BY <1>1, <2>1
<1>5. CASE n \in 14 .. 17
  <2>1. n - 12 \in 1 .. 6 /\ n - 12 # 6 /\ 6 + 6 + (n - 12) = n
    BY <1>5
  <2> QED BY <1>1, <2>1
<1>6. CASE n = 18
  <2>1. Roll(6, 6, 6) \in K3Results /\ DiceSum(Roll(6, 6, 6)) = 18
    BY <1>1
  <2> QED BY <1>6, <2>1
<1> QED BY <1>2, <1>3, <1>4, <1>5, <1>6

LEMMA RaceOf ==
  ASSUME NEW p \in Races, NEW n \in 1 .. 10
  PROVE  \E r \in MotoResults : r[p] = n
<1> DEFINE After(k) == IF k = 10 THEN 1 ELSE k + 1
<1>1. After(n) \in 1 .. 10 /\ After(After(n)) \in 1 .. 10 /\ After(n) # n /\ After(After(n)) # n
      /\ After(After(n)) # After(n)
  OBVIOUS
<1>2. PICK y \in 1 .. 10 : \E z \in 1 .. 10 : y # n /\ z # n /\ y # z
  BY <1>1
<1>3. PICK z \in 1 .. 10 : y # n /\ z # n /\ y # z
  BY <1>2
<1>4. \E s, t : Races = {p, s, t} /\ p # s /\ p # t /\ s # t
  <2>1. CASE p = "FIRST"
    BY <2>1 DEF Races
  <2>2. CASE p = "SECOND"
    <3>1. Races = {p, "FIRST", "THIRD"}
      BY <2>2 DEF Races
    <3> QED BY <2>2, <3>1
  <2>3. CASE p = "THIRD"
    <3>1. Races = {p, "FIRST", "SECOND"}
      BY <2>3 DEF Races
    <3> QED BY <2>3, <3>1
  <2> QED BY <2>1, <2>2, <2>3 DEF Races
<1>5. PICK s, t : Races = {p, s, t} /\ p # s /\ p # t /\ s # t
  BY <1>4
<1> DEFINE r == [q \in Races |-> IF q = p THEN n ELSE IF q = s THEN y ELSE z]
<1>6. r \in [Races -> 1 .. 10] /\ r[p] = n /\ r[s] = y /\ r[t] = z
  BY <1>5
<1> HIDE DEF r
<1>7. r \in MotoResults
  BY <1>3, <1>5, <1>6 DEF MotoResults
<1> QED BY <1>6, <1>7

LEMMA SampleIn ==
  ASSUME NEW ends \in [Digits -> {0, 9}], NEW d \in Digits, NEW n \in 0 .. 9
  PROVE  [ends EXCEPT ![d] = n] \in FiveDResults
<1> DEFINE r == [ends EXCEPT ![d] = n]
           s == [ends |-> ends, digit |-> d, n |-> n]
<1>1. s \in [ends : [Digits -> {0, 9}], digit : Digits, n : WingoNumbers]
  BY DEF WingoNumbers
<1>2. s.ends = ends /\ s.digit = d /\ s.n = n
  OBVIOUS
<1> HIDE DEF s
<1>3. [s.ends EXCEPT ![s.digit] = s.n] \in FiveDSamples
  BY <1>1 DEF FiveDSamples
<1> QED BY <1>2, <1>3, FiveDAssumption DEF r

LEMMA DigitsOf ==
  ASSUME NEW d \in Digits, NEW n \in 0 .. 9
  PROVE  \E r \in FiveDResults : r[d] = n
<1>1. PICK ends \in [Digits -> {0, 9}] : ends = [e \in Digits |-> 0]
  OBVIOUS
<1>2. [ends EXCEPT ![d] = n] \in FiveDResults
  BY SampleIn
<1>3. [ends EXCEPT ![d] = n][d] = n
  BY <1>1
<1> QED BY <1>2, <1>3

LEMMA SumOf ==
  ASSUME NEW n \in 0 .. 45
  PROVE  \E r \in FiveDResults : FiveDSum(r) = n
<1> DEFINE Ends(S) == [e \in Digits |-> IF e \in S THEN 9 ELSE 0]
           Sample(S, d, m) == [Ends(S) EXCEPT ![d] = m]
<1>1. ASSUME NEW S, NEW d \in Digits, NEW m \in 0 .. 9, FiveDSum(Sample(S, d, m)) = n
      PROVE  \E r \in FiveDResults : FiveDSum(r) = n
  <2>1. Ends(S) \in [Digits -> {0, 9}]
    OBVIOUS
  <2> HIDE DEF Ends
  <2>2. Sample(S, d, m) \in FiveDResults
    BY <2>1, SampleIn
  <2> QED BY <1>1, <2>2
<1>2. CASE n \in 0 .. 9
  <2>1. "A" \in Digits /\ FiveDSum(Sample({}, "A", n)) = n
    BY <1>2 DEF FiveDSum, Digits
  <2> HIDE DEF Sample
  <2> QED BY <1>1, <1>2, <2>1
<1>3. CASE n \in 10 .. 18
  <2>1. n - 9 \in 0 .. 9
    BY <1>3
  <2>2. FiveDSum(Sample({"A"}, "B", n - 9)) = n
    BY <1>3 DEF FiveDSum, Digits
  <2> QED BY <1>1, <2>1, <2>2 DEF Digits
<1>4. CASE n \in 19 .. 27
  <2>1. n - 18 \in 0 .. 9
    BY <1>4
  <2>2. FiveDSum(Sample({"A", "B"}, "C", n - 18)) = n
    BY <1>4 DEF FiveDSum, Digits
  <2> QED BY <1>1, <2>1, <2>2 DEF Digits
<1>5. CASE n \in 28 .. 36
  <2>1. n - 27 \in 0 .. 9
    BY <1>5
  <2>2. FiveDSum(Sample({"A", "B", "C"}, "D", n - 27)) = n
    BY <1>5 DEF FiveDSum, Digits
  <2> QED BY <1>1, <2>1, <2>2 DEF Digits
<1>6. CASE n \in 37 .. 45
  <2>1. n - 36 \in 0 .. 9
    BY <1>6
  <2>2. FiveDSum(Sample({"A", "B", "C", "D"}, "E", n - 36)) = n
    BY <1>6 DEF FiveDSum, Digits
  <2> QED BY <1>1, <2>1, <2>2 DEF Digits
<1> QED BY <1>2, <1>3, <1>4, <1>5, <1>6

\* The place of a bet, and the numbers that are drawn there.
LEMMA NumbersDrawn ==
  ASSUME NEW b \in AllBets, Selected(b), NEW n \in Least(b) .. Greatest(b)
  PROVE  \E r \in ResultsOf[b.game] :
           ValueAt(b, r) = n /\ ((b.game = "K3" /\ n \in 4 .. 17) => ~IsTriple(r))
<1>1. CASE b \in WingoBets
  <2>1. b.game = "WINGO" /\ n \in ResultsOf["WINGO"] /\ ValueAt(b, n) = n
    BY <1>1, LookedAtWingo DEF Least, Greatest, ResultsOf, WingoNumbers, ValueAt
  <2> QED BY <2>1
<1>2. CASE b \in K3Bets
  <2>1. b.game = "K3" /\ ResultsOf["K3"] = K3Results /\ \A r : ValueAt(b, r) = DiceSum(r)
    BY <1>2, LookedAtK3 DEF ResultsOf, ValueAt
  <2>2. n \in 3 .. 18
    BY <2>1 DEF Least, Greatest
  <2> QED BY <2>1, <2>2, RollOf
<1>3. CASE b \in MotoBets
  <2>1. b.game = "MOTO" /\ b.at \in Races /\ ResultsOf["MOTO"] = MotoResults /\ \A r : ValueAt(b, r) = r[b.at]
    BY <1>3, LookedAtMoto DEF ResultsOf, ValueAt
  <2>2. n \in 1 .. 10
    BY <2>1 DEF Least, Greatest
  <2> QED BY <2>1, <2>2, RaceOf
<1>4. CASE b \in FiveDBets
  <2>1. b.game = "5D" /\ ResultsOf["5D"] = FiveDResults /\ Least(b) = 0
        /\ \A r : ValueAt(b, r) = IF b.at = "SUM" THEN FiveDSum(r) ELSE r[b.at]
    BY <1>4, LookedAtFiveD DEF ResultsOf, ValueAt, Least
  <2>2. CASE b.at = "SUM"
    <3>1. n \in 0 .. 45
      BY <2>1, <2>2 DEF Greatest
    <3> QED BY <2>1, <2>2, <3>1, SumOf
  <2>3. CASE b.at \in Digits /\ b.at # "SUM"
    <3>1. n \in 0 .. 9
      BY <2>1, <2>3 DEF Greatest
    <3> QED BY <2>1, <2>3, <3>1, DigitsOf
  <2> QED BY <1>4, <2>2, <2>3, LookedAtFiveD
<1> QED BY <1>1, <1>2, <1>3, <1>4 DEF AllBets

\* Two bets of one place look at the same numbers.
LEMMA OnePlace ==
  ASSUME NEW a, NEW b, a.game = b.game, a.at = b.at
  PROVE  /\ Least(a) = Least(b) /\ Greatest(a) = Greatest(b) /\ HighFrom(a) = HighFrom(b)
         /\ \A r : ValueAt(a, r) = ValueAt(b, r)
  BY DEF Least, Greatest, HighFrom, ValueAt

\* The winning results of a bet that is looked at.
LEMMA WinningIs ==
  ASSUME NEW b \in AllBets, Selected(b), NEW r
  PROVE  r \in WinningResults[b] <=>
           /\ r \in ResultsOf[b.game] /\ Covers(b, ValueAt(b, r))
           /\ ~(LosesOnTriples(b) /\ IsTriple(r))
<1>1. r \in WinningResults[b] <=> r \in ResultsOf[b.game] /\ Wins(b, r)
  BY DEF WinningResults
<1> QED BY <1>1, WinsCovered DEF WinsAsCovered

\* The numbers of each place, and from where on they are high.
LEMMA PlaceIs ==
  ASSUME NEW b
  PROVE  /\ b.game = "WINGO" => Least(b) = 0 /\ Greatest(b) = 9 /\ HighFrom(b) = 5
         /\ b.game = "K3" => Least(b) = 3 /\ Greatest(b) = 18 /\ HighFrom(b) = 11
         /\ b.game = "MOTO" => Least(b) = 1 /\ Greatest(b) = 10 /\ HighFrom(b) = 6
         /\ b.game = "5D" => Least(b) = 0
         /\ b.game = "5D" /\ b.at = "SUM" => Greatest(b) = 45 /\ HighFrom(b) = 23
         /\ b.game = "5D" /\ b.at # "SUM" => Greatest(b) = 9 /\ HighFrom(b) = 5
  BY DEF Least, Greatest, HighFrom

\* What the groups and the numbers are, for any game.
LEMMA LookedAt ==
  ASSUME NEW b \in AllBets, Selected(b)
  PROVE  /\ HighFrom(b) \in Least(b) + 3 .. Greatest(b) - 3 /\ Least(b) \in Nat /\ Greatest(b) \in Nat
         /\ Exact(b) => b.number \in Least(b) .. Greatest(b) /\ b.group = ""
         /\ ~Exact(b) => b.group \in {"RED", "GREEN", "VIOLET", "BIG", "SMALL", "ODD", "EVEN", "LOW", "HIGH"}
<1>1. CASE b \in WingoBets
  <2>1. Least(b) = 0 /\ Greatest(b) = 9 /\ HighFrom(b) = 5
    BY <1>1, LookedAtWingo, PlaceIs
  <2>2. HighFrom(b) \in Least(b) + 3 .. Greatest(b) - 3 /\ Least(b) \in Nat /\ Greatest(b) \in Nat
    BY <2>1
  <2>3. Exact(b) => b.number \in Least(b) .. Greatest(b) /\ b.group = ""
    BY <1>1, <2>1, LookedAtWingo DEF Exact
  <2>4. ~Exact(b) => b.group \in {"RED", "GREEN", "VIOLET", "BIG", "SMALL", "ODD", "EVEN", "LOW", "HIGH"}
    BY <1>1, LookedAtWingo DEF Exact
  <2> QED BY <2>2, <2>3, <2>4
<1>2. CASE b \in K3Bets
  <2>1. Least(b) = 3 /\ Greatest(b) = 18 /\ HighFrom(b) = 11
    BY <1>2, LookedAtK3, PlaceIs
  <2>2. HighFrom(b) \in Least(b) + 3 .. Greatest(b) - 3 /\ Least(b) \in Nat /\ Greatest(b) \in Nat
    BY <2>1
  <2>3. Exact(b) => b.number \in Least(b) .. Greatest(b) /\ b.group = ""
    BY <1>2, <2>1, LookedAtK3 DEF Exact
  <2>4. ~Exact(b) => b.group \in {"RED", "GREEN", "VIOLET", "BIG", "SMALL", "ODD", "EVEN", "LOW", "HIGH"}
    BY <1>2, LookedAtK3 DEF Exact
  <2> QED BY <2>2, <2>3, <2>4
<1>3. CASE b \in MotoBets
  <2>1. Least(b) = 1 /\ Greatest(b) = 10 /\ HighFrom(b) = 6
    BY <1>3, LookedAtMoto, PlaceIs
  <2>2. HighFrom(b) \in Least(b) + 3 .. Greatest(b) - 3 /\ Least(b) \in Nat /\ Greatest(b) \in Nat
    BY <2>1
  <2>3. Exact(b) => b.number \in Least(b) .. Greatest(b) /\ b.group = ""
    BY <1>3, <2>1, LookedAtMoto DEF Exact
  <2>4. ~Exact(b) => b.group \in {"RED", "GREEN", "VIOLET", "BIG", "SMALL", "ODD", "EVEN", "LOW", "HIGH"}
    BY <1>3, LookedAtMoto DEF Exact
  <2> QED BY <2>2, <2>3, <2>4
<1>4. CASE b \in FiveDBets
  <2>1. b.game = "5D" /\ (b.at \in Digits => b.at # "SUM")
    BY <1>4, LookedAtFiveD DEF Digits
  <2>2. CASE b.type = "EXACT_NUMBER" /\ b.at \in Digits /\ b.number \in 0 .. 9 /\ b.group = ""
    <3>1. Least(b) = 0 /\ Greatest(b) = 9 /\ HighFrom(b) = 5
      BY <2>1, <2>2, PlaceIs
    <3>2. HighFrom(b) \in Least(b) + 3 .. Greatest(b) - 3 /\ Least(b) \in Nat /\ Greatest(b) \in Nat
      BY <3>1
    <3>3. Exact(b) /\ b.number \in Least(b) .. Greatest(b)
      BY <2>2, <3>1 DEF Exact
    <3> QED BY <2>2, <3>2, <3>3
  <2>3. CASE b.type = "SUM_EXACT" /\ b.at = "SUM" /\ b.number \in 0 .. 45 /\ b.group = ""
    <3>1. Least(b) = 0 /\ Greatest(b) = 45 /\ HighFrom(b) = 23
      BY <2>1, <2>3, PlaceIs
    <3>2. HighFrom(b) \in Least(b) + 3 .. Greatest(b) - 3 /\ Least(b) \in Nat /\ Greatest(b) \in Nat
      BY <3>1
    <3>3. Exact(b) /\ b.number \in Least(b) .. Greatest(b)
      BY <2>3, <3>1 DEF Exact
    <3> QED BY <2>3, <3>2, <3>3
  <2>4. CASE b.type = b.group /\ b.group \in FiveDGroups
    <3>1. HighFrom(b) \in Least(b) + 3 .. Greatest(b) - 3 /\ Least(b) \in Nat /\ Greatest(b) \in Nat
      <4>1. CASE b.at = "SUM"
        <5>1. Least(b) = 0 /\ Greatest(b) = 45 /\ HighFrom(b) = 23
          BY <2>1, <4>1, PlaceIs
        <5> QED BY <5>1
      <4>2. CASE b.at # "SUM"
        <5>1. Least(b) = 0 /\ Greatest(b) = 9 /\ HighFrom(b) = 5
          BY <2>1, <4>2, PlaceIs
        <5> QED BY <5>1
      <4> QED BY <4>1, <4>2
    <3> QED BY <2>4, <3>1 DEF Exact, FiveDGroups
  <2> QED BY <1>4, <2>2, <2>3, <2>4, LookedAtFiveD
<1> QED BY <1>1, <1>2, <1>3, <1>4 DEF AllBets

\* Which groups meet at one place.
LEMMA GroupsOfPlace ==
  ASSUME NEW a \in AllBets, NEW b \in AllBets, Selected(a), Selected(b), ~Exact(a), ~Exact(b),
         a.game = b.game, a.at = b.at
  PROVE  \/ a.game = "WINGO" /\ {a.group, b.group} \subseteq {"RED", "GREEN", "VIOLET", "BIG", "SMALL"}
         \/ a.game \in {"K3", "MOTO"} /\ {a.group, b.group} \subseteq {"BIG", "SMALL", "ODD", "EVEN"}
         \/ a.game = "5D" /\ {a.group, b.group} \subseteq {"LOW", "HIGH", "ODD", "EVEN"}
<1>1. ASSUME NEW x \in AllBets, Selected(x), ~Exact(x)
      PROVE  \/ x.game = "WINGO" /\ x.group \in {"RED", "GREEN", "VIOLET", "BIG", "SMALL"}
             \/ x.game \in {"K3", "MOTO"} /\ x.group \in {"BIG", "SMALL", "ODD", "EVEN"}
             \/ x.game = "5D" /\ x.group \in {"LOW", "HIGH", "ODD", "EVEN"}
  <2>1. CASE x \in WingoBets
    BY <1>1, <2>1, LookedAtWingo DEF Exact
  <2>2. CASE x \in K3Bets
    BY <1>1, <2>2, LookedAtK3 DEF Exact
  <2>3. CASE x \in MotoBets
    BY <1>1, <2>3, LookedAtMoto DEF Exact
  <2>4. CASE x \in FiveDBets
    BY <1>1, <2>4, LookedAtFiveD DEF Exact, FiveDGroups
  <2> QED BY <2>1, <2>2, <2>3, <2>4 DEF AllBets
<1> QED BY <1>1

\* Two groups of a place are opposite when no number is covered by both.
LEMMA GroupsMeet ==
  ASSUME NEW a \in AllBets, NEW b \in AllBets, Selected(a), Selected(b), ~Exact(a), ~Exact(b),
         a.game = b.game, a.at = b.at
  PROVE  /\ {a.group, b.group} \in OppositeGroups =>
              \A n \in Int : ~(CoversNumber(a, n) /\ CoversNumber(b, n))
         /\ {a.group, b.group} \notin OppositeGroups =>
              \E n \in Least(a) .. Greatest(a) :
                CoversNumber(a, n) /\ CoversNumber(b, n) /\ (a.game = "K3" => n \in 4 .. 17)
<1> DEFINE from == HighFrom(a)
           Both(n) == CoversNumber(a, n) /\ CoversNumber(b, n)
<1>1. from \in Int /\ HighFrom(b) = from
  <2>1. from \in Least(a) + 3 .. Greatest(a) - 3 /\ Least(a) \in Nat /\ Greatest(a) \in Nat
    BY LookedAt
  <2> QED BY <2>1, OnePlace
<1>2. ASSUME {a.group, b.group} \in OppositeGroups, NEW n \in Int PROVE ~Both(n)
  <2>1. {a.group, b.group} \in {{"RED", "GREEN"}, {"BIG", "SMALL"}, {"ODD", "EVEN"}, {"LOW", "HIGH"}}
    BY <1>2 DEF OppositeGroups
  <2>2. CASE {a.group, b.group} = {"RED", "GREEN"}
    BY <1>1, <2>2, CoversIs
  <2>3. CASE {a.group, b.group} = {"BIG", "SMALL"}
    BY <1>1, <2>3, CoversIs
  <2>4. CASE {a.group, b.group} = {"ODD", "EVEN"}
    BY <1>1, <2>4, CoversIs
  <2>5. CASE {a.group, b.group} = {"LOW", "HIGH"}
    BY <1>1, <2>5, CoversIs
  <2> QED BY <2>1, <2>2, <2>3, <2>4, <2>5
<1>3. ASSUME {a.group, b.group} \notin OppositeGroups
      PROVE  \E n \in Least(a) .. Greatest(a) : Both(n) /\ (a.game = "K3" => n \in 4 .. 17)
  <2>1. CASE a.game = "WINGO"
    <3>1. \/ {a.group, b.group} \subseteq {"RED", "VIOLET"} \/ {a.group, b.group} \subseteq {"GREEN", "VIOLET"}
          \/ {a.group, b.group} \subseteq {"BIG", "VIOLET"} \/ {a.group, b.group} \subseteq {"SMALL", "VIOLET"}
          \/ {a.group, b.group} \subseteq {"RED", "BIG"} \/ {a.group, b.group} \subseteq {"RED", "SMALL"}
          \/ {a.group, b.group} \subseteq {"GREEN", "BIG"} \/ {a.group, b.group} \subseteq {"GREEN", "SMALL"}
      BY <1>3, <2>1, GroupsOfPlace DEF OppositeGroups
    <3>2. from = 5 /\ Least(a) = 0 /\ Greatest(a) = 9
      BY <2>1, PlaceIs
    <3>3. Both(0) \/ Both(5) \/ Both(6) \/ Both(2) \/ Both(7) \/ Both(1)
      BY <1>1, <3>1, <3>2, CoversIs
    <3> QED BY <2>1, <3>2, <3>3
  <2>2. CASE a.game \in {"K3", "MOTO"}
    <3>1. \/ {a.group, b.group} \subseteq {"BIG", "ODD"} \/ {a.group, b.group} \subseteq {"BIG", "EVEN"}
          \/ {a.group, b.group} \subseteq {"SMALL", "ODD"} \/ {a.group, b.group} \subseteq {"SMALL", "EVEN"}
      BY <1>3, <2>2, GroupsOfPlace DEF OppositeGroups
    <3>2. CASE a.game = "K3"
      <4>1. from = 11 /\ Least(a) = 3 /\ Greatest(a) = 18
        BY <3>2, PlaceIs
      <4>2. Both(11) \/ Both(12) \/ Both(5) \/ Both(4)
        BY <1>1, <3>1, <4>1, CoversIs
      <4> QED BY <3>2, <4>1, <4>2
    <3>3. CASE a.game = "MOTO"
      <4>1. from = 6 /\ Least(a) = 1 /\ Greatest(a) = 10
        BY <3>3, PlaceIs
      <4>2. Both(7) \/ Both(6) \/ Both(1) \/ Both(2)
        BY <1>1, <3>1, <4>1, CoversIs
      <4> QED BY <3>3, <4>1, <4>2
    <3> QED BY <2>2, <3>2, <3>3
  <2>3. CASE a.game = "5D"
    <3>1. \/ {a.group, b.group} \subseteq {"HIGH", "ODD"} \/ {a.group, b.group} \subseteq {"HIGH", "EVEN"}
          \/ {a.group, b.group} \subseteq {"LOW", "ODD"} \/ {a.group, b.group} \subseteq {"LOW", "EVEN"}
      BY <1>3, <2>3, GroupsOfPlace DEF OppositeGroups
    <3>2. CASE a.at = "SUM"
      <4>1. from = 23 /\ Least(a) = 0 /\ Greatest(a) = 45
        BY <2>3, <3>2, PlaceIs
      <4>2. Both(23) \/ Both(24) \/ Both(1) \/ Both(0)
        BY <1>1, <3>1, <4>1, CoversIs
      <4> QED BY <2>3, <4>1, <4>2
    <3>3. CASE a.at # "SUM"
      <4>1. from = 5 /\ Least(a) = 0 /\ Greatest(a) = 9
        BY <2>3, <3>3, PlaceIs
      <4>2. Both(5) \/ Both(6) \/ Both(1) \/ Both(0)
        BY <1>1, <3>1, <4>1, CoversIs
      <4> QED BY <2>3, <4>1, <4>2
    <3> QED BY <3>2, <3>3
  <2> QED BY <2>1, <2>2, <2>3, GroupsOfPlace
<1> QED BY <1>2, <1>3

LEMMA TriplesCovered ==
  ASSUME NEW a, NEW b, OnlyByTriple(a, b)
  PROVE  CoversNumber(a, b.number)
<1>1. a.game = "K3" /\ ((a.group = "SMALL" /\ b.number = 3) \/ (a.group = "BIG" /\ b.number = 18))
  BY DEF OnlyByTriple
<1>2. HighFrom(a) = 11
  BY <1>1, PlaceIs
<1> QED BY <1>1, <1>2, CoversIs

\* A group and another bet of its place are an illegal pair when they cannot win
\* together, or when only a triple would tell.
LEMMA PairAsPaid ==
  ASSUME NEW a \in AllBets, NEW b \in AllBets, Selected(a), Selected(b), ~Exact(a),
         a.game = b.game, a.at = b.at
  PROVE  IsIllegalBetPair(a, b) <=>
           (~OnlyByTriple(a, b) /\ WinningResults[a] \cap WinningResults[b] = {})
<1> DEFINE Drawn(r) == ValueAt(a, r)
           Meet(r) == r \in WinningResults[a] /\ r \in WinningResults[b]
<1>1. \A r : Meet(r) <=>
        /\ r \in ResultsOf[a.game] /\ CoversNumber(a, Drawn(r)) /\ Covers(b, Drawn(r))
        /\ ~(LosesOnTriples(a) /\ IsTriple(r)) /\ ~(LosesOnTriples(b) /\ IsTriple(r))
  BY WinningIs, OnePlace DEF Covers
<1>2. WinningResults[a] \cap WinningResults[b] = {} <=> \A r : ~Meet(r)
  OBVIOUS
<1>3. \A r \in ResultsOf[a.game] : Drawn(r) \in Least(a) .. Greatest(a)
  BY WinsCovered DEF WinsAsCovered
<1>4. Least(a) \in Nat /\ Greatest(a) \in Nat
  BY LookedAt
<1>5. CASE ~Exact(b)
  <2>1. IsIllegalBetPair(a, b) <=> {a.group, b.group} \in OppositeGroups
    BY <1>5 DEF IsIllegalBetPair
  <2>2. ~OnlyByTriple(a, b)
    <3>1. CASE a.game = "K3"
      <4>1. b \in K3Bets
        BY <3>1, LookedAtWingo, LookedAtMoto, LookedAtFiveD DEF AllBets
      <4>2. b.type = b.group /\ b.group \in {"BIG", "SMALL", "ODD", "EVEN"}
        BY <1>5, <4>1, LookedAtK3 DEF Exact
      <4>3. b.number = NoNumber
        BY <4>1, <4>2, GroupsHaveNoNumber
      <4> QED BY <4>3 DEF OnlyByTriple, NoNumber
    <3> QED BY <3>1 DEF OnlyByTriple
  <2>3. CASE {a.group, b.group} \in OppositeGroups
    <3>1. ASSUME NEW r, Meet(r) PROVE FALSE
      <4>1. r \in ResultsOf[a.game] /\ CoversNumber(a, Drawn(r)) /\ CoversNumber(b, Drawn(r))
        BY <1>1, <1>5, <3>1 DEF Covers
      <4>2. Drawn(r) \in Int
        BY <1>3, <1>4, <4>1
      <4> HIDE DEF Drawn
      <4> QED BY <1>5, <2>3, <4>1, <4>2, GroupsMeet
    <3> QED BY <1>2, <2>1, <2>2, <2>3, <3>1
  <2>4. CASE {a.group, b.group} \notin OppositeGroups
    <3>1. PICK n \in Least(a) .. Greatest(a) :
            CoversNumber(a, n) /\ CoversNumber(b, n) /\ (a.game = "K3" => n \in 4 .. 17)
      BY <1>5, <2>4, GroupsMeet
    <3>2. PICK r \in ResultsOf[a.game] : Drawn(r) = n /\ ((a.game = "K3" /\ n \in 4 .. 17) => ~IsTriple(r))
      BY NumbersDrawn
    <3>3. Meet(r)
      BY <1>1, <1>5, <3>1, <3>2 DEF Covers, LosesOnTriples
    <3> QED BY <1>2, <2>1, <2>4, <3>3
  <2> QED BY <2>3, <2>4
<1>6. CASE Exact(b)
  <2>1. b.number \in Least(a) .. Greatest(a) /\ b.group = "" /\ \A n : Covers(b, n) <=> n = b.number
    BY <1>6, LookedAt, OnePlace DEF Covers
  <2>2. IsIllegalBetPair(a, b) <=> ~CoversNumber(a, b.number)
    BY <1>6 DEF IsIllegalBetPair
  <2>3. CASE ~CoversNumber(a, b.number)
    <3>1. \A r : ~Meet(r)
      BY <1>1, <2>1, <2>3
    <3>2. ~OnlyByTriple(a, b)
      <4> SUFFICES ASSUME OnlyByTriple(a, b) PROVE FALSE
        OBVIOUS
      <4> QED BY <2>3, TriplesCovered
    <3> QED BY <1>2, <2>2, <2>3, <3>1, <3>2
  <2>4. CASE CoversNumber(a, b.number) /\ ~OnlyByTriple(a, b)
    <3>1. PICK r \in ResultsOf[a.game] :
            Drawn(r) = b.number /\ ((a.game = "K3" /\ b.number \in 4 .. 17) => ~IsTriple(r))
      BY <2>1, NumbersDrawn
    <3>2. ~(LosesOnTriples(a) /\ IsTriple(r))
      <4> SUFFICES ASSUME LosesOnTriples(a), IsTriple(r) PROVE FALSE
        OBVIOUS
      <4>1. a.game = "K3" /\ a.group \in {"BIG", "SMALL"} /\ HighFrom(a) = 11 /\ b.number \in 3 .. 18
        BY <2>1, PlaceIs DEF LosesOnTriples
      <4>2. b.number \in {3, 18}
        BY <3>1, <4>1
      <4>3. a.group = "BIG" => b.number = 18
        BY <2>4, <4>1, <4>2, CoversIs
      <4>4. a.group = "SMALL" => b.number = 3
        BY <2>4, <4>1, <4>2, CoversIs
      <4> QED BY <2>4, <4>1, <4>3, <4>4 DEF OnlyByTriple
    <3>3. Meet(r)
      BY <1>1, <2>1, <2>4, <3>1, <3>2 DEF LosesOnTriples
    <3> QED BY <1>2, <2>2, <2>4, <3>3
  <2>5. CASE OnlyByTriple(a, b)
    <3> QED BY <2>2, <2>5, TriplesCovered
  <2> QED BY <2>3, <2>4, <2>5
<1> QED BY <1>5, <1>6

\* The verdict of the rules on the bets of a round, in terms of what they win.
LEMMA FoundAsPaid ==
  ASSUME NEW ps, OneGame(ps)
  PROVE  Found(ps) # {} <=> (Opposed(ps) \/ SureToWin(ps))
<1> DEFINE pairs == {{pair[1], pair[2]} : pair \in {p \in ps \X ps : IsIllegalBetPair(p[1], p[2])}}
<1>1. Found(ps) # {} <=> (pairs # {} \/ FullNumberCoverage(ps) # {})
  BY DEF Found
<1>2. pairs # {} <=> \E a, b \in ps : IsIllegalBetPair(a, b)
  <2>1. ASSUME NEW a \in ps, NEW b \in ps, IsIllegalBetPair(a, b) PROVE pairs # {}
    <3>1. <<a, b>> \in {p \in ps \X ps : IsIllegalBetPair(p[1], p[2])}
      BY <2>1
    <3> QED BY <3>1
  <2> QED BY <2>1
<1>3. (\E a, b \in ps : IsIllegalBetPair(a, b)) <=> Opposed(ps)
  <2>1. ASSUME NEW a \in ps, NEW b \in ps, IsIllegalBetPair(a, b) PROVE Opposed(ps)
    <3>1. Selected(a) /\ Selected(b) /\ a.at = b.at /\ a.game = b.game /\ a \in AllBets /\ b \in AllBets
      BY <2>1 DEF IsIllegalBetPair, OneGame
    <3>2. CASE ~Exact(a)
      <4>1. ~OnlyByTriple(a, b) /\ WinningResults[a] \cap WinningResults[b] = {}
        BY <2>1, <3>1, <3>2, PairAsPaid
      <4> QED BY <3>1, <3>2, <4>1 DEF Opposed
    <3>3. CASE Exact(a)
      <4>1. ~Exact(b) /\ IsIllegalBetPair(b, a)
        BY <2>1, <3>1, <3>3 DEF IsIllegalBetPair
      <4>2. ~OnlyByTriple(b, a) /\ WinningResults[b] \cap WinningResults[a] = {}
        BY <3>1, <4>1, PairAsPaid
      <4> QED BY <3>1, <4>1, <4>2 DEF Opposed
    <3> QED BY <3>2, <3>3
  <2>2. ASSUME Opposed(ps) PROVE \E a, b \in ps : IsIllegalBetPair(a, b)
    <3>1. PICK a \in ps, b \in ps :
            /\ Selected(a) /\ Selected(b) /\ a.at = b.at
            /\ ~Exact(a) /\ ~OnlyByTriple(a, b)
            /\ WinningResults[a] \cap WinningResults[b] = {}
      BY <2>2 DEF Opposed
    <3>2. a.game = b.game /\ a \in AllBets /\ b \in AllBets
      BY DEF OneGame
    <3>3. IsIllegalBetPair(a, b)
      BY <3>1, <3>2, PairAsPaid
    <3> QED BY <3>3
  <2> QED BY <2>1, <2>2
<1>4. FullNumberCoverage(ps) # {} <=> SureToWin(ps)
  <2>1. \A at : \A x \in ExactAt(ps, at) :
          x \in ps /\ x \in AllBets /\ Selected(x) /\ Exact(x) /\ x.at = at
    BY DEF ExactAt, Selected, OneGame
  <2>2. ASSUME NEW b \in ps, Exact(b)
        PROVE  {x.number : x \in ExactAt(ps, b.at)} = Least(b) .. Greatest(b) <=>
                 \A r \in ResultsOf[b.game] : \E x \in ExactAt(ps, b.at) : r \in WinningResults[x]
    <3> DEFINE c == ExactAt(ps, b.at)
    <3>1. b \in AllBets /\ Selected(b)
      BY <2>2 DEF OneGame, Selected
    <3>2. ASSUME NEW x \in c
          PROVE  /\ x.number \in Least(b) .. Greatest(b)
                 /\ \A r \in ResultsOf[b.game] : r \in WinningResults[x] <=> ValueAt(b, r) = x.number
      <4>1. x \in AllBets /\ Selected(x) /\ Exact(x) /\ x.at = b.at /\ x.game = b.game
        BY <2>1, <3>2 DEF OneGame
      <4>2. x.number \in Least(x) .. Greatest(x) /\ x.group = ""
        BY <4>1, LookedAt
      <4>3. Least(x) = Least(b) /\ Greatest(x) = Greatest(b) /\ \A r : ValueAt(x, r) = ValueAt(b, r)
        BY <4>1, OnePlace
      <4>4. \A r : r \in WinningResults[x] <=> r \in ResultsOf[b.game] /\ ValueAt(b, r) = x.number
        BY <4>1, <4>2, <4>3, WinningIs DEF Covers, LosesOnTriples
      <4> QED BY <4>2, <4>3, <4>4
    <3>3. \A r \in ResultsOf[b.game] : ValueAt(b, r) \in Least(b) .. Greatest(b)
      BY <3>1, WinsCovered DEF WinsAsCovered
    <3>4. \A n \in Least(b) .. Greatest(b) : \E r \in ResultsOf[b.game] : ValueAt(b, r) = n
      BY <3>1, NumbersDrawn
    <3> HIDE DEF c
    <3> DEFINE range == Least(b) .. Greatest(b)
    <3> HIDE DEF range
    <3>5. ASSUME {x.number : x \in c} = range, NEW r \in ResultsOf[b.game]
          PROVE  \E x \in c : r \in WinningResults[x]
      <4>1. ValueAt(b, r) \in {x.number : x \in c}
        BY <3>3, <3>5 DEF range
      <4> QED BY <3>2, <4>1
    <3>6. ASSUME \A r \in ResultsOf[b.game] : \E x \in c : r \in WinningResults[x]
          PROVE  {x.number : x \in c} = range
      <4>1. {x.number : x \in c} \subseteq range
        BY <3>2 DEF range
      <4>2. ASSUME NEW n \in range PROVE n \in {x.number : x \in c}
        <5>1. PICK r \in ResultsOf[b.game] : ValueAt(b, r) = n
          BY <3>4 DEF range
        <5>2. PICK x \in c : r \in WinningResults[x]
          BY <3>6
        <5> QED BY <3>2, <5>1, <5>2
      <4> QED BY <4>1, <4>2
    <3> QED BY <3>5, <3>6 DEF c, range
  <2>3. ASSUME FullNumberCoverage(ps) # {} PROVE SureToWin(ps)
    <3>1. PICK b \in ps : /\ ExactAt(ps, b.at) # {}
                          /\ \A x \in ExactAt(ps, b.at) : {y.number : y \in ExactAt(ps, b.at)} = Least(x) .. Greatest(x)
      BY <2>3 DEF FullNumberCoverage
    <3>2. PICK x \in ExactAt(ps, b.at) : TRUE
      BY <3>1
    <3>3. x \in ps /\ Exact(x) /\ x.at = b.at
      BY <2>1
    <3>4. {y.number : y \in ExactAt(ps, x.at)} = Least(x) .. Greatest(x)
      BY <3>1, <3>3
    <3> QED BY <2>2, <3>3, <3>4 DEF SureToWin
  <2>4. ASSUME SureToWin(ps) PROVE FullNumberCoverage(ps) # {}
    <3>1. PICK b \in ps :
            Exact(b) /\ \A r \in ResultsOf[b.game] : \E x \in ExactAt(ps, b.at) : r \in WinningResults[x]
      BY <2>4 DEF SureToWin
    <3>2. {x.number : x \in ExactAt(ps, b.at)} = Least(b) .. Greatest(b)
      BY <2>2, <3>1
    <3>3. \A x \in ExactAt(ps, b.at) : Least(x) = Least(b) /\ Greatest(x) = Greatest(b)
      BY <2>1, OnePlace DEF OneGame
    <3>4. b \in ExactAt(ps, b.at)
      BY <3>1 DEF ExactAt
    <3>5. ExactAt(ps, b.at) \in FullNumberCoverage(ps)
      BY <3>2, <3>3, <3>4 DEF FullNumberCoverage
    <3> QED BY <3>5
  <2> QED BY <2>3, <2>4
<1> QED BY <1>1, <1>2, <1>3, <1>4

\* More bets do not make a round legal.
LEMMA FoundGrows ==
  ASSUME NEW ps, NEW qs, OneGame(qs), ps \subseteq qs, Found(ps) # {}
  PROVE  Found(qs) # {}
<1>1. OneGame(ps)
  BY DEF OneGame
<1>2. Opposed(ps) \/ SureToWin(ps)
  BY <1>1, FoundAsPaid
<1>3. CASE Opposed(ps)
  BY <1>3, FoundAsPaid DEF Opposed
<1>4. CASE SureToWin(ps)
  <2>1. \A at : ExactAt(ps, at) \subseteq ExactAt(qs, at)
    BY DEF ExactAt
  <2>2. SureToWin(qs)
    BY <1>4, <2>1 DEF SureToWin
  <2> QED BY <2>2, FoundAsPaid
<1> QED BY <1>2, <1>3, <1>4

--------------------------------------------------------------------------------
(* A round is illegal when the rules find it so                             *)

\* The IllegalBet rows of a round, and what the rules would find in its bets.
FoundInv ==
  /\ illegal = [r \in Rounds |-> illegal[r]]
  /\ \A r \in Rounds : illegal[r] # {} <=> Found(placed[r]) # {}

LEMMA FoundStarts == Init => FoundInv
<1> SUFFICES ASSUME Init PROVE FoundInv
  OBVIOUS
<1>1. illegal = [r \in Rounds |-> {}] /\ placed = [r \in Rounds |-> Begun[market]] /\ market \in Markets
  BY DEF Init, WagerInit
<1>2. Found(Begun[market]) = {}
  BY <1>1, SpentAssumption
<1> QED BY <1>1, <1>2 DEF FoundInv

LEMMA PlacedIsOneGame ==
  ASSUME PlacedTyped, NEW r \in Rounds
  PROVE  OneGame(placed[r])
<1>1. placed[r] \subseteq market /\ market \in Markets
  BY DEF PlacedTyped
<1> QED BY <1>1, WagerAssumption DEF OneGame

LEMMA ApplyFinds ==
  ASSUME FoundInv, NEW r \in Rounds, NEW ps, NEW stake, ApplyPenalty(r, ps, stake)
  PROVE  illegal' = [illegal EXCEPT ![r] = @ \cup Found(ps)]
  BY DEF ApplyPenalty

\* The vendor's callbacks and the admin's correction leave the placed bets alone.
LEMMA VendorLeaves == VendorNext => UNCHANGED <<illegal, placed>>
<1> DEFINE Same == UNCHANGED <<illegal, placed>>
<1>1. ASSUME NEW call, Begin(call) PROVE Same
  BY <1>1 DEF Begin, wagerVars
<1>2. ASSUME NEW amount, OnlyBalance(amount) PROVE Same
  BY <1>2 DEF OnlyBalance, AccountRest
<1>3. ASSUME UNCHANGED wagerVars PROVE Same
  BY <1>3 DEF wagerVars
<1>4. ASSUME NEW c \in calls, AdminSet(c) PROVE Same
  BY <1>4 DEF AdminSet
<1>5. ASSUME NEW c \in calls, VendorStep(c) PROVE Same
  BY <1>2, <1>3, <1>4, <1>5
  DEF VendorStep, BetCreate, BetDebit, Credit, ResultMark, RollbackMark, CallDies
<1>6. ASSUME NEW t \in Tx, BetRead(t) \/ RollbackRead(t) PROVE Same
  BY <1>1, <1>6 DEF BetRead, RollbackRead
<1>7. ASSUME NEW t \in Tx, NEW w \in Results, ResultRead(t, w) PROVE Same
  BY <1>1, <1>7 DEF ResultRead
<1>8. ASSUME NEW a \in Corrections, AdminRead(a) PROVE Same
  BY <1>1, <1>8 DEF AdminRead
<1> QED
  BY <1>5, <1>6, <1>7, <1>8 DEF VendorNext

LEMMA FoundStep == PlacedTyped /\ PlacedTyped' /\ FoundInv /\ [Next]_walletVars => FoundInv'
<1> SUFFICES ASSUME PlacedTyped, PlacedTyped', FoundInv, [Next]_walletVars PROVE FoundInv'
  OBVIOUS
<1>1. CASE UNCHANGED <<illegal, placed>>
  BY <1>1 DEF FoundInv
<1>2. ASSUME NEW r \in Rounds, NEW p \in market, PlaceBet(r, p) PROVE FoundInv'
  <2>1. placed' = [placed EXCEPT ![r] = @ \cup {p}] /\ ApplyPenalty(r, placed'[r], 1)
    BY <1>2 DEF PlaceBet
  <2>2. illegal' = [illegal EXCEPT ![r] = @ \cup Found(placed'[r])]
    BY <2>1, ApplyFinds
  <2>3. placed[r] \subseteq placed'[r] /\ OneGame(placed'[r])
    <3>1. placed'[r] \subseteq market' /\ market' \in Markets /\ placed[r] \subseteq placed'[r]
      BY <2>1 DEF PlacedTyped
    <3> QED BY <3>1, WagerAssumption DEF OneGame
  <2>4. illegal'[r] # {} <=> Found(placed'[r]) # {}
    BY <2>2, <2>3, FoundGrows DEF FoundInv
  <2>5. \A s \in Rounds : s # r => illegal'[s] = illegal[s] /\ placed'[s] = placed[s]
    BY <2>1, <2>2 DEF FoundInv, PlacedTyped
  <2>6. illegal' = [s \in Rounds |-> illegal'[s]]
    BY <2>2 DEF FoundInv
  <2> QED BY <2>4, <2>5, <2>6 DEF FoundInv
<1>3. ASSUME NEW r \in Rounds, DetectSettled(r) PROVE FoundInv'
  <2>1. placed' = placed /\ ApplyPenalty(r, placed[r], 0)
    BY <1>3 DEF DetectSettled
  <2>2. illegal' = [illegal EXCEPT ![r] = @ \cup Found(placed[r])]
    BY <2>1, ApplyFinds
  <2>3. \A s \in Rounds : illegal'[s] # {} <=> Found(placed[s]) # {}
    BY <2>2 DEF FoundInv
  <2>4. illegal' = [s \in Rounds |-> illegal'[s]]
    BY <2>2 DEF FoundInv
  <2> QED BY <2>1, <2>3, <2>4 DEF FoundInv
<1>4. CASE AccountStep
  BY <1>1, <1>2, <1>3, <1>4 DEF AccountStep, AccountWrite, Recharge, Reward, DebitWithdrawal,
     SettleRound, AdminPenalty, ReadStatus, AdminPenaltyOff, AdminClearWager
<1>5. CASE World
  BY <1>1, <1>5 DEF World, WagerTick, ConfigWager
<1>6. CASE VendorNext
  BY <1>1, <1>6, VendorLeaves
<1>7. CASE UNCHANGED walletVars
  BY <1>1, <1>7 DEF walletVars, vars, wagerVars
<1> QED BY <1>4, <1>5, <1>6, <1>7 DEF Next

\* Whatever a player bets on and in whichever order, in any of the games, a round
\* counts as illegal exactly when two of the bets cannot win together, or when one of
\* the numbers wins whatever is drawn (rules.ts and the gameLogic.ts of each game).
THEOREM RulesAgreeWithPayouts == Spec => []IllegalAsPaid
<1>1. FoundInv /\ PlacedTyped => IllegalAsPaid
  BY FoundAsPaid, PlacedIsOneGame DEF FoundInv, IllegalAsPaid
<1>2. WalletInv => PlacedTyped
  BY DEF WalletInv
<1>3. WalletInv /\ FoundInv /\ [Next]_walletVars => FoundInv'
  BY <1>2, WalletStep, FoundStep DEF WalletInv
<1>4. Spec => []WalletInv
  BY WalletStarts, WalletStep, PTL DEF Spec
<1>5. Spec => []FoundInv
  BY <1>3, <1>4, FoundStarts, PTL DEF Spec
<1> QED BY <1>1, <1>2, <1>4, <1>5, PTL

================================================================================
