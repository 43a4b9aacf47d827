------------------------------- MODULE GameRules --------------------------------
(***************************************************************************)
(* The bets of the lottery games and when they win (gameLogic.ts of each   *)
(* game; TRX Win Go has Win Go's), what Win Go pays and how its WINNING    *)
(* algorithm picks the number, and which bets of one round the illegal-bet *)
(* rules oppose to each other (packages/illegal-bets/rules.ts).  The rules *)
(* decide from ranges and parities of their own, not from what wins.       *)
(*                                                                         *)
(* A bet is placed at a place of the result: "RESULT", one of the digits   *)
(* or the "SUM" of 5D, one of the three positions of a race.  Multipliers  *)
(* are in percent.                                                         *)
(***************************************************************************)
EXTENDS Integers, Sequences, FiniteSets, FiniteSetsExt

CONSTANT FiveDResults \* the draws of 5D, or enough of them

Digits == {"A", "B", "C", "D", "E"}
Races == {"FIRST", "SECOND", "THIRD"}

NoNumber == -1
Bet(game, at, type) ==
  [game |-> game, at |-> at, type |-> type, number |-> NoNumber, group |-> "", dice |-> <<>>]
OnNumber(game, at, type, n) == [Bet(game, at, type) EXCEPT !.number = n]
OnGroup(game, at, type, g) == [Bet(game, at, type) EXCEPT !.group = g]
OnDice(type, ds) == [Bet("K3", "RESULT", type) EXCEPT !.dice = ds]

--------------------------------------------------------------------------------
(* Win Go                                                                   *)

WingoNumbers == 0 .. 9
ColorOf(n) == IF n % 2 = 0 THEN "RED" ELSE "GREEN"
SizeOf(n) == IF n >= 5 THEN "BIG" ELSE "SMALL"
Special(n) == n \in {0, 5}

WingoBets ==
  {OnNumber("WINGO", "RESULT", "NUMBER", n) : n \in WingoNumbers}
    \cup {OnGroup("WINGO", "RESULT", "COLOR", g) : g \in {"RED", "GREEN", "VIOLET"}}
    \cup {OnGroup("WINGO", "RESULT", "SIZE", g) : g \in {"BIG", "SMALL"}}

WingoWins(b, n) ==
  \/ b.type = "NUMBER" /\ b.number = n
  \/ b.type = "COLOR" /\ (b.group = ColorOf(n) \/ (b.group = "VIOLET" /\ Special(n)))
  \/ b.type = "SIZE" /\ b.group = SizeOf(n)

WingoMultiplier(b, n) ==
  CASE b.type = "NUMBER" -> 900
    [] b.group = "VIOLET" -> 450
    [] b.group \in {"RED", "GREEN"} /\ Special(n) -> 150
    [] OTHER -> 200

\* What a draw would pay for bets, each with its contract, in hundredths.
Pays(s, n) == IF WingoWins(s.bet, n) THEN s.contract * WingoMultiplier(s.bet, n) ELSE 0
Payout(stakes, n) == SumFunctionOnSet([s \in stakes |-> Pays(s, n)], stakes)

\* calculateWinningNumber(): one of the numbers that pay least.
DearestNumbers(stakes) ==
  LET most == Max({Payout(stakes, n) : n \in WingoNumbers})
  IN {n \in WingoNumbers : Payout(stakes, n) = most}
CheapestNumbers(stakes) ==
  LET least == Min({Payout(stakes, n) : n \in WingoNumbers})
  IN {n \in WingoNumbers : Payout(stakes, n) = least}

--------------------------------------------------------------------------------
(* K3: three dice                                                           *)

K3Results == [1 .. 3 -> 1 .. 6]
DiceSum(r) == r[1] + r[2] + r[3]
Faces(ds) == {ds[i] : i \in DOMAIN ds}
FaceCounts(ds) == [f \in 1 .. 6 |-> Cardinality({i \in DOMAIN ds : ds[i] = f})]
IsTriple(r) == Cardinality(Faces(r)) = 1
IsDouble(r) == Cardinality(Faces(r)) = 2
IsAllDifferent(r) == Cardinality(Faces(r)) = 3
IsConsecutive(r) == \E f \in 1 .. 4 : Faces(r) = {f, f + 1, f + 2}

K3Bets ==
  {OnNumber("K3", "RESULT", "SUM", n) : n \in 3 .. 18}
    \cup {OnNumber("K3", "RESULT", "TRIPLE_SPECIFIC", f) : f \in 1 .. 6}
    \cup {Bet("K3", "RESULT", t) : t \in {"TRIPLE_ANY", "DOUBLE_ANY", "ALL_DIFFERENT", "CONSECUTIVE"}}
    \cup {OnGroup("K3", "RESULT", g, g) : g \in {"BIG", "SMALL", "ODD", "EVEN"}}
    \cup {OnDice("DOUBLE_SPECIFIC", <<p[1], p[1], p[2]>>) : p \in {q \in (1 .. 6) \X (1 .. 6) : q[1] # q[2]}}
    \cup {OnDice("TWO_NUMBERS", p) : p \in {q \in (1 .. 6) \X (1 .. 6) : q[1] < q[2]}}

K3Wins(b, r) ==
  CASE b.type = "SUM" -> b.number = DiceSum(r)
    [] b.type = "TRIPLE_ANY" -> IsTriple(r)
    [] b.type = "TRIPLE_SPECIFIC" -> Faces(r) = {b.number}
    [] b.type = "DOUBLE_ANY" -> IsDouble(r)
    [] b.type = "DOUBLE_SPECIFIC" -> FaceCounts(b.dice) = FaceCounts(r)
    [] b.type = "ALL_DIFFERENT" -> IsAllDifferent(r)
    [] b.type = "TWO_NUMBERS" -> Faces(b.dice) \subseteq Faces(r)
    [] b.type = "CONSECUTIVE" -> IsConsecutive(r)
    [] b.type = "BIG" -> ~IsTriple(r) /\ DiceSum(r) >= 11
    [] b.type = "SMALL" -> ~IsTriple(r) /\ DiceSum(r) <= 10
    [] b.type = "ODD" -> DiceSum(r) % 2 = 1
    [] b.type = "EVEN" -> DiceSum(r) % 2 = 0

--------------------------------------------------------------------------------
(* Moto: the bikes of the first three places                                *)

MotoResults == {r \in [Races -> 1 .. 10] : \A p, q \in Races : p # q => r[p] # r[q]}

MotoBets ==
  UNION {{OnNumber("MOTO", p, "POSITION", n) : n \in 1 .. 10}
           \cup {OnGroup("MOTO", p, "ODD_EVEN", g) : g \in {"ODD", "EVEN"}}
           \cup {OnGroup("MOTO", p, "BIG_SMALL", g) : g \in {"BIG", "SMALL"}} : p \in Races}

MotoWins(b, r) ==
  LET bike == r[b.at] IN
  \/ b.type = "POSITION" /\ b.number = bike
  \/ b.type = "ODD_EVEN" /\ b.group = (IF bike % 2 = 1 THEN "ODD" ELSE "EVEN")
  \/ b.type = "BIG_SMALL" /\ b.group = (IF bike \in 6 .. 10 THEN "BIG" ELSE "SMALL")

--------------------------------------------------------------------------------
(* 5D: five digits and their sum                                            *)

\* One digit is any, the others are at the ends: every digit and every sum is there.
FiveDSamples ==
  {[s.ends EXCEPT ![s.digit] = s.n] : s \in [ends : [Digits -> {0, 9}], digit : Digits, n : WingoNumbers]}
ASSUME FiveDAssumption == FiveDSamples \subseteq FiveDResults /\ FiveDResults \subseteq [Digits -> WingoNumbers]

FiveDSum(r) == r["A"] + r["B"] + r["C"] + r["D"] + r["E"]

FiveDGroups == {"LOW", "HIGH", "ODD", "EVEN"}
FiveDBets ==
  (UNION {{OnNumber("5D", d, "EXACT_NUMBER", n) : n \in WingoNumbers}
            \cup {OnGroup("5D", d, g, g) : g \in FiveDGroups} : d \in Digits})
    \cup {OnNumber("5D", "SUM", "SUM_EXACT", n) : n \in 0 .. 45}
    \cup {OnGroup("5D", "SUM", g, g) : g \in FiveDGroups}

FiveDWins(b, r) ==
  LET value == IF b.at = "SUM" THEN FiveDSum(r) ELSE r[b.at]
      low == IF b.at = "SUM" THEN 22 ELSE 4
  IN CASE b.type \in {"EXACT_NUMBER", "SUM_EXACT"} -> b.number = value
       [] b.type = "LOW" -> value <= low
       [] b.type = "HIGH" -> value > low
       [] b.type = "ODD" -> value % 2 = 1
       [] b.type = "EVEN" -> value % 2 = 0

--------------------------------------------------------------------------------
(* The illegal-bet rules                                                    *)

\* selection(): the bets of exact numbers and of the groups below are looked at.
Exact(b) == b.type \in {"NUMBER", "SUM", "POSITION", "SUM_EXACT", "EXACT_NUMBER"}
Selected(b) == Exact(b) \/ b.group # ""
Least(b) == CASE b.game = "K3" -> 3 [] b.game = "MOTO" -> 1 [] OTHER -> 0
Greatest(b) ==
  CASE b.game = "K3" -> 18 [] b.game = "MOTO" -> 10 [] b.game = "5D" /\ b.at = "SUM" -> 45 [] OTHER -> 9
HighFromFive(b) == 5
HighFrom(b) ==
  CASE b.game = "K3" -> 11 [] b.game = "MOTO" -> 6 [] b.game = "5D" /\ b.at = "SUM" -> 23 [] OTHER -> 5

CoversNumber(b, n) ==
  CASE b.group \in {"RED", "EVEN"} -> n % 2 = 0
    [] b.group \in {"GREEN", "ODD"} -> n % 2 = 1
    [] b.group = "VIOLET" -> n \in {0, 5}
    [] b.group \in {"BIG", "HIGH"} -> n >= HighFrom(b)
    [] b.group \in {"SMALL", "LOW"} -> n < HighFrom(b)

OppositeGroups ==
  {{"RED", "GREEN"}, {"BIG", "SMALL"}, {"ODD", "EVEN"}, {"LOW", "HIGH"}}

\* isIllegalBetPair(), for two bets of a player in a round of a game.
IsIllegalBetPair(a, b) ==
  /\ Selected(a) /\ Selected(b)
  /\ a.at = b.at
  /\ \/ ~Exact(a) /\ ~Exact(b) /\ {a.group, b.group} \in OppositeGroups
     \/ Exact(a) /\ ~Exact(b) /\ ~CoversNumber(b, a.number)
     \/ Exact(b) /\ ~Exact(a) /\ ~CoversNumber(a, b.number)

\* findFullNumberCoverage(), for bets of one stake.
ExactAt(bs, at) == {b \in bs : Exact(b) /\ b.at = at}
FullNumberCoverage(bs) ==
  {c \in {ExactAt(bs, b.at) : b \in bs} :
     c # {} /\ \A b \in c : {x.number : x \in c} = Least(b) .. Greatest(b)}

--------------------------------------------------------------------------------

AllBets == WingoBets \cup K3Bets \cup MotoBets \cup FiveDBets

ResultsOf ==
  [game \in {"WINGO", "K3", "MOTO", "5D"} |->
    CASE game = "WINGO" -> WingoNumbers
      [] game = "K3" -> K3Results
      [] game = "MOTO" -> MotoResults
      [] game = "5D" -> FiveDResults]
Wins(b, r) ==
  CASE b.game = "WINGO" -> WingoWins(b, r)
    [] b.game = "K3" -> K3Wins(b, r)
    [] b.game = "MOTO" -> MotoWins(b, r)
    [] b.game = "5D" -> FiveDWins(b, r)

\* The results a bet wins on.
WinningResults == [b \in AllBets |-> {r \in ResultsOf[b.game] : Wins(b, r)}]

================================================================================
