----------------------------- MODULE MCWingoRound ------------------------------
(* Instances of WingoRound for TLC.  A unit of the clock stands for one of  *)
(* the windows of a 30 s slot: open, bet lock, draw window.                 *)
EXTENDS WingoRound

\* Two results are enough to tell a redraw: 0 is red and violet, 3 is green.
MCNumbers == {0, 3}

\* contractAmount 98 of a stake of 100, times 1.5 on 0 for RED, 2 for GREEN.
Red   == [n \in MCNumbers |-> IF n = 0 THEN 147 ELSE 0]
Green == [n \in MCNumbers |-> IF n = 3 THEN 196 ELSE 0]

RedBet(u)   == [id |-> 1, user |-> u, slot |-> 0, pays |-> Red]
GreenBet(u) == [id |-> 2, user |-> u, slot |-> 0, pays |-> Green]
NextBet(u)  == [id |-> 3, user |-> u, slot |-> 1, pays |-> Red]

\* One player with two bets in one round.
OnePlayer == {RedBet("alice"), GreenBet("alice")}
\* Two bets of one round, of which the player can pay one, and a bet in the next
\* round, perhaps paid by the first.
Rounds == {RedBet("alice"), GreenBet("alice"), NextBet("alice")}

================================================================================
