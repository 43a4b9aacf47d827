-------------------------------- MODULE MCWallet --------------------------------
(***************************************************************************)
(* A small instance of Wallet: one round and one vendor bet.  Either the   *)
(* account bets on red, small and seven, two of which are against the      *)
(* third, or on any two bets that the illegal-bet rules look at, at one of *)
(* the places of one of the games, with time for these two bets only; or   *)
(* on all numbers of such a place, all but two of which it has bet on.     *)
(***************************************************************************)
EXTENDS Wallet, TLC

CONSTANTS r1, t1

MCRounds == {r1}
RedSmallSeven ==
  {OnGroup("WINGO", "RESULT", "COLOR", "RED"), OnGroup("WINGO", "RESULT", "SIZE", "SMALL"),
   OnNumber("WINGO", "RESULT", "NUMBER", 7)}
Looked == {b \in AllBets : Selected(b) /\ b.at \in {"RESULT", "FIRST", "A", "SUM"}}
Pairs ==
  {{a, b} : <<a, b>> \in {p \in Looked \X Looked :
     /\ p[1] # p[2] /\ p[1].game = p[2].game /\ p[1].at = p[2].at
     /\ ~Exact(p[1])}}
AllNumbers ==
  {{b \in Looked : Exact(b) /\ b.game = one.game /\ b.at = one.at} : one \in {b \in Looked : Exact(b)}}
MCMarkets == {RedSmallSeven} \cup Pairs \cup AllNumbers
MCSpent == [m \in MCMarkets |-> IF m = RedSmallSeven THEN 0 ELSE 4]
MCBegun == [m \in MCMarkets |-> IF m \in AllNumbers THEN {b \in m : b.number \notin {4, 7}} ELSE {}]
MCTx == {t1}
MCCorrections == {-1, 1}

================================================================================
