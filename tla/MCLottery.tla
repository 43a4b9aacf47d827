------------------------------- MODULE MCLottery --------------------------------
(***************************************************************************)
(* Small instances of Lottery.                                             *)
(***************************************************************************)
EXTENDS Lottery, TLC

CONSTANTS u1, low, high, none

MCUsers == {u1}
MCNumbers == {low, high}

\* Two bets on the first slot, which its run settles side by side; the second
\* wins on either number.  The second slot follows while the first is settled.
Pays(l, h) == (low :> l) @@ (high :> h)
BetOf(i, s, p) == [id |-> i, user |-> u1, slot |-> s, pays |-> p]
MCBets == {BetOf(1, 0, Pays(2, 0)), BetOf(2, 0, Pays(1, 3))}

\* The hashes of the blocks give both numbers.
MCDigit == [t \in 0 .. MaxTime |-> IF t % 2 = 0 THEN low ELSE high]

================================================================================
