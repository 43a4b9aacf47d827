------------------------------ MODULE RoundLedger ------------------------------
(***************************************************************************)
(* What a betting round promises to the players, whatever schedules it:    *)
(* a stake is taken when a bet is placed, the outcome of a slot is chosen  *)
(* once and only after the book of that slot is closed, and every bet of   *)
(* the slot is settled once, against that outcome.  The detailed rounds    *)
(* of the engine are compared with this module by refinement.              *)
(***************************************************************************)
EXTENDS Integers

CONSTANTS
  Users,        \* accounts
  Slots,        \* periods of one table (one game, one duration)
  Numbers,      \* results a draw can give
  Bets,         \* bets the players may place: records [id, user, slot, pays]
                \* where pays[n] is what the bet earns when n is drawn
  Stake,        \* betAmount of every bet
  InitBalance,  \* balance of every user at the start
  NoResult      \* resultNumber of a period that is not drawn

VARIABLES
  outcome,      \* the number chosen for a slot, or NoResult
  ticket,       \* what became of a bet
  account       \* the balance of a user

ledgerVars == <<outcome, ticket, account>>

Init ==
  /\ outcome = [s \in Slots |-> NoResult]
  /\ ticket = [b \in Bets |-> "none"]
  /\ account = [u \in Users |-> InitBalance]

\* A bet enters the book of an open slot, and its stake leaves the account.
Place(b) ==
  /\ ticket[b] = "none"
  /\ outcome[b.slot] = NoResult
  /\ account[b.user] >= Stake
  /\ ticket' = [ticket EXCEPT ![b] = "open"]
  /\ account' = [account EXCEPT ![b.user] = @ - Stake]
  /\ UNCHANGED outcome

\* The outcome of a slot is chosen, once and for all.
Draw(s) ==
  /\ outcome[s] = NoResult
  /\ \E n \in Numbers : outcome' = [outcome EXCEPT ![s] = n]
  /\ UNCHANGED <<ticket, account>>

\* A bet of a drawn slot is paid what its choice earns under the outcome.
Settle(b) ==
  LET n == outcome[b.slot] IN
  /\ ticket[b] = "open"
  /\ n # NoResult
  /\ ticket' = [ticket EXCEPT ![b] = IF b.pays[n] > 0 THEN "won" ELSE "lost"]
  /\ account' = [account EXCEPT ![b.user] = @ + b.pays[n]]
  /\ UNCHANGED outcome

Next ==
  \/ \E b \in Bets : Place(b) \/ Settle(b)
  \/ \E s \in Slots : Draw(s)

Spec == Init /\ [][Next]_ledgerVars

================================================================================
