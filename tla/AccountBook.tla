------------------------------ MODULE AccountBook ------------------------------
(***************************************************************************)
(* What deposits and withdrawals promise to a player, whoever changes the  *)
(* orders: a deposit is credited at most once and rewarded at most once, a *)
(* withdrawal takes its amount when it is requested, and is then either    *)
(* paid out or given back, never both and never twice.                     *)
(***************************************************************************)
EXTENDS Integers

CONSTANTS
  Deposits,     \* deposit orders of the player
  Withdrawals,  \* withdrawal orders of the player
  Amount,       \* Amount[o]: what the order o moves
  Bonus,        \* the recharge bonus of a deposit
  Stake,        \* what the player stakes at a time
  InitBalance   \* balance at the start

VARIABLES
  account,      \* the player's balance
  deposited,    \* what became of a deposit: "open", "credited", "rewarded"
  withdrawn     \* what became of a withdrawal: "none", "held", "paid", "returned"

bookVars == <<account, deposited, withdrawn>>

Init ==
  /\ account = InitBalance
  /\ deposited = [d \in Deposits |-> "open"]
  /\ withdrawn = [w \in Withdrawals |-> "none"]

Credit(d) ==
  /\ deposited[d] = "open"
  /\ deposited' = [deposited EXCEPT ![d] = "credited"]
  /\ account' = account + Amount[d]
  /\ UNCHANGED withdrawn

Reward(d) ==
  /\ deposited[d] = "credited"
  /\ deposited' = [deposited EXCEPT ![d] = "rewarded"]
  /\ account' = account + Bonus
  /\ UNCHANGED withdrawn

Hold(w) ==
  /\ withdrawn[w] = "none"
  /\ account >= Amount[w]
  /\ withdrawn' = [withdrawn EXCEPT ![w] = "held"]
  /\ account' = account - Amount[w]
  /\ UNCHANGED deposited

Pay(w) ==
  /\ withdrawn[w] = "held"
  /\ withdrawn' = [withdrawn EXCEPT ![w] = "paid"]
  /\ UNCHANGED <<account, deposited>>

Return(w) ==
  /\ withdrawn[w] = "held"
  /\ withdrawn' = [withdrawn EXCEPT ![w] = "returned"]
  /\ account' = account + Amount[w]
  /\ UNCHANGED deposited

Play ==
  /\ account >= Stake
  /\ account' = account - Stake
  /\ UNCHANGED <<deposited, withdrawn>>

Next ==
  \/ Play
  \/ \E d \in Deposits : Credit(d) \/ Reward(d)
  \/ \E w \in Withdrawals : Hold(w) \/ Pay(w) \/ Return(w)

Spec == Init /\ [][Next]_bookVars

================================================================================
