------------------------------ MODULE VendorWallet ------------------------------
(***************************************************************************)
(* The callbacks of the game vendor (callback/vendor/inout.ts) and the     *)
(* admin's balance update on the account of WagerLedger.  None of them     *)
(* runs in a transaction that locks the account: each is a read, and one   *)
(* or two writes later.  The vendor repeats calls as it likes.             *)
(***************************************************************************)
EXTENDS WagerLedger

CONSTANTS
  Tx,           \* transactionIds of the vendor's bets
  VendorStake,  \* amount of a vendor bet
  Results,      \* what a game may pay
  Corrections,  \* what an admin may add to or take from the balance
  MaxRequests,  \* bound on the requests made ...
  CallWeight,   \* ... a call of this module counting this many times
  MaxFaults     \* bound on the calls that die half way

ASSUME VendorAssumption ==
  /\ VendorStake \in Nat \ {0} /\ Results \subseteq Nat
  /\ Corrections \subseteq Int \ {0}
  /\ MaxRequests \in Nat /\ CallWeight \in Nat \ {0} /\ MaxFaults \in Nat
  /\ IsFiniteSet(Tx)

VARIABLES
  inoutBet,     \* the InoutBet row of a transaction
  calls,        \* calls in flight: what they are about to write
  made,         \* how many requests there were, weighted
  faults,       \* how many of them died half way
  overlapped    \* whether a call was in flight while another request wrote

vendorVars == <<inoutBet, calls, made, faults, overlapped>>
vars == <<wagerVars, vendorVars>>

NoBet == [exists |-> FALSE, isSettled |-> FALSE, isRolledback |-> FALSE, winAmount |-> 0]

VendorInit ==
  /\ inoutBet = [t \in Tx |-> NoBet]
  /\ calls = {}
  /\ faults = 0
  /\ overlapped = FALSE

Call(kind, t, pc, amount) == [kind |-> kind, tx |-> t, pc |-> pc, amount |-> amount, id |-> made]
Begin(call) ==
  /\ made + CallWeight <= MaxRequests
  /\ made' = made + CallWeight
  /\ calls' = calls \cup {call}
  /\ UNCHANGED <<wagerVars, inoutBet, faults, overlapped>>
Move(c, pc) == calls' = (calls \ {c}) \cup {[c EXCEPT !.pc = pc]}
End(c) == calls' = calls \ {c}

\* A write while another call is in flight.
Writes(c) == overlapped' = (overlapped \/ calls # {c})

AccountRest == <<now, rows, bets, penalty, wager, placed, over, illegal, waived, penalized>>
OnlyBalance(amount) == balance' = balance + amount /\ UNCHANGED <<AccountRest, others>>

--------------------------------------------------------------------------------
(* action "bet"                                                             *)

\* The balance is compared with the amount first ...
Affordable(amount) == balance >= amount
BetRead(t) ==
  /\ Affordable(VendorStake)
  /\ Begin(Call("bet", t, "create", VendorStake))

\* ... the row is created, once per transactionId ...
BetCreate(c) ==
  /\ c.kind = "bet" /\ c.pc = "create"
  /\ IF inoutBet[c.tx].exists THEN UNCHANGED inoutBet /\ End(c)
     ELSE inoutBet' = [inoutBet EXCEPT ![c.tx] = [NoBet EXCEPT !.exists = TRUE]] /\ Move(c, "debit")
  /\ Writes(c)
  /\ UNCHANGED <<wagerVars, made, faults>>

\* ... and the balance is decremented, whatever it is by now.
BetDebit(c) ==
  /\ c.kind = "bet" /\ c.pc = "debit"
  /\ OnlyBalance(-c.amount)
  /\ End(c)
  /\ Writes(c)
  /\ UNCHANGED <<inoutBet, made, faults>>

--------------------------------------------------------------------------------
(* action "withdraw": the result of a bet                                   *)

ResultWantedAlways(t) == inoutBet[t].exists
ResultWanted(t) == inoutBet[t].exists /\ ~inoutBet[t].isSettled

\* A result below the stake is marked and not credited.
ResultRead(t, w) ==
  /\ ResultWanted(t)
  /\ Begin(IF w >= VendorStake THEN Call("result", t, "credit", w) ELSE Call("result", t, "mark", 0))

ResultMark(c) ==
  /\ c.kind = "result" /\ c.pc = "mark"
  /\ inoutBet' = [inoutBet EXCEPT ![c.tx].winAmount = c.amount, ![c.tx].isSettled = TRUE]
  /\ End(c)
  /\ Writes(c)
  /\ UNCHANGED <<wagerVars, made, faults>>

--------------------------------------------------------------------------------
(* action "rollback"                                                        *)

\* Asks for isRolledback only; a settled bet is rolled back as well.
RollbackRead(t) ==
  /\ inoutBet[t].exists
  /\ ~inoutBet[t].isRolledback
  /\ Begin(Call("rollback", t, "credit", VendorStake))

RollbackMark(c) ==
  /\ c.kind = "rollback" /\ c.pc = "mark"
  /\ inoutBet' = [inoutBet EXCEPT ![c.tx].winAmount = 0, ![c.tx].isRolledback = TRUE]
  /\ End(c)
  /\ Writes(c)
  /\ UNCHANGED <<wagerVars, made, faults>>

\* Both credit before they mark the row.
Credit(c) ==
  /\ c.kind \in {"result", "rollback"} /\ c.pc = "credit"
  /\ OnlyBalance(c.amount)
  /\ Move(c, "mark")
  /\ Writes(c)
  /\ UNCHANGED <<inoutBet, made, faults>>

--------------------------------------------------------------------------------
(* POST /admin/users/:id/balance                                            *)

\* The sum is computed from the balance read before the transaction ...
AdminRead(a) ==
  /\ balance + a >= 0
  /\ Begin([kind |-> "admin", amount |-> a, to |-> balance + a, id |-> made])

\* ... and written as it is.  An increase makes a recharge requirement, unless the
\* reason given names a salary or a commission.
AdminSet(c) ==
  /\ c.kind = "admin"
  /\ Len(rows) < MaxRows
  /\ balance' = c.to
  /\ others' = others + c.amount
  /\ \/ /\ c.amount > 0
        /\ CreateRow(rows, waived, Row("RECHARGE", c.amount, Live(penalty, wager)))
     \/ UNCHANGED <<rows, waived>>
  /\ End(c)
  /\ Writes(c)
  /\ UNCHANGED <<now, bets, penalty, wager, placed, over, illegal, penalized, inoutBet, made, faults>>

\* The process dies, or a statement fails: the rest of the call does not happen.
CallDies(c) ==
  /\ faults < MaxFaults
  /\ faults' = faults + 1
  /\ End(c)
  /\ UNCHANGED <<wagerVars, inoutBet, made, overlapped>>

VendorStep(c) == BetCreate(c) \/ BetDebit(c) \/ Credit(c) \/ ResultMark(c) \/ RollbackMark(c)
                   \/ AdminSet(c) \/ CallDies(c)

VendorNext ==
  \/ \E t \in Tx : BetRead(t) \/ RollbackRead(t)
  \/ \E t \in Tx, w \in Results : ResultRead(t, w)
  \/ \E a \in Corrections : AdminRead(a)
  \/ \E c \in calls : VendorStep(c)

================================================================================
