----------------------------- MODULE PaymentOrders -----------------------------
(***************************************************************************)
(* The deposit and withdrawal orders of one player, and the four actors    *)
(* that change them: the player (apps/api/src/routes/payment/payment.ts),  *)
(* the admin (apps/api/src/routes/admin/transactions), the callbacks of    *)
(* the payment gateways (apps/api/src/routes/callback/payment) and the     *)
(* engine's timeout (apps/engine/src/scheduler/depositTimeoutScheduler.ts).*)
(*                                                                         *)
(* A handler that reads an order and then updates it does so in two steps, *)
(* and most updates name the order only: they do not repeat the condition  *)
(* the read has checked.  A transaction is one step.                       *)
(*                                                                         *)
(* Gateways are external: they take an order id once, send a callback for  *)
(* each change, and send it again until it is answered with success.       *)
(***************************************************************************)
EXTENDS Integers, FiniteSets, Functions

CONSTANTS
  Deposits, Withdrawals, Amount, Bonus, Stake, InitBalance, \* as in AccountBook
  Manual,       \* orders of method UPI: an admin completes them, not a gateway
  Requests,     \* bound: the admin and cancel requests that may be made
  LowBalance,   \* LOW_BALANCE_WAGER_CLEAR
  DailyLimit,   \* maxWithdrawApplicationsPerDay; a behaviour lasts one day
  MaxSent,      \* bound on the callbacks of one order
  FaultKinds,   \* the failures this instance allows
  MaxFaults,    \* bound on the number of failures
  Assumed       \* what this instance assumes of the environment, see below

Orders == Deposits \cup Withdrawals

\* "alone": no two requests for one order are between their read and their
\* update.  "ordered": the callbacks of one order come one at a time.  "once":
\* the gateway never repeats a callback that was answered.
ASSUME PaymentAssumption ==
  /\ Deposits \cap Withdrawals = {}
  /\ Manual \subseteq Orders
  /\ Amount \in [Orders -> Nat \ {0}]
  /\ Bonus \in Nat /\ Stake \in Nat \ {0} /\ InitBalance \in Nat /\ LowBalance \in Nat
  /\ DailyLimit \in Nat /\ MaxSent \in Nat \ {0} /\ MaxFaults \in Nat
  /\ FaultKinds \subseteq {"rollback", "wager", "gateway", "crash"}
  /\ Assumed \subseteq {"alone", "ordered", "once"}

ASSUME OrdersAssumption == IsFiniteSet(Orders)

VARIABLES
  balance,      \* User.balance
  staked,       \* what the player has bet so far
  deposit,      \* Deposit.status; "none": no row
  rewards,      \* number of ActivityBonus rows creditRechargeBonus made for a deposit
  withdraw,     \* Withdraw.status; "none": no row
  needToBet,    \* the largest remaining need of a wager requirement
  unwagered,    \* what it would be if every credit carried its requirement
  opening,      \* deposits whose handler awaits initiatePayment or deposit.create
  request,      \* the admin and cancel requests
  payment,      \* the gateway's state of a deposit (external)
  payout,       \* the gateway's state of a withdrawal (external)
  callbacks,    \* callbacks on their way or being handled
  sent,         \* callbacks sent per order
  answered,     \* the reports of a gateway that were answered with success
  faults        \* failures so far

moneyVars    == <<balance, staked, needToBet, unwagered>>
orderVars    == <<deposit, rewards, withdraw>>
gatewayVars  == <<payment, payout>>
callbackVars == <<callbacks, sent, answered>>
apiVars      == <<opening, request>>

vars == <<moneyVars, orderVars, gatewayVars, callbackVars, apiVars, faults>>

--------------------------------------------------------------------------------

Larger(a, b) == IF a >= b THEN a ELSE b

\* Requirements are cleared by the bets made since each was created, so a bet
\* counts for all of them.  totalNeedToBet is the sum of what each still needs, and
\* all that is asked of it is whether it is zero: it is when the largest is.
AfterBet(need) == Larger(0, need - Stake)

NoRequest == [pc |-> "free", kind |-> "none", order |-> "none"]

\* failStaleProcessingDeposits touches what is still PROCESSING.  Time is left
\* out: any deposit may be past the cutoff.
StaleGateway(d) == deposit[d] = "PROCESSING" /\ d \notin Manual
Stale(d) == deposit[d] = "PROCESSING"

\* A callback credits a deposit whatever its status is.
CreditableOpen(d) == deposit[d] = "PROCESSING"
Creditable(d) == deposit[d] # "none"

\* The withdraw callback finds its order only while it is PROCESSING.
AwaitingAny(w) == withdraw[w] \in {"PROCESSING", "SUCCESS", "FAILED"}
Awaiting(w) == withdraw[w] = "PROCESSING"

\* The orders an admin, or the player, may still decide.
UndecidedToo(o) ==
  IF o \in Deposits THEN o \in Manual /\ deposit[o] = "PROCESSING"
                    ELSE withdraw[o] \in {"GENERATED", "PROCESSING"}
Undecided(o) ==
  IF o \in Deposits THEN o \in Manual /\ deposit[o] = "PROCESSING"
                    ELSE withdraw[o] = "GENERATED"

\* debitWithdrawal, under the lock of the user's row.
Funded(w) == balance >= Amount[w]
WithinLimit == Cardinality({w \in Withdrawals : withdraw[w] # "none"}) < DailyLimit
WagerMet == needToBet = 0 \/ balance <= LowBalance

Fault(kind) ==
  /\ kind \in FaultKinds
  /\ faults < MaxFaults
  /\ faults' = faults + 1

Init ==
  /\ balance = InitBalance
  /\ staked = 0
  /\ needToBet = 0
  /\ unwagered = 0
  /\ deposit = [d \in Deposits |-> "none"]
  /\ rewards = [d \in Deposits |-> 0]
  /\ withdraw = [w \in Withdrawals |-> "none"]
  /\ opening = {}
  /\ request = [r \in Requests |-> NoRequest]
  /\ payment = [d \in Deposits |-> "none"]
  /\ payout = [w \in Withdrawals |-> "none"]
  /\ callbacks = {}
  /\ sent = [o \in Orders |-> 0]
  /\ answered = {}
  /\ faults = 0

--------------------------------------------------------------------------------
(* The player                                                               *)

\* A UPI deposit is a row at once; for the others the gateway is asked first.
RequestDeposit(d) ==
  /\ deposit[d] = "none" /\ payment[d] = "none"
  /\ d \notin opening
  /\ IF d \in Manual
     THEN /\ deposit' = [deposit EXCEPT ![d] = "PROCESSING"]
          /\ UNCHANGED <<payment, opening>>
     ELSE /\ payment' = [payment EXCEPT ![d] = "open"]
          /\ opening' = opening \cup {d}
          /\ UNCHANGED deposit
  /\ UNCHANGED <<moneyVars, rewards, withdraw, payout, callbackVars, request, faults>>

\* initiatePayment has returned, and the row is created.
CreateDeposit(d) ==
  /\ d \in opening
  /\ opening' = opening \ {d}
  /\ deposit' = [deposit EXCEPT ![d] = "PROCESSING"]
  /\ UNCHANGED <<moneyVars, rewards, withdraw, gatewayVars, callbackVars, request, faults>>

\* The transaction of WithdrawRoute.
RequestWithdraw(w) ==
  /\ withdraw[w] = "none"
  /\ Funded(w)
  /\ WithinLimit
  /\ WagerMet
  /\ withdraw' = [withdraw EXCEPT ![w] = "GENERATED"]
  /\ balance' = balance - Amount[w]
  /\ UNCHANGED <<staked, needToBet, unwagered, deposit, rewards, gatewayVars, callbackVars,
                 apiVars, faults>>

\* A lost bet, the part of it that matters here.
Play ==
  /\ balance >= Stake
  /\ balance' = balance - Stake
  /\ staked' = staked + Stake
  /\ needToBet' = AfterBet(needToBet)
  /\ unwagered' = AfterBet(unwagered)
  /\ UNCHANGED <<orderVars, gatewayVars, callbackVars, apiVars, faults>>

\* Any read of the wager status clears everything when the wallet is almost empty.
ClearWager ==
  /\ balance <= LowBalance
  /\ needToBet' = 0
  /\ unwagered' = 0
  /\ UNCHANGED <<balance, staked, orderVars, gatewayVars, callbackVars, apiVars, faults>>

--------------------------------------------------------------------------------
(* Requests that decide an order: approve and reject by an admin, cancel by *)
(* the player                                                               *)

InFlight(o) == \E r \in Requests : request[r].order = o /\ request[r].pc # "done"

\* The order is read and found undecided.
ReadOrder(r, kind, o) ==
  /\ request[r].pc = "free"
  /\ Undecided(o)
  /\ kind = "cancel" => o \in Withdrawals
  /\ "alone" \in Assumed => ~InFlight(o)
  /\ request' = [request EXCEPT ![r] = [pc |-> "read", kind |-> kind, order |-> o]]
  /\ UNCHANGED <<moneyVars, orderVars, gatewayVars, callbackVars, opening, faults>>

Reached(r, pc, kinds, orders) ==
  request[r].pc = pc /\ request[r].kind \in kinds /\ request[r].order \in orders

Advance(r, pc) == request' = [request EXCEPT ![r].pc = pc]

\* One transaction: status, balance and wager requirement.
ApproveDeposit(r) ==
  LET d == request[r].order IN
  /\ Reached(r, "read", {"approve"}, Deposits)
  /\ deposit' = [deposit EXCEPT ![d] = "SUCCESS"]
  /\ balance' = balance + Amount[d]
  /\ needToBet' = Larger(needToBet, Amount[d])
  /\ unwagered' = Larger(unwagered, Amount[d])
  /\ Advance(r, "bonus")
  /\ UNCHANGED <<staked, rewards, withdraw, gatewayVars, callbackVars, opening, faults>>

RejectDeposit(r) ==
  /\ Reached(r, "read", {"reject"}, Deposits)
  /\ deposit' = [deposit EXCEPT ![request[r].order] = "FAILED"]
  /\ Advance(r, "done")
  /\ UNCHANGED <<moneyVars, rewards, withdraw, gatewayVars, callbackVars, opening, faults>>

\* creditRechargeBonus in its own transaction, with a requirement of its own.
CreditBonus(d) ==
  /\ rewards' = [rewards EXCEPT ![d] = @ + 1]
  /\ balance' = balance + Bonus
  /\ needToBet' = Larger(needToBet, Bonus)
  /\ unwagered' = Larger(unwagered, Bonus)
  /\ UNCHANGED staked

ApproveBonus(r) ==
  /\ Reached(r, "bonus", {"approve"}, Deposits)
  /\ CreditBonus(request[r].order)
  /\ Advance(r, "done")
  /\ UNCHANGED <<deposit, withdraw, gatewayVars, callbackVars, opening, faults>>

\* A rejected or cancelled withdrawal goes back to the balance.
GivenBackOnReject(r) == IF request[r].kind = "reject" THEN Amount[request[r].order] ELSE 0
GivenBack(r) == Amount[request[r].order]

Refund(r) ==
  LET w == request[r].order IN
  /\ Reached(r, "read", {"reject", "cancel"}, Withdrawals)
  /\ withdraw' = [withdraw EXCEPT
                    ![w] = IF request[r].kind = "cancel" THEN "USER_CANCELED" ELSE "FAILED"]
  /\ balance' = balance + GivenBack(r)
  /\ Advance(r, "done")
  /\ UNCHANGED <<staked, needToBet, unwagered, deposit, rewards, gatewayVars, callbackVars,
                 opening, faults>>

\* A UPI withdrawal was paid by hand.
ApproveManual(r) ==
  /\ Reached(r, "read", {"approve"}, Withdrawals \cap Manual)
  /\ withdraw' = [withdraw EXCEPT ![request[r].order] = "SUCCESS"]
  /\ Advance(r, "done")
  /\ UNCHANGED <<moneyVars, deposit, rewards, gatewayVars, callbackVars, opening, faults>>

\* The gateway takes the order, or refuses it: then nothing is updated.
Instruct(r) ==
  LET w == request[r].order IN
  /\ Reached(r, "read", {"approve"}, Withdrawals \ Manual)
  /\ \/ /\ payout[w] = "none"
        /\ payout' = [payout EXCEPT ![w] = "accepted"]
        /\ Advance(r, "instructed")
     \/ /\ Advance(r, "done")
        /\ UNCHANGED payout
  /\ UNCHANGED <<moneyVars, orderVars, payment, callbackVars, opening, faults>>

\* The status of a withdrawal the gateway has taken.
ApprovedStatusForgotten == "GENERATED"
ApprovedStatus == "PROCESSING"

MarkProcessing(r) ==
  /\ Reached(r, "instructed", {"approve"}, Withdrawals)
  /\ withdraw' = [withdraw EXCEPT ![request[r].order] = ApprovedStatus]
  /\ Advance(r, "done")
  /\ UNCHANGED <<moneyVars, deposit, rewards, gatewayVars, callbackVars, opening, faults>>

--------------------------------------------------------------------------------
(* The gateways (external)                                                  *)

GatewayDecides(o) ==
  /\ \/ /\ o \in Deposits
        /\ payment[o] = "open"
        /\ \E p \in {"paid", "failed"} : payment' = [payment EXCEPT ![o] = p]
        /\ UNCHANGED payout
     \/ /\ o \in Withdrawals
        /\ payout[o] = "accepted"
        /\ \E p \in {"paid", "failed"} : payout' = [payout EXCEPT ![o] = p]
        /\ UNCHANGED payment
  /\ UNCHANGED <<moneyVars, orderVars, callbackVars, apiVars, faults>>

\* What a callback of the order may say now.
Says(o) ==
  LET at == IF o \in Deposits THEN payment[o] ELSE payout[o] IN
  CASE at \in {"open", "accepted"} -> "pending"
    [] at \in {"paid", "failed"} -> at
    [] OTHER -> "nothing"

GatewaySends(o) ==
  LET says == Says(o) IN
  /\ says # "nothing"
  /\ IF says = "pending" THEN sent[o] = 0 ELSE sent[o] < MaxSent
  /\ "once" \in Assumed => /\ <<o, says>> \notin answered
                           /\ \A m \in callbacks : m.order = o => m.says # says
  /\ "ordered" \in Assumed => \A m \in callbacks : m.order # o
  /\ sent' = [sent EXCEPT ![o] = @ + 1]
  /\ callbacks' = callbacks \cup {[order |-> o, says |-> says, n |-> sent[o], pc |-> "sent",
                                     owes |-> FALSE]}
  /\ UNCHANGED <<moneyVars, orderVars, gatewayVars, answered, apiVars, faults>>

--------------------------------------------------------------------------------
(* The callback handlers.  One that fails is sent again.                    *)

\* Whether the callback has credited a deposit and not yet recorded what is to be
\* wagered for it.  A handler that is cut off there leaves it so until it comes again.
Owes(m, pc) == pc = "wager" \/ (pc = "sent" /\ m.owes)

Continue(m, pc) ==
  callbacks' = (callbacks \ {m}) \cup {[m EXCEPT !.pc = pc, !.owes = Owes(m, pc)]}

\* The handler answers with success.
AnswerUnsaid(m) == callbacks' = callbacks \ {m} /\ UNCHANGED answered
Answer(m) ==
  /\ callbacks' = callbacks \ {m}
  /\ answered' = answered \cup {<<m.order, m.says>>}

\* "paid": status and balance in one update; requirement and bonus follow.
DepositPaid(m) ==
  LET d == m.order IN
  /\ d \in Deposits /\ m.pc = "sent" /\ m.says = "paid"
  /\ Creditable(d)
  /\ deposit' = [deposit EXCEPT ![d] = "SUCCESS"]
  /\ balance' = balance + Amount[d]
  /\ unwagered' = Larger(unwagered, Amount[d])
  /\ Continue(m, "wager")
  /\ UNCHANGED <<staked, needToBet, rewards, withdraw, gatewayVars, sent, answered, apiVars, faults>>

\* createWagerRequirement, outside that transaction.
DepositWager(m) ==
  /\ m.pc = "wager"
  /\ needToBet' = Larger(needToBet, Amount[m.order])
  /\ Continue(m, "bonus")
  /\ UNCHANGED <<balance, staked, unwagered, orderVars, gatewayVars, sent, answered, apiVars, faults>>

DepositBonus(m) ==
  /\ m.pc = "bonus"
  /\ CreditBonus(m.order)
  /\ Answer(m)
  /\ UNCHANGED <<deposit, withdraw, gatewayVars, sent, apiVars, faults>>

\* Another status is written whatever the order's status is.
DepositOther(m) ==
  LET d == m.order IN
  /\ d \in Deposits /\ m.pc = "sent" /\ m.says # "paid"
  /\ deposit[d] # "none"
  /\ deposit' = [deposit EXCEPT ![d] = IF m.says = "pending" THEN "PROCESSING" ELSE "FAILED"]
  /\ Answer(m)
  /\ UNCHANGED <<moneyVars, rewards, withdraw, gatewayVars, sent, apiVars, faults>>

\* The withdraw callback has found its order.  One that has not is refused, and
\* comes again.
WithdrawRead(m) ==
  /\ m.order \in Withdrawals /\ m.pc = "sent"
  /\ Awaiting(m.order)
  /\ Continue(m, "read")
  /\ UNCHANGED <<moneyVars, orderVars, gatewayVars, sent, answered, apiVars, faults>>

WithdrawReport(m) ==
  LET w == m.order IN
  /\ m.pc = "read"
  /\ withdraw' = [withdraw EXCEPT ![w] = CASE m.says = "paid" -> "SUCCESS"
                                           [] m.says = "failed" -> "FAILED"
                                           [] OTHER -> "PROCESSING"]
  /\ balance' = IF m.says = "failed" THEN balance + Amount[w] ELSE balance
  /\ Answer(m)
  /\ UNCHANGED <<staked, needToBet, unwagered, deposit, rewards, gatewayVars, sent, apiVars, faults>>

--------------------------------------------------------------------------------
(* The engine's timeout                                                     *)

FailStale(d) ==
  /\ Stale(d)
  /\ deposit' = [deposit EXCEPT ![d] = "FAILED"]
  /\ UNCHANGED <<moneyVars, rewards, withdraw, gatewayVars, callbackVars, apiVars, faults>>

--------------------------------------------------------------------------------
(* Failures                                                                 *)

\* The update of a request rolls back, or its bonus, whose errors are caught.
RequestFails(r) ==
  /\ Fault("rollback")
  /\ request[r].pc \in {"read", "bonus"}
  /\ Advance(r, "done")
  /\ UNCHANGED <<moneyVars, orderVars, gatewayVars, callbackVars, opening>>

\* The first update of a callback fails, or the bonus, whose errors are caught.
CallbackFails(m) ==
  /\ Fault("rollback")
  /\ \/ m.pc = "read" /\ Continue(m, "sent") /\ UNCHANGED answered
     \/ m.pc = "bonus" /\ Answer(m)
  /\ UNCHANGED <<moneyVars, orderVars, gatewayVars, sent, apiVars>>

\* A handler that throws answers with an error: the callback comes again.
RefuseCaught(m) == Answer(m)
Refuse(m) == Continue(m, "sent") /\ UNCHANGED answered

\* createWagerRequirement fails after the credit.
WagerFails(m) ==
  /\ Fault("wager")
  /\ m.pc = "wager"
  /\ Refuse(m)
  /\ UNCHANGED <<moneyVars, orderVars, gatewayVars, sent, apiVars>>

\* The gateway has taken a withdrawal, but its answer, or the update, is lost.
InstructFails(r) ==
  LET w == request[r].order IN
  /\ Fault("gateway")
  /\ \/ /\ Reached(r, "read", {"approve"}, Withdrawals \ Manual)
        /\ payout[w] = "none"
        /\ payout' = [payout EXCEPT ![w] = "accepted"]
     \/ /\ Reached(r, "instructed", {"approve"}, Withdrawals)
        /\ UNCHANGED payout
  /\ Advance(r, "done")
  /\ UNCHANGED <<moneyVars, orderVars, payment, callbackVars, opening>>

\* The API process dies.
Crash ==
  /\ Fault("crash")
  /\ opening' = {}
  /\ request' = [r \in Requests |->
                   IF request[r].pc = "free" THEN NoRequest ELSE [request[r] EXCEPT !.pc = "done"]]
  /\ callbacks' = {[m EXCEPT !.pc = "sent"] : m \in callbacks}
  /\ UNCHANGED <<moneyVars, orderVars, gatewayVars, sent, answered>>

--------------------------------------------------------------------------------

PlayerStep ==
  \/ Play \/ ClearWager
  \/ \E d \in Deposits : RequestDeposit(d)
  \/ \E w \in Withdrawals : RequestWithdraw(w)

RequestStep(r) ==
  \/ ApproveDeposit(r) \/ RejectDeposit(r) \/ ApproveBonus(r)
  \/ Refund(r) \/ ApproveManual(r) \/ Instruct(r) \/ MarkProcessing(r)

Handle(m) ==
  \/ DepositPaid(m) \/ DepositWager(m) \/ DepositBonus(m) \/ DepositOther(m)
  \/ WithdrawRead(m) \/ WithdrawReport(m)

FailStep ==
  \/ Crash
  \/ \E r \in Requests : RequestFails(r) \/ InstructFails(r)
  \/ \E m \in callbacks : CallbackFails(m) \/ WagerFails(m)

Next ==
  \/ PlayerStep
  \/ \E d \in Deposits : CreateDeposit(d) \/ FailStale(d)
  \/ \E r \in Requests :
       \/ RequestStep(r)
       \/ \E kind \in {"approve", "reject", "cancel"}, o \in Orders : ReadOrder(r, kind, o)
  \/ \E o \in Orders : GatewayDecides(o) \/ GatewaySends(o)
  \/ \E m \in callbacks : Handle(m)
  \/ FailStep

Spec == Init /\ [][Next]_vars

\* Handlers go on, the timer runs, and a gateway decides, reports, and delivers.
\* Nobody has to ask for anything, or to decide an order.
Fairness ==
  /\ \A d \in Deposits : WF_vars(CreateDeposit(d)) /\ WF_vars(FailStale(d))
  /\ \A r \in Requests : WF_vars(RequestStep(r))
  /\ \A o \in Orders :
       /\ WF_vars(GatewayDecides(o))
       /\ WF_vars(GatewaySends(o))
       /\ WF_vars(\E m \in callbacks : m.order = o /\ Handle(m))

FairSpec == Spec /\ Fairness

--------------------------------------------------------------------------------
(* Properties                                                               *)

Messages ==
  [order : Orders, says : {"pending", "paid", "failed"}, n : 0 .. MaxSent,
   pc : {"sent", "wager", "bonus", "read"}, owes : BOOLEAN]

TypeOK ==
  /\ balance \in Nat /\ staked \in Nat /\ needToBet \in Nat /\ unwagered \in Nat
  /\ deposit \in [Deposits -> {"none", "PROCESSING", "SUCCESS", "FAILED"}]
  /\ rewards \in [Deposits -> Nat]
  /\ withdraw \in [Withdrawals -> {"none", "GENERATED", "PROCESSING", "SUCCESS", "FAILED",
                                   "USER_CANCELED"}]
  /\ opening \subseteq Deposits
  /\ request \in [Requests -> [pc : {"free", "read", "bonus", "instructed", "done"},
                               kind : {"none", "approve", "reject", "cancel"},
                               order : Orders \cup {"none"}]]
  /\ payment \in [Deposits -> {"none", "open", "paid", "failed"}]
  /\ payout \in [Withdrawals -> {"none", "accepted", "paid", "failed"}]
  /\ callbacks \subseteq Messages
  /\ sent \in [Orders -> 0 .. MaxSent]
  /\ answered \subseteq (Orders \X {"pending", "paid", "failed"})
  /\ faults \in 0 .. MaxFaults

TotalAmount(orders) == SumFunctionOnSet(Amount, orders)
Credited == {d \in Deposits : deposit[d] = "SUCCESS"}
Held == {w \in Withdrawals : withdraw[w] \in {"GENERATED", "PROCESSING", "SUCCESS"}}

\* However requests and callbacks interleave, repeat, fail or are cut off by a
\* crash, the player's balance has at least what the rows of the database say it
\* should: what goes wrong is never at the player's expense.
NothingLost ==
  balance >= InitBalance - staked + TotalAmount(Credited)
               + Bonus * SumFunctionOnSet(rewards, Deposits) - TotalAmount(Held)

\* What a gateway has taken over is never given back to the balance, unless the
\* gateway failed to pay it.
NeverPaidAndReturned ==
  \A w \in Withdrawals : payout[w] \in {"accepted", "paid"} =>
    withdraw[w] \in {"GENERATED", "PROCESSING", "SUCCESS"}

\* A credited deposit, and a withdrawal that is concluded, keep their status.
ConcludedStays ==
  [][/\ \A d \in Deposits : deposit[d] = "SUCCESS" => deposit'[d] = "SUCCESS"
     /\ \A w \in Withdrawals : withdraw[w] \in {"SUCCESS", "FAILED", "USER_CANCELED"} =>
          withdraw'[w] = withdraw[w]]_vars

\* manageDeposit: an admin only manages a deposit that is PROCESSING.
ManagedWhileProcessing ==
  [][\A r \in Requests :
       /\ Reached(r, "read", {"approve", "reject"}, Deposits)
       /\ request'[r].pc = "bonus" \/ deposit' # deposit
       /\ request'[r] # request[r]
       => deposit[request[r].order] = "PROCESSING"]_vars

\* What a callback has credited without its requirement, which a withdrawal does
\* not wait for.
Uncovered == \E m \in callbacks : m.owes /\ unwagered <= Amount[m.order]

\* A withdrawal is taken only when all that was credited has been wagered, or the
\* wallet was almost empty; but a gateway's credit is committed before its
\* requirement, and until the callback has recorded that, at once or when it comes
\* again, the credit of one callback may leave unwagered.
FrozenUntilWagered ==
  [][\A w \in Withdrawals : withdraw[w] = "none" /\ withdraw'[w] # "none" =>
       unwagered = 0 \/ balance <= LowBalance \/ Uncovered]_vars

\* No deposit waits for ever.
DepositDecided ==
  \A d \in Deposits : deposit[d] = "PROCESSING" ~> deposit[d] \in {"SUCCESS", "FAILED"}

\* What was paid to a gateway is credited in the end, even after the timeout.
PaidIsCredited ==
  \A d \in Deposits : payment[d] = "paid" ~> deposit[d] = "SUCCESS"

\* What a gateway did with a withdrawal is known in the end.
PayoutReported ==
  \A w \in Withdrawals :
    /\ payout[w] = "paid" ~> withdraw[w] = "SUCCESS"
    /\ payout[w] = "failed" ~> withdraw[w] = "FAILED"

--------------------------------------------------------------------------------
(* What the orders implement                                                *)

BookDeposit(d) ==
  CASE deposit[d] # "SUCCESS" -> "open"
    [] deposit[d] = "SUCCESS" /\ rewards[d] = 0 -> "credited"
    [] OTHER -> "rewarded"

BookWithdrawal(w) ==
  CASE withdraw[w] \in {"GENERATED", "PROCESSING"} -> "held"
    [] withdraw[w] = "SUCCESS" -> "paid"
    [] withdraw[w] \in {"FAILED", "USER_CANCELED"} -> "returned"
    [] OTHER -> "none"

Book == INSTANCE AccountBook WITH
  account <- balance,
  deposited <- [d \in Deposits |-> BookDeposit(d)],
  withdrawn <- [w \in Withdrawals |-> BookWithdrawal(w)]

\* Seen from the account, every order moves its amount once.
BookSpec == Book!Spec

================================================================================
