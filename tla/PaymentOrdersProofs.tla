-------------------------- MODULE PaymentOrdersProofs --------------------------
(* Theorems about PaymentOrders, for any orders, amounts and requests.      *)
EXTENDS PaymentOrders, Sums, TLAPS

--------------------------------------------------------------------------------
(* Type correctness, actor by actor                                         *)

\* Needs to bet are natural numbers, whatever raises or lowers them.
LEMMA NeedsAreNat ==
  /\ \A a, b \in Nat : Larger(a, b) \in Nat
  /\ \A a \in Nat : AfterBet(a) \in Nat
  /\ \A o \in Orders : Amount[o] \in Nat
BY PaymentAssumption DEF Larger, AfterBet

\* What an order moves can be added to a balance, and to what needs to be bet.
LEMMA AmountsAdd ==
  ASSUME NEW a \in Nat, NEW o \in Orders
  PROVE  a + Amount[o] \in Nat /\ Larger(a, Amount[o]) \in Nat
<1>1. Amount[o] \in Nat
  BY NeedsAreNat
<1>2. a + Amount[o] \in Nat
  BY <1>1
<1>3. Larger(a, Amount[o]) \in Nat
  BY <1>1 DEF Larger
<1> QED
  BY <1>2, <1>3

LEMMA TypeInit == Init => TypeOK
BY PaymentAssumption DEF Init, TypeOK, NoRequest, Messages

LEMMA TypeOpening ==
  ASSUME TypeOK, NEW d \in Deposits, RequestDeposit(d)
  PROVE  TypeOK'
<1> USE DEF RequestDeposit, moneyVars, callbackVars
<1>1. CASE d \in Manual
  <2>1. deposit' \in [Deposits -> {"none", "PROCESSING", "SUCCESS", "FAILED"}]
    BY <1>1 DEF TypeOK
  <2> QED
    BY <1>1, <2>1 DEF TypeOK
<1>2. CASE d \notin Manual
  <2>1. payment' \in [Deposits -> {"none", "open", "paid", "failed"}]
    BY <1>2 DEF TypeOK
  <2>2. opening' \subseteq Deposits
    BY <1>2 DEF TypeOK
  <2> QED
    BY <1>2, <2>1, <2>2 DEF TypeOK
<1> QED
  BY <1>1, <1>2

LEMMA TypePlayer == TypeOK /\ PlayerStep => TypeOK'
<1> SUFFICES ASSUME TypeOK, PlayerStep PROVE TypeOK'
  OBVIOUS
<1> USE NeedsAreNat, PaymentAssumption
    DEF TypeOK, moneyVars, orderVars, gatewayVars, callbackVars, apiVars
<1>1. CASE Play
  <2>1. balance' \in Nat /\ staked' \in Nat /\ needToBet' \in Nat /\ unwagered' \in Nat
    BY <1>1 DEF Play
  <2> QED
    BY <1>1, <2>1 DEF Play
<1>2. CASE ClearWager
  BY <1>2 DEF ClearWager
<1>3. ASSUME NEW d \in Deposits, RequestDeposit(d) PROVE TypeOK'
  BY <1>3, TypeOpening
<1>4. ASSUME NEW w \in Withdrawals, RequestWithdraw(w) PROVE TypeOK'
  <2>1. balance' \in Nat
    BY <1>4 DEF RequestWithdraw, Funded, Orders
  <2> QED
    BY <1>4, <2>1 DEF RequestWithdraw
<1> QED
  BY <1>1, <1>2, <1>3, <1>4 DEF PlayerStep

\* Moving a request on keeps it a request.
LEMMA TypeAdvance ==
  ASSUME TypeOK, NEW r \in Requests, NEW pc \in {"free", "read", "bonus", "instructed", "done"},
         Advance(r, pc)
  PROVE  request' \in [Requests -> [pc : {"free", "read", "bonus", "instructed", "done"},
                                    kind : {"none", "approve", "reject", "cancel"},
                                    order : Orders \cup {"none"}]]
BY DEF TypeOK, Advance

LEMMA TypeBonus ==
  ASSUME TypeOK, NEW d \in Orders, CreditBonus(d)
  PROVE  /\ balance' \in Nat /\ staked' \in Nat /\ needToBet' \in Nat /\ unwagered' \in Nat
         /\ rewards' \in [Deposits -> Nat]
<1>1. balance \in Nat /\ staked \in Nat /\ needToBet \in Nat /\ unwagered \in Nat /\ Bonus \in Nat
  BY PaymentAssumption DEF TypeOK
<1>2. rewards \in [Deposits -> Nat]
  BY DEF TypeOK
<1>3. /\ balance' \in Nat /\ staked' \in Nat
      /\ needToBet' = Larger(needToBet, Bonus) /\ unwagered' = Larger(unwagered, Bonus)
  BY <1>1 DEF CreditBonus
<1>4. rewards' \in [Deposits -> Nat]
  <2>1. CASE d \in Deposits
    <3>1. rewards[d] + 1 \in Nat
      BY <1>2, <2>1
    <3> QED
      BY <1>2, <3>1 DEF CreditBonus
  <2>2. CASE d \notin Deposits
    BY <1>2, <2>2 DEF CreditBonus
  <2> QED
    BY <2>1, <2>2
<1> QED
  BY <1>1, <1>3, <1>4, NeedsAreNat

LEMMA TypeRequest ==
  ASSUME TypeOK, NEW r \in Requests, RequestStep(r)
  PROVE  TypeOK'
<1> USE DEF moneyVars, orderVars, gatewayVars, callbackVars
<1>0. /\ balance \in Nat /\ needToBet \in Nat /\ unwagered \in Nat
      /\ \A o \in Orders : balance + Amount[o] \in Nat
  <2>1. balance \in Nat /\ needToBet \in Nat /\ unwagered \in Nat
    BY DEF TypeOK
  <2> QED
    BY <2>1, AmountsAdd
<1>1. CASE ApproveDeposit(r)
  <2>1. request[r].order \in Orders
    BY <1>1 DEF ApproveDeposit, Reached, Orders
  <2>2. balance' \in Nat /\ needToBet' \in Nat /\ unwagered' \in Nat
    BY <1>0, <1>1, <2>1, AmountsAdd DEF ApproveDeposit
  <2>3. deposit' \in [Deposits -> {"none", "PROCESSING", "SUCCESS", "FAILED"}]
    BY <1>1 DEF ApproveDeposit, TypeOK
  <2> QED
    BY <1>1, <2>2, <2>3, TypeAdvance DEF ApproveDeposit, TypeOK
<1>2. CASE RejectDeposit(r)
  BY <1>2, TypeAdvance DEF RejectDeposit, TypeOK
<1>3. CASE ApproveBonus(r)
  <2>1. request[r].order \in Orders
    BY <1>3 DEF ApproveBonus, Reached, Orders
  <2> QED
    BY <1>3, <2>1, TypeBonus, TypeAdvance DEF ApproveBonus, TypeOK
<1>4. CASE Refund(r)
  <2>1. request[r].order \in Orders
    BY <1>4 DEF Refund, Reached, Orders
  <2>2. balance' \in Nat
    BY <1>0, <1>4, <2>1 DEF Refund, GivenBack
  <2> QED
    BY <1>4, <2>2, TypeAdvance DEF Refund, TypeOK
<1>5. CASE ApproveManual(r)
  BY <1>5, TypeAdvance DEF ApproveManual, TypeOK
<1>6. CASE Instruct(r)
  BY <1>6, TypeAdvance DEF Instruct, TypeOK
<1>7. CASE MarkProcessing(r)
  BY <1>7, TypeAdvance DEF MarkProcessing, TypeOK, ApprovedStatus
<1> QED
  BY <1>1, <1>2, <1>3, <1>4, <1>5, <1>6, <1>7 DEF RequestStep

\* Moving a callback on, or answering it, keeps callbacks and answers what they are.
LEMMA TypeContinue ==
  ASSUME TypeOK, NEW m \in callbacks, NEW pc \in {"sent", "wager", "bonus", "read"},
         Continue(m, pc)
  PROVE  callbacks' \subseteq Messages
<1>1. [m EXCEPT !.pc = pc, !.owes = Owes(m, pc)] \in Messages
  BY DEF TypeOK, Messages, Owes
<1> QED
  BY <1>1 DEF TypeOK, Continue

LEMMA TypeAnswer ==
  ASSUME TypeOK, NEW m \in callbacks, Answer(m)
  PROVE  /\ callbacks' \subseteq Messages
         /\ answered' \subseteq (Orders \X {"pending", "paid", "failed"})
BY DEF TypeOK, Answer, Messages

LEMMA TypeCallback ==
  ASSUME TypeOK, NEW m \in callbacks, Handle(m)
  PROVE  TypeOK'
<1> USE DEF moneyVars, orderVars, gatewayVars, apiVars
<1>0. /\ m.order \in Orders
      /\ balance + Amount[m.order] \in Nat
      /\ Larger(needToBet, Amount[m.order]) \in Nat
      /\ Larger(unwagered, Amount[m.order]) \in Nat
  <2>1. balance \in Nat /\ needToBet \in Nat /\ unwagered \in Nat
    BY DEF TypeOK
  <2>2. m.order \in Orders
    BY DEF TypeOK, Messages
  <2> QED
    BY <2>1, <2>2, AmountsAdd
<1>1. CASE DepositPaid(m)
  <2>1. balance' \in Nat /\ unwagered' \in Nat
    BY <1>0, <1>1 DEF DepositPaid
  <2>2. deposit' \in [Deposits -> {"none", "PROCESSING", "SUCCESS", "FAILED"}]
    BY <1>1 DEF DepositPaid, TypeOK
  <2> QED
    BY <1>1, <2>1, <2>2, TypeContinue DEF DepositPaid, TypeOK
<1>2. CASE DepositWager(m)
  BY <1>0, <1>2, TypeContinue DEF DepositWager, TypeOK
<1>3. CASE DepositBonus(m)
  BY <1>0, <1>3, TypeBonus, TypeAnswer DEF DepositBonus, TypeOK
<1>4. CASE DepositOther(m)
  BY <1>4, TypeAnswer DEF DepositOther, TypeOK
<1>5. CASE WithdrawRead(m)
  BY <1>5, TypeContinue DEF WithdrawRead, TypeOK
<1>6. CASE WithdrawReport(m)
  <2>1. withdraw' \in [Withdrawals -> {"none", "GENERATED", "PROCESSING", "SUCCESS",
                                       "FAILED", "USER_CANCELED"}]
    BY <1>6 DEF WithdrawReport, TypeOK
  <2>2. balance' \in Nat
    BY <1>0, <1>6 DEF WithdrawReport, TypeOK
  <2> QED
    BY <1>6, <2>1, <2>2, TypeAnswer DEF WithdrawReport, TypeOK
<1> QED
  BY <1>1, <1>2, <1>3, <1>4, <1>5, <1>6 DEF Handle

LEMMA TypeGateway ==
  ASSUME TypeOK, NEW o \in Orders, GatewayDecides(o) \/ GatewaySends(o)
  PROVE  TypeOK'
<1> USE DEF TypeOK, moneyVars, orderVars, gatewayVars, callbackVars, apiVars
<1>1. CASE GatewayDecides(o)
  BY <1>1 DEF GatewayDecides
<1>2. CASE GatewaySends(o)
  <2>1. Says(o) \in {"pending", "paid", "failed"}
    BY <1>2 DEF GatewaySends, Says
  <2>2. sent[o] < MaxSent
    BY <1>2, <2>1, PaymentAssumption DEF GatewaySends
  <2>3. [order |-> o, says |-> Says(o), n |-> sent[o], pc |-> "sent", owes |-> FALSE] \in Messages
    BY <2>1 DEF Messages
  <2>4. sent' \in [Orders -> 0 .. MaxSent]
    BY <1>2, <2>2, PaymentAssumption DEF GatewaySends
  <2> QED
    BY <1>2, <2>3, <2>4 DEF GatewaySends
<1> QED
  BY <1>1, <1>2

LEMMA TypeFailure == TypeOK /\ FailStep => TypeOK'
<1> SUFFICES ASSUME TypeOK, FailStep PROVE TypeOK'
  OBVIOUS
<1> USE PaymentAssumption DEF TypeOK, moneyVars, orderVars, gatewayVars, callbackVars, Fault
<1>1. CASE Crash
  <2>1. \A m \in callbacks : [m EXCEPT !.pc = "sent"] \in Messages
    BY DEF Messages
  <2>2. callbacks' \subseteq Messages
    BY <1>1, <2>1 DEF Crash
  <2>3. request' \in [Requests -> [pc : {"free", "read", "bonus", "instructed", "done"},
                                   kind : {"none", "approve", "reject", "cancel"},
                                   order : Orders \cup {"none"}]]
    BY <1>1 DEF Crash, NoRequest
  <2> QED
    BY <1>1, <2>2, <2>3 DEF Crash
<1>2. ASSUME NEW r \in Requests, RequestFails(r) PROVE TypeOK'
  BY <1>2, TypeAdvance DEF RequestFails
<1>3. ASSUME NEW r \in Requests, InstructFails(r) PROVE TypeOK'
  BY <1>3, TypeAdvance DEF InstructFails
<1>4. ASSUME NEW m \in callbacks, CallbackFails(m) PROVE TypeOK'
  BY <1>4, TypeContinue, TypeAnswer DEF CallbackFails, apiVars
<1>5. ASSUME NEW m \in callbacks, WagerFails(m) PROVE TypeOK'
  BY <1>5, TypeContinue DEF WagerFails, Refuse, apiVars
<1> QED
  BY <1>1, <1>2, <1>3, <1>4, <1>5 DEF FailStep

LEMMA TypeStep == TypeOK /\ [Next]_vars => TypeOK'
<1> SUFFICES ASSUME TypeOK, [Next]_vars PROVE TypeOK'
  OBVIOUS
<1>1. CASE UNCHANGED vars
  BY <1>1 DEF TypeOK, vars, moneyVars, orderVars, gatewayVars, callbackVars, apiVars
<1>2. ASSUME NEW d \in Deposits, CreateDeposit(d) \/ FailStale(d) PROVE TypeOK'
  BY <1>2 DEF TypeOK, CreateDeposit, FailStale, moneyVars, gatewayVars, callbackVars, apiVars
<1>3. ASSUME NEW r \in Requests, NEW kind \in {"approve", "reject", "cancel"}, NEW o \in Orders,
             ReadOrder(r, kind, o)
      PROVE  TypeOK'
  BY <1>3 DEF TypeOK, ReadOrder, moneyVars, orderVars, gatewayVars, callbackVars
<1> QED
  BY <1>1, <1>2, <1>3, TypePlayer, TypeRequest, TypeCallback, TypeGateway, TypeFailure DEF Next

\* The variables keep their types; in particular no interleaving of withdrawals
\* and bets overdraws the balance, because debitWithdrawal locks the user's row
\* and the debit of a bet carries its condition.
THEOREM TypeCorrect == Spec => []TypeOK
BY TypeInit, TypeStep, PTL DEF Spec

--------------------------------------------------------------------------------
(* One actor at a time decides a withdrawal                                 *)

\* What is assumed: requests for one order do not overlap, nor do its callbacks.
Orderly == {"alone", "ordered"} \subseteq Assumed

Deciding(r) == request[r].pc \in {"read", "bonus", "instructed"}

\* What a request has read still holds when it updates.
RequestInv ==
  /\ \A r, q \in Requests :
       Deciding(r) /\ Deciding(q) /\ request[r].order = request[q].order => r = q
  /\ \A r \in Requests :
       /\ request[r].pc = "read" =>
            /\ request[r].order \in Orders
            /\ request[r].order \in Withdrawals => withdraw[request[r].order] = "GENERATED"
            /\ request[r].order \in Deposits => request[r].order \in Manual
       /\ request[r].pc = "instructed" =>
            request[r].order \in Withdrawals /\ withdraw[request[r].order] = "GENERATED"
       /\ request[r].pc = "bonus" => request[r].order \in Deposits \cap Manual

\* So does what a callback has read, and it is the only one of its order.
CallbackInv ==
  /\ \A m, n \in callbacks : m.order = n.order => m = n
  /\ \A m \in callbacks :
       /\ m.pc = "read" => m.order \in Withdrawals /\ withdraw[m.order] = "PROCESSING"
       /\ m.pc \in {"wager", "bonus"} => m.order \in Deposits /\ m.says = "paid"
       /\ m.order \in Deposits => payment[m.order] # "none"
  /\ \A d \in Deposits : payment[d] # "none" => d \notin Manual

ExclusionInv == RequestInv /\ CallbackInv

\* A request that moves on is the only one that changes, and keeps its order.
LEMMA Advanced ==
  ASSUME TypeOK, NEW r \in Requests, NEW pc, Advance(r, pc)
  PROVE  \A q \in Requests : /\ request'[q].order = request[q].order
                             /\ request'[q].pc = IF q = r THEN pc ELSE request[q].pc
BY DEF TypeOK, Advance

\* A callback that moves on stays alone, and keeps its order and what it says.
LEMMA Continued ==
  ASSUME TypeOK, CallbackInv, NEW m \in callbacks, NEW pc, Continue(m, pc)
  PROVE  /\ \A a, b \in callbacks' : a.order = b.order => a = b
         /\ \A a \in callbacks' :
              \/ a \in callbacks /\ a.order # m.order
              \/ a.order = m.order /\ a.says = m.says /\ a.pc = pc
         /\ \E a \in callbacks' : a.order = m.order /\ a.says = m.says /\ a.pc = pc
<1> DEFINE new == [m EXCEPT !.pc = pc, !.owes = Owes(m, pc)]
<1>1. m \in Messages
  BY DEF TypeOK
<1>2. new.order = m.order /\ new.says = m.says /\ new.pc = pc
  BY <1>1 DEF Messages
<1>3. callbacks' = (callbacks \ {m}) \cup {new}
  BY DEF Continue
<1>4. \A a \in callbacks \ {m} : a.order # m.order
  BY DEF CallbackInv
<1> HIDE DEF new
<1>5. ASSUME NEW a \in callbacks', NEW b \in callbacks', a.order = b.order PROVE a = b
  <2>1. CASE a \in callbacks \ {m} /\ b \in callbacks \ {m}
    BY <1>5, <2>1 DEF CallbackInv
  <2>2. CASE a = new \/ b = new
    BY <1>2, <1>3, <1>4, <1>5, <2>2
  <2> QED
    BY <1>3, <2>1, <2>2
<1>6. \A a \in callbacks' : \/ a \in callbacks /\ a.order # m.order
                            \/ a.order = m.order /\ a.says = m.says /\ a.pc = pc
  BY <1>2, <1>3, <1>4
<1>7. \E a \in callbacks' : a.order = m.order /\ a.says = m.says /\ a.pc = pc
  BY <1>2, <1>3
<1> QED
  BY <1>5, <1>6, <1>7

\* A callback that is answered leaves none of its order.
LEMMA Answered ==
  ASSUME CallbackInv, NEW m \in callbacks, Answer(m)
  PROVE  /\ \A a, b \in callbacks' : a.order = b.order => a = b
         /\ \A a \in callbacks' : a \in callbacks /\ a.order # m.order
BY DEF CallbackInv, Answer

LEMMA ExclusionInit == Init => ExclusionInv
BY DEF Init, ExclusionInv, RequestInv, CallbackInv, Deciding, NoRequest

\* Requests and callbacks leave each other's orders alone: a request works on
\* GENERATED withdrawals, a callback on PROCESSING ones.
LEMMA ExclusionRequest ==
  ASSUME TypeOK, ExclusionInv, NEW r \in Requests, RequestStep(r)
  PROVE  ExclusionInv'
<1> DEFINE o == request[r].order
<1>1. /\ UNCHANGED <<callbacks, payment>>
      /\ \E pc \in {"bonus", "instructed", "done"} : Advance(r, pc)
      /\ Deciding(r)
  BY DEF RequestStep, ApproveDeposit, RejectDeposit, ApproveBonus, Refund, ApproveManual,
         Instruct, MarkProcessing, Reached, Deciding, callbackVars, gatewayVars
<1>2. \A w \in Withdrawals : w # o => withdraw'[w] = withdraw[w]
  BY DEF TypeOK, RequestStep, ApproveDeposit, RejectDeposit, ApproveBonus, Refund,
         ApproveManual, Instruct, MarkProcessing, orderVars
<1>3. o \in Withdrawals => withdraw[o] = "GENERATED"
  BY <1>1, PaymentAssumption DEF ExclusionInv, RequestInv, Deciding
<1>4. request'[r].pc = "instructed" => o \in Withdrawals /\ withdraw'[o] = "GENERATED"
  <2>1. CASE Instruct(r)
    BY <1>3, <2>1 DEF Instruct, Reached, orderVars
  <2>2. CASE ~Instruct(r)
    BY <1>1, <2>2, Advanced
       DEF RequestStep, ApproveDeposit, RejectDeposit, ApproveBonus, Refund, ApproveManual,
           MarkProcessing
  <2> QED
    BY <2>1, <2>2
<1>5. request'[r].pc = "bonus" => o \in Deposits \cap Manual
  <2>1. CASE ApproveDeposit(r)
    BY <2>1 DEF ApproveDeposit, Reached, ExclusionInv, RequestInv
  <2>2. CASE ~ApproveDeposit(r)
    BY <1>1, <2>2, Advanced
       DEF RequestStep, RejectDeposit, ApproveBonus, Refund, ApproveManual, Instruct,
           MarkProcessing
  <2> QED
    BY <2>1, <2>2
<1>6. \A q \in Requests :
        /\ request'[q].order = request[q].order
        /\ q # r => request'[q].pc = request[q].pc
        /\ request'[r].pc \in {"bonus", "instructed", "done"}
  BY <1>1, Advanced
<1>7. \A q \in Requests : q # r /\ Deciding(q) => request[q].order # o
  BY <1>1 DEF ExclusionInv, RequestInv
<1>8. RequestInv'
  <2>1. ASSUME NEW q \in Requests, NEW p \in Requests,
               Deciding(q)', Deciding(p)', request'[q].order = request'[p].order
        PROVE  q = p
    BY <1>1, <1>6, <2>1 DEF ExclusionInv, RequestInv, Deciding
  <2>2. ASSUME NEW q \in Requests, q # r
        PROVE  /\ request'[q].pc = "read" =>
                    /\ request'[q].order \in Orders
                    /\ request'[q].order \in Withdrawals =>
                         withdraw'[request'[q].order] = "GENERATED"
                    /\ request'[q].order \in Deposits => request'[q].order \in Manual
               /\ request'[q].pc = "instructed" =>
                    /\ request'[q].order \in Withdrawals
                    /\ withdraw'[request'[q].order] = "GENERATED"
               /\ request'[q].pc = "bonus" => request'[q].order \in Deposits \cap Manual
    BY <1>2, <1>6, <1>7, <2>2 DEF ExclusionInv, RequestInv, Deciding
  <2> QED
    BY <1>4, <1>5, <1>6, <2>1, <2>2 DEF RequestInv
<1>9. CallbackInv'
  BY <1>1, <1>2, <1>3 DEF ExclusionInv, CallbackInv
<1> QED
  BY <1>8, <1>9 DEF ExclusionInv

LEMMA ExclusionRead ==
  ASSUME TypeOK, ExclusionInv, Orderly, NEW r \in Requests, NEW kind, NEW o \in Orders,
         ReadOrder(r, kind, o)
  PROVE  ExclusionInv'
<1>1. /\ request'[r].pc = "read" /\ request'[r].order = o
      /\ \A q \in Requests : q # r => request'[q] = request[q]
  BY DEF ReadOrder, TypeOK
<1>2. \A q \in Requests : Deciding(q) => request[q].order # o
  BY DEF ReadOrder, Orderly, InFlight, Deciding
<1>3. /\ o \in Withdrawals => withdraw[o] = "GENERATED"
      /\ o \in Deposits => o \in Manual
  BY PaymentAssumption DEF ReadOrder, Undecided
<1>4. UNCHANGED <<withdraw, callbacks, payment>>
  BY DEF ReadOrder, orderVars, callbackVars, gatewayVars
<1>5. RequestInv'
  BY <1>1, <1>2, <1>3, <1>4 DEF ExclusionInv, RequestInv, Deciding
<1>6. CallbackInv'
  BY <1>4 DEF ExclusionInv, CallbackInv
<1> QED
  BY <1>5, <1>6 DEF ExclusionInv

LEMMA ExclusionCallback ==
  ASSUME TypeOK, ExclusionInv, NEW m \in callbacks, Handle(m)
  PROVE  ExclusionInv'
<1> USE DEF ExclusionInv
<1>1. UNCHANGED <<request, payment>>
  BY DEF Handle, DepositPaid, DepositWager, DepositBonus, DepositOther, WithdrawRead,
         WithdrawReport, apiVars, gatewayVars
<1>2. CASE UNCHANGED withdraw
  <2>1. RequestInv'
    BY <1>1, <1>2 DEF RequestInv, Deciding
  <2>2. CASE Answer(m)
    BY <1>1, <1>2, <2>1, <2>2, Answered DEF CallbackInv
  <2>3. CASE DepositPaid(m)
    BY <1>1, <1>2, <2>1, <2>3, Continued DEF DepositPaid, CallbackInv
  <2>4. CASE DepositWager(m)
    BY <1>1, <1>2, <2>1, <2>4, Continued DEF DepositWager, CallbackInv
  <2>5. CASE WithdrawRead(m)
    <3>1. Continue(m, "read") /\ m.order \in Withdrawals /\ withdraw[m.order] = "PROCESSING"
      BY <2>5 DEF WithdrawRead, Awaiting
    <3>2. m.order \notin Deposits
      BY <3>1, PaymentAssumption
    <3>3. CallbackInv'
      BY <1>1, <1>2, <3>1, <3>2, Continued DEF CallbackInv
    <3> QED
      BY <2>1, <3>3
  <2> QED
    BY <2>2, <2>3, <2>4, <2>5 DEF Handle, DepositBonus, DepositOther, WithdrawReport
<1>3. CASE WithdrawReport(m)
  <2>1. /\ m.order \in Withdrawals /\ withdraw[m.order] = "PROCESSING"
        /\ Answer(m)
        /\ \A w \in Withdrawals : w # m.order => withdraw'[w] = withdraw[w]
    BY <1>3 DEF WithdrawReport, CallbackInv, TypeOK
  <2>2. RequestInv'
    BY <1>1, <2>1 DEF RequestInv, Deciding
  <2>3. CallbackInv'
    BY <1>1, <2>1, Answered DEF CallbackInv
  <2> QED
    BY <2>2, <2>3
<1> QED
  BY <1>2, <1>3 DEF Handle, DepositPaid, DepositWager, DepositBonus, DepositOther,
                    WithdrawRead, orderVars

LEMMA ExclusionGateway ==
  ASSUME TypeOK, ExclusionInv, Orderly, NEW o \in Orders, GatewayDecides(o) \/ GatewaySends(o)
  PROVE  ExclusionInv'
<1>1. UNCHANGED <<request, withdraw>>
  BY DEF GatewayDecides, GatewaySends, apiVars, orderVars
<1>2. RequestInv'
  BY <1>1 DEF ExclusionInv, RequestInv, Deciding
<1>3. CASE GatewayDecides(o)
  <2>1. /\ UNCHANGED callbacks
        /\ \A d \in Deposits : payment'[d] # "none" <=> payment[d] # "none"
    BY <1>3 DEF GatewayDecides, callbackVars, TypeOK
  <2>2. CallbackInv'
    BY <1>1, <2>1 DEF ExclusionInv, CallbackInv
  <2> QED
    BY <1>2, <2>2 DEF ExclusionInv
<1>4. CASE GatewaySends(o)
  <2> DEFINE new == [order |-> o, says |-> Says(o), n |-> sent[o], pc |-> "sent", owes |-> FALSE]
  <2>1. callbacks' = callbacks \cup {new} /\ UNCHANGED payment
    BY <1>4 DEF GatewaySends, gatewayVars
  <2>2. \A a \in callbacks : a.order # o
    BY <1>4 DEF GatewaySends, Orderly
  <2>3. o \in Deposits => payment[o] # "none"
    BY <1>4 DEF GatewaySends, Says
  <2>4. new.order = o /\ new.pc = "sent"
    OBVIOUS
  <2> HIDE DEF new
  <2>5. \A a, b \in callbacks' : a.order = b.order => a = b
    BY <2>1, <2>2, <2>4 DEF ExclusionInv, CallbackInv
  <2>6. CallbackInv'
    BY <1>1, <2>1, <2>3, <2>4, <2>5 DEF ExclusionInv, CallbackInv
  <2> QED
    BY <1>2, <2>6 DEF ExclusionInv
<1> QED
  BY <1>3, <1>4

LEMMA ExclusionPlayer ==
  ASSUME TypeOK, ExclusionInv,
         PlayerStep \/ \E d \in Deposits : CreateDeposit(d) \/ FailStale(d)
  PROVE  ExclusionInv'
<1>1. UNCHANGED <<request, callbacks>>
  BY DEF PlayerStep, Play, ClearWager, RequestDeposit, RequestWithdraw, CreateDeposit,
         FailStale, apiVars, callbackVars
<1>2. \A w \in Withdrawals : withdraw[w] # "none" => withdraw'[w] = withdraw[w]
  BY DEF TypeOK, PlayerStep, Play, ClearWager, RequestDeposit, RequestWithdraw,
         CreateDeposit, FailStale, orderVars
<1>3. \A d \in Deposits : \/ payment'[d] = payment[d]
                          \/ payment'[d] # "none" /\ d \notin Manual
  BY DEF TypeOK, PlayerStep, Play, ClearWager, RequestDeposit, RequestWithdraw,
         CreateDeposit, FailStale, gatewayVars
<1>4. RequestInv'
  BY <1>1, <1>2 DEF ExclusionInv, RequestInv, Deciding
<1>5. CallbackInv'
  BY <1>1, <1>2, <1>3 DEF ExclusionInv, CallbackInv
<1> QED
  BY <1>4, <1>5 DEF ExclusionInv

LEMMA ExclusionFailure ==
  ASSUME TypeOK, ExclusionInv, FailStep
  PROVE  ExclusionInv'
<1> USE DEF ExclusionInv
<1>1. UNCHANGED <<withdraw, payment>>
  BY DEF FailStep, Crash, RequestFails, InstructFails, CallbackFails, WagerFails,
         orderVars, gatewayVars
<1>2. CASE Crash
  <2>1. \A q \in Requests : ~Deciding(q)'
    BY <1>2 DEF Crash, Deciding, NoRequest, TypeOK
  <2>2. RequestInv'
    BY <2>1 DEF RequestInv, Deciding
  <2> DEFINE Again(m) == [m EXCEPT !.pc = "sent"]
  <2>3. \A m \in callbacks : Again(m).order = m.order /\ Again(m).pc = "sent"
    BY DEF TypeOK, Messages
  <2>4. \A a \in callbacks' : \E m \in callbacks : a = Again(m)
    BY <1>2 DEF Crash
  <2> HIDE DEF Again
  <2>5. ASSUME NEW a \in callbacks', NEW b \in callbacks', a.order = b.order PROVE a = b
    <3>1. PICK m \in callbacks : a = Again(m)
      BY <2>4
    <3>2. PICK n \in callbacks : b = Again(n)
      BY <2>4
    <3>3. m.order = n.order
      BY <2>3, <2>5, <3>1, <3>2
    <3> QED
      BY <3>1, <3>2, <3>3 DEF CallbackInv
  <2>6. ASSUME NEW a \in callbacks'
        PROVE  a.pc = "sent" /\ (a.order \in Deposits => payment[a.order] # "none")
    <3>1. PICK m \in callbacks : a = Again(m)
      BY <2>4
    <3> QED
      BY <2>3, <3>1 DEF CallbackInv
  <2>7. CallbackInv'
    BY <1>1, <2>5, <2>6 DEF CallbackInv
  <2> QED
    BY <2>2, <2>7
<1>3. ASSUME NEW r \in Requests, RequestFails(r) \/ InstructFails(r) PROVE ExclusionInv'
  <2>1. Advance(r, "done") /\ UNCHANGED callbacks
    BY <1>3 DEF RequestFails, InstructFails, callbackVars
  <2>2. RequestInv'
    BY <1>1, <2>1, Advanced DEF RequestInv, Deciding
  <2>3. CallbackInv'
    BY <1>1, <2>1 DEF CallbackInv
  <2> QED
    BY <2>2, <2>3
<1>4. ASSUME NEW m \in callbacks, CallbackFails(m) \/ WagerFails(m) PROVE ExclusionInv'
  <2>1. UNCHANGED request
    BY <1>4 DEF CallbackFails, WagerFails, apiVars
  <2>2. RequestInv'
    BY <1>1, <2>1 DEF RequestInv, Deciding
  <2>3. CASE Continue(m, "sent")
    BY <1>1, <2>2, <2>3, Continued DEF CallbackInv
  <2>4. CASE Answer(m)
    BY <1>1, <2>2, <2>4, Answered DEF CallbackInv
  <2> QED
    BY <1>4, <2>3, <2>4 DEF CallbackFails, WagerFails, Refuse
<1> QED
  BY <1>2, <1>3, <1>4 DEF FailStep

LEMMA ExclusionStep ==
  ASSUME Orderly, TypeOK, ExclusionInv, [Next]_vars
  PROVE  ExclusionInv'
<1>1. CASE UNCHANGED vars
  BY <1>1 DEF ExclusionInv, RequestInv, CallbackInv, Deciding, vars, orderVars, gatewayVars,
              callbackVars, apiVars
<1> QED
  BY <1>1, ExclusionRequest, ExclusionRead, ExclusionCallback, ExclusionGateway,
     ExclusionPlayer, ExclusionFailure DEF Next

\* If requests for one order do not overlap, and its callbacks come one after the
\* other, what a handler has read of an order still holds when it updates it,
\* although its update does not say so.
THEOREM ReadsStayValid == Orderly /\ Spec => []ExclusionInv
<1>1. ASSUME Orderly PROVE Spec => []ExclusionInv
  BY <1>1, TypeCorrect, ExclusionInit, ExclusionStep, PTL DEF Spec
<1> QED
  BY <1>1

--------------------------------------------------------------------------------
(* A deposit is credited once                                               *)

\* What is assumed where there are gateway deposits: an answered callback is not
\* repeated, and none is handled again after the credit.
DepositsOnce ==
  Deposits \subseteq Manual \/ ("once" \in Assumed /\ {"wager", "crash"} \cap FaultKinds = {})

\* A gateway deposit that was credited is being answered, or "paid" was answered.
DepositRow(d) ==
  /\ deposit[d] # "SUCCESS" => rewards[d] = 0
  /\ d \in opening => d \notin Manual /\ deposit[d] = "none" /\ payment[d] # "none"
  /\ <<d, "paid">> \in answered => payment[d] = "paid"
  /\ deposit[d] = "SUCCESS" /\ d \notin Manual =>
       <<d, "paid">> \in answered \/ \E m \in callbacks : m.order = d

\* A request that may still credit a deposit finds it uncredited ...
RequestRow(r) ==
  request[r].order \in Deposits =>
    /\ request[r].pc = "read" => deposit[request[r].order] # "SUCCESS"
    /\ request[r].pc = "bonus" =>
         deposit[request[r].order] = "SUCCESS" /\ rewards[request[r].order] = 0

\* ... and so does a callback.
CallbackRow(m) ==
  m.order \in Deposits =>
    /\ m.says \in {"paid", "failed"} => payment[m.order] = m.says
    /\ m.pc = "sent" => deposit[m.order] # "SUCCESS"
    /\ m.pc \in {"wager", "bonus"} => deposit[m.order] = "SUCCESS" /\ rewards[m.order] = 0

DepositInv ==
  /\ \A d \in Deposits : DepositRow(d)
  /\ \A r \in Requests : RequestRow(r)
  /\ \A m \in callbacks : CallbackRow(m)

LEMMA DepositInit == Init => DepositInv
BY DEF Init, DepositInv, DepositRow, RequestRow, CallbackRow, NoRequest

\* No callback is about a UPI deposit, and no request about another.
LEMMA Separate ==
  ASSUME TypeOK, ExclusionInv
  PROVE  /\ \A m \in callbacks : m.order \in Deposits => m.order \notin Manual
         /\ \A r \in Requests : request[r].order \in Deposits
                                  /\ request[r].pc \in {"read", "bonus"} =>
              request[r].order \in Manual
BY DEF ExclusionInv, RequestInv, CallbackInv

\* A request that does not decide a deposit needs nothing of it.
LEMMA RequestsRest ==
  ASSUME NEW r \in Requests, request[r].pc \notin {"read", "bonus"}
  PROVE  RequestRow(r)
BY DEF RequestRow

\* Steps that leave everything about deposits alone, but for requests that end.
LEMMA DepositFrame ==
  ASSUME DepositInv, UNCHANGED <<deposit, rewards, opening, payment, answered, callbacks>>,
         \A q \in Requests : \/ request'[q] = request[q]
                             \/ request'[q].pc \notin {"read", "bonus"}
  PROVE  DepositInv'
BY DEF DepositInv, DepositRow, RequestRow, CallbackRow

\* A deposit that was not credited, and is not now.
LEMMA DepositUncredited ==
  ASSUME TypeOK, DepositInv, NEW d \in Deposits, deposit[d] # "SUCCESS", deposit'[d] # "SUCCESS",
         \A e \in Deposits : e # d => deposit'[e] = deposit[e],
         d \notin opening', opening' \subseteq opening,
         UNCHANGED <<rewards, payment, answered, callbacks>>,
         \A q \in Requests : \/ request'[q] = request[q]
                             \/ request'[q].pc \notin {"read", "bonus"}
  PROVE  DepositInv'
<1>1. \A e \in Deposits : DepositRow(e)'
  BY DEF DepositInv, DepositRow
<1>2. \A r \in Requests : RequestRow(r)'
  BY DEF DepositInv, RequestRow
<1>3. \A m \in callbacks' : CallbackRow(m)'
  BY DEF DepositInv, CallbackRow
<1> QED
  BY <1>1, <1>2, <1>3 DEF DepositInv

LEMMA DepositRequest ==
  ASSUME TypeOK, ExclusionInv, DepositInv, NEW r \in Requests, RequestStep(r)
  PROVE  DepositInv'
<1> DEFINE d == request[r].order
<1>1. ASSUME NEW pc, Advance(r, pc)
      PROVE  /\ \A q \in Requests : q # r => request'[q] = request[q]
             /\ request'[r].order = d /\ request'[r].pc = pc
  BY <1>1 DEF TypeOK, Advance
<1>2. \A q \in Requests : q # r /\ Deciding(r) /\ Deciding(q) => request[q].order # d
  BY DEF ExclusionInv, RequestInv
<1>3. CASE ApproveDeposit(r)
  <2>1. /\ d \in Deposits /\ request[r].pc = "read" /\ Advance(r, "bonus")
        /\ deposit' = [deposit EXCEPT ![d] = "SUCCESS"]
        /\ UNCHANGED <<rewards, opening, payment, answered, callbacks>>
    BY <1>3 DEF ApproveDeposit, Reached, gatewayVars, callbackVars
  <2>2. d \in Manual /\ deposit[d] # "SUCCESS" /\ rewards[d] = 0 /\ d \notin opening
    BY <2>1 DEF ExclusionInv, RequestInv, DepositInv, RequestRow, DepositRow
  <2>3. /\ deposit'[d] = "SUCCESS"
        /\ \A e \in Deposits : e # d => deposit'[e] = deposit[e]
    BY <2>1 DEF TypeOK
  <2>4. ASSUME NEW e \in Deposits PROVE DepositRow(e)'
    <3>1. DepositRow(e)
      BY DEF DepositInv
    <3>2. CASE e = d
      BY <2>1, <2>2, <2>3, <3>1, <3>2 DEF DepositRow
    <3>3. CASE e # d
      BY <2>1, <2>3, <3>1, <3>3 DEF DepositRow
    <3> QED
      BY <3>2, <3>3
  <2>5. ASSUME NEW q \in Requests PROVE RequestRow(q)'
    <3>1. CASE q = r
      BY <1>1, <2>1, <2>2, <2>3, <3>1 DEF RequestRow
    <3>2. CASE q # r
      BY <1>1, <1>2, <2>1, <2>3, <3>2 DEF DepositInv, RequestRow, Deciding
    <3> QED
      BY <3>1, <3>2
  <2>6. ASSUME NEW m \in callbacks' PROVE CallbackRow(m)'
    <3>1. m \in callbacks /\ m.order # d
      BY <2>1, <2>2, Separate
    <3> QED
      BY <2>1, <2>3, <3>1 DEF DepositInv, CallbackRow
  <2> QED
    BY <2>4, <2>5, <2>6 DEF DepositInv
<1>4. CASE RejectDeposit(r)
  <2>1. /\ d \in Deposits /\ request[r].pc = "read" /\ Advance(r, "done")
        /\ deposit' = [deposit EXCEPT ![d] = "FAILED"]
        /\ UNCHANGED <<rewards, opening, payment, answered, callbacks>>
    BY <1>4 DEF RejectDeposit, Reached, gatewayVars, callbackVars
  <2>2. deposit[d] # "SUCCESS" /\ d \notin opening
    BY <2>1 DEF ExclusionInv, RequestInv, DepositInv, RequestRow, DepositRow
  <2>3. deposit'[d] # "SUCCESS" /\ \A e \in Deposits : e # d => deposit'[e] = deposit[e]
    BY <2>1 DEF TypeOK
  <2>4. \A q \in Requests : \/ request'[q] = request[q]
                            \/ request'[q].pc \notin {"read", "bonus"}
    BY <1>1, <2>1
  <2> QED
    BY <2>1, <2>2, <2>3, <2>4, DepositUncredited
<1>5. CASE ApproveBonus(r)
  <2>1. /\ d \in Deposits /\ request[r].pc = "bonus" /\ Advance(r, "done")
        /\ rewards' = [rewards EXCEPT ![d] = @ + 1]
        /\ UNCHANGED <<deposit, opening, payment, answered, callbacks>>
    BY <1>5 DEF ApproveBonus, Reached, CreditBonus, gatewayVars, callbackVars
  <2>2. d \in Manual /\ deposit[d] = "SUCCESS"
    BY <2>1 DEF ExclusionInv, RequestInv, DepositInv, RequestRow
  <2>3. \A e \in Deposits : e # d => rewards'[e] = rewards[e]
    BY <2>1 DEF TypeOK
  <2>4. ASSUME NEW e \in Deposits PROVE DepositRow(e)'
    <3>1. DepositRow(e)
      BY DEF DepositInv
    <3>2. CASE e = d
      BY <2>1, <2>2, <3>1, <3>2 DEF DepositRow
    <3>3. CASE e # d
      BY <2>1, <2>3, <3>1, <3>3 DEF DepositRow
    <3> QED
      BY <3>2, <3>3
  <2>5. ASSUME NEW q \in Requests PROVE RequestRow(q)'
    <3>1. CASE q = r
      BY <1>1, <2>1, <3>1 DEF RequestRow
    <3>2. CASE q # r
      BY <1>1, <1>2, <2>1, <2>3, <3>2 DEF DepositInv, RequestRow, Deciding
    <3> QED
      BY <3>1, <3>2
  <2>6. ASSUME NEW m \in callbacks' PROVE CallbackRow(m)'
    <3>1. m \in callbacks /\ m.order # d
      BY <2>1, <2>2, Separate
    <3> QED
      BY <2>1, <2>3, <3>1 DEF DepositInv, CallbackRow
  <2> QED
    BY <2>4, <2>5, <2>6 DEF DepositInv
<1>6. CASE Refund(r) \/ ApproveManual(r) \/ Instruct(r) \/ MarkProcessing(r)
  <2>1. /\ UNCHANGED <<deposit, rewards, opening, payment, answered, callbacks>>
        /\ Advance(r, "done") \/ Advance(r, "instructed")
    BY <1>6 DEF Refund, ApproveManual, Instruct, MarkProcessing, orderVars, gatewayVars,
                callbackVars
  <2>2. \A q \in Requests : \/ request'[q] = request[q]
                            \/ request'[q].pc \notin {"read", "bonus"}
    BY <1>1, <2>1
  <2> QED
    BY <2>1, <2>2, DepositFrame
<1> QED
  BY <1>3, <1>4, <1>5, <1>6 DEF RequestStep

LEMMA DepositCallback ==
  ASSUME TypeOK, ExclusionInv, DepositInv, NEW m \in callbacks, Handle(m)
  PROVE  DepositInv'
<1> DEFINE d == m.order
<1>0. UNCHANGED <<opening, payment, request>>
  BY DEF Handle, DepositPaid, DepositWager, DepositBonus, DepositOther, WithdrawRead,
         WithdrawReport, apiVars, gatewayVars
<1>1. CallbackInv /\ \A a \in callbacks : CallbackRow(a)
  BY DEF ExclusionInv, DepositInv
<1>2. ASSUME d \in Deposits,
             \A e \in Deposits : e # d => deposit'[e] = deposit[e] /\ rewards'[e] = rewards[e],
             \A a \in callbacks' : IF a.order = d THEN CallbackRow(a)' ELSE a \in callbacks,
             \A a \in callbacks : a.order # d => a \in callbacks',
             \A e \in Deposits : e # d =>
               (<<e, "paid">> \in answered' <=> <<e, "paid">> \in answered),
             DepositRow(d)'
      PROVE  DepositInv'
  <2>1. d \notin Manual
    BY <1>2, Separate
  <2>2. ASSUME NEW e \in Deposits, e # d PROVE DepositRow(e)'
    <3>1. DepositRow(e)
      BY DEF DepositInv
    <3>2. (\E a \in callbacks : a.order = e) => \E a \in callbacks' : a.order = e
      BY <1>2, <2>2
    <3>3. deposit'[e] = deposit[e] /\ rewards'[e] = rewards[e]
      BY <1>2, <2>2
    <3> QED
      BY <1>0, <1>2, <2>2, <3>1, <3>2, <3>3 DEF DepositRow
  <2>3. ASSUME NEW r \in Requests PROVE RequestRow(r)'
    <3>1. request[r].order \in Deposits /\ request[r].pc \in {"read", "bonus"} =>
            request[r].order # d
      BY <2>1, Separate
    <3> QED
      BY <1>0, <1>2, <3>1 DEF DepositInv, RequestRow
  <2>4. ASSUME NEW a \in callbacks' PROVE CallbackRow(a)'
    <3>1. CASE a.order # d
      BY <1>0, <1>1, <1>2, <3>1 DEF CallbackRow
    <3> QED
      BY <1>2, <3>1
  <2> QED
    BY <1>2, <2>2, <2>3, <2>4 DEF DepositInv
<1>3. ASSUME NEW pc, Continue(m, pc), UNCHANGED answered
      PROVE  /\ \A a \in callbacks' : \/ a \in callbacks /\ a.order # d
                                      \/ a.order = d /\ a.says = m.says /\ a.pc = pc
             /\ \E a \in callbacks' : a.order = d
             /\ \A a \in callbacks : a.order # d => a \in callbacks'
  BY <1>1, <1>3, Continued DEF Continue
<1>4. ASSUME Answer(m)
      PROVE  /\ \A a \in callbacks' : a \in callbacks /\ a.order # d
             /\ \A a \in callbacks : a.order # d => a \in callbacks'
             /\ answered' = answered \cup {<<d, m.says>>}
  BY <1>1, <1>4, Answered DEF Answer
<1>5. CASE DepositPaid(m)
  <2>1. /\ d \in Deposits /\ m.pc = "sent" /\ m.says = "paid" /\ deposit[d] # "none"
        /\ deposit' = [deposit EXCEPT ![d] = "SUCCESS"]
        /\ Continue(m, "wager") /\ UNCHANGED <<rewards, answered>>
    BY <1>5 DEF DepositPaid, Creditable
  <2>2. deposit[d] # "SUCCESS" /\ payment[d] = "paid"
    BY <1>1, <2>1 DEF CallbackRow
  <2>3. DepositRow(d)
    BY <2>1 DEF DepositInv
  <2>4. deposit'[d] = "SUCCESS" /\ \A e \in Deposits : e # d => deposit'[e] = deposit[e]
    BY <2>1 DEF TypeOK
  <2>5. rewards[d] = 0 /\ d \notin opening
    BY <2>1, <2>2, <2>3 DEF DepositRow
  <2>6. DepositRow(d)'
    BY <1>0, <1>3, <2>1, <2>3, <2>4, <2>5 DEF DepositRow
  <2>7. \A a \in callbacks' : a.order = d => CallbackRow(a)'
    BY <1>0, <1>3, <2>1, <2>2, <2>4, <2>5 DEF CallbackRow
  <2>8. /\ \A a \in callbacks' : IF a.order = d THEN CallbackRow(a)' ELSE a \in callbacks
        /\ \A a \in callbacks : a.order # d => a \in callbacks'
    BY <1>3, <2>1, <2>7
  <2>9. \A e \in Deposits : e # d => deposit'[e] = deposit[e] /\ rewards'[e] = rewards[e]
    BY <2>1, <2>4
  <2> QED
    BY <1>2, <2>1, <2>6, <2>8, <2>9
<1>6. CASE DepositWager(m)
  <2>1. /\ m.pc = "wager" /\ Continue(m, "bonus") /\ UNCHANGED <<deposit, rewards, answered>>
    BY <1>6 DEF DepositWager, orderVars
  <2>2. d \in Deposits /\ m.says = "paid"
    BY <1>1, <2>1 DEF CallbackInv
  <2>3. payment[d] = "paid" /\ deposit[d] = "SUCCESS" /\ rewards[d] = 0
    BY <1>1, <2>1, <2>2 DEF CallbackRow
  <2>4. DepositRow(d)
    BY <2>2 DEF DepositInv
  <2>5. DepositRow(d)'
    BY <1>0, <1>3, <2>1, <2>4 DEF DepositRow
  <2>6. \A a \in callbacks' : a.order = d => CallbackRow(a)'
    BY <1>0, <1>3, <2>1, <2>2, <2>3 DEF CallbackRow
  <2>7. /\ \A a \in callbacks' : IF a.order = d THEN CallbackRow(a)' ELSE a \in callbacks
        /\ \A a \in callbacks : a.order # d => a \in callbacks'
    BY <1>3, <2>1, <2>6
  <2> QED
    BY <1>2, <2>1, <2>2, <2>5, <2>7
<1>7. CASE DepositBonus(m)
  <2>1. /\ m.pc = "bonus" /\ Answer(m) /\ UNCHANGED deposit
        /\ rewards' = [rewards EXCEPT ![d] = @ + 1]
    BY <1>7 DEF DepositBonus, CreditBonus
  <2>2. d \in Deposits /\ m.says = "paid"
    BY <1>1, <2>1 DEF CallbackInv
  <2>3. payment[d] = "paid" /\ deposit[d] = "SUCCESS"
    BY <1>1, <2>1, <2>2 DEF CallbackRow
  <2>4. DepositRow(d)
    BY <2>2 DEF DepositInv
  <2>5. DepositRow(d)'
    BY <1>0, <1>4, <2>1, <2>2, <2>3, <2>4 DEF DepositRow
  <2>6. \A e \in Deposits : e # d => rewards'[e] = rewards[e]
    BY <2>1 DEF TypeOK
  <2>7. /\ \A a \in callbacks' : IF a.order = d THEN CallbackRow(a)' ELSE a \in callbacks
        /\ \A a \in callbacks : a.order # d => a \in callbacks'
        /\ \A e \in Deposits : e # d =>
             (<<e, "paid">> \in answered' <=> <<e, "paid">> \in answered)
    BY <1>4, <2>1
  <2> QED
    BY <1>2, <2>1, <2>2, <2>5, <2>6, <2>7
<1>8. CASE DepositOther(m)
  <2>1. /\ d \in Deposits /\ m.pc = "sent" /\ m.says # "paid" /\ deposit[d] # "none"
        /\ deposit' = [deposit EXCEPT ![d] = IF m.says = "pending" THEN "PROCESSING" ELSE "FAILED"]
        /\ Answer(m) /\ UNCHANGED rewards
    BY <1>8 DEF DepositOther
  <2>2. /\ deposit'[d] # "SUCCESS"
        /\ \A e \in Deposits : e # d => deposit'[e] = deposit[e]
    BY <2>1 DEF TypeOK
  <2>3. DepositRow(d) /\ deposit[d] # "SUCCESS"
    BY <1>1, <2>1 DEF DepositInv, CallbackRow
  <2>4. DepositRow(d)'
    BY <1>0, <1>4, <2>1, <2>2, <2>3 DEF DepositRow
  <2>5. /\ \A a \in callbacks' : IF a.order = d THEN CallbackRow(a)' ELSE a \in callbacks
        /\ \A a \in callbacks : a.order # d => a \in callbacks'
        /\ \A e \in Deposits : e # d =>
             (<<e, "paid">> \in answered' <=> <<e, "paid">> \in answered)
    BY <1>4, <2>1
  <2> QED
    BY <1>2, <2>1, <2>2, <2>4, <2>5
<1>9. CASE WithdrawRead(m) \/ WithdrawReport(m)
  <2>1. d \notin Deposits /\ UNCHANGED <<deposit, rewards>>
    BY <1>1, <1>9, PaymentAssumption DEF WithdrawRead, WithdrawReport, CallbackInv, orderVars
  <2>2. \A a \in callbacks' : a.order \in Deposits => a \in callbacks
    BY <1>3, <1>4, <1>9, <2>1 DEF WithdrawRead, WithdrawReport
  <2>3. \A a \in callbacks : a.order \in Deposits => a \in callbacks'
    BY <1>3, <1>4, <1>9, <2>1 DEF WithdrawRead, WithdrawReport
  <2>4. \A e \in Deposits : <<e, "paid">> \in answered' <=> <<e, "paid">> \in answered
    BY <1>4, <1>9, <2>1 DEF WithdrawRead, WithdrawReport
  <2>5. \A e \in Deposits : DepositRow(e)'
    BY <1>0, <2>1, <2>3, <2>4 DEF DepositInv, DepositRow
  <2>6. \A r \in Requests : RequestRow(r)'
    BY <1>0, <2>1 DEF DepositInv, RequestRow
  <2>7. \A a \in callbacks' : CallbackRow(a)'
    BY <1>0, <2>1, <2>2 DEF DepositInv, CallbackRow
  <2> QED
    BY <2>5, <2>6, <2>7 DEF DepositInv
<1> QED
  BY <1>5, <1>6, <1>7, <1>8, <1>9 DEF Handle

LEMMA DepositGateway ==
  ASSUME Orderly, DepositsOnce, TypeOK, ExclusionInv, DepositInv, NEW o \in Orders,
         GatewayDecides(o) \/ GatewaySends(o)
  PROVE  DepositInv'
<1>0. UNCHANGED <<deposit, rewards, opening, request, answered>>
  BY DEF GatewayDecides, GatewaySends, orderVars, apiVars, callbackVars
<1>1. \A r \in Requests : RequestRow(r)'
  BY <1>0 DEF DepositInv, RequestRow
<1>2. CASE GatewayDecides(o)
  <2>1. /\ UNCHANGED callbacks
        /\ \A d \in Deposits : payment[d] # "open" => payment'[d] = payment[d]
        /\ \A d \in Deposits : payment[d] = "open" => payment'[d] # "none"
    BY <1>2 DEF GatewayDecides, callbackVars, TypeOK
  <2>2. \A d \in Deposits : DepositRow(d)'
    BY <1>0, <2>1 DEF DepositInv, DepositRow
  <2>3. \A m \in callbacks' : CallbackRow(m)'
    BY <1>0, <2>1 DEF DepositInv, CallbackRow
  <2> QED
    BY <1>1, <2>2, <2>3 DEF DepositInv
<1>3. CASE GatewaySends(o)
  <2> DEFINE new == [order |-> o, says |-> Says(o), n |-> sent[o], pc |-> "sent", owes |-> FALSE]
  <2>1. /\ callbacks' = callbacks \cup {new}
        /\ UNCHANGED payment
        /\ Says(o) # "nothing"
        /\ \A m \in callbacks : m.order # o
        /\ "once" \in Assumed => <<o, Says(o)>> \notin answered
    BY <1>3 DEF GatewaySends, gatewayVars, Orderly
  <2>2. new.order = o /\ new.says = Says(o) /\ new.pc = "sent"
    OBVIOUS
  <2> HIDE DEF new
  <2>3. o \in Deposits =>
          /\ payment[o] # "none"
          /\ Says(o) \in {"paid", "failed"} => payment[o] = Says(o)
          /\ payment[o] = "paid" => Says(o) = "paid"
    BY <2>1 DEF Says
  <2>4. ASSUME o \in Deposits PROVE deposit[o] # "SUCCESS"
    <3>1. o \notin Manual
      BY <2>3, <2>4 DEF ExclusionInv, CallbackInv
    <3>2. "once" \in Assumed
      BY <2>4, <3>1 DEF DepositsOnce
    <3>3. <<o, "paid">> \notin answered
      BY <2>1, <2>3, <2>4, <3>2 DEF DepositInv, DepositRow
    <3> QED
      BY <2>1, <2>4, <3>1, <3>3 DEF DepositInv, DepositRow
  <2>5. \A d \in Deposits : DepositRow(d)'
    BY <1>0, <2>1 DEF DepositInv, DepositRow
  <2>6. ASSUME NEW m \in callbacks' PROVE CallbackRow(m)'
    <3>1. CASE m = new
      BY <1>0, <2>1, <2>2, <2>3, <2>4, <3>1 DEF CallbackRow
    <3>2. CASE m \in callbacks
      BY <1>0, <2>1, <3>2 DEF DepositInv, CallbackRow
    <3> QED
      BY <2>1, <3>1, <3>2
  <2> QED
    BY <1>1, <2>5, <2>6 DEF DepositInv
<1> QED
  BY <1>2, <1>3

LEMMA DepositPlayer ==
  ASSUME TypeOK, ExclusionInv, DepositInv,
         PlayerStep \/ \E d \in Deposits : CreateDeposit(d) \/ FailStale(d)
  PROVE  DepositInv'
<1>1. CASE UNCHANGED <<deposit, rewards, opening, payment, answered, callbacks, request>>
  BY <1>1, DepositFrame
<1>2. ASSUME NEW d \in Deposits, CreateDeposit(d) \/ FailStale(d) PROVE DepositInv'
  <2>1. /\ UNCHANGED <<rewards, payment, answered, callbacks, request>>
        /\ opening' \subseteq opening
        /\ deposit'[d] # "SUCCESS" /\ \A e \in Deposits : e # d => deposit'[e] = deposit[e]
    BY <1>2 DEF CreateDeposit, FailStale, gatewayVars, callbackVars, apiVars, TypeOK
  <2>2. deposit[d] # "SUCCESS" /\ d \notin opening'
    BY <1>2 DEF CreateDeposit, FailStale, Stale, apiVars, DepositInv, DepositRow
  <2> QED
    BY <2>1, <2>2, DepositUncredited
<1>3. ASSUME NEW d \in Deposits, RequestDeposit(d), d \in Manual PROVE DepositInv'
  <2>1. /\ UNCHANGED <<rewards, payment, opening, answered, callbacks, request>>
        /\ deposit[d] = "none" /\ d \notin opening
        /\ deposit'[d] # "SUCCESS" /\ \A e \in Deposits : e # d => deposit'[e] = deposit[e]
    BY <1>3 DEF RequestDeposit, callbackVars, TypeOK
  <2> QED
    BY <2>1, DepositUncredited
<1>4. ASSUME NEW d \in Deposits, RequestDeposit(d), d \notin Manual PROVE DepositInv'
  <2>1. /\ UNCHANGED <<deposit, rewards, answered, callbacks, request>>
        /\ deposit[d] = "none" /\ payment[d] = "none" /\ opening' = opening \cup {d}
        /\ payment'[d] = "open" /\ \A e \in Deposits : e # d => payment'[e] = payment[e]
    BY <1>4 DEF RequestDeposit, callbackVars, TypeOK
  <2>2. \A e \in Deposits : DepositRow(e)'
    BY <1>4, <2>1 DEF DepositInv, DepositRow
  <2>3. \A r \in Requests : RequestRow(r)'
    BY <2>1 DEF DepositInv, RequestRow
  <2>4. \A m \in callbacks : m.order # d
    BY <2>1 DEF ExclusionInv, CallbackInv
  <2>5. \A m \in callbacks' : CallbackRow(m)'
    BY <2>1, <2>4 DEF DepositInv, CallbackRow
  <2> QED
    BY <2>2, <2>3, <2>5 DEF DepositInv
<1>5. ASSUME NEW w \in Withdrawals, RequestWithdraw(w) PROVE DepositInv'
  BY <1>1, <1>5 DEF RequestWithdraw, gatewayVars, callbackVars, apiVars
<1>6. CASE Play \/ ClearWager
  BY <1>1, <1>6 DEF Play, ClearWager, orderVars, gatewayVars, callbackVars, apiVars
<1> QED
  BY <1>2, <1>3, <1>4, <1>5, <1>6 DEF PlayerStep

LEMMA DepositFailure ==
  ASSUME DepositsOnce, TypeOK, ExclusionInv, DepositInv, FailStep
  PROVE  DepositInv'
<1>0. UNCHANGED <<deposit, rewards, payment>>
  BY DEF FailStep, Crash, RequestFails, InstructFails, CallbackFails, WagerFails,
         orderVars, gatewayVars
<1>1. CASE Crash
  <2>1. Deposits \subseteq Manual
    BY <1>1 DEF DepositsOnce, Crash, Fault
  <2>2. opening' = {} /\ UNCHANGED answered
    BY <1>1 DEF Crash
  <2>3. \A d \in Deposits : DepositRow(d)'
    BY <1>0, <2>1, <2>2 DEF DepositInv, DepositRow
  <2>4. \A r \in Requests : request'[r].pc \notin {"read", "bonus"}
    BY <1>1 DEF Crash, NoRequest, TypeOK
  <2>5. \A r \in Requests : RequestRow(r)'
    BY <2>4 DEF RequestRow
  <2>6. \A m \in callbacks : [m EXCEPT !.pc = "sent"].order = m.order
    BY DEF TypeOK, Messages
  <2>7. \A m \in callbacks' : m.order \notin Deposits
    BY <1>1, <2>1, <2>6, Separate DEF Crash
  <2>8. \A m \in callbacks' : CallbackRow(m)'
    BY <2>7 DEF CallbackRow
  <2> QED
    BY <2>3, <2>5, <2>8 DEF DepositInv
<1>2. ASSUME NEW r \in Requests, RequestFails(r) \/ InstructFails(r) PROVE DepositInv'
  <2>1. Advance(r, "done") /\ UNCHANGED <<callbacks, answered, opening>>
    BY <1>2 DEF RequestFails, InstructFails, callbackVars
  <2>2. \A q \in Requests : request'[q] = request[q] \/ request'[q].pc \notin {"read", "bonus"}
    BY <2>1 DEF Advance, TypeOK
  <2> QED
    BY <1>0, <2>1, <2>2, DepositFrame
<1>3. ASSUME NEW m \in callbacks, CallbackFails(m), m.pc = "read" PROVE DepositInv'
  <2>1. Continue(m, "sent") /\ UNCHANGED <<answered, opening, request>>
    BY <1>3 DEF CallbackFails, apiVars
  <2>2. CallbackInv /\ m.order \notin Deposits
    BY <1>3, PaymentAssumption DEF ExclusionInv, CallbackInv
  <2>3. \A a \in callbacks' : a.order \in Deposits => a \in callbacks
    BY <2>1, <2>2, Continued
  <2>4. \A a \in callbacks : a.order \in Deposits => a \in callbacks'
    BY <2>1, <2>2 DEF Continue
  <2>5. \A d \in Deposits : DepositRow(d)'
    BY <1>0, <2>1, <2>4 DEF DepositInv, DepositRow
  <2>6. \A r \in Requests : RequestRow(r)'
    BY <1>0, <2>1 DEF DepositInv, RequestRow
  <2>7. \A a \in callbacks' : CallbackRow(a)'
    BY <1>0, <2>3 DEF DepositInv, CallbackRow
  <2> QED
    BY <2>5, <2>6, <2>7 DEF DepositInv
<1>4. ASSUME NEW m \in callbacks, CallbackFails(m), m.pc = "bonus" PROVE DepositInv'
  <2>1. Answer(m) /\ UNCHANGED <<opening, request>>
    BY <1>4 DEF CallbackFails, apiVars
  <2>2. CallbackInv /\ m.order \in Deposits /\ m.says = "paid"
    BY <1>4 DEF ExclusionInv, CallbackInv
  <2>3. payment[m.order] = "paid"
    BY <2>2 DEF DepositInv, CallbackRow
  <2>4. \A a \in callbacks' : a \in callbacks
    BY <2>1 DEF Answer
  <2>5. \A a \in callbacks : a.order # m.order => a \in callbacks'
    BY <2>1 DEF Answer
  <2>6. answered' = answered \cup {<<m.order, "paid">>}
    BY <2>1, <2>2 DEF Answer
  <2>7. ASSUME NEW d \in Deposits PROVE DepositRow(d)'
    <3>1. DepositRow(d)
      BY DEF DepositInv
    <3>2. (\E a \in callbacks : a.order = d) =>
            d = m.order \/ \E a \in callbacks' : a.order = d
      BY <2>5
    <3> QED
      BY <1>0, <2>1, <2>3, <2>6, <3>1, <3>2 DEF DepositRow
  <2>8. \A r \in Requests : RequestRow(r)'
    BY <1>0, <2>1 DEF DepositInv, RequestRow
  <2>9. \A a \in callbacks' : CallbackRow(a)'
    BY <1>0, <2>4 DEF DepositInv, CallbackRow
  <2> QED
    BY <2>7, <2>8, <2>9 DEF DepositInv
<1>5. ASSUME NEW m \in callbacks, WagerFails(m) PROVE FALSE
  <2>1. m.pc = "wager" /\ "wager" \in FaultKinds
    BY <1>5 DEF WagerFails, Fault
  <2>2. m.order \in Deposits /\ m.order \notin Manual
    BY <2>1, Separate DEF ExclusionInv, CallbackInv
  <2> QED
    BY <2>1, <2>2 DEF DepositsOnce
<1> QED
  BY <1>1, <1>2, <1>3, <1>4, <1>5 DEF FailStep, CallbackFails

LEMMA DepositStep ==
  ASSUME Orderly, DepositsOnce, TypeOK, ExclusionInv, DepositInv, [Next]_vars
  PROVE  DepositInv'
<1>1. CASE UNCHANGED vars
  BY <1>1, DepositFrame DEF vars, orderVars, gatewayVars, callbackVars, apiVars
<1>2. ASSUME NEW r \in Requests, NEW kind \in {"approve", "reject", "cancel"}, NEW o \in Orders,
             ReadOrder(r, kind, o)
      PROVE  DepositInv'
  <2>1. UNCHANGED <<deposit, rewards, opening, payment, answered, callbacks>>
    BY <1>2 DEF ReadOrder, orderVars, gatewayVars, callbackVars
  <2>2. /\ request'[r].pc = "read" /\ request'[r].order = o
        /\ \A q \in Requests : q # r => request'[q] = request[q]
    BY <1>2 DEF ReadOrder, TypeOK
  <2>3. o \in Deposits => deposit[o] # "SUCCESS"
    BY <1>2 DEF ReadOrder, Undecided
  <2>4. \A q \in Requests : RequestRow(q)'
    BY <2>1, <2>2, <2>3 DEF DepositInv, RequestRow
  <2>5. \A d \in Deposits : DepositRow(d)'
    BY <2>1 DEF DepositInv, DepositRow
  <2>6. \A m \in callbacks' : CallbackRow(m)'
    BY <2>1 DEF DepositInv, CallbackRow
  <2> QED
    BY <2>4, <2>5, <2>6 DEF DepositInv
<1> QED
  BY <1>1, <1>2, DepositRequest, DepositCallback, DepositGateway, DepositPlayer,
     DepositFailure DEF Next

\* If, besides, gateways do not repeat what was answered, and no callback is cut off
\* after its credit, every deposit is credited and rewarded at most once.
THEOREM DepositsCreditedOnce == Orderly /\ DepositsOnce /\ Spec => []DepositInv
<1>1. ASSUME Orderly, DepositsOnce PROVE Spec => []DepositInv
  BY <1>1, TypeCorrect, ReadsStayValid, DepositInit, DepositStep, PTL DEF Spec
<1> QED
  BY <1>1

LEMMA ConcludedStep ==
  ASSUME TypeOK, ExclusionInv, DepositInv, [Next]_vars
  PROVE  /\ \A d \in Deposits : deposit[d] = "SUCCESS" => deposit'[d] = "SUCCESS"
         /\ \A w \in Withdrawals : withdraw[w] \in {"SUCCESS", "FAILED", "USER_CANCELED"} =>
              withdraw'[w] = withdraw[w]
<1> DEFINE Stays ==
      /\ \A d \in Deposits : deposit[d] = "SUCCESS" => deposit'[d] = "SUCCESS"
      /\ \A w \in Withdrawals : withdraw[w] \in {"SUCCESS", "FAILED", "USER_CANCELED"} =>
           withdraw'[w] = withdraw[w]
<1>1. CASE UNCHANGED <<deposit, withdraw>>
  BY <1>1
<1>2. ASSUME NEW d \in Deposits, UNCHANGED withdraw,
             deposit[d] # "SUCCESS" \/ deposit'[d] = "SUCCESS",
             \A e \in Deposits : e # d => deposit'[e] = deposit[e]
      PROVE  Stays
  BY <1>2
<1>3. ASSUME NEW w \in Withdrawals, UNCHANGED deposit,
             withdraw[w] \in {"none", "GENERATED", "PROCESSING"},
             \A v \in Withdrawals : v # w => withdraw'[v] = withdraw[v]
      PROVE  Stays
  BY <1>3
<1>4. CASE PlayerStep
  <2>1. ASSUME NEW d \in Deposits, RequestDeposit(d) PROVE Stays
    BY <1>2, <2>1 DEF RequestDeposit, TypeOK
  <2>2. ASSUME NEW w \in Withdrawals, RequestWithdraw(w) PROVE Stays
    BY <1>3, <2>2 DEF RequestWithdraw, TypeOK
  <2> QED
    BY <1>1, <1>4, <2>1, <2>2 DEF PlayerStep, Play, ClearWager, orderVars
<1>5. ASSUME NEW d \in Deposits, CreateDeposit(d) \/ FailStale(d) PROVE Stays
  <2>1. deposit[d] # "SUCCESS"
    BY <1>5 DEF CreateDeposit, FailStale, Stale, DepositInv, DepositRow
  <2> QED
    BY <1>2, <1>5, <2>1 DEF CreateDeposit, FailStale, TypeOK
<1>6. ASSUME NEW r \in Requests, RequestStep(r) PROVE Stays
  <2> DEFINE o == request[r].order
  <2>1. CASE ApproveDeposit(r)
    BY <1>2, <2>1 DEF ApproveDeposit, Reached, TypeOK
  <2>2. CASE RejectDeposit(r)
    <3>1. o \in Deposits /\ deposit[o] # "SUCCESS"
      BY <2>2 DEF RejectDeposit, Reached, DepositInv, RequestRow
    <3> QED
      BY <1>2, <2>2, <3>1 DEF RejectDeposit, TypeOK
  <2>3. CASE Refund(r) \/ ApproveManual(r) \/ MarkProcessing(r)
    <3>1. o \in Withdrawals /\ withdraw[o] = "GENERATED"
      BY <2>3 DEF Refund, ApproveManual, MarkProcessing, Reached, ExclusionInv, RequestInv
    <3>2. UNCHANGED deposit /\ \A v \in Withdrawals : v # o => withdraw'[v] = withdraw[v]
      BY <2>3 DEF Refund, ApproveManual, MarkProcessing, TypeOK
    <3> QED
      BY <1>3, <3>1, <3>2
  <2>4. CASE ApproveBonus(r) \/ Instruct(r)
    BY <1>1, <2>4 DEF ApproveBonus, Instruct, orderVars
  <2> QED
    BY <1>6, <2>1, <2>2, <2>3, <2>4 DEF RequestStep
<1>7. ASSUME NEW m \in callbacks, Handle(m) PROVE Stays
  <2>1. CASE DepositPaid(m)
    BY <1>2, <2>1 DEF DepositPaid, TypeOK
  <2>2. CASE DepositOther(m)
    <3>1. m.order \in Deposits /\ deposit[m.order] # "SUCCESS"
      BY <2>2 DEF DepositOther, DepositInv, CallbackRow
    <3> QED
      BY <1>2, <2>2, <3>1 DEF DepositOther, TypeOK
  <2>3. CASE WithdrawReport(m)
    <3>1. m.order \in Withdrawals /\ withdraw[m.order] = "PROCESSING"
      BY <2>3 DEF WithdrawReport, ExclusionInv, CallbackInv
    <3> QED
      BY <1>3, <2>3, <3>1 DEF WithdrawReport, TypeOK
  <2>4. CASE DepositWager(m) \/ DepositBonus(m) \/ WithdrawRead(m)
    BY <1>1, <2>4 DEF DepositWager, DepositBonus, WithdrawRead, orderVars
  <2> QED
    BY <1>7, <2>1, <2>2, <2>3, <2>4 DEF Handle
<1>8. CASE FailStep \/ \E o \in Orders : GatewayDecides(o) \/ GatewaySends(o)
  BY <1>1, <1>8 DEF FailStep, Crash, RequestFails, InstructFails, CallbackFails, WagerFails,
                    GatewayDecides, GatewaySends, orderVars
<1>9. ASSUME NEW r \in Requests, NEW kind \in {"approve", "reject", "cancel"}, NEW o \in Orders,
             ReadOrder(r, kind, o)
      PROVE  Stays
  BY <1>1, <1>9 DEF ReadOrder, orderVars
<1>10. CASE UNCHANGED vars
  BY <1>1, <1>10 DEF vars, orderVars
<1> QED
  BY <1>4, <1>5, <1>6, <1>7, <1>8, <1>9, <1>10 DEF Next

\* Under the same assumptions what is concluded stays so, although no update of a
\* handler but the timeout's looks at the status it overwrites.
THEOREM ConcludedOnce == Orderly /\ DepositsOnce /\ Spec => ConcludedStays
<1>1. ASSUME Orderly, DepositsOnce PROVE Spec => ConcludedStays
  <2>1. TypeOK /\ ExclusionInv /\ DepositInv /\ [Next]_vars =>
          [/\ \A d \in Deposits : deposit[d] = "SUCCESS" => deposit'[d] = "SUCCESS"
           /\ \A w \in Withdrawals : withdraw[w] \in {"SUCCESS", "FAILED", "USER_CANCELED"} =>
                withdraw'[w] = withdraw[w]]_vars
    BY ConcludedStep
  <2> QED
    BY <1>1, <2>1, TypeCorrect, ReadsStayValid, DepositsCreditedOnce, PTL
       DEF Spec, ConcludedStays
<1> QED
  BY <1>1

--------------------------------------------------------------------------------
(* What the gateway pays is not given back                                  *)

\* What is assumed: the answer of a gateway is not lost, and handlers are not cut off.
AnswersArrive == {"gateway", "crash"} \cap FaultKinds = {}

\* A withdrawal the gateway has taken is being marked, or is marked, as such.
PayoutRow(w) ==
  payout[w] # "none" =>
    \/ withdraw[w] \in {"PROCESSING", "SUCCESS"}
    \/ withdraw[w] = "FAILED" /\ payout[w] = "failed"
    \/ withdraw[w] = "GENERATED" /\ \E r \in Requests :
         request[r].pc = "instructed" /\ request[r].order = w

\* A callback reports what the gateway did.
ReportRow(m) ==
  m.order \in Withdrawals /\ m.says \in {"paid", "failed"} => payout[m.order] = m.says

PayoutInv ==
  /\ \A w \in Withdrawals : PayoutRow(w)
  /\ \A m \in callbacks : ReportRow(m)

LEMMA PayoutInit == Init => PayoutInv
BY DEF Init, PayoutInv, PayoutRow, ReportRow

\* Callbacks that move on, or are answered, still report what they did.
LEMMA ReportsKept ==
  ASSUME TypeOK, ExclusionInv, PayoutInv, UNCHANGED payout, NEW m \in callbacks,
         Answer(m) \/ \E pc \in {"sent", "wager", "bonus", "read"} : Continue(m, pc)
  PROVE  \A a \in callbacks' : ReportRow(a)'
<1>1. \A a \in callbacks' : a \in callbacks \/ (a.order = m.order /\ a.says = m.says)
  BY Continued, Answered DEF ExclusionInv
<1>2. \A a \in callbacks : ReportRow(a)
  BY DEF PayoutInv
<1> QED
  BY <1>1, <1>2 DEF ReportRow

LEMMA PayoutRequest ==
  ASSUME TypeOK, ExclusionInv, PayoutInv, NEW r \in Requests, RequestStep(r)
  PROVE  PayoutInv'
<1> DEFINE o == request[r].order
<1>1. /\ UNCHANGED callbacks /\ Deciding(r)
      /\ \A q \in Requests : q # r => request'[q] = request[q]
  BY DEF RequestStep, ApproveDeposit, RejectDeposit, ApproveBonus, Refund, ApproveManual,
         Instruct, MarkProcessing, Reached, Deciding, callbackVars, Advance, TypeOK
<1>2. \A q \in Requests : request[q].pc = "instructed" /\ request[q].order = o => q = r
  BY <1>1 DEF ExclusionInv, RequestInv, Deciding
<1>3. \A w \in Withdrawals : w # o => withdraw'[w] = withdraw[w] /\ payout'[w] = payout[w]
  BY DEF RequestStep, ApproveDeposit, RejectDeposit, ApproveBonus, Refund, ApproveManual,
         Instruct, MarkProcessing, orderVars, gatewayVars, TypeOK
<1>4. ASSUME NEW w \in Withdrawals, w # o PROVE PayoutRow(w)'
  <2>1. PayoutRow(w)
    BY DEF PayoutInv
  <2>2. (\E q \in Requests : request[q].pc = "instructed" /\ request[q].order = w)
          => \E q \in Requests : request'[q].pc = "instructed" /\ request'[q].order = w
    BY <1>1, <1>4
  <2> QED
    BY <1>3, <1>4, <2>1, <2>2 DEF PayoutRow
<1>5. ASSUME NEW w \in Withdrawals, w = o PROVE PayoutRow(w)'
  <2>1. withdraw[w] = "GENERATED" /\ w \notin Deposits
    BY <1>1, <1>5, PaymentAssumption DEF ExclusionInv, RequestInv, Deciding
  <2>2. request[r].pc = "read" => payout[w] = "none"
    BY <1>2, <1>5, <2>1 DEF PayoutInv, PayoutRow
  <2>3. CASE Refund(r) \/ ApproveManual(r)
    <3>1. payout'[w] = "none"
      BY <2>2, <2>3 DEF Refund, ApproveManual, Reached, gatewayVars
    <3> QED
      BY <3>1 DEF PayoutRow
  <2>4. CASE Instruct(r)
    <3>1. CASE Advance(r, "instructed")
      <4>1. request'[r].pc = "instructed" /\ request'[r].order = w
        BY <1>5, <3>1 DEF Advance, TypeOK
      <4>2. withdraw'[w] = "GENERATED"
        BY <2>1, <2>4 DEF Instruct, orderVars
      <4> QED
        BY <4>1, <4>2 DEF PayoutRow
    <3>2. CASE UNCHANGED payout
      <4>1. payout'[w] = "none"
        BY <2>2, <2>4, <3>2 DEF Instruct, Reached
      <4> QED
        BY <4>1 DEF PayoutRow
    <3> QED
      BY <2>4, <3>1, <3>2 DEF Instruct
  <2>5. CASE MarkProcessing(r)
    <3>1. withdraw'[w] = "PROCESSING"
      BY <1>5, <2>5 DEF MarkProcessing, ApprovedStatus, TypeOK
    <3> QED
      BY <3>1 DEF PayoutRow
  <2> QED
    BY <1>5, <2>1, <2>3, <2>4, <2>5
       DEF RequestStep, ApproveDeposit, RejectDeposit, ApproveBonus, Reached
<1>6. ASSUME NEW m \in callbacks' PROVE ReportRow(m)'
  <2>1. m \in callbacks /\ ReportRow(m)
    BY <1>1 DEF PayoutInv
  <2>2. \A w \in Withdrawals : payout'[w] = payout[w] \/ payout[w] = "none"
    BY <1>3 DEF RequestStep, ApproveDeposit, RejectDeposit, ApproveBonus, Refund,
                ApproveManual, Instruct, MarkProcessing, gatewayVars
  <2> QED
    BY <2>1, <2>2 DEF ReportRow
<1> QED
  BY <1>4, <1>5, <1>6 DEF PayoutInv

LEMMA PayoutCallback ==
  ASSUME TypeOK, ExclusionInv, PayoutInv, NEW m \in callbacks, Handle(m)
  PROVE  PayoutInv'
<1>1. UNCHANGED <<payout, request>>
  BY DEF Handle, DepositPaid, DepositWager, DepositBonus, DepositOther, WithdrawRead,
         WithdrawReport, gatewayVars, apiVars
<1>2. Answer(m) \/ \E pc \in {"sent", "wager", "bonus", "read"} : Continue(m, pc)
  BY DEF Handle, DepositPaid, DepositWager, DepositBonus, DepositOther, WithdrawRead,
         WithdrawReport
<1>3. \A a \in callbacks' : ReportRow(a)'
  BY <1>1, <1>2, ReportsKept
<1>4. ASSUME NEW w \in Withdrawals PROVE PayoutRow(w)'
  <2>1. PayoutRow(w)
    BY DEF PayoutInv
  <2>2. CASE withdraw'[w] = withdraw[w]
    BY <1>1, <2>1, <2>2 DEF PayoutRow
  <2>3. CASE WithdrawReport(m) /\ m.order = w
    <3>1. m.says = "failed" => payout[w] = "failed"
      BY <2>3 DEF PayoutInv, ReportRow
    <3>2. \/ withdraw'[w] \in {"PROCESSING", "SUCCESS"}
          \/ withdraw'[w] = "FAILED" /\ m.says = "failed"
      BY <2>3 DEF WithdrawReport, TypeOK
    <3> QED
      BY <1>1, <3>1, <3>2 DEF PayoutRow
  <2>4. CASE WithdrawReport(m) /\ m.order # w
    BY <2>2, <2>4 DEF WithdrawReport, TypeOK
  <2> QED
    BY <2>2, <2>3, <2>4 DEF Handle, DepositPaid, DepositWager, DepositBonus, DepositOther,
                            WithdrawRead, orderVars
<1> QED
  BY <1>3, <1>4 DEF PayoutInv

LEMMA PayoutGateway ==
  ASSUME TypeOK, PayoutInv, NEW o \in Orders, GatewayDecides(o) \/ GatewaySends(o)
  PROVE  PayoutInv'
<1>1. UNCHANGED <<request, withdraw>>
  BY DEF GatewayDecides, GatewaySends, apiVars, orderVars
<1>2. CASE GatewayDecides(o)
  <2>1. /\ UNCHANGED callbacks
        /\ \A w \in Withdrawals : \/ payout'[w] = payout[w]
                                  \/ payout[w] = "accepted" /\ payout'[w] # "none"
    BY <1>2 DEF GatewayDecides, callbackVars, TypeOK
  <2>2. ASSUME NEW w \in Withdrawals PROVE PayoutRow(w)'
    BY <1>1, <2>1 DEF PayoutInv, PayoutRow
  <2>3. ASSUME NEW m \in callbacks' PROVE ReportRow(m)'
    BY <2>1 DEF PayoutInv, ReportRow
  <2> QED
    BY <2>2, <2>3 DEF PayoutInv
<1>3. CASE GatewaySends(o)
  <2> DEFINE new == [order |-> o, says |-> Says(o), n |-> sent[o], pc |-> "sent", owes |-> FALSE]
  <2>1. callbacks' = callbacks \cup {new} /\ UNCHANGED payout
    BY <1>3 DEF GatewaySends, gatewayVars
  <2>2. new.order = o /\ new.says = Says(o)
    OBVIOUS
  <2>3. o \in Withdrawals /\ Says(o) \in {"paid", "failed"} => payout[o] = Says(o)
    <3>1. o \in Withdrawals => o \notin Deposits
      BY PaymentAssumption
    <3> QED
      BY <3>1 DEF Says
  <2> HIDE DEF new
  <2>4. ASSUME NEW m \in callbacks' PROVE ReportRow(m)'
    BY <2>1, <2>2, <2>3 DEF PayoutInv, ReportRow
  <2>5. \A w \in Withdrawals : PayoutRow(w)'
    BY <1>1, <2>1 DEF PayoutInv, PayoutRow
  <2> QED
    BY <2>4, <2>5 DEF PayoutInv
<1> QED
  BY <1>2, <1>3

\* Steps of the others neither reach a gateway nor touch what it has taken.
LEMMA PayoutFrame ==
  ASSUME PayoutInv, UNCHANGED payout,
         \A w \in Withdrawals : withdraw[w] # "none" => withdraw'[w] = withdraw[w],
         \A q \in Requests : request[q].pc = "instructed" => request'[q] = request[q],
         \A a \in callbacks' : ReportRow(a)'
  PROVE  PayoutInv'
<1>1. ASSUME NEW w \in Withdrawals PROVE PayoutRow(w)'
  <2>1. PayoutRow(w)
    BY DEF PayoutInv
  <2>2. withdraw[w] # "none" => withdraw'[w] = withdraw[w]
    OBVIOUS
  <2>3. (\E q \in Requests : request[q].pc = "instructed" /\ request[q].order = w)
          => \E q \in Requests : request'[q].pc = "instructed" /\ request'[q].order = w
    OBVIOUS
  <2> QED
    BY <2>1, <2>2, <2>3 DEF PayoutRow
<1> QED
  BY <1>1 DEF PayoutInv

LEMMA PayoutStep ==
  ASSUME AnswersArrive, TypeOK, ExclusionInv, PayoutInv, [Next]_vars
  PROVE  PayoutInv'
<1>1. ASSUME UNCHANGED <<payout, callbacks, request>>,
             \A w \in Withdrawals : withdraw[w] # "none" => withdraw'[w] = withdraw[w]
      PROVE  PayoutInv'
  <2>1. \A a \in callbacks' : ReportRow(a)'
    BY <1>1 DEF PayoutInv, ReportRow
  <2> QED
    BY <1>1, <2>1, PayoutFrame
<1>2. CASE PlayerStep \/ \E d \in Deposits : CreateDeposit(d) \/ FailStale(d)
  <2>1. \A w \in Withdrawals : withdraw[w] # "none" => withdraw'[w] = withdraw[w]
    BY <1>2 DEF TypeOK, PlayerStep, Play, ClearWager, RequestDeposit, RequestWithdraw,
           CreateDeposit, FailStale, orderVars
  <2>2. UNCHANGED <<payout, callbacks, request>>
    BY <1>2 DEF PlayerStep, Play, ClearWager, RequestDeposit, RequestWithdraw,
           CreateDeposit, FailStale, gatewayVars, callbackVars, apiVars
  <2> QED
    BY <1>1, <2>1, <2>2
<1>3. ASSUME NEW r \in Requests, UNCHANGED <<payout, callbacks, withdraw>>,
             request[r].pc # "instructed",
             \A q \in Requests : q # r => request'[q] = request[q]
      PROVE  PayoutInv'
  <2>1. \A a \in callbacks' : ReportRow(a)'
    BY <1>3 DEF PayoutInv, ReportRow
  <2>2. \A q \in Requests : request[q].pc = "instructed" => request'[q] = request[q]
    BY <1>3
  <2> QED
    BY <1>3, <2>1, <2>2, PayoutFrame
<1>4. ASSUME NEW r \in Requests, NEW kind \in {"approve", "reject", "cancel"}, NEW o \in Orders,
             ReadOrder(r, kind, o)
      PROVE  PayoutInv'
  BY <1>3, <1>4 DEF ReadOrder, TypeOK, orderVars, gatewayVars, callbackVars
<1>5. CASE FailStep
  <2>1. ASSUME NEW r \in Requests, RequestFails(r) PROVE PayoutInv'
    BY <1>3, <2>1 DEF RequestFails, Advance, TypeOK, orderVars, gatewayVars, callbackVars
  <2>2. ASSUME NEW m \in callbacks, CallbackFails(m) \/ WagerFails(m) PROVE PayoutInv'
    <3>1. UNCHANGED <<payout, request, withdraw>>
      BY <2>2 DEF CallbackFails, WagerFails, gatewayVars, apiVars, orderVars
    <3>2. Answer(m) \/ \E pc \in {"sent", "wager", "bonus", "read"} : Continue(m, pc)
      BY <2>2 DEF CallbackFails, WagerFails, Refuse
    <3>3. \A a \in callbacks' : ReportRow(a)'
      BY <3>1, <3>2, ReportsKept
    <3> QED
      BY <3>1, <3>3, PayoutFrame
  <2> QED
    BY <1>5, <2>1, <2>2 DEF FailStep, AnswersArrive, Crash, InstructFails, Fault
<1>6. CASE UNCHANGED vars
  BY <1>1, <1>6 DEF vars, orderVars, gatewayVars, callbackVars, apiVars
<1> QED
  BY <1>2, <1>4, <1>5, <1>6, PayoutRequest, PayoutCallback, PayoutGateway DEF Next

\* If requests for one withdrawal do not overlap, and no answer of a gateway is
\* lost, nobody is given back what a gateway has taken, unless it failed to pay.
THEOREM PaidNotReturned == Orderly /\ AnswersArrive /\ Spec => []NeverPaidAndReturned
<1>1. ASSUME Orderly, AnswersArrive PROVE Spec => []NeverPaidAndReturned
  <2>1. TypeOK /\ PayoutInv => NeverPaidAndReturned
    BY DEF PayoutInv, PayoutRow, NeverPaidAndReturned
  <2> QED
    BY <1>1, <2>1, TypeCorrect, ReadsStayValid, PayoutInit, PayoutStep, PTL DEF Spec
<1> QED
  BY <1>1

--------------------------------------------------------------------------------
(* The orders implement AccountBook                                         *)

BookDeposits == [d \in Deposits |-> BookDeposit(d)]
BookWithdrawals == [w \in Withdrawals |-> BookWithdrawal(w)]

LEMMA BookInit == Init => Book!Init
BY DEF Init, Book!Init, BookDeposit, BookWithdrawal

\* What a step of one deposit, or of one withdrawal, is in the book.
LEMMA DepositMoves ==
  ASSUME NEW d \in Deposits, UNCHANGED withdraw, NEW v, BookDeposit(d)' = v,
         \A e \in Deposits : e # d => deposit'[e] = deposit[e] /\ rewards'[e] = rewards[e]
  PROVE  BookDeposits' = [BookDeposits EXCEPT ![d] = v] /\ UNCHANGED BookWithdrawals
<1>1. \A e \in Deposits : e # d => BookDeposit(e)' = BookDeposit(e)
  BY DEF BookDeposit
<1>2. \A w \in Withdrawals : BookWithdrawal(w)' = BookWithdrawal(w)
  BY DEF BookWithdrawal
<1> QED
  BY <1>1, <1>2 DEF BookDeposits, BookWithdrawals

LEMMA WithdrawalMoves ==
  ASSUME NEW w \in Withdrawals, UNCHANGED <<deposit, rewards>>, NEW v, BookWithdrawal(w)' = v,
         \A u \in Withdrawals : u # w => withdraw'[u] = withdraw[u]
  PROVE  BookWithdrawals' = [BookWithdrawals EXCEPT ![w] = v] /\ UNCHANGED BookDeposits
<1>1. \A u \in Withdrawals : u # w => BookWithdrawal(u)' = BookWithdrawal(u)
  BY DEF BookWithdrawal
<1>2. \A d \in Deposits : BookDeposit(d)' = BookDeposit(d)
  BY DEF BookDeposit
<1> QED
  BY <1>1, <1>2 DEF BookDeposits, BookWithdrawals

\* A step that neither credits, rewards, takes, pays nor gives back.
LEMMA BookRests ==
  ASSUME UNCHANGED <<balance, rewards>>,
         \A d \in Deposits : \/ deposit'[d] = deposit[d]
                             \/ deposit[d] # "SUCCESS" /\ deposit'[d] # "SUCCESS",
         \A w \in Withdrawals : \/ withdraw'[w] = withdraw[w]
                                \/ /\ withdraw[w] \in {"GENERATED", "PROCESSING"}
                                   /\ withdraw'[w] \in {"GENERATED", "PROCESSING"}
  PROVE  UNCHANGED Book!bookVars
<1>1. \A d \in Deposits : BookDeposit(d)' = BookDeposit(d)
  BY DEF BookDeposit
<1>2. \A w \in Withdrawals : BookWithdrawal(w)' = BookWithdrawal(w)
  BY DEF BookWithdrawal
<1> QED
  BY <1>1, <1>2 DEF Book!bookVars

LEMMA BookCredit ==
  ASSUME TypeOK, NEW d \in Deposits, deposit[d] # "SUCCESS", rewards[d] = 0,
         deposit' = [deposit EXCEPT ![d] = "SUCCESS"], balance' = balance + Amount[d],
         UNCHANGED <<rewards, withdraw>>
  PROVE  Book!Credit(d)
<1>1. /\ deposit'[d] = "SUCCESS" /\ rewards'[d] = 0
      /\ \A e \in Deposits : e # d => deposit'[e] = deposit[e] /\ rewards'[e] = rewards[e]
  BY DEF TypeOK
<1>2. BookDeposit(d) = "open" /\ BookDeposit(d)' = "credited"
  BY <1>1 DEF BookDeposit
<1>3. BookDeposits' = [BookDeposits EXCEPT ![d] = "credited"] /\ UNCHANGED BookWithdrawals
  BY <1>1, <1>2, DepositMoves
<1> QED
  BY <1>2, <1>3 DEF Book!Credit, BookDeposits, BookWithdrawals

LEMMA BookReward ==
  ASSUME TypeOK, NEW d \in Deposits, deposit[d] = "SUCCESS", rewards[d] = 0, CreditBonus(d),
         UNCHANGED <<deposit, withdraw>>
  PROVE  Book!Reward(d)
<1>1. /\ deposit'[d] = "SUCCESS" /\ rewards'[d] = 1 /\ balance' = balance + Bonus
      /\ \A e \in Deposits : e # d => deposit'[e] = deposit[e] /\ rewards'[e] = rewards[e]
  BY DEF TypeOK, CreditBonus
<1>2. BookDeposit(d) = "credited" /\ BookDeposit(d)' = "rewarded"
  BY <1>1 DEF BookDeposit
<1>3. BookDeposits' = [BookDeposits EXCEPT ![d] = "rewarded"] /\ UNCHANGED BookWithdrawals
  BY <1>1, <1>2, DepositMoves
<1> QED
  BY <1>1, <1>2, <1>3 DEF Book!Reward, BookDeposits, BookWithdrawals

LEMMA BookHold ==
  ASSUME TypeOK, NEW w \in Withdrawals, RequestWithdraw(w)
  PROVE  Book!Hold(w)
<1>1. /\ withdraw[w] = "none" /\ withdraw'[w] = "GENERATED"
      /\ balance >= Amount[w] /\ balance' = balance - Amount[w]
      /\ UNCHANGED <<deposit, rewards>>
      /\ \A u \in Withdrawals : u # w => withdraw'[u] = withdraw[u]
  BY DEF RequestWithdraw, Funded, TypeOK
<1>2. BookWithdrawal(w) = "none" /\ BookWithdrawal(w)' = "held"
  BY <1>1 DEF BookWithdrawal
<1>3. BookWithdrawals' = [BookWithdrawals EXCEPT ![w] = "held"] /\ UNCHANGED BookDeposits
  BY <1>1, <1>2, WithdrawalMoves
<1> QED
  BY <1>1, <1>2, <1>3 DEF Book!Hold, BookDeposits, BookWithdrawals

LEMMA BookPay ==
  ASSUME TypeOK, NEW w \in Withdrawals, withdraw[w] \in {"GENERATED", "PROCESSING"},
         withdraw' = [withdraw EXCEPT ![w] = "SUCCESS"],
         UNCHANGED <<balance, deposit, rewards>>
  PROVE  Book!Pay(w)
<1>1. withdraw'[w] = "SUCCESS" /\ \A u \in Withdrawals : u # w => withdraw'[u] = withdraw[u]
  BY DEF TypeOK
<1>2. BookWithdrawal(w) = "held" /\ BookWithdrawal(w)' = "paid"
  BY <1>1 DEF BookWithdrawal
<1>3. BookWithdrawals' = [BookWithdrawals EXCEPT ![w] = "paid"] /\ UNCHANGED BookDeposits
  BY <1>1, <1>2, WithdrawalMoves
<1> QED
  BY <1>2, <1>3 DEF Book!Pay, BookDeposits, BookWithdrawals

LEMMA BookReturn ==
  ASSUME TypeOK, NEW w \in Withdrawals, withdraw[w] \in {"GENERATED", "PROCESSING"},
         NEW status \in {"FAILED", "USER_CANCELED"},
         withdraw' = [withdraw EXCEPT ![w] = status], balance' = balance + Amount[w],
         UNCHANGED <<deposit, rewards>>
  PROVE  Book!Return(w)
<1>1. withdraw'[w] = status /\ \A u \in Withdrawals : u # w => withdraw'[u] = withdraw[u]
  BY DEF TypeOK
<1>2. BookWithdrawal(w) = "held" /\ BookWithdrawal(w)' = "returned"
  BY <1>1 DEF BookWithdrawal
<1>3. BookWithdrawals' = [BookWithdrawals EXCEPT ![w] = "returned"] /\ UNCHANGED BookDeposits
  BY <1>1, <1>2, WithdrawalMoves
<1> QED
  BY <1>2, <1>3 DEF Book!Return, BookDeposits, BookWithdrawals

LEMMA BookRequest ==
  ASSUME TypeOK, ExclusionInv, DepositInv, NEW r \in Requests, RequestStep(r)
  PROVE  [Book!Next]_(Book!bookVars)
<1>1. ASSUME NEW d \in Deposits, d = request[r].order, ApproveDeposit(r) PROVE Book!Next
  <2>1. deposit[d] # "SUCCESS" /\ rewards[d] = 0
    BY <1>1 DEF ApproveDeposit, Reached, DepositInv, RequestRow, DepositRow
  <2> QED
    BY <1>1, <2>1, BookCredit DEF ApproveDeposit, Book!Next
<1>2. ASSUME NEW d \in Deposits, d = request[r].order, ApproveBonus(r) PROVE Book!Next
  <2>1. deposit[d] = "SUCCESS" /\ rewards[d] = 0
    BY <1>2 DEF ApproveBonus, Reached, DepositInv, RequestRow
  <2> QED
    BY <1>2, <2>1, BookReward DEF ApproveBonus, Book!Next
<1>3. ASSUME NEW d \in Deposits, d = request[r].order, RejectDeposit(r)
      PROVE  UNCHANGED Book!bookVars
  <2>1. deposit[d] # "SUCCESS"
    BY <1>3 DEF RejectDeposit, Reached, DepositInv, RequestRow
  <2>2. deposit'[d] # "SUCCESS" /\ \A e \in Deposits : e # d => deposit'[e] = deposit[e]
    BY <1>3 DEF RejectDeposit, TypeOK
  <2> QED
    BY <1>3, <2>1, <2>2, BookRests DEF RejectDeposit, moneyVars
<1>4. ASSUME NEW w \in Withdrawals, w = request[r].order, Refund(r) PROVE Book!Next
  <2>1. withdraw[w] = "GENERATED"
    BY <1>4 DEF Refund, Reached, ExclusionInv, RequestInv
  <2> DEFINE status == IF request[r].kind = "cancel" THEN "USER_CANCELED" ELSE "FAILED"
  <2>2. /\ withdraw' = [withdraw EXCEPT ![w] = status]
        /\ balance' = balance + Amount[w]
        /\ UNCHANGED <<deposit, rewards>>
    BY <1>4 DEF Refund, GivenBack
  <2>3. status \in {"FAILED", "USER_CANCELED"}
    OBVIOUS
  <2> HIDE DEF status
  <2>4. Book!Return(w)
    BY <2>1, <2>2, <2>3, BookReturn
  <2> QED
    BY <2>4 DEF Book!Next
<1>5. ASSUME NEW w \in Withdrawals, w = request[r].order, ApproveManual(r) PROVE Book!Next
  <2>1. withdraw[w] = "GENERATED"
    BY <1>5 DEF ApproveManual, Reached, ExclusionInv, RequestInv
  <2> QED
    BY <1>5, <2>1, BookPay DEF ApproveManual, moneyVars, Book!Next
<1>6. ASSUME NEW w \in Withdrawals, w = request[r].order, MarkProcessing(r)
      PROVE  UNCHANGED Book!bookVars
  <2>1. withdraw[w] = "GENERATED"
    BY <1>6 DEF MarkProcessing, Reached, ExclusionInv, RequestInv
  <2>2. /\ withdraw'[w] = "PROCESSING"
        /\ \A u \in Withdrawals : u # w => withdraw'[u] = withdraw[u]
    BY <1>6 DEF MarkProcessing, ApprovedStatus, TypeOK
  <2> QED
    BY <1>6, <2>1, <2>2, BookRests DEF MarkProcessing, moneyVars
<1>7. CASE Instruct(r)
  BY <1>7, BookRests DEF Instruct, moneyVars, orderVars
<1>8. /\ ApproveDeposit(r) \/ ApproveBonus(r) \/ RejectDeposit(r) => request[r].order \in Deposits
      /\ Refund(r) \/ ApproveManual(r) \/ MarkProcessing(r) => request[r].order \in Withdrawals
  BY DEF ApproveDeposit, ApproveBonus, RejectDeposit, Refund, ApproveManual, MarkProcessing,
         Reached
<1> QED
  BY <1>1, <1>2, <1>3, <1>4, <1>5, <1>6, <1>7, <1>8 DEF RequestStep

LEMMA BookCallback ==
  ASSUME TypeOK, ExclusionInv, DepositInv, NEW m \in callbacks, Handle(m)
  PROVE  [Book!Next]_(Book!bookVars)
<1>1. ASSUME NEW d \in Deposits, d = m.order, DepositPaid(m) PROVE Book!Next
  <2>1. deposit[d] # "SUCCESS" /\ rewards[d] = 0
    BY <1>1 DEF DepositPaid, DepositInv, CallbackRow, DepositRow
  <2> QED
    BY <1>1, <2>1, BookCredit DEF DepositPaid, Book!Next
<1>2. ASSUME NEW d \in Deposits, d = m.order, DepositBonus(m) PROVE Book!Next
  <2>1. deposit[d] = "SUCCESS" /\ rewards[d] = 0
    BY <1>2 DEF DepositBonus, DepositInv, CallbackRow
  <2> QED
    BY <1>2, <2>1, BookReward DEF DepositBonus, Book!Next
<1>3. ASSUME NEW d \in Deposits, d = m.order, DepositOther(m)
      PROVE  UNCHANGED Book!bookVars
  <2>1. deposit[d] # "SUCCESS"
    BY <1>3 DEF DepositOther, DepositInv, CallbackRow
  <2>2. deposit'[d] # "SUCCESS" /\ \A e \in Deposits : e # d => deposit'[e] = deposit[e]
    BY <1>3 DEF DepositOther, TypeOK
  <2> QED
    BY <1>3, <2>1, <2>2, BookRests DEF DepositOther, moneyVars
<1>4. ASSUME NEW w \in Withdrawals, w = m.order, WithdrawReport(m)
      PROVE  [Book!Next]_(Book!bookVars)
  <2>1. withdraw[w] = "PROCESSING" /\ UNCHANGED <<deposit, rewards>>
    BY <1>4 DEF WithdrawReport, ExclusionInv, CallbackInv
  <2>2. CASE m.says = "paid"
    <3>1. withdraw' = [withdraw EXCEPT ![w] = "SUCCESS"] /\ UNCHANGED balance
      BY <1>4, <2>2 DEF WithdrawReport
    <3>2. Book!Pay(w)
      BY <2>1, <3>1, BookPay
    <3> QED
      BY <3>2 DEF Book!Next
  <2>3. CASE m.says = "failed"
    <3>1. withdraw' = [withdraw EXCEPT ![w] = "FAILED"] /\ balance' = balance + Amount[w]
      BY <1>4, <2>3 DEF WithdrawReport
    <3>2. Book!Return(w)
      BY <2>1, <3>1, BookReturn
    <3> QED
      BY <3>2 DEF Book!Next
  <2>4. CASE m.says \notin {"paid", "failed"}
    <3>1. /\ withdraw'[w] = "PROCESSING" /\ UNCHANGED balance
          /\ \A u \in Withdrawals : u # w => withdraw'[u] = withdraw[u]
      BY <1>4, <2>4 DEF WithdrawReport, TypeOK
    <3> QED
      BY <2>1, <3>1, BookRests
  <2> QED
    BY <2>2, <2>3, <2>4
<1>5. CASE DepositWager(m) \/ WithdrawRead(m)
  BY <1>5, BookRests DEF DepositWager, WithdrawRead, moneyVars, orderVars
<1>6. /\ DepositPaid(m) \/ DepositBonus(m) \/ DepositOther(m) => m.order \in Deposits
      /\ WithdrawReport(m) => m.order \in Withdrawals
  BY DEF DepositPaid, DepositBonus, DepositOther, WithdrawReport, ExclusionInv, CallbackInv
<1> QED
  BY <1>1, <1>2, <1>3, <1>4, <1>5, <1>6 DEF Handle

LEMMA BookStep ==
  ASSUME TypeOK, ExclusionInv, DepositInv, [Next]_vars
  PROVE  [Book!Next]_(Book!bookVars)
<1>1. CASE PlayerStep
  <2>1. ASSUME NEW w \in Withdrawals, RequestWithdraw(w) PROVE Book!Next
    BY <2>1, BookHold DEF Book!Next
  <2>2. CASE Play
    <3>1. /\ \A d \in Deposits : BookDeposit(d)' = BookDeposit(d)
          /\ \A w \in Withdrawals : BookWithdrawal(w)' = BookWithdrawal(w)
      BY <2>2 DEF Play, orderVars, BookDeposit, BookWithdrawal
    <3>2. Book!Play
      BY <2>2, <3>1 DEF Play, Book!Play
    <3> QED
      BY <3>2 DEF Book!Next
  <2>3. CASE ClearWager
    BY <2>3, BookRests DEF ClearWager, orderVars
  <2>4. ASSUME NEW d \in Deposits, RequestDeposit(d) PROVE UNCHANGED Book!bookVars
    <3>1. /\ deposit[d] # "SUCCESS" /\ deposit'[d] # "SUCCESS"
          /\ \A e \in Deposits : e # d => deposit'[e] = deposit[e]
      BY <2>4 DEF RequestDeposit, TypeOK
    <3> QED
      BY <2>4, <3>1, BookRests DEF RequestDeposit, moneyVars
  <2> QED
    BY <1>1, <2>1, <2>2, <2>3, <2>4 DEF PlayerStep
<1>2. ASSUME NEW d \in Deposits, CreateDeposit(d) \/ FailStale(d)
      PROVE  UNCHANGED Book!bookVars
  <2>1. deposit[d] # "SUCCESS"
    BY <1>2 DEF CreateDeposit, FailStale, Stale, DepositInv, DepositRow
  <2>2. /\ deposit'[d] # "SUCCESS" /\ UNCHANGED <<balance, rewards, withdraw>>
        /\ \A e \in Deposits : e # d => deposit'[e] = deposit[e]
    BY <1>2 DEF CreateDeposit, FailStale, moneyVars, TypeOK
  <2> QED
    BY <2>1, <2>2, BookRests
<1>3. ASSUME UNCHANGED <<moneyVars, orderVars>> PROVE UNCHANGED Book!bookVars
  BY <1>3, BookRests DEF moneyVars, orderVars
<1>4. CASE FailStep \/ \E o \in Orders : GatewayDecides(o) \/ GatewaySends(o)
  BY <1>3, <1>4 DEF FailStep, Crash, RequestFails, InstructFails, CallbackFails, WagerFails,
                    GatewayDecides, GatewaySends
<1>5. ASSUME NEW r \in Requests, NEW kind \in {"approve", "reject", "cancel"}, NEW o \in Orders,
             ReadOrder(r, kind, o)
      PROVE  UNCHANGED Book!bookVars
  BY <1>3, <1>5 DEF ReadOrder
<1>6. CASE UNCHANGED vars
  BY <1>3, <1>6 DEF vars
<1> QED
  BY <1>1, <1>2, <1>4, <1>5, <1>6, BookRequest, BookCallback DEF Next

\* Under the assumptions of DepositsCreditedOnce, every step of the handlers is a
\* step of the account, or nothing to it: no order moves its amount twice.
THEOREM ImplementsBook == Orderly /\ DepositsOnce /\ Spec => BookSpec
<1>1. ASSUME Orderly, DepositsOnce PROVE Spec => BookSpec
  <2>1. TypeOK /\ ExclusionInv /\ DepositInv /\ [Next]_vars => [Book!Next]_(Book!bookVars)
    BY BookStep
  <2> QED
    BY <1>1, <2>1, BookInit, TypeCorrect, ReadsStayValid, DepositsCreditedOnce, PTL
       DEF Spec, BookSpec, Book!Spec
<1> QED
  BY <1>1

--------------------------------------------------------------------------------
(* The wager gate                                                           *)

\* What was credited has its requirement, or a callback owes it; and only callbacks
\* of a credit that have not got past the requirement owe one.
CoverInv ==
  /\ unwagered <= needToBet \/ Uncovered
  /\ \A m \in callbacks :
       m.owes => m.order \in Deposits /\ m.says = "paid" /\ m.pc \in {"sent", "wager"}

\* A withdrawal that is decided or reported was requested before.
AskedInv ==
  /\ \A r \in Requests : request[r].pc # "free" /\ request[r].order \in Withdrawals =>
       withdraw[request[r].order] # "none"
  /\ \A m \in callbacks :
       m.pc = "read" => m.order \in Withdrawals /\ withdraw[m.order] # "none"

\* What moving a callback on makes of it.
LEMMA Moved ==
  ASSUME TypeOK, NEW m \in callbacks, NEW pc, Continue(m, pc)
  PROVE  \E new : /\ callbacks' = (callbacks \ {m}) \cup {new}
                  /\ new.order = m.order /\ new.says = m.says /\ new.pc = pc
                  /\ new.owes <=> Owes(m, pc)
<1> DEFINE new == [m EXCEPT !.pc = pc, !.owes = Owes(m, pc)]
<1>1. new.order = m.order /\ new.says = m.says /\ new.pc = pc /\ (new.owes <=> Owes(m, pc))
  BY DEF TypeOK, Messages
<1>2. callbacks' = (callbacks \ {m}) \cup {new}
  BY DEF Continue
<1> HIDE DEF new
<1> QED BY <1>1, <1>2

\* An answered callback owes nothing, so what was covered still is.
LEMMA CoverAnswer ==
  ASSUME CoverInv, NEW m \in callbacks, ~m.owes, callbacks' = callbacks \ {m},
         UNCHANGED <<needToBet, unwagered>>
  PROVE  CoverInv'
BY DEF CoverInv, Uncovered

\* A credit or a bonus with its requirement keeps it so.
LEMMA CoverBoth ==
  ASSUME TypeOK, CoverInv, NEW a \in Nat, callbacks' = callbacks,
         needToBet' = Larger(needToBet, a), unwagered' = Larger(unwagered, a)
  PROVE  CoverInv'
<1>1. needToBet \in Nat /\ unwagered \in Nat
  BY DEF TypeOK
<1>2. CASE unwagered <= needToBet \/ unwagered < a
  <2>1. unwagered' <= needToBet'
    BY <1>1, <1>2 DEF Larger
  <2> QED BY <2>1 DEF CoverInv
<1>3. CASE Uncovered /\ unwagered >= a
  <2>1. unwagered' = unwagered
    BY <1>1, <1>3 DEF Larger
  <2> QED BY <1>3, <2>1 DEF CoverInv, Uncovered
<1> QED BY <1>1, <1>2, <1>3 DEF CoverInv

\* So does a bet, which counts for both.
LEMMA CoverPlay ==
  ASSUME TypeOK, CoverInv, Play
  PROVE  CoverInv'
<1>1. needToBet \in Nat /\ unwagered \in Nat /\ Stake \in Nat
  BY PaymentAssumption DEF TypeOK
<1>2. /\ needToBet' = Larger(0, needToBet - Stake) /\ unwagered' = Larger(0, unwagered - Stake)
      /\ callbacks' = callbacks
  BY DEF Play, AfterBet, callbackVars
<1>3. CASE unwagered <= needToBet
  <2>1. unwagered' <= needToBet'
    BY <1>1, <1>2, <1>3 DEF Larger
  <2> QED BY <1>2, <2>1 DEF CoverInv
<1>4. CASE Uncovered
  <2>1. PICK m \in callbacks : m.owes /\ unwagered <= Amount[m.order]
    BY <1>4 DEF Uncovered
  <2>2. Amount[m.order] \in Nat
    BY <2>1, NeedsAreNat DEF CoverInv, Orders
  <2>3. unwagered' <= Amount[m.order]
    BY <1>1, <1>2, <2>1, <2>2 DEF Larger
  <2> QED BY <1>2, <2>1, <2>3 DEF CoverInv, Uncovered
<1> QED BY <1>3, <1>4 DEF CoverInv

\* A gateway's credit is owed from then on, and no longer when it is recorded.
LEMMA CoverCallback ==
  ASSUME TypeOK, CoverInv, NEW m \in callbacks, Handle(m)
  PROVE  CoverInv'
<1>0. needToBet \in Nat /\ unwagered \in Nat /\ Bonus \in Nat /\ m.order \in Orders
  BY PaymentAssumption DEF TypeOK, Messages
<1>00. Amount[m.order] \in Nat
  BY <1>0, NeedsAreNat
<1>1. CASE DepositPaid(m)
  <2>1. PICK new : /\ callbacks' = (callbacks \ {m}) \cup {new}
                   /\ new.order = m.order /\ new.says = m.says /\ new.pc = "wager"
                   /\ new.owes <=> Owes(m, "wager")
    BY <1>1, Moved DEF DepositPaid
  <2>2. new.owes /\ m.order \in Deposits /\ m.says = "paid"
        /\ needToBet' = needToBet /\ unwagered' = Larger(unwagered, Amount[m.order])
    BY <1>1, <2>1 DEF DepositPaid, Owes
  <2>3. CASE unwagered <= Amount[m.order]
    <3>1. unwagered' <= Amount[new.order]
      BY <1>0, <1>00, <2>1, <2>2, <2>3 DEF Larger
    <3> QED BY <2>1, <2>2, <3>1 DEF CoverInv, Uncovered
  <2>4. CASE unwagered > Amount[m.order]
    <3>1. unwagered' = unwagered
      BY <1>0, <1>00, <2>2, <2>4 DEF Larger
    <3>2. unwagered' <= needToBet' \/ Uncovered'
      BY <1>0, <1>00, <2>1, <2>2, <2>4, <3>1 DEF CoverInv, Uncovered
    <3> QED BY <2>1, <2>2, <3>2 DEF CoverInv
  <2> QED BY <1>0, <1>00, <2>3, <2>4
<1>2. CASE DepositWager(m)
  <2>1. PICK new : /\ callbacks' = (callbacks \ {m}) \cup {new}
                   /\ new.order = m.order /\ new.says = m.says /\ new.pc = "bonus"
                   /\ new.owes <=> Owes(m, "bonus")
    BY <1>2, Moved DEF DepositWager
  <2>2. ~new.owes /\ unwagered' = unwagered /\ needToBet' = Larger(needToBet, Amount[m.order])
    BY <1>2, <2>1 DEF DepositWager, Owes
  <2>3. CASE unwagered <= needToBet \/ unwagered <= Amount[m.order]
    <3>1. unwagered' <= needToBet'
      BY <1>0, <1>00, <2>2, <2>3 DEF Larger
    <3> QED BY <2>1, <2>2, <3>1 DEF CoverInv
  <2>4. CASE Uncovered /\ ~(unwagered <= Amount[m.order])
    <3>1. Uncovered'
      BY <2>1, <2>2, <2>4 DEF Uncovered
    <3> QED BY <2>1, <2>2, <3>1 DEF CoverInv
  <2> QED BY <2>3, <2>4 DEF CoverInv
<1>3. CASE DepositBonus(m)
  <2>1. ~m.owes /\ callbacks' = callbacks \ {m}
    BY <1>3 DEF DepositBonus, Answer, CoverInv
  <2>2. needToBet' = Larger(needToBet, Bonus) /\ unwagered' = Larger(unwagered, Bonus)
    BY <1>3 DEF DepositBonus, CreditBonus
  <2>3. CASE unwagered <= needToBet \/ unwagered < Bonus
    <3>1. unwagered' <= needToBet'
      BY <1>0, <2>2, <2>3 DEF Larger
    <3> QED BY <2>1, <3>1 DEF CoverInv
  <2>4. CASE Uncovered /\ unwagered >= Bonus
    <3>1. unwagered' = unwagered
      BY <1>0, <2>2, <2>4 DEF Larger
    <3> QED BY <2>1, <2>4, <3>1 DEF CoverInv, Uncovered
  <2> QED BY <1>0, <2>3, <2>4 DEF CoverInv
<1>4. CASE DepositOther(m) \/ WithdrawReport(m)
  <2>1. ~m.owes
    BY <1>4 DEF DepositOther, WithdrawReport, CoverInv
  <2>2. callbacks' = callbacks \ {m} /\ UNCHANGED <<needToBet, unwagered>>
    BY <1>4 DEF DepositOther, WithdrawReport, Answer, moneyVars
  <2> QED BY <2>1, <2>2, CoverAnswer
<1>5. CASE WithdrawRead(m)
  <2>1. PICK new : /\ callbacks' = (callbacks \ {m}) \cup {new}
                   /\ new.order = m.order /\ new.says = m.says /\ new.pc = "read"
                   /\ new.owes <=> Owes(m, "read")
    BY <1>5, Moved DEF WithdrawRead
  <2>2. ~new.owes /\ UNCHANGED <<needToBet, unwagered>>
    BY <1>5, <2>1 DEF WithdrawRead, Owes, moneyVars
  <2>3. ~m.owes
    BY <1>5, PaymentAssumption DEF WithdrawRead, CoverInv
  <2> QED BY <2>1, <2>2, <2>3 DEF CoverInv, Uncovered
<1> QED BY <1>1, <1>2, <1>3, <1>4, <1>5 DEF Handle

\* A handler that is cut off, by an error or with its process, owes what it owed.
LEMMA CoverFailure ==
  ASSUME TypeOK, CoverInv, FailStep
  PROVE  CoverInv'
<1>1. UNCHANGED <<needToBet, unwagered>>
  BY DEF FailStep, Crash, RequestFails, InstructFails, CallbackFails, WagerFails, moneyVars
<1>2. CASE Crash
  <2>1. callbacks' = {[m EXCEPT !.pc = "sent"] : m \in callbacks}
    BY <1>2 DEF Crash
  <2>2. \A m \in callbacks :
          LET cut == [m EXCEPT !.pc = "sent"]
          IN cut.pc = "sent" /\ cut.owes = m.owes /\ cut.order = m.order /\ cut.says = m.says
    BY DEF TypeOK, Messages
  <2>3. Uncovered => Uncovered'
    <3>1. SUFFICES ASSUME NEW m \in callbacks, m.owes, unwagered <= Amount[m.order]
                   PROVE  Uncovered'
      BY DEF Uncovered
    <3> DEFINE cut == [m EXCEPT !.pc = "sent"]
    <3>2. cut \in callbacks' /\ cut.owes /\ cut.order = m.order
      BY <2>1, <2>2, <3>1
    <3> HIDE DEF cut
    <3> QED BY <1>1, <3>1, <3>2 DEF Uncovered
  <2>4. ASSUME NEW cut \in callbacks'
        PROVE  \E m \in callbacks : /\ cut.pc = "sent" /\ cut.owes = m.owes
                                    /\ cut.order = m.order /\ cut.says = m.says
    BY <2>1, <2>2
  <2> QED BY <1>1, <2>3, <2>4 DEF CoverInv
<1>3. ASSUME NEW m \in callbacks, WagerFails(m) \/ CallbackFails(m), Continue(m, "sent")
      PROVE  CoverInv'
  <2>1. PICK new : /\ callbacks' = (callbacks \ {m}) \cup {new}
                   /\ new.order = m.order /\ new.says = m.says /\ new.pc = "sent"
                   /\ new.owes <=> Owes(m, "sent")
    BY <1>3, Moved
  <2>2. new.owes <=> m.owes
    BY <2>1 DEF Owes
  <2> QED BY <1>1, <2>1, <2>2 DEF CoverInv, Uncovered
<1>4. ASSUME NEW m \in callbacks, CallbackFails(m), m.pc = "bonus", Answer(m) PROVE CoverInv'
  <2>1. ~m.owes /\ callbacks' = callbacks \ {m}
    BY <1>4 DEF Answer, CoverInv
  <2> QED BY <1>1, <2>1, CoverAnswer
<1>5. CASE \E r \in Requests : RequestFails(r) \/ InstructFails(r)
  BY <1>1, <1>5 DEF RequestFails, InstructFails, callbackVars, CoverInv, Uncovered
<1> QED
  BY <1>2, <1>3, <1>4, <1>5 DEF FailStep, CallbackFails, WagerFails, Refuse

LEMMA CoverStep == TypeOK /\ CoverInv /\ [Next]_vars => CoverInv'
<1> SUFFICES ASSUME TypeOK, CoverInv, [Next]_vars PROVE CoverInv'
  OBVIOUS
<1>1. ASSUME UNCHANGED <<needToBet, unwagered, callbacks>> PROVE CoverInv'
  BY <1>1 DEF CoverInv, Uncovered
<1>2. CASE ClearWager
  BY <1>2 DEF ClearWager, CoverInv, callbackVars
<1>3. CASE PlayerStep
  BY <1>1, <1>2, <1>3, CoverPlay
  DEF PlayerStep, RequestDeposit, RequestWithdraw, moneyVars, callbackVars
<1>4. ASSUME NEW r \in Requests, RequestStep(r) PROVE CoverInv'
  <2>1. CASE ApproveDeposit(r)
    <3>1. Amount[request[r].order] \in Nat
      BY <2>1, NeedsAreNat DEF ApproveDeposit, Reached, Orders
    <3> QED BY <2>1, <3>1, CoverBoth DEF ApproveDeposit, callbackVars
  <2>2. CASE ApproveBonus(r)
    BY <2>2, CoverBoth, PaymentAssumption DEF ApproveBonus, CreditBonus, callbackVars
  <2> QED
    BY <1>1, <1>4, <2>1, <2>2 DEF RequestStep, RejectDeposit, Refund, ApproveManual, Instruct,
       MarkProcessing, moneyVars, callbackVars
<1>5. ASSUME NEW o \in Orders, GatewaySends(o) PROVE CoverInv'
  <2> DEFINE new == [order |-> o, says |-> Says(o), n |-> sent[o], pc |-> "sent", owes |-> FALSE]
  <2>1. callbacks' = callbacks \cup {new} /\ UNCHANGED <<needToBet, unwagered>>
    BY <1>5 DEF GatewaySends, moneyVars
  <2>2. ~new.owes
    OBVIOUS
  <2> HIDE DEF new
  <2> QED BY <2>1, <2>2 DEF CoverInv, Uncovered
<1>6. CASE \E o \in Orders : GatewayDecides(o)
  BY <1>1, <1>6 DEF GatewayDecides, moneyVars, callbackVars
<1>7. CASE \E d \in Deposits : CreateDeposit(d) \/ FailStale(d)
  BY <1>1, <1>7 DEF CreateDeposit, FailStale, moneyVars, callbackVars
<1>8. ASSUME NEW r \in Requests, NEW kind \in {"approve", "reject", "cancel"}, NEW o \in Orders,
             ReadOrder(r, kind, o)
      PROVE  CoverInv'
  BY <1>1, <1>8 DEF ReadOrder, moneyVars, callbackVars
<1>9. CASE UNCHANGED vars
  BY <1>1, <1>9 DEF vars, moneyVars, callbackVars
<1> QED
  BY <1>3, <1>4, <1>5, <1>6, <1>7, <1>8, <1>9, CoverCallback, CoverFailure DEF Next

\* Only a request of the player makes a withdrawal, and it checks the wager.
LEMMA OnlyRequested ==
  ASSUME TypeOK, AskedInv, [Next]_vars, NEW w \in Withdrawals, withdraw[w] = "none",
         withdraw'[w] # "none"
  PROVE  RequestWithdraw(w)
<1>1. ASSUME withdraw' = withdraw PROVE FALSE
  BY <1>1
<1>2. ASSUME NEW v \in Withdrawals, RequestWithdraw(v) PROVE v = w
  BY <1>2 DEF RequestWithdraw, TypeOK
<1>3. CASE PlayerStep
  BY <1>1, <1>2, <1>3 DEF PlayerStep, Play, ClearWager, RequestDeposit, orderVars
<1>4. ASSUME NEW r \in Requests, RequestStep(r) PROVE FALSE
  <2>1. ASSUME Refund(r) \/ ApproveManual(r) \/ MarkProcessing(r) PROVE FALSE
    <3>1. request[r].order \in Withdrawals /\ request[r].pc # "free"
      BY <2>1 DEF Refund, ApproveManual, MarkProcessing, Reached
    <3>2. \A v \in Withdrawals : v # request[r].order => withdraw'[v] = withdraw[v]
      BY <2>1 DEF Refund, ApproveManual, MarkProcessing, TypeOK
    <3> QED BY <3>1, <3>2 DEF AskedInv
  <2> QED
    BY <1>1, <1>4, <2>1 DEF RequestStep, ApproveDeposit, RejectDeposit, ApproveBonus, Instruct,
                            orderVars
<1>5. ASSUME NEW m \in callbacks, Handle(m) PROVE FALSE
  <2>1. ASSUME WithdrawReport(m) PROVE FALSE
    <3>1. withdraw[m.order] # "none"
      BY <2>1 DEF WithdrawReport, AskedInv
    <3>2. \A v \in Withdrawals : v # m.order => withdraw'[v] = withdraw[v]
      BY <2>1 DEF WithdrawReport, TypeOK
    <3> QED BY <3>1, <3>2
  <2> QED
    BY <1>1, <1>5, <2>1 DEF Handle, DepositPaid, DepositWager, DepositBonus, DepositOther,
                            WithdrawRead, orderVars
<1>6. CASE FailStep
  BY <1>1, <1>6 DEF FailStep, Crash, RequestFails, InstructFails, CallbackFails, WagerFails, orderVars
<1>7. CASE \E o \in Orders : GatewayDecides(o) \/ GatewaySends(o)
  BY <1>1, <1>7 DEF GatewayDecides, GatewaySends, orderVars
<1>8. CASE \E d \in Deposits : CreateDeposit(d) \/ FailStale(d)
  BY <1>1, <1>8 DEF CreateDeposit, FailStale
<1>9. ASSUME NEW r \in Requests, NEW kind \in {"approve", "reject", "cancel"}, NEW o \in Orders,
             ReadOrder(r, kind, o)
      PROVE  FALSE
  BY <1>1, <1>9 DEF ReadOrder, orderVars
<1>10. CASE UNCHANGED vars
  BY <1>1, <1>10 DEF vars, orderVars
<1> QED
  BY <1>3, <1>4, <1>5, <1>6, <1>7, <1>8, <1>9, <1>10 DEF Next

\* A withdrawal that was requested stays so.
LEMMA StaysRequested ==
  ASSUME TypeOK, [Next]_vars, NEW w \in Withdrawals, withdraw[w] # "none"
  PROVE  withdraw'[w] # "none"
<1>1. CASE UNCHANGED withdraw
  BY <1>1
<1>2. ASSUME NEW v \in Withdrawals, RequestWithdraw(v) PROVE withdraw'[w] # "none"
  BY <1>2 DEF RequestWithdraw, TypeOK
<1>3. CASE PlayerStep
  BY <1>1, <1>2, <1>3 DEF PlayerStep, Play, ClearWager, RequestDeposit, orderVars
<1>4. ASSUME NEW r \in Requests, RequestStep(r) PROVE withdraw'[w] # "none"
  BY <1>1, <1>4 DEF RequestStep, ApproveDeposit, RejectDeposit, ApproveBonus, Instruct, Refund,
     ApproveManual, MarkProcessing, ApprovedStatus, orderVars, TypeOK
<1>5. ASSUME NEW m \in callbacks, Handle(m) PROVE withdraw'[w] # "none"
  BY <1>1, <1>5 DEF Handle, DepositPaid, DepositWager, DepositBonus, DepositOther, WithdrawRead,
     WithdrawReport, orderVars, TypeOK
<1>6. CASE FailStep
  BY <1>1, <1>6 DEF FailStep, Crash, RequestFails, InstructFails, CallbackFails, WagerFails, orderVars
<1>7. CASE \E o \in Orders : GatewayDecides(o) \/ GatewaySends(o)
  BY <1>1, <1>7 DEF GatewayDecides, GatewaySends, orderVars
<1>8. CASE \E d \in Deposits : CreateDeposit(d) \/ FailStale(d)
  BY <1>1, <1>8 DEF CreateDeposit, FailStale
<1>9. ASSUME NEW r \in Requests, NEW kind \in {"approve", "reject", "cancel"}, NEW o \in Orders,
             ReadOrder(r, kind, o)
      PROVE  withdraw'[w] # "none"
  BY <1>1, <1>9 DEF ReadOrder, orderVars
<1>10. CASE UNCHANGED vars
  BY <1>1, <1>10 DEF vars, orderVars
<1> QED
  BY <1>3, <1>4, <1>5, <1>6, <1>7, <1>8, <1>9, <1>10 DEF Next

LEMMA AskedStep == TypeOK /\ AskedInv /\ [Next]_vars => AskedInv'
<1> SUFFICES ASSUME TypeOK, AskedInv, [Next]_vars PROVE AskedInv'
  OBVIOUS
<1>0. \A w \in Withdrawals : withdraw[w] # "none" => withdraw'[w] # "none"
  BY StaysRequested
<1>1. ASSUME \A r \in Requests : \/ request'[r] = request[r]
                                \/ request'[r].pc = "free"
                                \/ (request[r].pc # "free" /\ request'[r].order = request[r].order),
             \A m \in callbacks' : m \in callbacks \/ m.pc # "read"
      PROVE  AskedInv'
  BY <1>0, <1>1 DEF AskedInv
<1>2. ASSUME NEW r \in Requests, NEW pc, request[r].pc # "free", Advance(r, pc), UNCHANGED callbacks
      PROVE  AskedInv'
  BY <1>1, <1>2, Advanced
<1>3. ASSUME UNCHANGED <<request, callbacks>> PROVE AskedInv'
  BY <1>1, <1>3
<1>4. ASSUME NEW m \in callbacks, NEW pc, pc # "read", Continue(m, pc), UNCHANGED request PROVE AskedInv'
  <2>1. PICK new : callbacks' = (callbacks \ {m}) \cup {new} /\ new.pc = pc
    BY <1>4, Moved
  <2> QED BY <1>1, <1>4, <2>1
<1>5. ASSUME NEW m \in callbacks, Answer(m), UNCHANGED request PROVE AskedInv'
  BY <1>1, <1>5 DEF Answer
<1>6. CASE PlayerStep
  BY <1>3, <1>6 DEF PlayerStep, Play, ClearWager, RequestDeposit, RequestWithdraw, callbackVars, apiVars
<1>7. ASSUME NEW r \in Requests, RequestStep(r) PROVE AskedInv'
  BY <1>2, <1>7 DEF RequestStep, ApproveDeposit, RejectDeposit, ApproveBonus, Refund, ApproveManual,
     Instruct, MarkProcessing, Reached, callbackVars
<1>8. ASSUME NEW m \in callbacks, Handle(m) PROVE AskedInv'
  <2>1. CASE DepositPaid(m)
    BY <1>4, <2>1 DEF DepositPaid, apiVars
  <2>2. CASE DepositWager(m)
    BY <1>4, <2>2 DEF DepositWager, apiVars
  <2>3. CASE DepositBonus(m) \/ DepositOther(m) \/ WithdrawReport(m)
    BY <1>5, <2>3 DEF DepositBonus, DepositOther, WithdrawReport, apiVars
  <2>4. CASE WithdrawRead(m)
    <3>1. PICK new : /\ callbacks' = (callbacks \ {m}) \cup {new}
                     /\ new.order = m.order
      BY <2>4, Moved DEF WithdrawRead
    <3>2. m.order \in Withdrawals /\ withdraw'[m.order] # "none" /\ UNCHANGED request
      BY <2>4 DEF WithdrawRead, Awaiting, orderVars, apiVars
    <3> QED BY <1>0, <3>1, <3>2 DEF AskedInv
  <2> QED BY <1>8, <2>1, <2>2, <2>3, <2>4 DEF Handle
<1>9. ASSUME NEW o \in Orders, GatewaySends(o) PROVE AskedInv'
  <2> DEFINE new == [order |-> o, says |-> Says(o), n |-> sent[o], pc |-> "sent", owes |-> FALSE]
  <2>1. callbacks' = callbacks \cup {new} /\ UNCHANGED request
    BY <1>9 DEF GatewaySends, apiVars
  <2>2. new.pc # "read"
    OBVIOUS
  <2> HIDE DEF new
  <2> QED BY <1>1, <2>1, <2>2
<1>10. CASE \E o \in Orders : GatewayDecides(o)
  BY <1>3, <1>10 DEF GatewayDecides, callbackVars, apiVars
<1>11. CASE \E d \in Deposits : CreateDeposit(d) \/ FailStale(d)
  BY <1>3, <1>11 DEF CreateDeposit, FailStale, callbackVars, apiVars
<1>12. ASSUME NEW r \in Requests, NEW kind \in {"approve", "reject", "cancel"}, NEW o \in Orders,
              ReadOrder(r, kind, o)
       PROVE  AskedInv'
  <2>1. /\ request' = [request EXCEPT ![r] = [pc |-> "read", kind |-> kind, order |-> o]]
        /\ UNCHANGED callbacks /\ Undecided(o)
    BY <1>12 DEF ReadOrder, callbackVars
  <2>2. \A q \in Requests : request'[q] = IF q = r THEN [pc |-> "read", kind |-> kind, order |-> o]
                                                  ELSE request[q]
    BY <2>1 DEF TypeOK
  <2>3. o \in Withdrawals => withdraw[o] # "none"
    BY <2>1, PaymentAssumption DEF Undecided
  <2> QED BY <1>0, <2>1, <2>2, <2>3 DEF AskedInv
<1>13. CASE FailStep
  <2>1. CASE Crash
    <3>1. callbacks' = {[m EXCEPT !.pc = "sent"] : m \in callbacks}
      BY <2>1 DEF Crash
    <3>2. \A m \in callbacks : [m EXCEPT !.pc = "sent"].pc = "sent"
      BY DEF TypeOK, Messages
    <3>3. \A r \in Requests :
            request'[r] = IF request[r].pc = "free" THEN NoRequest ELSE [request[r] EXCEPT !.pc = "done"]
      BY <2>1 DEF Crash
    <3>4. \A r \in Requests : [request[r] EXCEPT !.pc = "done"].order = request[r].order
      BY DEF TypeOK
    <3>5. ASSUME NEW r \in Requests
          PROVE  \/ request'[r].pc = "free"
                 \/ (request[r].pc # "free" /\ request'[r].order = request[r].order)
      <4>1. CASE request[r].pc = "free"
        <5>1. request'[r] = NoRequest
          BY <3>3, <4>1
        <5> QED BY <5>1 DEF NoRequest
      <4>2. CASE request[r].pc # "free"
        BY <3>3, <3>4, <4>2
      <4> QED BY <4>1, <4>2
    <3>6. ASSUME NEW m \in callbacks' PROVE m.pc # "read"
      BY <3>1, <3>2
    <3> QED BY <1>1, <3>5, <3>6
  <2>2. ASSUME NEW r \in Requests, RequestFails(r) \/ InstructFails(r) PROVE AskedInv'
    BY <1>2, <2>2 DEF RequestFails, InstructFails, Reached, callbackVars
  <2>3. ASSUME NEW m \in callbacks, CallbackFails(m) \/ WagerFails(m) PROVE AskedInv'
    BY <1>4, <1>5, <2>3 DEF CallbackFails, WagerFails, Refuse, apiVars
  <2> QED BY <1>13, <2>1, <2>2, <2>3 DEF FailStep
<1>14. CASE UNCHANGED vars
  BY <1>3, <1>14 DEF vars, callbackVars, apiVars
<1> QED
  BY <1>6, <1>7, <1>8, <1>9, <1>10, <1>11, <1>12, <1>13, <1>14 DEF Next

\* Whatever overlaps, repeats, fails or crashes, only a credit whose callback has yet
\* to record its requirement leaves before it is wagered.
THEOREM FrozenButForOwed == Spec => FrozenUntilWagered
<1>1. Init => CoverInv /\ AskedInv
  BY DEF Init, CoverInv, AskedInv, NoRequest
<1>2. TypeOK /\ CoverInv /\ AskedInv /\ [Next]_vars =>
        [\A w \in Withdrawals : withdraw[w] = "none" /\ withdraw'[w] # "none" =>
           unwagered = 0 \/ balance <= LowBalance \/ Uncovered]_vars
  <2> SUFFICES ASSUME TypeOK, CoverInv, AskedInv, [Next]_vars,
                      NEW w \in Withdrawals, withdraw[w] = "none", withdraw'[w] # "none"
               PROVE  unwagered = 0 \/ balance <= LowBalance \/ Uncovered
    OBVIOUS
  <2>1. needToBet = 0 \/ balance <= LowBalance
    BY OnlyRequested DEF RequestWithdraw, WagerMet
  <2>2. needToBet \in Nat /\ unwagered \in Nat
    BY DEF TypeOK
  <2> QED BY <2>1, <2>2 DEF CoverInv
<1>3. TypeOK /\ CoverInv /\ AskedInv /\ [Next]_vars => CoverInv' /\ AskedInv'
  BY CoverStep, AskedStep
<1> QED
  BY <1>1, <1>2, <1>3, TypeCorrect, PTL DEF Spec, FrozenUntilWagered

--------------------------------------------------------------------------------
(* What the rows say the player should have                                 *)

\* Orders come and go one at a time, and what they move adds up.
LEMMA Totals ==
  ASSUME NEW os \in SUBSET Orders
  PROVE  /\ TotalAmount(os) \in Nat
         /\ \A o \in Orders : TotalAmount(os \cup {o}) \in {TotalAmount(os), TotalAmount(os) + Amount[o]}
         /\ \A o \in Orders \ os : TotalAmount(os \cup {o}) = TotalAmount(os) + Amount[o]
<1>1. IsFiniteSet(os)
  BY OrdersAssumption, FS_Subset
<1>2. \A o \in Orders : Amount[o] \in Nat
  BY NeedsAreNat
<1>3. TotalAmount(os) \in Nat
  BY <1>1, <1>2, SumType DEF TotalAmount
<1>4. ASSUME NEW o \in Orders \ os PROVE TotalAmount(os \cup {o}) = TotalAmount(os) + Amount[o]
  <2>1. o \notin os /\ Amount[o] \in Int /\ \A x \in os : Amount[x] \in Int
    BY <1>2
  <2>2. SumFunctionOnSet(Amount, os \cup {o}) = SumFunctionOnSet(Amount, os) + Amount[o]
    BY <1>1, <2>1, SumOneMore
  <2> QED BY <2>2 DEF TotalAmount
<1>5. \A o \in os : os \cup {o} = os
  OBVIOUS
<1> QED
  BY <1>3, <1>4, <1>5

\* A set with at most one order more.
LEMMA TotalBetween ==
  ASSUME NEW os \in SUBSET Orders, NEW ps \in SUBSET Orders, NEW o \in Orders,
         os \subseteq ps, ps \subseteq os \cup {o}
  PROVE  TotalAmount(os) <= TotalAmount(ps) /\ TotalAmount(ps) <= TotalAmount(os) + Amount[o]
<1>1. ps = os \/ ps = os \cup {o}
  OBVIOUS
<1>2. TotalAmount(os) \in Nat /\ Amount[o] \in Nat
  BY Totals, NeedsAreNat
<1>3. TotalAmount(ps) \in {TotalAmount(os), TotalAmount(os) + Amount[o]}
  BY <1>1, Totals
<1> QED
  BY <1>2, <1>3

\* Nothing is lost when the balance moves with what the rows say, or gains on it.
LEMMA NothingLostMoves ==
  ASSUME TypeOK, TypeOK', NothingLost,
         NEW c \in Nat, NEW b \in Nat, NEW h \in Int, NEW s \in Nat,
         TotalAmount(Credited)' <= TotalAmount(Credited) + c,
         SumFunctionOnSet(rewards, Deposits)' = SumFunctionOnSet(rewards, Deposits) + b,
         TotalAmount(Held)' >= TotalAmount(Held) + h,
         staked' = staked + s,
         balance' >= balance + c + Bonus * b - h - s
  PROVE  NothingLost'
<1> DEFINE C == TotalAmount(Credited)  R == SumFunctionOnSet(rewards, Deposits)
           H == TotalAmount(Held)
<1>1. C \in Nat /\ C' \in Nat /\ H \in Nat /\ H' \in Nat
  BY Totals DEF Credited, Held, Orders
<1>2. IsFiniteSet(Deposits)
  BY OrdersAssumption, FS_Subset DEF Orders
<1>3. R \in Nat
  BY <1>2, SumType DEF TypeOK
<1>4. Bonus * (R + b) = Bonus * R + Bonus * b /\ Bonus * R \in Nat /\ Bonus * b \in Nat
  BY <1>3, PaymentAssumption
<1>5. balance \in Nat /\ balance' \in Nat /\ staked \in Nat /\ InitBalance \in Nat
  BY PaymentAssumption DEF TypeOK
<1>6. balance >= InitBalance - staked + C + Bonus * R - H
  BY DEF NothingLost
<1>7. Bonus * R' = Bonus * R + Bonus * b
  BY <1>4
<1> HIDE DEF C, R, H
<1>8. /\ C' <= C + c /\ H' >= H + h /\ staked' = staked + s
      /\ balance' >= balance + c + Bonus * b - h - s
  BY DEF C, H
<1>9. balance' >= InitBalance - staked' + C' + Bonus * R' - H'
  BY <1>1, <1>3, <1>4, <1>5, <1>6, <1>7, <1>8
<1> QED
  BY <1>9 DEF NothingLost, C, R, H

\* The same for steps that move no order, and none that is credited.
LEMMA NothingLostRests ==
  ASSUME TypeOK, TypeOK', NothingLost, UNCHANGED <<balance, staked, rewards>>,
         Credited' = Credited \/ \E d \in Deposits : Credited' = Credited \ {d},
         Held' = Held \/ \E w \in Withdrawals : Held' = Held \cup {w}
  PROVE  NothingLost'
<1>1. Credited \subseteq Orders /\ Credited' \subseteq Orders /\ Held \subseteq Orders /\ Held' \subseteq Orders
  BY DEF Credited, Held, Orders
<1>2. TotalAmount(Credited) \in Nat /\ TotalAmount(Credited') \in Nat /\ TotalAmount(Held) \in Nat
  BY <1>1, Totals
<1>3. TotalAmount(Credited') <= TotalAmount(Credited)
  <2>1. ASSUME NEW d \in Deposits, Credited' = Credited \ {d}
        PROVE  TotalAmount(Credited') <= TotalAmount(Credited)
    <3>1. Credited' \subseteq Credited /\ Credited \subseteq Credited' \cup {d} /\ d \in Orders
      BY <2>1 DEF Orders
    <3> QED BY <1>1, <3>1, TotalBetween
  <2> QED BY <1>2, <2>1
<1>4. TotalAmount(Held') >= TotalAmount(Held)
  <2>1. ASSUME NEW w \in Withdrawals, Held' = Held \cup {w}
        PROVE  TotalAmount(Held') >= TotalAmount(Held)
    <3>1. w \in Orders
      BY DEF Orders
    <3>2. TotalAmount(Held) <= TotalAmount(Held')
      BY <1>1, <2>1, <3>1, TotalBetween
    <3>3. TotalAmount(Held') \in Nat
      BY <1>1, Totals
    <3> QED BY <1>2, <3>2, <3>3
  <2> QED BY <1>2, <2>1
<1>5. balance \in Nat /\ staked \in Nat /\ Bonus * 0 = 0
  BY PaymentAssumption DEF TypeOK
<1>6. SumFunctionOnSet(rewards, Deposits) \in Int
  <2>1. IsFiniteSet(Deposits)
    BY OrdersAssumption, FS_Subset DEF Orders
  <2> QED BY <2>1, SumType DEF TypeOK
<1>7. SumFunctionOnSet(rewards, Deposits)' = SumFunctionOnSet(rewards, Deposits) + 0
  BY <1>6
<1>8. /\ TotalAmount(Credited)' <= TotalAmount(Credited) + 0
      /\ TotalAmount(Held)' >= TotalAmount(Held) + 0
      /\ staked' = staked + 0 /\ balance' >= balance + 0 + Bonus * 0 - 0 - 0
  BY <1>2, <1>3, <1>4, <1>5
<1> QED
  BY <1>7, <1>8, NothingLostMoves

\* The bonus rows of a deposit that gets one more.
LEMMA OneMoreReward ==
  ASSUME TypeOK, NEW d \in Deposits, CreditBonus(d)
  PROVE  SumFunctionOnSet(rewards, Deposits)' = SumFunctionOnSet(rewards, Deposits) + 1
<1>1. IsFiniteSet(Deposits)
  BY OrdersAssumption, FS_Subset DEF Orders
<1>2. rewards \in [Deposits -> Nat] /\ rewards' = [rewards EXCEPT ![d] = @ + 1]
  BY DEF TypeOK, CreditBonus
<1>3. \A x \in Deposits : rewards[x] \in Int /\ rewards'[x] \in Int
  BY <1>2
<1>4. rewards'[d] = rewards[d] + 1 /\ \A x \in Deposits \ {d} : rewards'[x] = rewards[x]
  BY <1>2
<1>5. SumFunctionOnSet(rewards', Deposits) = SumFunctionOnSet(rewards, Deposits) + rewards'[d] - rewards[d]
  BY <1>1, <1>3, <1>4, SumChange
<1>6. SumFunctionOnSet(rewards, Deposits) \in Int
  BY <1>1, <1>3, SumType
<1> QED
  BY <1>3, <1>4, <1>5, <1>6

\* A deposit is credited, another time perhaps: its amount goes to the balance.
LEMMA NothingLostCredit ==
  ASSUME TypeOK, TypeOK', NothingLost, NEW d \in Deposits,
         deposit' = [deposit EXCEPT ![d] = "SUCCESS"], balance' = balance + Amount[d],
         UNCHANGED <<staked, rewards, withdraw>>
  PROVE  NothingLost'
<1>1. Credited' = Credited \cup {d} /\ Held' = Held
  BY DEF Credited, Held, TypeOK
<1>2. Credited \subseteq Orders /\ Credited' \subseteq Orders /\ Held \subseteq Orders /\ d \in Orders
  BY DEF Credited, Held, Orders
<1>3. TotalAmount(Credited') <= TotalAmount(Credited) + Amount[d]
  BY <1>1, <1>2, TotalBetween
<1>4. TotalAmount(Held) \in Nat /\ Amount[d] \in Nat /\ Bonus * 0 = 0
  <2>1. TotalAmount(Held) \in Nat
    BY <1>2, Totals
  <2> QED BY <1>2, <2>1, NeedsAreNat, PaymentAssumption
<1>5. balance \in Nat /\ staked \in Nat
  BY DEF TypeOK
<1>6. SumFunctionOnSet(rewards, Deposits) \in Int
  <2>1. IsFiniteSet(Deposits)
    BY OrdersAssumption, FS_Subset DEF Orders
  <2> QED BY <2>1, SumType DEF TypeOK
<1>7. /\ TotalAmount(Credited)' <= TotalAmount(Credited) + Amount[d]
      /\ SumFunctionOnSet(rewards, Deposits)' = SumFunctionOnSet(rewards, Deposits) + 0
      /\ TotalAmount(Held)' >= TotalAmount(Held) + 0
      /\ staked' = staked + 0
      /\ balance' >= balance + Amount[d] + Bonus * 0 - 0 - 0
  BY <1>1, <1>3, <1>4, <1>5, <1>6
<1> QED
  BY <1>4, <1>7, NothingLostMoves

\* A bonus goes to the balance, and its row into the sum.
LEMMA NothingLostBonus ==
  ASSUME TypeOK, TypeOK', NothingLost, NEW d \in Deposits, CreditBonus(d),
         UNCHANGED <<deposit, withdraw>>
  PROVE  NothingLost'
<1>1. Credited' = Credited /\ Held' = Held
  BY DEF Credited, Held
<1>2. TotalAmount(Held) \in Nat /\ TotalAmount(Credited) \in Nat
  BY Totals DEF Credited, Held, Orders
<1>3. balance \in Nat /\ staked \in Nat /\ Bonus * 1 = Bonus /\ Bonus \in Nat
  BY PaymentAssumption DEF TypeOK
<1>4. TotalAmount(Credited)' <= TotalAmount(Credited) + 0 /\ TotalAmount(Held)' >= TotalAmount(Held) + 0
  BY <1>1, <1>2
<1>5. staked' = staked + 0 /\ balance' >= balance + 0 + Bonus * 1 - 0 - 0
  BY <1>3 DEF CreditBonus
<1>6. SumFunctionOnSet(rewards, Deposits)' = SumFunctionOnSet(rewards, Deposits) + 1
  BY OneMoreReward
<1> QED
  BY <1>4, <1>5, <1>6, NothingLostMoves

\* A withdrawal comes to an end that gives its amount back.
LEMMA NothingLostReturn ==
  ASSUME TypeOK, TypeOK', NothingLost, NEW w \in Withdrawals,
         \A u \in Withdrawals \ {w} : withdraw'[u] = withdraw[u], balance' = balance + Amount[w],
         UNCHANGED <<staked, rewards, deposit>>
  PROVE  NothingLost'
<1>1. Credited' = Credited /\ Held \subseteq Held' \cup {w}
  BY DEF Credited, Held
<1>2. /\ Held \subseteq Orders /\ Held' \subseteq Orders /\ Held' \cup {w} \subseteq Orders
      /\ Credited \subseteq Orders /\ w \in Orders
  BY DEF Credited, Held, Orders
<1>3. /\ TotalAmount(Held) \in Nat /\ TotalAmount(Held') \in Nat
      /\ TotalAmount(Held' \cup {w}) \in Nat /\ TotalAmount(Credited) \in Nat
      /\ Amount[w] \in Nat /\ Bonus * 0 = 0
  <2>1. TotalAmount(Held) \in Nat /\ TotalAmount(Held') \in Nat
    BY <1>2, Totals
  <2>2. TotalAmount(Held' \cup {w}) \in Nat /\ TotalAmount(Credited) \in Nat
    BY <1>2, Totals
  <2>3. Amount[w] \in Nat /\ Bonus * 0 = 0
    BY <1>2, NeedsAreNat, PaymentAssumption
  <2> QED BY <2>1, <2>2, <2>3
<1>4. TotalAmount(Held) <= TotalAmount(Held' \cup {w})
  <2>1. IsFiniteSet(Held' \cup {w})
    BY <1>2, OrdersAssumption, FS_Subset
  <2>2. \A o \in Held' \cup {w} : Amount[o] \in Nat
    BY <1>2, NeedsAreNat
  <2> QED BY <1>1, <2>1, <2>2, SumSubset DEF TotalAmount
<1>5. TotalAmount(Held' \cup {w}) \in {TotalAmount(Held'), TotalAmount(Held') + Amount[w]}
  BY <1>2, Totals
<1>6. TotalAmount(Held') >= TotalAmount(Held) - Amount[w]
  BY <1>3, <1>4, <1>5
<1>7. balance \in Nat /\ staked \in Nat
  BY DEF TypeOK
<1>8. SumFunctionOnSet(rewards, Deposits) \in Int
  <2>1. IsFiniteSet(Deposits)
    BY OrdersAssumption, FS_Subset DEF Orders
  <2> QED BY <2>1, SumType DEF TypeOK
<1>9. /\ TotalAmount(Credited)' <= TotalAmount(Credited) + 0
      /\ SumFunctionOnSet(rewards, Deposits)' = SumFunctionOnSet(rewards, Deposits) + 0
      /\ TotalAmount(Held)' >= TotalAmount(Held) + (-Amount[w])
      /\ staked' = staked + 0
      /\ balance' >= balance + 0 + Bonus * 0 - (-Amount[w]) - 0
      /\ -Amount[w] \in Int
  BY <1>1, <1>3, <1>6, <1>7, <1>8
<1> QED
  BY <1>9, NothingLostMoves

\* A callback that is past its first step is of an order of the right kind.
KindInv ==
  \A m \in callbacks : /\ m.pc \in {"wager", "bonus"} => m.order \in Deposits
                       /\ m.pc = "read" => m.order \in Withdrawals

\* Nothing is lost whatever a handler does, with the kinds of the orders.
LostInv == TypeOK /\ KindInv /\ NothingLost

LEMMA KindStep == TypeOK /\ KindInv /\ [Next]_vars => KindInv'
<1> SUFFICES ASSUME TypeOK, KindInv, [Next]_vars PROVE KindInv'
  OBVIOUS
<1> USE DEF KindInv
<1>1. ASSUME UNCHANGED callbacks PROVE KindInv'
  BY <1>1
<1>2. ASSUME NEW m \in callbacks, NEW pc, Continue(m, pc),
             pc \in {"wager", "bonus"} => m.order \in Deposits,
             pc = "read" => m.order \in Withdrawals
      PROVE  KindInv'
  <2> DEFINE new == [m EXCEPT !.pc = pc, !.owes = Owes(m, pc)]
  <2>1. new.order = m.order /\ new.pc = pc
    BY DEF TypeOK, Messages
  <2>2. callbacks' = (callbacks \ {m}) \cup {new}
    BY <1>2 DEF Continue
  <2> HIDE DEF new
  <2> QED BY <1>2, <2>1, <2>2
<1>3. ASSUME NEW m \in callbacks, Answer(m) PROVE KindInv'
  BY <1>3 DEF Answer
<1>4. ASSUME PlayerStep PROVE KindInv'
  BY <1>1, <1>4 DEF PlayerStep, Play, ClearWager, RequestDeposit, RequestWithdraw, callbackVars
<1>5. ASSUME NEW d \in Deposits, CreateDeposit(d) \/ FailStale(d) PROVE KindInv'
  BY <1>1, <1>5 DEF CreateDeposit, FailStale, callbackVars
<1>6. ASSUME NEW r \in Requests, RequestStep(r) PROVE KindInv'
  BY <1>1, <1>6 DEF RequestStep, ApproveDeposit, RejectDeposit, ApproveBonus, Refund, ApproveManual,
     Instruct, MarkProcessing, callbackVars
<1>7. ASSUME NEW r \in Requests, NEW kind \in {"approve", "reject", "cancel"}, NEW o \in Orders,
             ReadOrder(r, kind, o)
      PROVE  KindInv'
  BY <1>1, <1>7 DEF ReadOrder, callbackVars
<1>8. ASSUME NEW o \in Orders, GatewayDecides(o) \/ GatewaySends(o) PROVE KindInv'
  <2>1. CASE GatewayDecides(o)
    BY <1>1, <2>1 DEF GatewayDecides, callbackVars
  <2>2. CASE GatewaySends(o)
    <3>1. callbacks' = callbacks \cup
             {[order |-> o, says |-> Says(o), n |-> sent[o], pc |-> "sent", owes |-> FALSE]}
      BY <2>2 DEF GatewaySends
    <3> QED BY <3>1
  <2> QED BY <1>8, <2>1, <2>2
<1>9. ASSUME NEW m \in callbacks, Handle(m) PROVE KindInv'
  <2>1. CASE DepositPaid(m)
    BY <1>2, <2>1 DEF DepositPaid
  <2>2. CASE DepositWager(m)
    BY <1>2, <2>2 DEF DepositWager
  <2>3. CASE DepositBonus(m) \/ DepositOther(m) \/ WithdrawReport(m)
    BY <1>3, <2>3 DEF DepositBonus, DepositOther, WithdrawReport
  <2>4. CASE WithdrawRead(m)
    BY <1>2, <2>4 DEF WithdrawRead
  <2> QED BY <1>9, <2>1, <2>2, <2>3, <2>4 DEF Handle
<1>10. ASSUME FailStep PROVE KindInv'
  <2>1. CASE Crash
    <3>1. callbacks' = {[m EXCEPT !.pc = "sent"] : m \in callbacks}
      BY <2>1 DEF Crash
    <3>2. \A m \in callbacks : [m EXCEPT !.pc = "sent"].pc = "sent"
      BY DEF TypeOK, Messages
    <3> QED BY <3>1, <3>2
  <2>2. ASSUME NEW r \in Requests, RequestFails(r) \/ InstructFails(r) PROVE KindInv'
    BY <1>1, <2>2 DEF RequestFails, InstructFails, callbackVars
  <2>3. ASSUME NEW m \in callbacks, CallbackFails(m) \/ WagerFails(m) PROVE KindInv'
    BY <1>2, <1>3, <2>3 DEF CallbackFails, WagerFails, Refuse
  <2> QED BY <1>10, <2>1, <2>2, <2>3 DEF FailStep
<1>11. CASE UNCHANGED vars
  BY <1>1, <1>11 DEF vars, callbackVars
<1> QED
  BY <1>4, <1>5, <1>6, <1>7, <1>8, <1>9, <1>10, <1>11 DEF Next

LEMMA NothingLostRequest ==
  ASSUME TypeOK, TypeOK', NothingLost, NEW r \in Requests, RequestStep(r)
  PROVE  NothingLost'
<1> DEFINE o == request[r].order
<1>0. ApproveDeposit(r) \/ RejectDeposit(r) \/ ApproveBonus(r) => o \in Deposits
  BY DEF ApproveDeposit, RejectDeposit, ApproveBonus, Reached
<1>1. CASE ApproveDeposit(r)
  BY <1>0, <1>1, NothingLostCredit DEF ApproveDeposit
<1>2. CASE RejectDeposit(r)
  <2>1. Credited' = Credited \ {o} /\ Held' = Held
    BY <1>0, <1>2 DEF RejectDeposit, Credited, Held, TypeOK
  <2> QED BY <1>0, <1>2, <2>1, NothingLostRests DEF RejectDeposit, moneyVars
<1>3. CASE ApproveBonus(r)
  BY <1>0, <1>3, NothingLostBonus DEF ApproveBonus
<1>4. CASE Refund(r)
  <2>1. o \in Withdrawals /\ \A u \in Withdrawals \ {o} : withdraw'[u] = withdraw[u]
    BY <1>4 DEF Refund, Reached, TypeOK
  <2> QED BY <1>4, <2>1, NothingLostReturn DEF Refund, GivenBack
<1>5. CASE ApproveManual(r) \/ MarkProcessing(r)
  <2>1. o \in Withdrawals
    BY <1>5 DEF ApproveManual, MarkProcessing, Reached
  <2>2. Credited' = Credited /\ Held' = Held \cup {o}
    BY <1>5, <2>1 DEF ApproveManual, MarkProcessing, ApprovedStatus, Credited, Held, TypeOK
  <2>3. UNCHANGED <<balance, staked, rewards>>
    BY <1>5 DEF ApproveManual, MarkProcessing, moneyVars
  <2> QED BY <2>1, <2>2, <2>3, NothingLostRests
<1>6. CASE Instruct(r)
  <2>1. UNCHANGED <<balance, staked, rewards>> /\ Credited' = Credited /\ Held' = Held
    BY <1>6 DEF Instruct, moneyVars, orderVars, Credited, Held
  <2> QED BY <2>1, NothingLostRests
<1> QED
  BY <1>1, <1>2, <1>3, <1>4, <1>5, <1>6 DEF RequestStep

LEMMA NothingLostCallback ==
  ASSUME TypeOK, TypeOK', KindInv, NothingLost, NEW m \in callbacks, Handle(m)
  PROVE  NothingLost'
<1> DEFINE o == m.order
<1>1. CASE DepositPaid(m)
  BY <1>1, NothingLostCredit DEF DepositPaid
<1>2. CASE DepositWager(m) \/ WithdrawRead(m)
  <2>1. UNCHANGED <<balance, staked, rewards>> /\ Credited' = Credited /\ Held' = Held
    BY <1>2 DEF DepositWager, WithdrawRead, moneyVars, orderVars, Credited, Held
  <2> QED BY <2>1, NothingLostRests
<1>3. CASE DepositBonus(m)
  <2>1. UNCHANGED <<deposit, withdraw>> /\ CreditBonus(o)
    BY <1>3 DEF DepositBonus
  <2>2. o \in Deposits
    BY <1>3 DEF DepositBonus, KindInv
  <2> QED BY <2>1, <2>2, NothingLostBonus
<1>4. CASE DepositOther(m)
  <2>1. Credited' = Credited \ {o} /\ Held' = Held /\ o \in Deposits
    BY <1>4 DEF DepositOther, Credited, Held, TypeOK
  <2> QED BY <1>4, <2>1, NothingLostRests DEF DepositOther, moneyVars
<1>5. CASE WithdrawReport(m)
  <2>1. o \in Withdrawals
    BY <1>5 DEF WithdrawReport, KindInv
  <2>2. \A u \in Withdrawals \ {o} : withdraw'[u] = withdraw[u]
    BY <1>5 DEF WithdrawReport, TypeOK
  <2>3. UNCHANGED <<staked, rewards, deposit>>
    BY <1>5 DEF WithdrawReport
  <2>4. CASE m.says = "failed"
    <3>1. balance' = balance + Amount[o]
      BY <1>5, <2>4 DEF WithdrawReport
    <3> QED BY <2>1, <2>2, <2>3, <3>1, NothingLostReturn
  <2>5. CASE m.says # "failed"
    <3>1. balance' = balance /\ withdraw'[o] \in {"SUCCESS", "PROCESSING"}
      BY <1>5, <2>1, <2>5 DEF WithdrawReport, TypeOK
    <3>2. Credited' = Credited /\ Held' = Held \cup {o}
      BY <2>1, <2>2, <2>3, <3>1 DEF Credited, Held
    <3> QED BY <2>1, <2>3, <3>1, <3>2, NothingLostRests
  <2> QED BY <2>4, <2>5
<1> QED
  BY <1>1, <1>2, <1>3, <1>4, <1>5 DEF Handle

LEMMA NothingLostPlayer ==
  ASSUME TypeOK, TypeOK', NothingLost, PlayerStep
  PROVE  NothingLost'
<1>1. CASE Play
  <2>1. Credited' = Credited /\ Held' = Held /\ rewards' = rewards
    BY <1>1 DEF Play, orderVars, Credited, Held
  <2>2. TotalAmount(Held) \in Nat /\ TotalAmount(Credited) \in Nat
    BY Totals DEF Credited, Held, Orders
  <2>3. SumFunctionOnSet(rewards, Deposits) \in Int
    <3>1. IsFiniteSet(Deposits)
      BY OrdersAssumption, FS_Subset DEF Orders
    <3> QED BY <3>1, SumType DEF TypeOK
  <2>4. balance \in Nat /\ staked \in Nat /\ Bonus * 0 = 0 /\ Stake \in Nat
    BY PaymentAssumption DEF TypeOK
  <2>5. TotalAmount(Credited)' <= TotalAmount(Credited) + 0 /\ TotalAmount(Held)' >= TotalAmount(Held) + 0
    BY <2>1, <2>2
  <2>6. SumFunctionOnSet(rewards, Deposits)' = SumFunctionOnSet(rewards, Deposits) + 0
    BY <2>1, <2>3
  <2>7. staked' = staked + Stake /\ balance' >= balance + 0 + Bonus * 0 - 0 - Stake
    BY <1>1, <2>4 DEF Play
  <2> QED BY <2>4, <2>5, <2>6, <2>7, NothingLostMoves
<1>2. CASE ClearWager
  <2>1. UNCHANGED <<balance, staked, rewards>> /\ Credited' = Credited /\ Held' = Held
    BY <1>2 DEF ClearWager, orderVars, Credited, Held
  <2> QED BY <2>1, NothingLostRests
<1>3. ASSUME NEW d \in Deposits, RequestDeposit(d) PROVE NothingLost'
  <2>1. Credited' = Credited \/ Credited' = Credited \ {d}
    BY <1>3 DEF RequestDeposit, Credited, TypeOK
  <2>2. UNCHANGED <<balance, staked, rewards>> /\ Held' = Held
    BY <1>3 DEF RequestDeposit, moneyVars, Held
  <2> QED BY <2>1, <2>2, NothingLostRests
<1>4. ASSUME NEW w \in Withdrawals, RequestWithdraw(w) PROVE NothingLost'
  <2>1. Credited' = Credited /\ Held' = Held \cup {w} /\ w \notin Held
    BY <1>4 DEF RequestWithdraw, Credited, Held, TypeOK
  <2>2. Credited \subseteq Orders /\ Held \subseteq Orders /\ w \in Orders \ Held
    BY <2>1 DEF Credited, Held, Orders
  <2>3. TotalAmount(Held') = TotalAmount(Held) + Amount[w]
    BY <2>1, <2>2, Totals
  <2>4. TotalAmount(Held) \in Nat /\ TotalAmount(Credited) \in Nat
    BY <2>2, Totals
  <2>5. Amount[w] \in Nat /\ Bonus * 0 = 0
    BY <2>2, NeedsAreNat, PaymentAssumption
  <2>6. SumFunctionOnSet(rewards, Deposits) \in Int
    <3>1. IsFiniteSet(Deposits)
      BY OrdersAssumption, FS_Subset DEF Orders
    <3> QED BY <3>1, SumType DEF TypeOK
  <2>7. balance \in Nat /\ staked \in Nat
    BY DEF TypeOK
  <2>8. /\ TotalAmount(Credited)' <= TotalAmount(Credited) + 0
        /\ TotalAmount(Held)' >= TotalAmount(Held) + Amount[w]
    BY <2>1, <2>3, <2>4, <2>5
  <2>9. SumFunctionOnSet(rewards, Deposits)' = SumFunctionOnSet(rewards, Deposits) + 0
    BY <1>4, <2>6 DEF RequestWithdraw
  <2>10. staked' = staked + 0 /\ balance' >= balance + 0 + Bonus * 0 - Amount[w] - 0
    BY <1>4, <2>5, <2>7 DEF RequestWithdraw
  <2>11. 0 \in Nat /\ Amount[w] \in Int
    BY <2>5
  <2> QED BY <2>8, <2>9, <2>10, <2>11, NothingLostMoves
<1> QED
  BY <1>1, <1>2, <1>3, <1>4 DEF PlayerStep

LEMMA NothingLostStep == LostInv /\ [Next]_vars => LostInv'
<1> SUFFICES ASSUME TypeOK, KindInv, NothingLost, [Next]_vars PROVE LostInv'
  BY DEF LostInv
<1>1. TypeOK' /\ KindInv'
  BY TypeStep, KindStep
<1>2. ASSUME UNCHANGED <<balance, staked, rewards, deposit, withdraw>> PROVE NothingLost'
  <2>1. Credited' = Credited /\ Held' = Held
    BY <1>2 DEF Credited, Held
  <2> QED BY <1>1, <1>2, <2>1, NothingLostRests
<1>3. ASSUME NEW d \in Deposits, CreateDeposit(d) \/ FailStale(d) PROVE NothingLost'
  <2>1. UNCHANGED <<balance, staked, rewards>> /\ Held' = Held
    BY <1>3 DEF CreateDeposit, FailStale, moneyVars, Held
  <2>2. Credited' = Credited \ {d}
    BY <1>3 DEF CreateDeposit, FailStale, Credited, TypeOK
  <2> QED BY <1>1, <2>1, <2>2, NothingLostRests
<1>4. ASSUME NEW r \in Requests, NEW kind \in {"approve", "reject", "cancel"}, NEW o \in Orders,
             ReadOrder(r, kind, o)
      PROVE  NothingLost'
  BY <1>2, <1>4 DEF ReadOrder, moneyVars, orderVars
<1>5. ASSUME NEW o \in Orders, GatewayDecides(o) \/ GatewaySends(o) PROVE NothingLost'
  BY <1>2, <1>5 DEF GatewayDecides, GatewaySends, moneyVars, orderVars
<1>6. ASSUME FailStep PROVE NothingLost'
  BY <1>2, <1>6 DEF FailStep, Crash, RequestFails, InstructFails, CallbackFails, WagerFails,
     moneyVars, orderVars
<1>7. ASSUME PlayerStep PROVE NothingLost'
  BY <1>1, <1>7, NothingLostPlayer
<1>8. ASSUME NEW r \in Requests, RequestStep(r) PROVE NothingLost'
  BY <1>1, <1>8, NothingLostRequest
<1>9. ASSUME NEW m \in callbacks, Handle(m) PROVE NothingLost'
  BY <1>1, <1>9, NothingLostCallback
<1>10. ASSUME UNCHANGED vars PROVE NothingLost'
  <2>1. UNCHANGED <<balance, staked, rewards, deposit, withdraw>>
    BY <1>10 DEF vars, moneyVars, orderVars
  <2> QED BY <1>2, <2>1
<1>11. ASSUME Next PROVE NothingLost'
  BY <1>3, <1>4, <1>5, <1>6, <1>7, <1>8, <1>9, <1>11 DEF Next
<1> QED
  BY <1>1, <1>10, <1>11 DEF LostInv

LEMMA NothingLostInit == Init => LostInv
<1> SUFFICES ASSUME Init PROVE LostInv
  OBVIOUS
<1>1. TypeOK
  BY TypeInit
<1>2. KindInv
  BY DEF Init, KindInv
<1>3. Credited = {} /\ Held = {}
  BY DEF Init, Credited, Held
<1>4. TotalAmount({}) = 0
  BY SumEmpty DEF TotalAmount
<1>5. SumFunctionOnSet(rewards, Deposits) = 0
  <2>1. IsFiniteSet(Deposits)
    BY OrdersAssumption, FS_Subset DEF Orders
  <2>2. \A d \in Deposits : rewards[d] = 0
    BY DEF Init
  <2> QED BY <2>1, <2>2, SumZero
<1>6. Bonus * 0 = 0 /\ InitBalance \in Nat
  BY PaymentAssumption
<1>7. NothingLost
  BY <1>3, <1>4, <1>5, <1>6 DEF NothingLost, Init
<1> QED
  BY <1>1, <1>2, <1>7 DEF LostInv

\* However requests, callbacks, failures and crashes interleave, and whatever the
\* gateways repeat, the player has at least what the rows of the database say:
\* every credit and every refund reaches the balance in the update that writes
\* the status, so what goes wrong between two updates is never at the player's
\* expense.
THEOREM PlayerLosesNothing == Spec => []NothingLost
<1>1. LostInv => NothingLost
  BY DEF LostInv
<1> QED
  BY <1>1, NothingLostInit, NothingLostStep, PTL DEF Spec

================================================================================
