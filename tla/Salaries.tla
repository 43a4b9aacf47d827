--------------------------------- MODULE Salaries ---------------------------------
(***************************************************************************)
(* A salary rule that an admin keeps and the engine pays                   *)
(* (admin/salary.ts, salaryScheduler.ts), and the claims of the automatic  *)
(* salary (lib/autoSalaryService.ts), which packages/config switches off   *)
(* and the model explores switched on.  A day of the model is the period   *)
(* of a rule; the job runs several times a day.                            *)
(***************************************************************************)
EXTENDS RewardDesk, SequencesExt

CONSTANTS
  MaxPayments, \* the values of SalaryRule.maxPayments; 0 is null
  Slabs,       \* AUTO_SALARY_SLABS, lowest first
  Teams        \* what the team of the agent may have done on the claimed day

ASSUME SalaryAssumption ==
  /\ MaxPayments \subseteq Nat
  /\ Slabs # <<>>
  /\ Slabs \in Seq([reward : Nat \ {0}, direct : Nat, active : Nat, teamDeposit : Nat])

VARIABLES
  rule,      \* the SalaryRule row
  payments,  \* its payments, SalaryPayment rows until it is deleted: the day each was due
  mostPaid,  \* the largest maxPayments the rule had, -1 when it had none (for properties)
  reopened,  \* it was ONE_TIME, or patched when its due day was paid already (for properties)
  team,      \* what the team has done on the claimed day, day 0
  claim,     \* the AutoSalaryClaim row of the agent and that day
  autoPaid   \* what was credited for it (for properties)

ruleVars == <<rule, payments, mostPaid, reopened>>
claimVars == <<team, claim, autoPaid>>

NoRule == [life |-> "none", frequency |-> "DAILY", maxPayments |-> 0, paidCount |-> 0,
           isActive |-> FALSE, nextPaymentAt |-> 0]
NoClaim == [status |-> "NONE", amount |-> 0]

RuleInit == rule = NoRule /\ payments = <<>> /\ mostPaid = 0 /\ reopened = FALSE
ClaimInit ==
  /\ team \in Teams
  /\ scheme # "auto-salary" => team = CHOOSE t \in Teams : TRUE
  /\ claim = NoClaim
  /\ autoPaid = <<>>

--------------------------------------------------------------------------------
(* Rules                                                                    *)

\* calculateNextPayment(): nothing for ONE_TIME
NextPayment(d, frequency) == IF frequency = "ONE_TIME" THEN d ELSE d + 1

Wider(a, b) == IF a = -1 \/ b = 0 THEN -1 ELSE IF a > b THEN a ELSE b

\* POST: a ONE_TIME rule, or one with immediateFirst, is paid in the same transaction.
CreateRule(frequency, max, immediate) ==
  LET oneTime == frequency = "ONE_TIME"
      pays == oneTime \/ immediate
      most == IF oneTime THEN 1 ELSE max
  IN /\ rule.life = "none"
     /\ AtOnce
     /\ rule' = [life |-> "kept", frequency |-> frequency, maxPayments |-> most,
                 paidCount |-> IF pays THEN 1 ELSE 0, isActive |-> ~oneTime,
                 nextPaymentAt |-> IF pays /\ ~oneTime THEN NextPayment(day, frequency) ELSE day]
     /\ payments' = IF pays THEN <<day>> ELSE <<>>
     /\ mostPaid' = Wider(0, most)
     /\ reopened' = oneTime

Kept == rule.life = "kept"

\* PATCH: any of the fields.
UpdateRule(frequency, max, active) ==
  /\ Kept
  /\ AtOnce
  /\ rule' = [rule EXCEPT !.frequency = frequency, !.maxPayments = max, !.isActive = active]
  /\ rule' # rule
  /\ mostPaid' = Wider(mostPaid, max)
  /\ reopened' = (reopened \/ frequency = "ONE_TIME" \/ rule.nextPaymentAt \in Range(payments))
  /\ UNCHANGED payments

\* DELETE takes the payments of the rule with it.
DeleteRule ==
  /\ Kept
  /\ AtOnce
  /\ rule' = [rule EXCEPT !.life = "deleted"]
  /\ UNCHANGED <<payments, mostPaid, reopened>>

\* processDuePayments(): one run at a time reads what is due ...
MayStillPayAlways(r) == TRUE
MayStillPay(r) == r.maxPayments > 0 => r.paidCount < r.maxPayments
DueActive(r) == r.isActive /\ r.nextPaymentAt <= day
DueRule(r) == Kept /\ DueActive(r) /\ MayStillPay(r)

RunRead ==
  /\ calls = {}
  /\ DueRule(rule)
  /\ Begin([made |-> made, pc |-> "salary pay", rule |-> rule])
  /\ UNCHANGED ruleVars

\* ... and pays it as read, in one transaction that fails when the rule is gone.
Completed(r) == r.maxPayments > 0 /\ r.paidCount + 1 >= r.maxPayments

RunPay(c) ==
  /\ c.pc = "salary pay"
  /\ IF ~Kept THEN Drop(c) /\ UNCHANGED <<rule, payments>>
     ELSE /\ End(c) /\ UNCHANGED <<scheme, day, made, overlapped>>
          /\ payments' = Append(payments, c.rule.nextPaymentAt)
          /\ rule' = [rule EXCEPT !.paidCount = c.rule.paidCount + 1,
                                  !.isActive = IF Completed(c.rule) THEN FALSE ELSE c.rule.isActive,
                                  !.nextPaymentAt = IF Completed(c.rule) THEN c.rule.nextPaymentAt
                                                    ELSE NextPayment(c.rule.nextPaymentAt, c.rule.frequency)]
  /\ UNCHANGED <<mostPaid, reopened>>

\* A transaction that fails, or an engine that dies, leaves the rule as it was.
RunFails(c) == Drop(c) /\ UNCHANGED ruleVars

SalaryNext ==
  /\ scheme = "salary"
  /\ \/ \E f \in {"DAILY", "ONE_TIME"}, max \in MaxPayments : \E b \in BOOLEAN :
          CreateRule(f, max, b) \/ UpdateRule(f, max, b)
     \/ DeleteRule
     \/ RunRead
     \/ \E c \in calls : RunPay(c) \/ RunFails(c)
     \/ NewDay /\ UNCHANGED ruleVars

--------------------------------------------------------------------------------
(* Automatic salary                                                         *)

RequiredActive(s) == s.direct + s.active
SlabMet(metrics, s) ==
  /\ metrics.direct >= s.direct
  /\ metrics.active >= RequiredActive(s)
  /\ metrics.teamDeposit >= s.teamDeposit
SlabsMet == {i \in DOMAIN Slabs : SlabMet(team, Slabs[i])}
\* matchHighestSlab(): the rewards grow with the slabs
Match == IF SlabsMet = {} THEN 0 ELSE Slabs[Max(SlabsMet)].reward

\* salaryDashboardRoute: what a claim of today, or else of yesterday, is said to pay
Shown ==
  IF day <= 1 /\ claim.status \in {"PENDING", "APPROVED"}
  THEN [status |-> IF claim.status = "PENDING" THEN "pending" ELSE "paid", willReceive |-> claim.amount]
  ELSE [status |-> "none", willReceive |-> 0]

\* getUserSalaryRoute: the summary of the history
TotalReceived ==
  (IF rule.life = "deleted" THEN 0 ELSE Len(payments)) + (IF claim.status = "APPROVED" THEN claim.amount ELSE 0)

\* Bets, deposits and invitations of the day, approved late or not.
TeamActs(t) ==
  /\ t # team
  /\ AtOnce
  /\ team' = t
  /\ UNCHANGED <<claim, autoPaid>>

\* generateAutoSalaries(): no slab, no claim; an approved claim is left alone, any
\* other starts over.
ApprovedIgnored == FALSE
ApprovedAlready == claim.status = "APPROVED"
GenerateRead ==
  /\ Match # 0
  /\ ~ApprovedAlready
  /\ Begin([made |-> made, pc |-> "claim write", amount |-> Match, creates |-> claim.status = "NONE"])
  /\ UNCHANGED claimVars

\* A second row of the agent for the day breaks the unique key.
GenerateWrite(c) ==
  /\ c.pc = "claim write"
  /\ IF c.creates /\ claim.status # "NONE" THEN Drop(c) /\ UNCHANGED claim
     ELSE Finish(c) /\ claim' = [status |-> "PENDING", amount |-> c.amount]
  /\ UNCHANGED <<team, autoPaid>>

\* approveAutoSalaryClaim() and rejectAutoSalaryClaim() read the status ...
ReviewRead(verdict) ==
  /\ claim.status = "PENDING"
  /\ Begin([made |-> made, pc |-> verdict, amount |-> claim.amount])
  /\ UNCHANGED claimVars

\* ... and write, whatever it is by then.
Approve(c) ==
  /\ c.pc = "APPROVED"
  /\ Finish(c)
  /\ claim' = [claim EXCEPT !.status = "APPROVED"]
  /\ autoPaid' = Append(autoPaid, c.amount)
  /\ UNCHANGED team

Reject(c) ==
  /\ c.pc = "REJECTED"
  /\ Finish(c)
  /\ claim' = [claim EXCEPT !.status = "REJECTED"]
  /\ UNCHANGED <<team, autoPaid>>

ClaimStep(c) == GenerateWrite(c) \/ Approve(c) \/ Reject(c)

AutoSalaryNext ==
  /\ scheme = "auto-salary"
  /\ \/ \E t \in Teams : TeamActs(t)
     \/ GenerateRead
     \/ \E verdict \in {"APPROVED", "REJECTED"} : ReviewRead(verdict)
     \/ \E c \in calls : ClaimStep(c)
     \/ NewDay /\ UNCHANGED claimVars

================================================================================
