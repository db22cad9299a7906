---------------------------- MODULE LendingTables ----------------------------
(***************************************************************************)
(* The tables behind the lending API and POST /debts, which fills them.    *)
(* Every `await sql` of a handler is its own autocommitted statement, so   *)
(* every statement is an action: handlers of different requests interleave *)
(* between statements, and a handler may die between any two of them.      *)
(*                                                                         *)
(* One request of `Requests` is one HTTP call: idle until it arrives, then *)
(* inside its handler, then "done" (it answered) or "failed" (a statement  *)
(* was rejected or the process died; what it committed stays committed).   *)
(***************************************************************************)
EXTENDS Integers, Sequences, FiniteSetsExt

CONSTANTS
  Debts,      \* ids of debt_agreements rows
  Requests,   \* HTTP calls; each handled once
  Loans,      \* the request bodies POST /debts receives
  NoLoan,     \* no debt_agreements row with that id yet
  NoDebt,     \* the request has not named a debt yet
  NoPayment   \* the request has inserted no payments row

\* Neither handler looks at the sign of what it is sent, nor does the schema.
ASSUME LoansAssumption ==
  /\ Loans \subseteq [principalCents : Int, annualRateBps : Int, termMonths : Int]
  /\ NoLoan \notin Loans
  /\ NoDebt \notin Debts

VARIABLES
  agreements,   \* debt_agreements, by id
  schedule,     \* amortization_schedule: the rows of a debt, by installment_number
  pc,           \* where each request is in its handler
  debtOf,       \* the debt a request works on
  rem,          \* the handler's local `rem` / `remaining`
  todo,         \* the selected installments POST /payments has not reached
  payments      \* the payments row each request inserted

tableVars == <<agreements, schedule>>

InHandler == {"creating", "selecting", "settling"}
PcValues == InHandler \cup {"idle", "done", "failed"}
StatusValues == {"PENDING", "PAID", "OVERDUE"}

InstallmentRow ==
  [principal : Int, interest : Int, total : Int, remaining : Int, status : StatusValues]

-----------------------------------------------------------------------------
\* Math.round(a / b) for b > 0: to the nearest integer, halves upwards. The
\* code divides doubles; the amounts here are far below 2^53, where the
\* quotient rounds to the same integer as the exact one unless it is within
\* one ulp of a half.
CeilDiv(a, b)  == (a + b - 1) \div b                \* mutant
RoundDiv(a, b) == (2 * a + b) \div (2 * b)

\* The principal of one month is the same every month, the last one included.
MonthlyPrincipal(l) == RoundDiv(l.principalCents, l.termMonths)

\* monthlyRate = annualRateBps / 100 / 100 / 12
MonthlyInterest(l, balance) == RoundDiv(balance * l.annualRateBps, 120000)

\* The row one turn of the loop inserts, `balance` being `rem` before it.
NewInstallment(l, balance) ==
  LET p == MonthlyPrincipal(l)
      i == MonthlyInterest(l, balance)
  IN  [principal |-> p, interest |-> i, total |-> p + i,
       remaining |-> IF balance - p > 0 THEN balance - p ELSE 0,
       status |-> "PENDING"]

-----------------------------------------------------------------------------
TablesInit ==
  /\ agreements = [d \in Debts |-> NoLoan]
  /\ schedule = [d \in Debts |-> <<>>]
  /\ pc = [r \in Requests |-> "idle"]
  /\ debtOf = [r \in Requests |-> NoDebt]
  /\ rem = [r \in Requests |-> 0]
  /\ todo = [r \in Requests |-> {}]
  /\ payments = [r \in Requests |-> NoPayment]

\* INSERT INTO debt_agreements; from here on the debt is visible to everyone. The
\* loop of a debt of no months, or fewer, has no turn: it is answered like any.
CreateDebt(r, d, l) ==
  /\ pc[r] = "idle"
  /\ agreements[d] = NoLoan
  /\ agreements' = [agreements EXCEPT ![d] = l]
  /\ pc' = [pc EXCEPT ![r] = IF l.termMonths > 0 THEN "creating" ELSE "done"]
  /\ debtOf' = [debtOf EXCEPT ![r] = d]
  /\ rem' = [rem EXCEPT ![r] = l.principalCents]
  /\ UNCHANGED schedule

\* One turn of the loop i = 1 .. termMonths: INSERT INTO amortization_schedule.
InsertInstallment(r) ==
  LET d   == debtOf[r]
      l   == agreements[d]
      row == NewInstallment(l, rem[r])
  IN  /\ pc[r] = "creating"
      /\ schedule' = [schedule EXCEPT ![d] = Append(@, row)]
      /\ rem' = [rem EXCEPT ![r] = @ - row.principal]
      /\ pc' = [pc EXCEPT ![r] =
                  IF Len(schedule[d]) + 1 = l.termMonths THEN "done" ELSE @]
      /\ UNCHANGED <<agreements, debtOf>>

\* A statement is rejected or the process dies: nothing is undone.
Fail(r) ==
  /\ pc[r] \in InHandler
  /\ pc' = [pc EXCEPT ![r] = "failed"]
  /\ UNCHANGED <<agreements, schedule, debtOf, rem>>

\* The daily overdue job, which no file of the repository implements: the
\* deployed rows and every report hold OVERDUE installments.
MarkOverdue(d, i) ==
  /\ i \in DOMAIN schedule[d]
  /\ schedule[d][i].status = "PENDING"
  /\ schedule' = [schedule EXCEPT ![d][i].status = "OVERDUE"]
  /\ UNCHANGED <<agreements, pc, debtOf, rem>>

\* UPDATE amortization_schedule SET status='PAID' WHERE id = ...: the status
\* the row has at that moment is not looked at.
MarkPendingPaid(d, i) ==                            \* mutant
  schedule' = IF schedule[d][i].status = "PENDING"
              THEN [schedule EXCEPT ![d][i].status = "PAID"] ELSE schedule
MarkPaid(d, i) == schedule' = [schedule EXCEPT ![d][i].status = "PAID"]

\* SELECT ... WHERE debt_id = d AND status = 'PENDING'
Pending(d) == {i \in DOMAIN schedule[d] : schedule[d][i].status = "PENDING"}
Paid(d)    == {i \in DOMAIN schedule[d] : schedule[d][i].status = "PAID"}

\* ORDER BY installment_number ASC: the row a pass over `rows` meets first.
Latest(rows) == CHOOSE i \in rows : \A j \in rows : i >= j  \* mutant
First(rows) == CHOOSE i \in rows : \A j \in rows : i <= j

-----------------------------------------------------------------------------
TablesTypeOK ==
  /\ agreements \in [Debts -> Loans \cup {NoLoan}]
  /\ schedule \in [Debts -> Seq(InstallmentRow)]
  /\ pc \in [Requests -> PcValues]
  /\ debtOf \in [Requests -> Debts \cup {NoDebt}]
  /\ rem \in [Requests -> Int]

\* A complete schedule of a month or more repays the principal, were it negative,
\* up to the rounding of its equal parts, half a cent a month: generateSchedule
\* corrects no last installment. A debt of no months has no installment at all.
Complete(d) ==
  agreements[d] # NoLoan /\ agreements[d].termMonths >= 1
    /\ Len(schedule[d]) = agreements[d].termMonths
ScheduleRepaysPrincipal ==
  \A d \in Debts : Complete(d) =>
    LET l     == agreements[d]
        drift == SumFunction([i \in DOMAIN schedule[d] |-> schedule[d][i].principal])
                   - l.principalCents
    IN  2 * drift <= l.termMonths /\ -2 * drift <= l.termMonths

\* Parts rounded up bring the balance below zero before the last month; what the
\* loop then charges on it is negative, and at a high rate the whole installment.
NoneNegative(d) == \A i \in DOMAIN schedule[d] : schedule[d][i].total >= 0
=============================================================================
