------------------------------- MODULE Reports -------------------------------
(***************************************************************************)
(* The statement of a customer on the HTTP server, taken while its         *)
(* handlers create and settle debts: its sums, its balance column and the  *)
(* customer's page beside it.                                              *)
(*                                                                         *)
(* created_at and paid_at are ordered as the rows were inserted.           *)
(***************************************************************************)
EXTENDS Statement, ServerPayments

\* A debt and a payment are told apart by their ids.
ASSUME MovementsAssumption == Debts \cap Requests = {}

VARIABLE inserted   \* debts and payments in the order of their dates

reportVars == <<customerOf, inserted, statementVars>>

-----------------------------------------------------------------------------
\* created_at or paid_at: ORDER BY and the sort of the movements go by it.
Date(x) == CHOOSE k \in DOMAIN inserted : inserted[k] = x

\* GET /customers/:id: his debts, the newest first; which is shown above which.
CustomerDebts(c) == {p \in DebtsOf(c) \X DebtsOf(c) : Date(p[2]) < Date(p[1])}

-----------------------------------------------------------------------------
ReportsInit == Init /\ StatementInit /\ inserted = <<>>

\* A step of the handlers: a statement inserts at most one row, and dates it.
NewRows ==
  {d \in Debts : agreements[d] = NoLoan /\ agreements'[d] # NoLoan}
    \cup {r \in Requests : payments[r] = NoPayment /\ payments'[r] # NoPayment}
Serve ==
  /\ Next
  /\ \/ NewRows = {} /\ inserted' = inserted
     \/ \E x \in NewRows : inserted' = Append(inserted, x)
  /\ UNCHANGED <<customerOf, statementVars>>

\* GET /debts/:id on the server reads the same tables in the same order, for
\* one debt.
SelectDebt(d) ==
  /\ stage = "debts" /\ d \in OnRecord
  /\ debts' = {d}
  /\ stage' = Then[stage]
  /\ UNCHANGED <<customerOf, customer, installments, paidBy>>

ReportsNext ==
  \/ Serve
  \/ SelectStatement /\ UNCHANGED <<vars, inserted>>
  \/ \E d \in Debts : SelectDebt(d) /\ UNCHANGED <<vars, inserted>>

ReportsSpec == ReportsInit /\ [][ReportsNext]_<<vars, reportVars>>

-----------------------------------------------------------------------------
\* The answer of the statement.
PrincipalPaid(r) == payments[r].principal_paid
totalPrincipal == SumFunction([d \in debts |-> agreements[d].principalCents])
totalPaid == SumFunction([r \in paidBy |-> PrincipalPaid(r)])
Shown(s) == Cardinality({x \in installments : x[2] = s})
summary ==
  [totalDebts |-> Cardinality(debts), totalPrincipalCents |-> totalPrincipal,
   totalPaidCents |-> totalPaid, remainingCents |-> totalPrincipal - totalPaid,
   overdueInstallments |-> Shown("OVERDUE"), paidInstallments |-> Shown("PAID"),
   pendingInstallments |-> Shown("PENDING")]

\* movements: the running balance takes all debts first and then all payments;
\* only then the rows are sorted by date.
movements == debts \cup paidBy
Upto(x) == {y \in movements : Date(y) <= Date(x)}
Change(x) == IF x \in debts THEN agreements[x].principalCents ELSE -PrincipalPaid(x)
ChangeOf(S) == SumFunction([x \in S |-> Change(x)])
FromZero(x) ==                                                      \* mutant
  IF x \in debts THEN ChangeOf(debts \cap Upto(x)) ELSE ChangeOf(paidBy \cap Upto(x))
Balance(x) ==
  IF x \in debts THEN ChangeOf(debts \cap Upto(x))
  ELSE totalPrincipal + ChangeOf(paidBy \cap Upto(x))

\* A statement never shows less to be owed than what is: payments are read
\* last, and each was inserted after its installments were marked, so what is
\* credited has been repaid, whenever the SELECTs ran (for debts never settled
\* by two payments at once, and of no negative principal: its parts repay less
\* than nothing). What it shows as PAID stays so, and what is still PENDING it
\* showed as PENDING.
StatementNotAhead ==
  stage = "answered" =>
    /\ debts \cap shared = {} /\ (\A d \in debts : agreements[d].principalCents >= 0) =>
         summary.totalPaidCents <= SumFunction([d \in debts |-> RepaidPrincipal(d)])
    /\ \A x \in installments :
         /\ x[2] = "PAID" => x[1][2] \in Paid(x[1][1])
         /\ x[1][2] \in Pending(x[1][1]) => x[2] = "PENDING"

\* The customer's page shows the debts of his statement, below those made
\* since. The statement's balance column follows from row to row, from the
\* first change up to the remaining balance, unless a debt was made after a
\* payment.
BorrowedAgain == \E d \in debts : \E r \in paidBy : r \in Upto(d)
ColumnAddsUp ==
  \A y \in movements :
    /\ Upto(y) = {y} => Balance(y) = Change(y)
    /\ \A x \in movements :
         x # y /\ Upto(y) = Upto(x) \cup {y} => Balance(y) = Balance(x) + Change(y)
    /\ Upto(y) = movements => Balance(y) = summary.remainingCents
StatementAddsUp ==
  stage = "answered" =>
    /\ customer # NoCustomer =>
         /\ debts \subseteq DebtsOf(customer)
         /\ (DebtsOf(customer) \ debts) \X debts \subseteq CustomerDebts(customer)
    /\ ~BorrowedAgain => ColumnAddsUp
=============================================================================
