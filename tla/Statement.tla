------------------------------ MODULE Statement ------------------------------
(***************************************************************************)
(* GET /statement/customer/:id over the lending tables, on the HTTP server *)
(* and in the Fastify API: his debts, then their installments, then their  *)
(* payments, each SELECT at a time of its own, with other requests between *)
(* them. A module that composes it with the handlers of one of the two     *)
(* says what these leave unchanged.                                        *)
(***************************************************************************)
EXTENDS LendingTables

CONSTANTS
  Customers,
  Owners,       \* what customer_id of the debts may be, NoCustomer for NULL
  NoCustomer

ASSUME CustomerAssumption ==
  NoCustomer \notin Customers /\ Owners \subseteq [Debts -> Customers \cup {NoCustomer}]

VARIABLES
  customerOf,   \* customer_id of each debt
  stage,        \* what the statement selects next, or "answered"
  customer,     \* whose statement it is
  debts, installments, paidBy   \* what its SELECTs returned

statementVars == <<stage, customer, debts, installments, paidBy>>

OnRecord == {d \in Debts : agreements[d] # NoLoan}
PaidRows == {r \in Requests : payments[r] # NoPayment}
RowsOf(S, status) ==
  UNION {{<<d, i>> : i \in {j \in DOMAIN schedule[d] : schedule[d][j].status = status}} : d \in S}
DebtsOf(c) == {d \in OnRecord : customerOf[d] = c}

\* The order of the three queries.
PaymentsFirst ==                                                    \* mutant
  [debts |-> "payments", payments |-> "installments", installments |-> "answered"]
Then ==
  [debts |-> "installments", installments |-> "payments", payments |-> "answered"]

-----------------------------------------------------------------------------
StatementInit ==
  /\ customerOf \in Owners
  /\ stage = "debts" /\ customer = NoCustomer
  /\ debts = {} /\ installments = {} /\ paidBy = {}

\* debtIds.length: nothing is selected for no debts.
SelectDebts(c) ==
  /\ stage = "debts"
  /\ customer' = c /\ debts' = DebtsOf(c)
  /\ stage' = IF debts' = {} THEN "answered" ELSE Then[stage]
  /\ UNCHANGED <<customerOf, installments, paidBy>>

SelectInstallments ==
  /\ stage = "installments"
  /\ installments' = UNION {RowsOf(debts, s) \X {s} : s \in StatusValues}
  /\ stage' = Then[stage]
  /\ UNCHANGED <<customerOf, customer, debts, paidBy>>

SelectPayments ==
  /\ stage = "payments"
  /\ paidBy' = {r \in PaidRows : payments[r].debt \in debts}
  /\ stage' = Then[stage]
  /\ UNCHANGED <<customerOf, customer, debts, installments>>

SelectStatement ==
  \/ \E c \in Customers : SelectDebts(c)
  \/ SelectInstallments
  \/ SelectPayments
=============================================================================
