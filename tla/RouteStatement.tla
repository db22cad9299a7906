---------------------------- MODULE RouteStatement ----------------------------
(***************************************************************************)
(* The statement of a customer in the Fastify API, taken while POST /debts *)
(* and POST /payments of that API are somewhere between their statements.  *)
(* Its payments carry the split the client sent and are inserted before    *)
(* any installment is marked.                                              *)
(***************************************************************************)
EXTENDS Statement, RoutePayments

RouteStatementInit == RouteInit /\ StatementInit

RouteStatementNext ==
  \/ RouteNext /\ UNCHANGED <<customerOf, statementVars>>
  \/ SelectStatement /\ UNCHANGED routeVars

RouteStatementSpec ==
  RouteStatementInit /\ [][RouteStatementNext]_<<routeVars, customerOf, statementVars>>

-----------------------------------------------------------------------------
ShownPaid(d) == {i \in DOMAIN schedule[d] : <<<<d, i>>, "PAID">> \in installments}
ShownPayments(d) == {r \in paidBy : payments[r].debt = d}

\* What a statement shows as PAID, the payments it shows have paid for: the
\* payment of an installment is inserted before it is marked, and the statement
\* selects the installments before the payments, so none of them is missing,
\* whatever handlers run, overlap or fail between its SELECTs. (The overlap of
\* two payments keeps the money, too: each brings its own.)
ShownPaidIsCovered ==
  stage = "answered" => \A d \in debts : NoneNegative(d) =>
    SumFunction([i \in ShownPaid(d) |-> schedule[d][i].total])
      <= SumFunction([r \in ShownPayments(d) |-> Credit(r)])
=============================================================================
