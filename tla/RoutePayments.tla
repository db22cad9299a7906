----------------------------- MODULE RoutePayments -----------------------------
(***************************************************************************)
(* POST /payments of interfaces/http/routes/payments.ts (the Fastify API)  *)
(* over the lending tables: INSERT the payment first, with the breakdown   *)
(* the client sent, then mark the installments it can pay in full, then    *)
(* INSERT a journal entry whose failure is swallowed.                      *)
(***************************************************************************)
EXTENDS LendingTables, JournalEntries

CONSTANTS
  Bodies,    \* the request bodies
  NoEntry    \* the request has inserted no journal entry

ASSUME BodiesAssumption ==
  /\ Bodies \subseteq [total : Int, principal : Int, interest : Int, penalties : Int]
  /\ NoPayment \notin [debt : Debts, body : Bodies]

VARIABLES
  pending,   \* the rows the SELECT returned
  journal    \* the lines of journal_entries 'PAY-' + paymentId, by request

handlerVars == <<pending, todo, payments, journal>>
routeVars == <<agreements, schedule, pc, debtOf, rem, pending, todo, payments, journal>>

RouteInit ==
  /\ TablesInit
  /\ pending = [r \in Requests |-> {}]
  /\ journal = [r \in Requests |-> NoEntry]

\* INSERT INTO payments, before anything is looked up: the split into
\* penalties, interest and principal is the client's.
RecordPayment(r, d, b) ==
  /\ pc[r] = "idle"
  /\ agreements[d] # NoLoan
  /\ payments' = [payments EXCEPT ![r] = [debt |-> d, body |-> b]]
  /\ pc' = [pc EXCEPT ![r] = "selecting"]
  /\ debtOf' = [debtOf EXCEPT ![r] = d]
  /\ rem' = [rem EXCEPT ![r] = b.principal + b.interest]
  /\ UNCHANGED <<agreements, schedule, pending, todo, journal>>

SelectUnpaid(r) ==
  /\ pc[r] = "selecting"
  /\ pending' = [pending EXCEPT ![r] = Pending(debtOf[r])]
  /\ todo' = [todo EXCEPT ![r] = Pending(debtOf[r])]
  /\ pc' = [pc EXCEPT ![r] = "settling"]
  /\ UNCHANGED <<agreements, schedule, debtOf, rem, payments, journal>>

\* if (rem >= t)
MoreThan(r, total) == rem[r] > total                             \* mutant
AnyMoney(r, total) == rem[r] > 0                                 \* mutant
Covers(r, total)   == rem[r] >= total

\* One turn of the loop: an installment the rest of the money does not cover
\* is skipped, a later and smaller one may still be paid.
TryInstallment(r) ==
  LET d     == debtOf[r]
      i     == First(todo[r])
      total == schedule[d][i].total
  IN  /\ pc[r] = "settling"
      /\ todo[r] # {} /\ rem[r] > 0
      /\ todo' = [todo EXCEPT ![r] = @ \ {i}]
      /\ IF Covers(r, total)
           THEN MarkPaid(d, i) /\ rem' = [rem EXCEPT ![r] = @ - total]
           ELSE UNCHANGED <<schedule, rem>>
      /\ UNCHANGED <<agreements, pc, debtOf, pending, payments, journal>>

\* The loop is over: INSERT INTO journal_entries and answer. A rejected INSERT
\* is swallowed, `.catch(() => {})`, and answered like a successful one; no
\* balance check is made.
InsertJournal(r) ==
  LET b == payments[r].body
  IN  /\ pc[r] = "settling"
      /\ todo[r] = {} \/ rem[r] <= 0
      /\ \/ journal' = [journal EXCEPT ![r] =
              createPaymentEntry(b.total, b.principal, b.interest, b.penalties)]
         \/ UNCHANGED journal
      /\ pc' = [pc EXCEPT ![r] = "done"]
      /\ UNCHANGED <<agreements, schedule, debtOf, rem, pending, todo, payments>>

HandleRoute(r) ==
  \/ InsertInstallment(r) /\ UNCHANGED handlerVars
  \/ SelectUnpaid(r)
  \/ TryInstallment(r)
  \/ InsertJournal(r)

RouteNext ==
  \/ \E r \in Requests, d \in Debts, l \in Loans : CreateDebt(r, d, l) /\ UNCHANGED handlerVars
  \/ \E r \in Requests, d \in Debts, b \in Bodies : RecordPayment(r, d, b)
  \/ \E r \in Requests : HandleRoute(r)
  \/ \E r \in Requests : Fail(r) /\ UNCHANGED handlerVars
  \/ \E d \in Debts : \E i \in DOMAIN schedule[d] : MarkOverdue(d, i) /\ UNCHANGED handlerVars

RouteSpec == RouteInit /\ [][RouteNext]_routeVars /\ \A r \in Requests : WF_routeVars(HandleRoute(r))

-----------------------------------------------------------------------------
RouteTypeOK ==
  /\ TablesTypeOK
  /\ pending \in [Requests -> SUBSET Nat]
  /\ todo \in [Requests -> SUBSET Nat]
  /\ \A r \in Requests :
       /\ payments[r] # NoPayment => payments[r] \in [debt : Debts, body : Bodies]
       /\ journal[r] # NoEntry => IsFiniteSet(journal[r])

\* The money the payments rows of a debt give to principal and interest, less
\* what their handlers still hold, covers every PAID installment: the payment
\* is inserted first and no installment is paid in part, so neither a failure
\* nor an overlap of requests settles anything for free, as long as the debt
\* has no negative installment: two requests would both get money out of it. (A
\* payment of less than nothing, which nothing rejects, gives and settles nothing.)
Held(r) == IF rem[r] > 0 THEN rem[r] ELSE 0
Recorded(d) == {r \in Requests : payments[r] # NoPayment /\ payments[r].debt = d}
Credit(r) ==
  LET given == payments[r].body.principal + payments[r].body.interest
  IN  IF given > 0 THEN given ELSE 0
CreditCoversPaid ==
  \A d \in Debts : NoneNegative(d) =>
    SumFunction([i \in Paid(d) |-> schedule[d][i].total])
        + SumFunction([r \in Recorded(d) |-> Held(r)])
      <= SumFunction([r \in Recorded(d) |-> Credit(r)])

\* The money a payment has left over when it answers is less than any
\* installment of its list that is still PENDING: what it skipped on the way
\* it could not have paid, whatever other requests did to the rows meanwhile.
\* (A negative installment further on would have brought money in again.)
LeftoverCoversNothing ==
  \A r \in Requests :
    (pc[r] = "done" /\ payments[r] # NoPayment /\ rem[r] > 0 /\ NoneNegative(debtOf[r])) =>
    \A i \in pending[r] \cap Pending(debtOf[r]) : rem[r] < schedule[debtOf[r]][i].total
=============================================================================
