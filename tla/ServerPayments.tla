---------------------------- MODULE ServerPayments ----------------------------
(***************************************************************************)
(* POST /payments of interfaces/http/server.ts (the server on port 3011)   *)
(* over the lending tables: SELECT the PENDING installments, mark them     *)
(* PAID one UPDATE at a time while money is left, INSERT the payment last. *)
(***************************************************************************)
EXTENDS LendingTables

CONSTANT Amounts   \* paymentCents of the request bodies

VARIABLES
  amount,     \* paymentCents
  ip, pp,     \* interest and principal the handler has added up
  shared      \* history: debts that two payments were settling at once

serverVars == <<todo, amount, ip, pp, payments, shared>>
vars == <<agreements, schedule, pc, debtOf, rem, todo, amount, ip, pp, payments, shared>>

PaymentRow ==
  [debt : Debts, amount : Int, interest_paid : Int, principal_paid : Int, remaining : Int]

ASSUME AmountsAssumption == Amounts \subseteq Int /\ NoPayment \notin PaymentRow

Init ==
  /\ TablesInit
  /\ amount = [r \in Requests |-> 0]
  /\ ip = [r \in Requests |-> 0]
  /\ pp = [r \in Requests |-> 0]
  /\ shared = {}

Settling(d) == {r \in Requests : pc[r] = "settling" /\ debtOf[r] = d}

\* The SELECT: the list is a snapshot, used by every later turn of the loop.
\* The foreign key of payments is why an unknown debt is left out.
SelectPending(r, d, a) ==
  /\ pc[r] = "idle"
  /\ agreements[d] # NoLoan
  /\ pc' = [pc EXCEPT ![r] = "settling"]
  /\ debtOf' = [debtOf EXCEPT ![r] = d]
  /\ todo' = [todo EXCEPT ![r] = Pending(d)]
  /\ amount' = [amount EXCEPT ![r] = a]
  /\ rem' = [rem EXCEPT ![r] = a]
  /\ shared' = IF Settling(d) = {} THEN shared ELSE shared \cup {d}
  /\ UNCHANGED <<agreements, schedule, ip, pp, payments>>

\* if (rem <= 0) break
LoopGoesOn(r) == todo[r] # {} /\ rem[r] > 0

\* One turn of the loop: an installment is PAID in full as soon as a single
\* cent is left for it.
SettleInstallment(r) ==
  LET d   == debtOf[r]
      i   == First(todo[r])
      row == schedule[d][i]
  IN  /\ pc[r] = "settling"
      /\ LoopGoesOn(r)
      /\ MarkPaid(d, i)
      /\ ip' = [ip EXCEPT ![r] = @ + row.interest]
      /\ pp' = [pp EXCEPT ![r] = @ + row.principal]
      /\ rem' = [rem EXCEPT ![r] = @ - row.total]
      /\ todo' = [todo EXCEPT ![r] = @ \ {i}]
      /\ UNCHANGED <<agreements, pc, debtOf, amount, payments, shared>>

\* The loop is over: INSERT INTO payments and answer 201.
InsertPayment(r) ==
  /\ pc[r] = "settling"
  /\ ~LoopGoesOn(r)
  /\ payments' = [payments EXCEPT ![r] =
       [debt |-> debtOf[r], amount |-> amount[r],
        interest_paid |-> ip[r], principal_paid |-> pp[r],
        remaining |-> IF rem[r] < 0 THEN -rem[r] ELSE 0]]
  /\ pc' = [pc EXCEPT ![r] = "done"]
  /\ UNCHANGED <<agreements, schedule, debtOf, rem, todo, amount, ip, pp, shared>>

Handle(r) ==
  \/ InsertInstallment(r) /\ UNCHANGED serverVars
  \/ SettleInstallment(r)
  \/ InsertPayment(r)

Next ==
  \/ \E r \in Requests, d \in Debts, l \in Loans :
       CreateDebt(r, d, l) /\ UNCHANGED serverVars
  \/ \E r \in Requests, d \in Debts, a \in Amounts : SelectPending(r, d, a)
  \/ \E r \in Requests : Handle(r)
  \/ \E r \in Requests : Fail(r) /\ UNCHANGED serverVars
  \/ \E d \in Debts : \E i \in DOMAIN schedule[d] :
       MarkOverdue(d, i) /\ UNCHANGED serverVars

\* A handler that has started runs on: the event loop resumes every settled
\* await. Nothing obliges a request to arrive or an installment to fall due.
Spec == Init /\ [][Next]_vars /\ \A r \in Requests : WF_vars(Handle(r))

-----------------------------------------------------------------------------
\* The principal the payments rows of a debt are credited with.
Credited(d) ==
  SumFunction([r \in {q \in Requests : payments[q] # NoPayment /\ payments[q].debt = d} |->
                 payments[r].principal_paid])
RepaidPrincipal(d) == SumFunction([i \in Paid(d) |-> schedule[d][i].principal])

TypeOK ==
  /\ TablesTypeOK
  /\ todo \in [Requests -> SUBSET Nat]
  /\ amount \in [Requests -> Int]
  /\ ip \in [Requests -> Int]
  /\ pp \in [Requests -> Int]
  /\ payments \in [Requests -> PaymentRow \cup {NoPayment}]
  /\ shared \subseteq Debts

\* Installments are settled oldest first: none is PAID while an older one is
\* still PENDING, whatever requests, failures and the overdue job interleave.
NoGapBeforePaid ==
  \A d \in Debts : \A j \in Paid(d) : \A i \in Pending(d) : j < i

-----------------------------------------------------------------------------
\* "All financial operations must be idempotent": the same installments are
\* never credited by a second call. Two overlapping payments select the same
\* PENDING rows, both mark them PAID and both credit their principal.
CreditedOnce == \A d \in Debts : Credited(d) <= RepaidPrincipal(d)
=============================================================================
