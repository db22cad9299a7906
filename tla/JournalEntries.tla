---------------------------- MODULE JournalEntries ----------------------------
(***************************************************************************)
(* The journal entries the code builds for a debt and for a payment, and   *)
(* the balance checks it has for them. Amounts are whole cents (millimes). *)
(* An entry is the set of its lines: no builder writes two lines with the  *)
(* same account and side.                                                  *)
(***************************************************************************)
EXTENDS Integers, FiniteSetsExt

Line(account, type, amount) == [account |-> account, type |-> type, amount |-> amount]

\* `if (amount > 0n) lines.push(...)`
Positive(lines) == {l \in lines : l.amount > 0}

TotalOf(lines, type) ==
  SumFunctionOnSet([l \in lines |-> l.amount], {l \in lines : l.type = type})

-----------------------------------------------------------------------------
\* core/ledger: JournalEngine. Its assertBalanced is called by no builder.
IsBalanced(lines) == TotalOf(lines, "DEBIT") = TotalOf(lines, "CREDIT")

WithoutPenalties(total, principal, interest, penalties) ==       \* mutant
  {Line("CASH_ASSET", "DEBIT", total)} \cup
    Positive({Line("LOAN_RECEIVABLE", "CREDIT", principal),
              Line("INTEREST_INCOME", "CREDIT", interest)})
createPaymentEntry(total, principal, interest, penalties) ==
  {Line("CASH_ASSET", "DEBIT", total)} \cup
    Positive({Line("LOAN_RECEIVABLE", "CREDIT", principal),
              Line("INTEREST_INCOME", "CREDIT", interest),
              Line("PENALTY_INCOME", "CREDIT", penalties)})

-----------------------------------------------------------------------------
\* core/Journal.ts: what assertBalanced lets through.
assertBalanced(lines) ==
  /\ Cardinality(lines) >= 2
  /\ \A l \in lines : l.amount > 0
  /\ IsBalanced(lines)

\* makePaymentEntry recognises the interest it collects (DR UNEARNED_INCOME,
\* CR INTEREST_INCOME) but credits no account for the cash that paid for it.
makePaymentLines(total, principal, interest, penalty) ==
  {Line("CASH_ASSET", "DEBIT", total)} \cup
    Positive({Line("PENALTY_INCOME", "CREDIT", penalty),
              Line("UNEARNED_INCOME", "DEBIT", interest),
              Line("INTEREST_INCOME", "CREDIT", interest),
              Line("LOAN_RECEIVABLE", "CREDIT", principal)})

\* The breakdown and the lines it accepts; otherwise it throws JournalError.
makePaymentEntryAccepts(total, principal, interest, penalty) ==
  /\ principal + interest + penalty = total
  /\ assertBalanced(makePaymentLines(total, principal, interest, penalty))
=============================================================================
