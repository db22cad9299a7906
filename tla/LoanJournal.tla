------------------------------ MODULE LoanJournal ------------------------------
(***************************************************************************)
(* The life of a loan in the hands of the core library, and the books the  *)
(* library has for it: entries of JournalEngine saved by JournalRepository *)
(* (cents), entries of core/Journal.ts with their reversals (millimes), the*)
(* mappings of the accounting mapper to general ledger accounts, and the   *)
(* entries LedgerPostingEngine makes of payment events.                    *)
(*                                                                         *)
(* Nothing in the repository calls the library. The client here makes any  *)
(* legal calls and books each of them in every set of books that takes it. *)
(* The two repositories write one autocommitted INSERT each: a payment is  *)
(* on record before its entry is, which refers to it, and the client may   *)
(* fail in between.                                                        *)
(***************************************************************************)
EXTENDS PaymentAllocation, SequencesExt

CONSTANTS
  Principals, Amounts, DayCounts,  \* arguments, in cents and days
  Rate,          \* annual rate and penalty, in basis points
  DailyPenalty,  \* basis points a day
  MaxCalls       \* bound on the calls

ASSUME LoanAssumption ==
  /\ Principals \subseteq Nat /\ Amounts \subseteq Nat /\ DayCounts \subseteq Nat
  /\ Rate \in Nat /\ DailyPenalty \in Nat /\ MaxCalls \in Nat

VARIABLES
  owed,      \* by bucket, in cents
  paying,    \* a payment is in the waterfall
  recorded,  \* it is on record, and its entry is not yet
  book,      \* journal_entries: the lines of each row
  reference, \* the number of the payment each row is for, 0 for the debt's
  payments,  \* payments: PaymentRecord of each row
  journal,   \* entries of core/Journal.ts: lines, and the entry it reverses or 0
  mappings,  \* AccountingMapping: [debit, credit]
  posted,    \* amounts LedgerPostingEngine posted from cash to the receivable
  calls,
  due,       \* history: interest of all accruals before rounding, numerator
  change,    \* history: given back, in all
  unbooked,  \* history: payments whose entry was never written
  refused    \* history: principal of payments core/Journal.ts would not book

loan == <<owed, paying, recorded>>
books == <<book, reference, payments, journal, mappings, posted>>
history == <<calls, due, change, unbooked, refused>>
loanVars == <<waterfallVars, loan, books, history>>

-----------------------------------------------------------------------------
\* core/Money.ts: cents become millimes.
fromCents(cents) == 10 * cents

\* FinancialEngine: whole cents of bps a year over a number of days.
Denominator == 100 * 365 * 100
RoundedUp(amount, bps, days) ==                                       \* mutant
  (amount * bps * days + Denominator - 1) \div Denominator
calculateInterest(amount, bps, days) == (amount * bps * days) \div Denominator
FinancialPenalty(amount, bps, days)  == (amount * bps * days) \div Denominator
\* core/PaymentWaterfall.ts rounds the day, and then multiplies.
calculatePenalty(amount, bps, days) == ((amount * bps) \div 10000) * days

-----------------------------------------------------------------------------
\* createDebtEntry of JournalEngine, which checks nothing, and the lines of
\* makeDebtEntry, which has them checked.
createDebtEntry(principal) ==
  {Line("LOAN_RECEIVABLE", "DEBIT", principal), Line("UNEARNED_INCOME", "CREDIT", principal)}
makeDebtLines(principal) ==
  {Line("LOAN_RECEIVABLE", "DEBIT", principal), Line("UNEARNED_INCOME", "CREDIT", principal)}

SameSide(lines) == lines                                             \* mutant
Reversed(lines) ==
  {[l EXCEPT !.type = IF @ = "DEBIT" THEN "CREDIT" ELSE "DEBIT"] : l \in lines}

\* domain/ledger: LedgerInvariants.validateJournal.
validateJournal(lines) ==
  /\ Cardinality(lines) >= 2
  /\ \A l \in lines : l.amount > 0
  /\ TotalOf(lines, "DEBIT") = TotalOf(lines, "CREDIT")

\* Entries core/Journal.ts makes, when its assertions let them through.
Made(lines, k) ==
  IF assertBalanced(lines) THEN Append(journal, [lines |-> lines, reverses |-> k]) ELSE journal

\* The accounting mapper: interest accrued, penalties charged, and a payment,
\* whose one mapping credits the principal only.
Mapping(dr, debited, cr, credited) ==
  [debit |-> Line(dr, "DEBIT", debited), credit |-> Line(cr, "CREDIT", credited)]
mapInterestAccrual(cents) == Mapping("1200", cents, "4200", cents)
mapPenaltyCharge(cents)   == Mapping("1300", cents, "4300", cents)
mapPaymentAllocation(total, principal) == Mapping("1010", total, "1100", principal)

\* JournalRepository.getTrialBalance: a row for each account there is a line of.
AccountLines(entries, account) ==
  LET total(type) == SumFunction([k \in DOMAIN entries |->
                       TotalOf({l \in entries[k] : l.account = account}, type)])
  IN  [totalDebits |-> total("DEBIT"), totalCredits |-> total("CREDIT")]
Accounts(entries) == UNION {{l.account : l \in entries[k]} : k \in DOMAIN entries}
getTrialBalance(entries) ==
  [a \in Accounts(entries) |->
     AccountLines(entries, a).totalDebits - AccountLines(entries, a).totalCredits]
\* JournalRepository.findByTenant: the newest entries, up to a limit.
findByTenant(limit) ==
  SubSeq(Reverse(book), 1, IF limit < Len(book) THEN limit ELSE Len(book))
BalanceOf(entries, a) ==
  IF a \in Accounts(entries) THEN getTrialBalance(entries)[a] ELSE 0

-----------------------------------------------------------------------------
LoanInit ==
  /\ demand = [payment |-> 0, owed |-> [b \in Buckets |-> 0]]
  /\ stage = Len(Order) + 1 /\ left = 0 /\ paid = [b \in Buckets |-> 0]
  /\ owed = [b \in Buckets |-> 0] /\ paying = FALSE /\ recorded = FALSE
  /\ book = <<>> /\ reference = <<>> /\ payments = <<>> /\ journal = <<>> /\ mappings = <<>> /\ posted = <<>>
  /\ calls = 0 /\ due = 0 /\ change = 0 /\ unbooked = {} /\ refused = 0

Called == calls < MaxCalls /\ calls' = calls + 1

\* A debt is made.
Issue(principal) ==
  /\ book = <<>> /\ Called
  /\ owed' = [owed EXCEPT !["principal"] = principal]
  /\ book' = Append(book, createDebtEntry(principal)) /\ reference' = Append(reference, 0)
  /\ journal' = Made(makeDebtLines(fromCents(principal)), 0)
  /\ UNCHANGED <<waterfallVars, paying, recorded, payments, mappings, posted>>
  /\ UNCHANGED <<due, change, unbooked, refused>>

\* Interest of some days; the mapper throws for nothing, and nothing is owed.
Accrue(days) ==
  LET interest == calculateInterest(owed["principal"], Rate, days) IN
  /\ book # <<>> /\ ~paying /\ Called
  /\ due' = due + owed["principal"] * Rate * days
  /\ IF interest > 0
     THEN /\ owed' = [owed EXCEPT !["interest"] = @ + interest]
          /\ mappings' = Append(mappings, mapInterestAccrual(interest))
     ELSE UNCHANGED <<owed, mappings>>
  /\ UNCHANGED <<waterfallVars, paying, recorded, book, reference, payments, journal, posted>>
  /\ UNCHANGED <<change, unbooked, refused>>

Penalize(penalty) ==
  /\ book # <<>> /\ ~paying /\ penalty > 0 /\ Called
  /\ owed' = [owed EXCEPT !["penalty"] = @ + penalty]
  /\ mappings' = Append(mappings, mapPenaltyCharge(penalty))
  /\ UNCHANGED <<waterfallVars, paying, recorded, book, reference, payments, journal, posted>>
  /\ UNCHANGED <<due, change, unbooked, refused>>
PenaltiesOf(days) ==
  {FinancialPenalty(owed["principal"], Rate, days),
   calculatePenalty(owed["principal"], DailyPenalty, days)}

\* A payment is handed to the waterfall, unless nothing is owed: then
\* PaymentCommandHandler has it that the contract is completed.
Pay(amount) ==
  /\ book # <<>> /\ ~paying /\ SumOf(owed) > 0 /\ Called
  /\ paying' = TRUE
  /\ demand' = [payment |-> amount, owed |-> owed]
  /\ stage' = 1 /\ left' = amount /\ paid' = [b \in Buckets |-> 0]
  /\ UNCHANGED <<owed, recorded, books, due, change, unbooked, refused>>

Split == paying /\ Allocate /\ UNCHANGED <<loan, books, history>>

\* LedgerPostingEngine.post of PAYMENT_RECEIVED.
post(amount) == Append(posted, amount)

Millimes(make(_, _, _, _)) ==
  make(fromCents(demand.payment), fromCents(paid["principal"]),
       fromCents(paid["interest"]), fromCents(paid["penalty"]))
Accepted == Millimes(makePaymentEntryAccepts)

\* PaymentRepository
PaymentRecord ==
  [amountCents |-> demand.payment, penaltiesPaid |-> paid["penalty"],
   interestPaid |-> paid["interest"], principalPaid |-> paid["principal"]]
getPaymentsByDebt == Reverse(payments)

RecordPayment ==
  /\ paying /\ Done /\ ~recorded
  /\ payments' = Append(payments, PaymentRecord) /\ recorded' = TRUE
  /\ UNCHANGED <<waterfallVars, owed, paying, book, reference, journal, mappings, posted, history>>

\* The entry of the payment, and what the client keeps in memory.
BookPayment ==
  /\ recorded
  /\ paying' = FALSE /\ recorded' = FALSE
  /\ owed' = [b \in Buckets |-> owed[b] - paid[b]]
  /\ book' = Append(book, createPaymentEntry(demand.payment, paid["principal"],
                                            paid["interest"], paid["penalty"]))
  /\ reference' = Append(reference, Len(payments))
  /\ IF Accepted THEN journal' = Made(Millimes(makePaymentLines), 0) /\ refused' = refused
                 ELSE journal' = journal /\ refused' = refused + paid["principal"]
  /\ mappings' = Append(mappings, mapPaymentAllocation(demand.payment, paid["principal"]))
  /\ posted' = post(demand.payment)
  /\ change' = change + left
  /\ UNCHANGED <<waterfallVars, payments, calls, due, unbooked>>

\* The entry is not written: nothing undoes the payment, nor counts it.
CountedAnyway ==                                                      \* mutant
  /\ recorded
  /\ paying' = FALSE /\ recorded' = FALSE /\ unbooked' = unbooked \cup {Len(payments)}
  /\ owed' = [b \in Buckets |-> owed[b] - paid[b]]
  /\ UNCHANGED <<waterfallVars, books, calls, due, change, refused>>
FailToBook ==
  /\ recorded
  /\ paying' = FALSE /\ recorded' = FALSE /\ unbooked' = unbooked \cup {Len(payments)}
  /\ UNCHANGED <<waterfallVars, owed, books, calls, due, change, refused>>

\* Nothing stops an entry from being reversed again.
makeReversalEntry(k) ==
  /\ k \in DOMAIN journal /\ ~paying /\ Called
  /\ journal' = Made(Reversed(journal[k].lines), k)
  /\ UNCHANGED <<waterfallVars, loan, book, reference, payments, mappings, posted>>
  /\ UNCHANGED <<due, change, unbooked, refused>>

LoanNext ==
  \/ \E p \in Principals : Issue(p)
  \/ \E d \in DayCounts : Accrue(d) \/ \E q \in PenaltiesOf(d) : Penalize(q)
  \/ \E a \in Amounts : Pay(a)
  \/ Split \/ RecordPayment \/ BookPayment \/ FailToBook
  \/ \E k \in 1 .. MaxCalls : makeReversalEntry(k)

LoanSpec == LoanInit /\ [][LoanNext]_loanVars

-----------------------------------------------------------------------------
\* The trial balance is out by the change given back so far and by nothing
\* else, after any payments: no entry has a line for money that is returned.
\* LedgerInvariants, which nothing calls, would have let through exactly the
\* entries that add nothing to that. core/Journal.ts takes a payment with
\* neither change nor interest: it credits interest out of no cash.
Imbalance(lines) == TotalOf(lines, "DEBIT") - TotalOf(lines, "CREDIT")
TrialBalanceOffByChange ==
  /\ SumFunction(getTrialBalance(book)) = change
  /\ \A k \in DOMAIN findByTenant(50) :
       LET lines == findByTenant(50)[k] IN
       (\A l \in lines : l.amount > 0) => (validateJournal(lines) <=> Imbalance(lines) = 0)
  /\ paying /\ Done =>
       /\ mappedDebit - mappedCredit = left
       /\ Accepted <=> demand.payment > 0 /\ left = 0 /\ paid["interest"] = 0

\* What is owed can be read off the books, whatever the order of accruals and
\* payments, and wherever a payment broke off: the principal is the balance of
\* the receivable; interest and penalties are those mapped, which no payment's
\* mapping credits, less those the journal has as income; and accruals, each
\* truncated, lose less than a cent a call. A payment on record has one entry,
\* which says the same, or none: then it is the one in progress, or its client
\* failed, and it counts nowhere else.
Mapped(account) ==
  SumFunction([k \in DOMAIN mappings |->
    IF mappings[k].debit.account = account THEN mappings[k].debit.amount ELSE 0])
ReceivablesFollowLoan ==
  /\ BalanceOf(book, "LOAN_RECEIVABLE") = owed["principal"]
  /\ owed["interest"] = Mapped("1200") + BalanceOf(book, "INTEREST_INCOME")
  /\ owed["penalty"] = Mapped("1300") + BalanceOf(book, "PENALTY_INCOME")
  /\ BalanceOf(book, "CASH_ASSET") = SumFunction(posted)
  /\ \A k \in DOMAIN getPaymentsByDebt :
       LET p == getPaymentsByDebt[k]
           number == Len(payments) + 1 - k
           rows == {j \in DOMAIN book : reference[j] = number} IN
       /\ rows = {} <=> number \in unbooked \/ (recorded /\ k = 1)
       /\ \A j \in rows : LET entry == <<book[j]>> IN
            /\ rows = {j}
            /\ BalanceOf(entry, "CASH_ASSET") = p.amountCents
            /\ BalanceOf(entry, "LOAN_RECEIVABLE") = -p.principalPaid
            /\ BalanceOf(entry, "INTEREST_INCOME") + BalanceOf(entry, "PENALTY_INCOME")
                 = -(p.interestPaid + p.penaltiesPaid)
  /\ Mapped("1200") * Denominator \in (due - calls * Denominator) .. due

\* The millime journal balances account by account to its entries that stand:
\* an entry counts once less for each reversal of it that stands, reversals of
\* reversals included. Without reversals its receivable is the principal owed
\* and that of the payments it refused.
ReversalsOf(k) == {j \in k + 1 .. Len(journal) : journal[j].reverses = k}
Stands[k \in DOMAIN journal] ==
  1 - SumFunctionOnSet([j \in ReversalsOf(k) |-> Stands[j]], ReversalsOf(k))
JournalLines == [k \in DOMAIN journal |-> journal[k].lines]
OwnEntries == {k \in DOMAIN journal : journal[k].reverses = 0}
ReversalsCancel ==
  /\ \A a \in Accounts(JournalLines) :
       BalanceOf(JournalLines, a) =
         SumFunction([k \in OwnEntries |-> Stands[k] * BalanceOf(<<journal[k].lines>>, a)])
  /\ OwnEntries = DOMAIN journal /\ journal # <<>> =>
       BalanceOf(JournalLines, "LOAN_RECEIVABLE") = fromCents(owed["principal"] + refused)
=============================================================================
