----------------------------- MODULE LedgerEngine -----------------------------
(***************************************************************************)
(* LedgerEngine.postJournalEntry (domain/ledger/ledger-engine.ts) called   *)
(* concurrently. It opens no transaction of its own, its one caller        *)
(* (DebtService) opens none either, and nothing in the repository wraps    *)
(* that caller in withTransaction: every statement commits alone and is an *)
(* action here.                                                            *)
(*                                                                         *)
(* A call is a poster p; its uuid entry id is p itself.                    *)
(***************************************************************************)
EXTENDS Integers, Sequences, FiniteSetsExt

CONSTANTS
  Posters,     \* calls of postJournalEntry
  Tenants,
  Accounts,
  Periods,     \* fiscal periods
  Journals,    \* arguments; `period` is the one the posting date is in
  NoJournal,   \* the call has not been made
  NoEntry,     \* no journal_entries row with that id
  Unposted

\* Amounts are bigints, and nothing asks for their signs.
JournalLine == [account : Accounts, debit : Int, credit : Int]

JournalEntryData == [tenant : Tenants, period : Periods, lines : Seq(JournalLine)]

ASSUME LedgerAssumption ==
  /\ \A j \in Journals : j \in JournalEntryData
  /\ NoJournal \notin Journals
  /\ Unposted \notin Seq(JournalLine)
  /\ NoEntry \notin [tenant : Tenants, number : Nat, status : {"DRAFT", "POSTED"}]
  /\ IsFiniteSet(Posters) /\ IsFiniteSet(Accounts)

VARIABLES
  period,    \* status of every fiscal period
  entries,   \* journal_entries, by id
  lines,     \* journal_lines, by journal_entry_id, in insertion order
  pc,        \* where each call is
  data,      \* the argument of each call
  number,    \* the call's local entryNumber
  raced      \* history: tenants of which two calls held a number at once

vars == <<period, entries, lines, pc, data, number, raced>>

EntryRow == [tenant : Tenants, number : Nat, status : {"DRAFT", "POSTED"}]
InCall == {"numbering", "inserting", "lining"}
PcValues == InCall \cup {"idle", "posted", "rejected", "failed"}

-----------------------------------------------------------------------------
Debits(s)  == [i \in DOMAIN s |-> s[i].debit]
Credits(s) == [i \in DOMAIN s |-> s[i].credit]
TotalDebit(s)  == SumFunction(Debits(s))
TotalCredit(s) == SumFunction(Credits(s))

OnlyPositive(s) == TotalDebit(s) > 0                     \* mutant
validateDoubleEntry(s) == TotalDebit(s) = TotalCredit(s) /\ TotalDebit(s) > 0

Rows(t) == {p \in Posters : entries[p] # NoEntry /\ entries[p].tenant = t}
Numbers(t) == {entries[p].number : p \in Rows(t)}
IsPosted(p) == entries[p] # NoEntry /\ entries[p].status = "POSTED"

PostedRows(t) == {p \in Rows(t) : IsPosted(p)}

\* SUM(debit_amount) = SUM(credit_amount) over the lines of POSTED entries.
verifyLedgerBalance(t) ==
  SumFunction([p \in PostedRows(t) |-> TotalDebit(lines[p])])
    = SumFunction([p \in PostedRows(t) |-> TotalCredit(lines[p])])

\* The balance of an account from POSTED entries dated in some periods
\* (posting_date <= asOfDate; without asOfDate, in all).
OfAccount(s, a) == {i \in DOMAIN s : s[i].account = a}
BalanceIn(s, a) ==
  SumFunctionOnSet(Debits(s), OfAccount(s, a)) - SumFunctionOnSet(Credits(s), OfAccount(s, a))
PostedDuring(t, until) == {p \in PostedRows(t) : data[p].period \in until}
getAccountBalance(t, a, until) ==
  SumFunction([p \in PostedDuring(t, until) |-> BalanceIn(lines[p], a)])

\* SELECT COALESCE(MAX(entry_number), 0) + 1: no row is locked.
NumberAmongPosted(t) ==                                                \* mutant
  Max({entries[p].number : p \in PostedRows(t)} \cup {0}) + 1
NextNumber(t) == Max(Numbers(t) \cup {0}) + 1

Init ==
  /\ period = [q \in Periods |-> "OPEN"]
  /\ entries = [p \in Posters |-> NoEntry]
  /\ lines = [p \in Posters |-> <<>>]
  /\ pc = [p \in Posters |-> "idle"]
  /\ data = [p \in Posters |-> NoJournal]
  /\ number = [p \in Posters |-> 0]
  /\ raced = {}

\* Rules 1 and 2 of postJournalEntry; the period is read here and never again.
AnyPeriod(j) == validateDoubleEntry(j.lines)                     \* mutant
Accepts(j)   == validateDoubleEntry(j.lines) /\ period[j.period] = "OPEN"

\* Validate the lines, then SELECT the open period of the posting date.
CheckPeriod(p, j) ==
  /\ pc[p] = "idle"
  /\ data' = [data EXCEPT ![p] = j]
  /\ pc' = [pc EXCEPT ![p] = IF Accepts(j) THEN "numbering" ELSE "rejected"]
  /\ UNCHANGED <<period, entries, lines, number, raced>>

ReadNumber(p) ==
  LET t == data[p].tenant
      held == \E q \in Posters : pc[q] = "inserting" /\ data[q].tenant = t
  IN
  /\ pc[p] = "numbering"
  /\ number' = [number EXCEPT ![p] = NextNumber(t)]
  /\ pc' = [pc EXCEPT ![p] = "inserting"]
  /\ raced' = IF held THEN raced \cup {t} ELSE raced
  /\ UNCHANGED <<period, entries, lines, data>>

\* INSERT INTO journal_entries, as a DRAFT.
InsertEntry(p) ==
  /\ pc[p] = "inserting"
  /\ entries' = [entries EXCEPT ![p] =
       [tenant |-> data[p].tenant, number |-> number[p], status |-> "DRAFT"]]
  /\ pc' = [pc EXCEPT ![p] = "lining"]
  /\ UNCHANGED <<period, lines, data, number, raced>>

\* for (const line of data.lines) is over.
AllButOne(p)   == Len(lines[p]) + 1 >= Len(data[p].lines)        \* mutant
AllInserted(p) == Len(lines[p]) = Len(data[p].lines)

\* INSERT INTO journal_lines: the next line of the argument.
InsertLine(p) ==
  /\ pc[p] = "lining"
  /\ Len(lines[p]) < Len(data[p].lines)
  /\ lines' = [lines EXCEPT ![p] = Append(@, data[p].lines[Len(@) + 1])]
  /\ UNCHANGED <<period, entries, pc, data, number, raced>>

\* UPDATE journal_entries SET status = POSTED; the period is not looked at again.
MarkPosted(p) ==
  /\ pc[p] = "lining"
  /\ AllInserted(p)
  /\ entries' = [entries EXCEPT ![p].status = "POSTED"]
  /\ pc' = [pc EXCEPT ![p] = "posted"]
  /\ UNCHANGED <<period, lines, data, number, raced>>

\* A statement is rejected or the process dies; what it committed stays.
Fail(p) ==
  /\ pc[p] \in InCall
  /\ pc' = [pc EXCEPT ![p] = "failed"]
  /\ UNCHANGED <<period, entries, lines, data, number, raced>>

\* Someone closes a fiscal period (no file of the repository does).
ClosePeriod(q) ==
  /\ period[q] = "OPEN"
  /\ period' = [period EXCEPT ![q] = "CLOSED"]
  /\ UNCHANGED <<entries, lines, pc, data, number, raced>>

Continue(p) == ReadNumber(p) \/ InsertEntry(p) \/ InsertLine(p) \/ MarkPosted(p)

Next ==
  \/ \E p \in Posters, j \in Journals : CheckPeriod(p, j)
  \/ \E p \in Posters : Continue(p)
  \/ \E p \in Posters : Fail(p)
  \/ \E q \in Periods : ClosePeriod(q)

Spec == Init /\ [][Next]_vars

-----------------------------------------------------------------------------
TypeOK ==
  /\ period \in [Periods -> {"OPEN", "CLOSED"}]
  /\ entries \in [Posters -> EntryRow \cup {NoEntry}]
  /\ lines \in [Posters -> Seq(JournalLine)]
  /\ pc \in [Posters -> PcValues]
  /\ data \in [Posters -> Journals \cup {NoJournal}]
  /\ number \in [Posters -> Nat]
  /\ raced \subseteq Tenants

\* verifyLedgerBalance answers true for every tenant at every moment, and the
\* balances of all accounts as of any date come to nothing: the half-written
\* entries of live and dead calls are DRAFT and do not count.
AlwaysVerifies == \A t \in Tenants : verifyLedgerBalance(t)
AccountsCancel ==
  \A t \in Tenants, until \in SUBSET Periods :
    SumFunction([a \in Accounts |-> getAccountBalance(t, a, until)]) = 0
LedgerBalanced == AlwaysVerifies /\ AccountsCancel

\* A POSTED entry holds exactly the lines its caller passed, and they satisfy
\* the double-entry rule.
PostedIsComplete ==
  \A p \in Posters : IsPosted(p) =>
    lines[p] = data[p].lines /\ validateDoubleEntry(data[p].lines)

\* Entry numbers of a tenant leave no gap, although MAX + 1 is read and used
\* in two statements: rows are never deleted, so a stale maximum repeats a
\* number but never jumps over one.
NumbersLeaveNoGap ==
  \A t \in Tenants : \A n \in Numbers(t) : \A m \in 1 .. n : m \in Numbers(t)

\* No two entries of a tenant share a number, unless two of its calls were
\* between SELECT MAX + 1 and INSERT at the same time.
NumbersUniqueIn(t) ==
  \A p, q \in Rows(t) : p # q => entries[p].number # entries[q].number
NumbersUniqueUnlessRaced == \A t \in Tenants \ raced : NumbersUniqueIn(t)
EntryNumbers == NumbersLeaveNoGap /\ NumbersUniqueUnlessRaced

\* Closing a period is final once the calls that had already passed the check
\* are over: from then on nothing becomes POSTED in it.
Quiet(q) ==
  period[q] = "CLOSED" /\ \A p \in Posters : pc[p] \in InCall => data[p].period # q
PostedIn(q) == {p \in Posters : IsPosted(p) /\ data[p].period = q}
ClosedPeriodDrains ==
  [][\A q \in Periods : Quiet(q) => Quiet(q)' /\ PostedIn(q)' = PostedIn(q)]_vars

\* The engine implements the book of posted entries: posting is atomic to a
\* reader of POSTED rows, and final.
Book == INSTANCE PostedLedger WITH
  Entries  <- Posters,
  Journals <- {x.lines : x \in Journals},
  Balanced <- validateDoubleEntry,
  book     <- [p \in Posters |-> IF IsPosted(p) THEN lines[p] ELSE Unposted]
ImplementsBook == Book!Spec
=============================================================================
