------------------------------ MODULE DebtService ------------------------------
(***************************************************************************)
(* DebtService.createDebt (domain/debt/debt-service.ts) on top of the      *)
(* ledger engine: a call inserts the debt, posts its journal entry through *)
(* LedgerEngine.postJournalEntry, links the two and records an event. The  *)
(* call p of createDebt is the poster p of its journal entry, and its uuid *)
(* debt id is p too. Others may call the engine directly, beside it.       *)
(***************************************************************************)
EXTENDS LedgerEngine

CONSTANTS
  Direct,       \* journals posted by other callers of the engine
  Calls,        \* requests: tenant, customer, principal, the period `now` is in
  CustomersOf,  \* the customers rows of each tenant
  ChartOf,      \* the account codes in the accounts rows of each tenant
  AR, Revenue,  \* the accounts with codes 1100 and 4100
  Undefined,    \* JavaScript's undefined
  NoCall, NoDebt

\* The principal is any bigint: neither createDebt nor the schema asks for more.
CreateDebtRequest(c) == c.tenant \in Tenants /\ c.principal \in Int /\ c.period \in Periods

ASSUME CallsAssumption ==
  /\ \A c \in Calls : CreateDebtRequest(c)
  /\ {AR, Revenue, Undefined} \subseteq Accounts
  /\ NoCall \notin Calls /\ Direct \subseteq Journals
  /\ NoEntry \notin Posters
  /\ NoDebt \notin [tenant : Tenants, principal : Int, status : {"ACTIVE"},
                    entry : Posters \cup {NoEntry}]

VARIABLES
  svc,      \* where each call of createDebt is
  call,     \* its argument
  debts,    \* the debts row of each call
  events    \* the event_store rows

svcVars == <<svc, call, debts, events>>
allVars == <<vars, svcVars>>

Working == {"posting", "linking", "recording"}
SvcValues == Working \cup {"idle", "direct", "created", "refused", "failed"}

-----------------------------------------------------------------------------
\* SELECT id, type FROM accounts WHERE code IN ('1100', '4100'), turned into a
\* map from code to id: `code` is not among the columns selected, so every row
\* is stored under "undefined" and the two lookups find nothing.
SelectedColumns == {"id", "type"}
AccountOf(account) == IF "code" \in SelectedColumns THEN account ELSE Undefined

\* The JournalEntryData of a debt.
InMillimes(c) ==                                                 \* mutant
  [tenant |-> c.tenant, period |-> c.period,
   lines |-> <<[account |-> AccountOf(AR), debit |-> 10 * c.principal, credit |-> 0],
               [account |-> AccountOf(Revenue), debit |-> 0, credit |-> 10 * c.principal]>>]
DebtJournal(c) ==
  [tenant |-> c.tenant, period |-> c.period,
   lines |-> <<[account |-> AccountOf(AR), debit |-> c.principal, credit |-> 0],
               [account |-> AccountOf(Revenue), debit |-> 0, credit |-> c.principal]>>]

ASSUME DebtJournalsAssumption == \A c \in Calls : DebtJournal(c) \in Journals

Acceptable(c) ==
  c.customer \in CustomersOf[c.tenant] /\ {AR, Revenue} \subseteq ChartOf[c.tenant]

ServiceInit ==
  /\ Init
  /\ svc = [p \in Posters |-> "idle"]
  /\ call = [p \in Posters |-> NoCall]
  /\ debts = [p \in Posters |-> NoDebt]
  /\ events = {}

\* CUSTOMER_NOT_FOUND or REQUIRED_ACCOUNTS_NOT_FOUND, before anything is written.
Refuse(p, c) ==
  /\ svc[p] = "idle"
  /\ ~Acceptable(c)
  /\ svc' = [svc EXCEPT ![p] = "refused"]
  /\ UNCHANGED <<vars, call, debts, events>>

\* INSERT INTO debts, ACTIVE and with no journal entry yet. The two SELECTs
\* before it read tables nothing here writes.
InsertDebt(p, c) ==
  /\ svc[p] = "idle"
  /\ Acceptable(c)
  /\ svc' = [svc EXCEPT ![p] = "posting"]
  /\ call' = [call EXCEPT ![p] = c]
  /\ debts' = [debts EXCEPT ![p] =
       [tenant |-> c.tenant, principal |-> c.principal, status |-> "ACTIVE",
        entry |-> NoEntry]]
  /\ UNCHANGED <<vars, events>>

\* postJournalEntry has returned its id, at the end of this step.
Returned(p)   == pc'[p] = "posted"

\* The steps of postJournalEntry; when it returns, its id is used to link.
PostStep(p) ==
  /\ svc[p] = "posting"
  /\ CheckPeriod(p, DebtJournal(call[p])) \/ Continue(p)
  /\ svc' = IF Returned(p) THEN [svc EXCEPT ![p] = "linking"] ELSE svc
  /\ UNCHANGED <<call, debts, events>>

\* UPDATE debts SET posted_journal_entry_id
LinkEntry(p) ==
  /\ svc[p] = "linking"
  /\ debts' = [debts EXCEPT ![p].entry = p]
  /\ svc' = [svc EXCEPT ![p] = "recording"]
  /\ UNCHANGED <<vars, call, events>>

\* INSERT INTO event_store (DEBT_CREATED) and return the debt id.
RecordBeforeLink(p) ==                                           \* mutant
  /\ svc[p] \in {"linking", "recording"}
  /\ events' = events \cup
       {[debt |-> p, principal |-> call[p].principal, entry |-> p]}
  /\ UNCHANGED <<vars, svc, call, debts>>
RecordEvent(p) ==
  /\ svc[p] = "recording"
  /\ events' = events \cup
       {[debt |-> p, principal |-> call[p].principal, entry |-> debts[p].entry]}
  /\ svc' = [svc EXCEPT ![p] = "created"]
  /\ UNCHANGED <<vars, call, debts>>

\* A statement of the service or of the engine is rejected, or the process
\* dies: the exception leaves createDebt and nothing is undone.
Break(p) ==
  /\ svc[p] \in Working
  /\ \/ pc[p] \in {"idle", "rejected", "posted"} /\ UNCHANGED vars
     \/ Fail(p)
  /\ svc' = [svc EXCEPT ![p] = "failed"]
  /\ UNCHANGED <<call, debts, events>>

CreateStep(p) == PostStep(p) \/ LinkEntry(p) \/ RecordEvent(p)

\* postJournalEntry called by someone else.
Post(p, j) ==
  /\ svc[p] = "idle"
  /\ CheckPeriod(p, j)
  /\ svc' = [svc EXCEPT ![p] = "direct"]
  /\ UNCHANGED <<call, debts, events>>
DirectStep(p) == svc[p] = "direct" /\ Continue(p) /\ UNCHANGED svcVars
DirectFail(p) == svc[p] = "direct" /\ Fail(p) /\ UNCHANGED svcVars

ServiceNext ==
  \/ \E p \in Posters, c \in Calls : Refuse(p, c) \/ InsertDebt(p, c)
  \/ \E p \in Posters : CreateStep(p) \/ Break(p)
  \/ \E p \in Posters, j \in Direct : Post(p, j)
  \/ \E p \in Posters : DirectStep(p) \/ DirectFail(p)
  \/ \E q \in Periods : ClosePeriod(q) /\ UNCHANGED svcVars

ServiceSpec == ServiceInit /\ [][ServiceNext]_allVars

-----------------------------------------------------------------------------
\* Debt with its entry's number, as getDebt answers; a debt without a link has
\* none (LEFT JOIN).
getDebt(p) ==
  [debt |-> debts[p],
   number |-> IF debts[p].entry = NoEntry THEN NoEntry ELSE entries[debts[p].entry].number]

\* One line debits n and no other line debits anything.
DebitsOnce(s, n) ==
  \E i \in DOMAIN s : s[i].debit = n /\ \A j \in DOMAIN s \ {i} : s[j].debit = 0

\* A DEBT_CREATED event, and an answer, is only ever found next to a debt that
\* is linked to a POSTED entry which debits exactly its principal, under the
\* number getDebt shows: whatever fails in between, the event is written last.
\* And it can be trusted for ever, since entries are final.
EventMeansBooked ==
  /\ \A e \in events :
       /\ debts[e.debt] # NoDebt /\ debts[e.debt].entry = e.entry
       /\ IsPosted(e.entry) /\ getDebt(e.debt).number = entries[e.entry].number
       /\ entries[e.entry].tenant = debts[e.debt].tenant
       /\ DebitsOnce(lines[e.entry], e.principal) /\ e.principal = debts[e.debt].principal
  /\ \A p \in Posters : svc[p] = "created" => \E e \in events : e.debt = p

Backing(t) == {p \in Posters : debts[p] # NoDebt /\ debts[p].tenant = t}
Owing(t)   == {p \in Backing(t) : debts[p].principal > 0}

\* The ledger never runs ahead of the debts: what a tenant's POSTED entries of
\* debts debit is covered by the principal of its ACTIVE debts that owe
\* something, at every moment. A debt of nothing or less is ACTIVE too, but the
\* engine rejects its entry, so it covers nothing and is in no book.
BookBackedByDebts ==
  \A t \in Tenants :
    LET booked == {p \in PostedRows(t) : svc[p] # "direct"} IN
    /\ SumFunction([p \in booked |-> TotalDebit(lines[p])])
         <= SumFunction([p \in Owing(t) |-> debts[p].principal])
    /\ \A p \in Backing(t) \ Owing(t) : entries[p] = NoEntry /\ svc[p] # "created"
=============================================================================
