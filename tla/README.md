# gfos-core: TLA+ models, checks and proofs

gfos-core keeps debt agreements, installments, payments and a double-entry
ledger on PostgreSQL behind HTTP front ends, with a core library of financial
calculations, an event store, a genesis experiment of replicated causal events,
and tooling that guards its architecture. This directory holds TLA+ modules
translated from the source, TLC configurations that check them on small
instances, and TLAPS proofs of what matters most for every instance.

    tlc -config MCDebtService.cfg MCDebtService     (one run per .cfg)
    tlapm LendingProofs.tla                         (one call per *Proofs module, and SumTheorems)

`PROJECT.json` lists the components, runs, mutations, hazards, findings and
theorems, and maps every definition to the lines of code it stands for. Paths
below are relative to the repository's `src/`.

## 1. The system

| part | state | operations | what is hard |
|---|---|---|---|
| HTTP server (`interfaces/http/server.ts`, port 3011) | `debt_agreements`, `amortization_schedule`, `payments` | POST /debts, POST /payments, reports | every `await sql` commits alone; handlers interleave and die between statements |
| Fastify routes (`interfaces/http/routes/*.ts`) | the same, `journal_entries` | POST /debts, POST /payments, analytics, customers, dashboard, statement | another order of statements, a swallowed failure, reports of several SELECTs |
| Ledger engine (`domain/ledger/ledger-engine.ts`) | `journal_entries`, `journal_lines`, `fiscal_periods` (read) | postJournalEntry, verifyLedgerBalance, getAccountBalance | read-then-insert numbering, check-then-post period, partial writes |
| Debt service (`domain/debt/debt-service.ts`) | `debts`, `event_store` | createDebt, getDebt | five writes over three tables, one of them through the engine |
| Schedules (`core/Amortization.ts`, `core/financial-engine/{amortization,restructuring}.ts`, `infrastructure/persistence/DebtRepository.ts`) | `debts`, `schedules` | four generators, restructure, saveSchedule | rounding, last month, floating point; rows saved one by one |
| Payment allocation and books (`core/PaymentWaterfall.ts`, `core/financial-engine`, `core/Journal.ts`, `core/ledger`, `core/accounting-mapper`, journal and payment repositories) | the four books | waterfalls, accruals, entry builders, mapper, reversal, trial balance | boundaries, rounding, what is left over, books that disagree |
| Event store (`core/storage/implementation/SqlEventStore.ts`) | `event_streams`, `events` | append, getStream | optimistic version under a row lock, lost answers |
| Resilience (`infrastructure/resilience`, `core/resilience`) | failure counters, breaker state, health | exec / execute, retry, SelfHealing.call | outcomes applied after the state changed; recovery |
| Request gateway (`bootstrap/production.ts`, `core/gateway`, `core/context`, `infrastructure/observability`, `interfaces/http/{gateway,middleware}`) | limiter maps, static contexts, audit log, metrics | handle, check, trace, audit | shared statics across awaits |
| Agreements, billing (`core/services`, `core/security`, `application/billing`) | agreements, usage counters | reads under permissions, charge | identity read after an await; check-then-act |
| Orders, customers, idempotency (`infrastructure/persistence/{Order,Product}Repository.ts`, the two idempotency gates, `src/server.ts`) | `orders`, `order_items`, `ledger_entries`, `customers`, `idempotency_keys` | create, allow / register, POST /api/customers | a long transaction beside autocommit; check-then-register |
| Genesis (`GenesisKernel.ts`, `ValidationPlane.ts`, `StorageHardening.ts`, `Snapshot*.ts`, `legacy/`, `packages/`) | causal graph, log, snapshots | add, reconcile, commit, project, recover | order of delivery; recovery that drops what comes too early; a crash loses a log kept in memory |
| Architecture tooling (`scripts/`) | none kept | import guard, policy guard, graph engine, rule tables and files, cycle detector | paths that name several layers, aliases that name none; a search that does not come back |
| Auth, event buses, caches, notifications, UI, telemetry, gateways | little or none | | |

How they interact. Both front ends write the same lending tables, each with its
own statements; neither calls the other or the core library. `DebtService`
calls `LedgerEngine.postJournalEntry` with the client it was handed. The
restructuring engine calls the schedule engine, and the entry builders take what a
waterfall returns. A gateway request passes the limiter, the static
user/tenant/trace contexts and the observability wrapper before its handler, all in
one process. Nothing in the repository calls `SqlEventStore`, `DebtService`, the
`core/` builders, `DebtRepository` or `OrderRepository`: they are modelled as
libraries, and the client that calls them is the model's.

What makes each part correct: a schedule repays its principal; an installment is credited
at most once, oldest first; a statement shows the payments of what it shows as PAID and
never more than was repaid; the ledger is balanced and final; an announced debt is booked;
a payment's entry says what the payment does; a stream is a gapless log; an outage is
noticed and so is its end; a request is answered from the tenant whose permission was
checked; an order is whole, unique per key and ends; a log rebuilds its graph and equal
roots mean equal states; a cycle or a forbidden import is reported. The hazards in
`PROJECT.json` say at which line each of these is at risk.

## 2. Modules

| module | models | kind |
|---|---|---|
| `LendingTables` | the lending tables, POST /debts, failures, the overdue job | base of the next five |
| `ServerPayments` | POST /payments of server.ts | composes with `LendingTables` |
| `Statement` | the three SELECTs of GET /statement, the same in both front ends | composes with `LendingTables` |
| `Reports` | the statement of the server: sums, balance column, customer page, GET /debts/:id | composes `Statement` and `ServerPayments` |
| `RoutePayments` | POST /payments of routes/payments.ts | composes with `LendingTables`, `JournalEntries` |
| `RouteStatement` | the statement of the Fastify API among its handlers | composes `Statement` and `RoutePayments` |
| `JournalEntries` | entry builders and balance checks | operators |
| `LedgerEngine` | postJournalEntry, concurrently; balances | state machine |
| `PostedLedger` | the book of posted entries | abstract specification of `LedgerEngine` |
| `DebtService` | createDebt beside other callers of the engine | composes with `LedgerEngine` |
| `Amortization` | the generators and restructure | state machine, a step a loop turn |
| `SavedSchedules` | DebtRepository saving a schedule row by row | composes with `Amortization` |
| `PaymentAllocation` | the waterfalls | state machine, a step a stage |
| `LoanJournal` | a loan's life in all the books of the core library | composes with `PaymentAllocation` |
| `EventStore` | append, as a transaction | state machine |
| `EventLog` | an append-only log per stream | abstract specification of `EventStore` |
| `CircuitBreakers` | the three circuit breakers, retry, HealthMonitor, SelfHealing | state machine |
| `RequestGateway` | limiters, static contexts, audit, agreements, billing | state machine, a step between awaits |
| `OrderIntake` | orders, idempotency gates, customer inserts, connection pools | state machine |
| `GenesisSync` | validation, log, delta, commit, projection, snapshots | state machine |
| `CycleDetector` | detectCycles | state machine, a step a call or return of `dfs` |
| `ArchitectureGate` | import guard, policy guard, graph engine, rule tables and files, import aliases | composes with `CycleDetector` |
| `SumTheorems` | sums over finite sets of rows | lemmas |
| `LedgerProofs` | `LedgerEngine`, `DebtService` | theorems |
| `LendingProofs` | `ServerPayments`, `Reports`, `RoutePayments`, `RouteStatement` | theorems |
| `LoanProofs` | `Amortization`, `SavedSchedules`; `PaymentAllocation`, `LoanJournal` | theorems |
| `GatewayProofs` | `RequestGateway`, `CircuitBreakers` | theorems |
| `TransactionProofs` | `EventStore`, `OrderIntake` | theorems |
| `GenesisProofs` | `GenesisSync` | theorems |
| `ArchitectureGateProofs` | `CycleDetector`, `ArchitectureGate` | theorems |
| `MC*` | instances for TLC | |

State and actions. In the table modules a request, call or transaction is an
element of a constant set with a program counter `pc`; its local variables are
functions of it (`rem`, `todo`, `number`, `base`); a table is a function or a
set. One statement is one action, because one statement is what commits:

* `postgres(connectionString)` and `pool.connect()` run each query on its own. The
  helper `withTransaction` sends BEGIN and its statements through a pooled
  `sql.unsafe`, not through one connection, and nothing calls it. So in the server, the
  routes, the ledger engine, the debt service and `DebtRepository` every statement is
  its own transaction, and a failure (a rejected statement, a dead process) may come
  between any two.
* `SqlEventStore.append` and `OrderRepository.create` are transactions. Their
  statements stay apart, because each may wait for a row lock, and their writes
  become visible at the commit. READ COMMITTED is assumed: a `FOR UPDATE` or an
  upsert that waited sees what the last holder committed.
* In `RequestGateway` and `CircuitBreakers` state is in memory; a step there is the code
  between two awaits.
* In `CycleDetector` the recursion of `dfs` is the sequence `path` of the calls in
  progress; a node is entered once, so the rest of its `for` loop is a function of it.

An identifier the code takes from `uuid()` is the caller's own name: unique
by construction there as here.

Modelled from how the code uses it, with no code in the repository:
`MarkOverdue` (reports read OVERDUE installments, nothing writes them),
`ClosePeriod` (`fiscal_periods.status` is read), `RegisterStream` (`event_streams`
rows are read and updated, nothing inserts them), `Toggle` (the remote service),
`add` of the causal graph and the node around the reconciliation protocol
(`CausalGraph` is imported but absent, `NodeView` an interface nothing implements), the
unique phone and foreign keys of the deployed schema (backups v0.9.3), the wiring of
`ASTParser` to `detectCycles`, and the clients of the libraries. Two absent classes have
stand-ins. `ReconciliationProtocol.ts:2,16` calls `HardenedDeltaEngine`; the model takes
`legacy/DeltaEngine.ts`, whose `computeDelta` has the same arguments. `GenesisKernel.ts:11`
sorts by `CanonicalComparator`; the model takes `OrderingRules.compare`
(`packages/algebra/src/causality/Ordering.ts`), which orders another event type. What is
shown of deltas and projections holds of these.

History variables, which the code does not have: `shared` (debts two payments of the
server were settling at once), `raced` (tenants of which two calls held an entry number at
once), `unguarded` (streams appended to without a row), `overlapped` (requests traced at
the same time), `excused` (keys between allow and register twice, or broken off after the
commit), `due`, `change` and `refused` (what the loan's accruals and payments were before
rounding), `unbooked` (payments whose entry was never written), `behind` (what a node
lacked when a delta was made for it). They state the exact condition under which a
property the code does not have in general still holds. In `LoanJournal` `recorded` is
where the client is between two INSERTs, and `reference` the column of `journal_entries`
that names the payment.

Abstractions. Amounts are whole cents, of either sign where nothing checks it. Names,
currencies, dates and texts are left out; the period an entry is dated in is a field.
`Math.round(a / b)` is exact rounding: the amounts are far below 2^53. The annuity of
`calcPMT` is computed in doubles; the model takes any integer between the bounds every
correct rounding respects (at least P·r and P/n, at most their sum rounded up). Counters
that are only compared with a threshold saturate above it. In `ArchitectureGate` a file is
the directories on its path and a name, and a specifier is relative or begins with an
alias of `import_map.json`, and goes on with a tail of the target's path: that is what the
guards' substring tests tell apart.

## 3. Runs

The number is of distinct states.

| run | states | what it shows |
|---|---|---|
| `reports` | 2 205 683 | `NoGapBeforePaid`: oldest first, under any interleaving and failure. `StatementNotAhead`: what a statement credits, in four SELECTs at four times, had been repaid when its rows were read, for debts of no negative principal. `StatementAddsUp`: the balance column follows row by row, unless a debt was made after a payment, and the statement's debts are the oldest of the customer's page. |
| `route_payments` | 1 624 417 | `CreditCoversPaid`: recorded money, less what handlers still hold, covers the PAID installments. `LeftoverCoversNothing`: an answered payment could not have paid more of its list. `ShownPaidIsCovered`: the payments a statement shows cover the installments it shows as PAID, although the payment, its updates and the SELECTs are statements apart. All for debts without a negative installment (section 5). `ScheduleRepaysPrincipal`: a schedule of a month or more is off by half a cent a month at most, for principals of either sign. |
| `debt_service` | 272 461 | `LedgerBalanced`, `EntryNumbers` (no gap, unique unless raced), `EventMeansBooked`, `BookBackedByDebts`, `ClosedPeriodDrains`, and `ImplementsBook`: the engine under the service and other callers implements an atomic, final book. |
| `amortization` | 26 859 | `RepaysPrincipalExactly`, `InterestAtMostFlat`, and `ScheduleReadsTrue`: the last row of a schedule is true for whoever reads it, also half saved or saved twice; all of it only if it was saved once. |
| `payment_allocation` | 120 637 | `SettledExactlyWhenCovered`, `TrialBalanceOffByChange`, `ReceivablesFollowLoan`, `ReversalsCancel`: what the library's books say of a loan after any calls, and by how much they are off. A payment and its entry are two INSERTs: each payment has one entry that agrees with it, or, broken off, none, and then it counts nowhere else. |
| `circuit_breakers` | 159 380 | `CountMatchesState`: CLOSED means fewer failures than the threshold since the last success, in whatever order calls end. `FollowsService`: every breaker detects an outage that stays, and SelfHealing closes and reports healthy once the service stays up. |
| `event_store` | 299 574 | `OneWinnerPerVersion`, `ReadersMissNothing`, `AppendsFinish`, `ImplementsLog`. |
| `gateway` | 939 886 | `AdmissionsBounded`: 2·limit − 1 in any window at most. `AuditedUnlessOverlapped`, `UsageCountsCharges`. `AnswersFollowOneIdentity`: agreements are only ever answered to requests without a user, and belong to the tenant of the one user whose permission was checked, who is not the one asking but one whose own request broke (section 5). |
| `genesis_sync` | 112 739 | `LogRebuildsGraph`: the log of a running node rebuilds its graph, although recovery drops what it cannot add. `EveryRoundAdvances`, `SupplyConserved`, `SnapshotDescribesRoot`. |
| `architecture` | 551 416 | `CyclesReported`. `DeniedImportsReported`: a denied import passes the guard only by one of three aliases, and if it leads to the database the policy guard finds it. `GatesAgree`: on plain paths guard, tables and graph give one verdict, and the rule files forbid just three pairs of layers more. |
| `order_intake` | 245 070 | `OrdersWhole`, `OneOrderPerKey`. `OrdersFinish`: no order waits for ever, though all connections of the pool may be held by orders that wait for one customer's row. |

| run | refuted | by |
|---|---|---|
| `server_payments_overlap` | `CreditedOnce` (`docs/ARCHITECTURE_CONSTITUTION.md:263`, "All Financial Operations Must Be Idempotent") | two overlapping payments of a debt (a client's retry is enough) select and credit the same installments |

Bounds, and why they are enough.

* `reports`: two debts, which belong to one customer or to one and nobody, each of
  two installments, of one negative one, or of no months; three requests, so that a
  creation overlaps a payment and a payment another, with amounts of one installment,
  of all and of less than nothing.
* `route_payments` and `server_payments_overlap` have one debt, because handlers of
  different debts share no row. The route's loans are three months at a rate that makes
  the totals differ (so that an installment can be skipped for the next), two months that
  round up, no months, and a negative principal with negative installments; its bodies
  one that pays only part as principal, one with penalties, and one below nothing.
* `debt_service`: three calls, each of them a debt, a debt of nothing or less (accepted by
  the service, rejected by the engine), an unknown customer, or another caller's entry,
  balanced or not; one period, so that a call dated in a closing one exists.
* `amortization`: principals below, equal to and not divisible by the term, terms
  of 0, 1, 3, 5 and 361, rates with less and more than a cent of interest; three
  attempts to save.
* `payment_allocation`: six calls, enough for accruals on both sides of a payment,
  a payment broken off between its INSERTs and another after it, and the reversal of a
  reversal; the rate makes interest round.
* `circuit_breakers`: three callers, a threshold of two and three attempts, so that a
  call let through before the circuit opened may still be retrying after it closed.
* `event_store`: three appends of one or two events, expecting version 0 or 1, to a
  stream on record and to one that is not (it may be put on record at any time).
* `gateway`: four requests of two addresses, a limit of two, two windows, at most three
  requests past the limiter: the least for an address to be let in on both sides of a
  reset and refused, and for requests to overlap in every handler. Three past the
  limiter are 2·limit − 1, so at the guard the bound cannot be exceeded here and it is the
  hook that the run tests; the theorem is about both.
* `genesis_sync`: two nodes, both of which crash, and three events, the least with an
  event that has its own grandparent as a parent, which a reversed breadth-first order
  puts too late; amounts include negative ones (see section 5).
* `architecture`: every single import among eight files, in every form, spelling and
  alias, and every graph of at most five imports of four files.
* `order_intake`: three requests over two keys, two connections, two customer inserts:
  two orders of one customer take the whole pool, and the third needs a connection.

`CHECK_DEADLOCK FALSE` is set where the system stops when its requests are used up:
everywhere but in `circuit_breakers`, whose callers never stop.

Fairness. Liveness is checked in three runs. `event_store`: weak fairness of each call's
`Continue`, since a settled await is resumed and a lock is granted once its holder
ends. `order_intake`: weak fairness of `ContinueOrder(r)`, or of the failure of a statement
the database rejects: the driver resumes its caller either way. The gate's two
statements are taken to run on the pool of the orders (nothing wires the two), and the
owner of a customer's row holds the only connection it needs. `circuit_breakers`: time
passes and the service settles every call (the code sets no timeout on one); that
someone calls is a premise of `FollowsService`, not of the specification. Nothing is
assumed of arrivals, failures, the overdue job or closing periods. `ServerPayments` and
`RoutePayments` state the fairness of their handlers; no run needs it.

## 4. Proofs

Assumed throughout: the named ASSUMEs of the modules (arguments are typed, special
values are distinct from the values they stand beside, what is summed is finite),
which TLC evaluates in the runs.

`SumTheorems` is the arithmetic of the others: `SumFunction` and `MapThenSumSet` of the
library are folds over a CHOOSE, so that not even the sum of one more term is
obvious. The lemmas are proved by induction over finite sets, stated for sets of
numbers (the induction theorem of the library cannot be instantiated with a
predicate): a sum is the sum over a part and the rest, agrees with the sum of equal
terms, is bounded term by term, and may be grouped by a key.

`LedgerProofs`. `CallInv` (`CallsInStep`) is the inductive invariant of the engine: a
call's row, its lines and its number are where its program counter says; POSTED goes
with `"posted"`; the lines written are a prefix of the argument. `PostedEntriesComplete` and
`TypeCorrect` follow, and, since the lines of a POSTED entry cancel and all others are
invisible, `LedgerVerifies` and `LedgerAlwaysBalanced`: the sum over accounts is
exchanged for the sum over entries. `NumberInv` adds that a number held is at most one
above the highest row, and that in an unraced tenant it is above every row (`NoGapInNumbers`,
`NumbersUniqueWithoutRace`). `ClosedPeriodIsFinal` is an action property: a quiet period
can neither be entered nor reopened. `EngineImplementsBook` maps `MarkPosted` to `Post`
and every other step to a stutter. Of the service, `ServiceInv` (`ServiceInStep`) says what
a call of createDebt has behind it, `EventInv` what an event stands for and `TenantInv`
whose the entry is. `ServiceStepIsEngineStep` shows that whatever the service does is
a step of the engine or leaves it alone, so that the engine's theorems carry over
(`ServiceUsesEngine`, `ServiceImplementsBook`, `ServiceEntryNumbers`, `ServiceClosedPeriods`,
`ServiceLedgerBalanced`). `EventsCanBeTrusted` proves `EventMeansBooked`, and
`LedgerBackedByDebts` `BookBackedByDebts`: every POSTED debt entry has a debt of its
own, of the same principal, on record, and a principal the engine accepts is positive
(`Owing`); debts of nothing or less have no entry.

`LendingProofs`. `HandlerInv` (`HandlerInvariant`): every row before the ones a loop still
has to do has left PENDING. `OldestFirst` follows because rows leave PENDING only in that
order and a creation appends at the end. `TablesInv`, kept by both front ends, says that
the rows of a schedule have the same principal, `MonthlyPrincipal`, and that a loop holds
what is left of the loan, of either sign, and has a month to go; twice the part times the
term is within a term of twice the principal, hence `PartsRepayPrincipal` and
`RouteRepaysPrincipal`. `StatementsNotAhead` follows since payments are read last, were
inserted after their installments were marked, and PAID is final (`StatementInv`). For
`StatementsAddUp`, `DatesInv` says that what is on record has one date each and `PageInv`
that what was read had come before what is made since; the column is a sum of all changes
up to its row (`BalanceIsSum`) when no debt follows a payment. `RouteInv`
(`RouteInvariant`) says of POST /payments of the routes what each handler has in hand
(`RouteLocals`), that what it tried and could not pay it could not pay now (`Skipped`),
and, as a sum, `Covered`: PAID totals plus money held are at most the money recorded.
`CreditCovers` and `NothingLeftToCover` follow. `Covered` is inductive only on debts
without a negative installment, and a proof attempt without that condition is how the case
was found. A statement among those handlers: every step of theirs is one of `RowsChange`,
after which rows are as they were but for their status (`RowsOnlyMarked`) and no payment
is gone (`RouteGrows`). What was read as PAID is then PAID still when the payments are
read (`ShownStays`), and all payments of a debt are read at once, so that `Covered` speaks
of them (`PaymentsCoverShown`): `ShownPaidCovered`.

`GatewayProofs`. `GatewayInv` (`GatewayInvariant`) says where each request is, what it has
been through, of a request nobody overlapped that the static trace and identity are its
own, and of the identity (`Identities`) that it was left by a request that broke, and that
whoever is in a handler has no user. `AuditHolds`, `OneIdentityAnswers`, `UsageExact` (the
charges of an agreement are counted by the requests past its check) and `GatewayTypes`
follow from it; `AdmissionsHold` needs the window invariant on top: what a limiter counts
are the admissions since its window began, and those before it were within the limit too.
`BreakerInv` (`BreakerInvariant`) joins the breakers' types and `CountMatchesState`
(`StateFollowsCount`): neither is inductive alone, since an OPEN circuit turns HALF_OPEN
only where there is a timeout.

`TransactionProofs`. `StoreInv` (`StoreInvariant`): a transaction past its comparison
holds the lock and still sees the version it compared with, and events begin where
their writer expected. From it `VersionsCount`, `OnlyOneWinner`, `NothingIsMissed`, and
`StoreImplementsLog`, where `Commit` maps to an append of the log. `OrderInv`
(`OrdersInvariant`): what a transaction has written follows from the statement it is
at, what is on record of a request is nothing or all of it, and a key that is not
excused is in the hands of one request from allow on. From it `OrdersAreWhole` and
`KeysAreSpentOnce`.

`ArchitectureGateProofs`. `SearchInv` (`SearchInvariant`): the calls in progress are a walk;
while nothing has been reported, what `dfs` is done with is closed under imports and
holds no cycle. Hence `SearchReportsCycles`, for every import
graph, and through `GateInvariant` for the graph the parser makes of a program
(`GateFindsCycles`). `DeniedImportsFail` and `VerdictsAgree` are about the guards, the
tables and the rule files, for every layout of files and every specifier, aliases included.
For the first, whatever denied layer a specifier names comes before the layers the table
allows (`DeniedFromTheFront`), every specifier but those of three aliases names one
(`AliasedPath`, `DeniedNamesLayer`), and the texts the policy guard looks for are in every
specifier of the database that hides its layer (`DatabaseFound`). For the second, a plain
path resolves to its own layer (`PlainIsExact`), and the pairs of layers are compared with
the two files (`FilesForbidMore`).

`GenesisProofs`. `GenesisInv` (`GraphInvariant`): a node's log is its graph and then the
event on its way there, and both are causal: parents first, nothing twice. A causal log is
recovered whole (`RecoverAll`), hence `LogIsEnough`; a crash empties both, and the
invariant with them; a causal graph is committed whole by one sweep (`ResolveAll`). The
search of `computeDelta` keeps `Searching`: every id it has met is in the queue or the
delta, if it belongs there; `Ahead`, the queue and the parents of what is not visited,
falls by one each turn, so that the queue is empty after `Turns`, and the delta has all
that the remote lacks (`DeltaComplete`). `RoundInv` follows the oldest of those events,
whose parents the receiver has, through the inbox and the log to the graph, hence
`RoundsAdvance`. `Ordered` is a function of the events and ids alone (`OrderedIs`) that
later events do not change (`OrderStays`), hence `SnapshotTellsState`; and it lists every
id once (`InOrderLists`: ranks in a strict total order), so that the sums over the
accounts follow the projection event by event, also from an account to itself:
`MoneyConserved`. What a fold computes is proved by a rule for that fold (`RecoverRule`,
`DeltaRule`, ...): a predicate that each turn takes on.

`LoanProofs`. `LoopInv` (`LoopInvariant`): repaid plus balance is the principal; the
balance never exceeds it; the interest so far is at most FLAT's. The arithmetic of
integer division is in lemmas of its own. From it `NothingNegative`, `ScheduleRepaysPrincipal`,
`FlatIsTheCeiling` and `RestructuringSavings`. Of the waterfall, `WaterfallInv`
(`WaterfallInvariant`): buckets not reached are empty, and money is left only when those
reached are full. Hence `PartsAreNatural`, `PaymentConserved`, `SeniorityKept` and
`SettledMeansCovered`.

Of the schedules on record, `SavedInv` (`SavedInvariant`): the rows built are numbered
from 1 and have, up to each of them, the sums that the loop keeps; a row of the table is
the one built with its number, and those before it are there too, which is what makes a
broken `saveSchedule` harmless to a reader. Rows read in order are a permutation of the
table (`ScheduleOrdered`, by `RankIsPosition` of `SumTheorems`: how much comes before a
member of a strict total order is its position), the last has the highest number, and a
sum over the rows is the one over their numbers (`SumRenamed`): `SchedulesReadTrue`.

Of a loan's life, `LoanInv` (`LoanInvariant`). `BookInv`: the first entry is the debt's,
and of the others each is that of one payment, the entries being in the order of their
payments (`Pairs`); a payment without one is the one whose client is between the two INSERTs
or one that broke off there. `AccountsInv`: the balance of
each account against what is owed, posted and mapped, and the rounding lost. `JournalInv`:
an entry reverses an earlier one only and has its lines the other way round; the rest is
what was lent, paid and refused. An entry is a set of lines, so two lines alike would be
one: what an entry does to an account is therefore worked out from its lines
(`DebtNets`, `PaymentNets`, `MadePaymentNets`), and appending it adds that to a sum over
the entries. Hence `TrialBalance` and `BooksTellWhatIsOwed`. `Stands` is a function
defined by itself: a solution is built from the last entry backwards (`StandsBackwards`,
`StandsFollowRule`), since an entry is reversed by later ones only. A sum in which each
reversal takes back what it reverses is then the sum over the entries that stand
(`StandingCounts`), hence `ReversalsTakeBack`.

Only model-checked: liveness (`AppendsFinish`, `OrdersFinish`, `FollowsService`), since
fairness and ENABLED are out of the prover's reach. Every other property of a passing
run is a theorem.

## 5. Known limits of the code that the models carry

Lending.

* `routes/payments.ts` may pay a later installment before an older one (it skips
  what the money does not cover), so `NoGapBeforePaid` is a property of the server only.
  It trusts the split the client sends (line 9), and swallows a rejected journal INSERT
  (line 46); server.ts writes no journal entry at all, while
  `ARCHITECTURE_CONSTITUTION.md:129` says "Every Financial Impact Requires Journal Entry".
* The equal parts of a schedule (server.ts:635, routes/debts.ts:11) may be rounded up
  beyond the principal; the balance the last months' interest is computed on is then
  negative, and at a high rate so is an installment (2 cents over 4 months at 200% a
  month). Two payments that overlap on it both gain money by "paying" it.
* Neither front end, nor the schema, checks a loan: a debt of no months is answered
  with no installments, and one of negative principal gets negative installments, which a
  payment "settles" for a gain. Negative payments are recorded. A null `termMonths` makes
  server.ts insert NaN, which the database rejects after the debt was committed; the model
  has it as a failure at that point. That amounts are integers is taken for granted.
* The analytics query multiplies a debt's principal by its installments (LEFT JOIN).
  The statement's running balance takes all debts before all payments and
  is sorted by date afterwards. The second handler of /customers/portfolio
  (server.ts:657) is unreachable.
* `LEDGER_RULES.md` rule 4 wants entry numbers unique and shows a lock;
  `ledger-engine.ts` takes none.
* `createDebt` takes any bigint for a principal: one of nothing or less leaves an ACTIVE
  debt behind whose posting the engine then rejects.
* `createDebt` selects `id, type` and looks accounts up by `code`: both lines of every
  entry name no account (debt-service.ts:46).

Core library.

* `makePaymentEntry` rejects payments with interest, which it credits out of no cash
  (Journal.ts:111). No builder has a line for change. The mapper credits only the
  principal of a payment, and refuses accruals below one cent. A payment and its entry are
  INSERTs of two repositories: a client that fails in between leaves a payment no book
  knows.
* `calculateInterest` and the penalties truncate to whole cents;
  `docs/FINANCIAL_RULES_REGISTRY.md` asks for Banker's rounding (RULE_001 at line 69,
  RULE_004 at line 211). What the model shows is of truncation: less than a cent lost a call.
* `Journal.ts` lines carry `amountMillimes`, `JournalRepository` reads `line.amount`.
* `InterestEngine` and `PenaltyEngine` call `LedgerPostingService.post`, which does not exist;
  `PostPayment` and `ReportService` import missing files.

Platform.

* A stream not in `event_streams` is never protected by `SqlEventStore.append`, nor put
  there by it.
* The breakers of `core/resilience` never close once OPEN with no call in flight;
  one `ExternalGateway` breaker serves all services. The hook's rate-limiter map is
  never pruned.
* The trace and user contexts are single static fields. `TenantContext` has no `set`, so
  every guarded request with a user breaks (APIGuard.ts:15), after its user was set.
  So no user is ever answered, and the user stays: the next requests that come without one
  are judged by his role (`requirePermission`) and read his tenant's agreements.
  `docs/ARCHITECTURE_CONSTITUTION.md:299` has "Tenant Isolation is Absolute".
  `AnswersFollowOneIdentity` says just that, and that nothing else is ever handed out.
* The payment webhook calls `AgreementService.recordVerifiedPayment`, which does not
  exist.
* The key check and its registration are two calls around the order. POST /api/customers
  answers 201 with "persisted: false" on a database error.
  `SalesRepository.recordSale` sends two parametrised INSERTs in one query, which
  PostgreSQL rejects.

Genesis. `PersistentLog.log` is an array in memory (StorageHardening.ts:8), although line
14 calls `recover` "Cold Start Recovery": a process that restarts has an empty log, and
what no other node has is gone. The order of log and graph protects a running node only.
The GENESIS event's payload has no amount, so the projection would throw on it; accounts
start at 0, so only amounts that are not positive succeed at first. The canonical order is
not causal, and a delta is reversed breadth-first order, which is not either.

Tooling. A specifier by `@infra/`, `@app-services/` or `@app-ports/` is "external" to
`resolveLayer` (architecture-engine.ts:57), so a forbidden import by one of these passes the
guard; `architecture-guard.sh` looks for `@infra/database` only. The parser has no paths for
aliases either, so they make no edges of a cycle. `architecture.policy.json` and
`architecture.rules.json` are read by no script and forbid what every table allows:
application to interfaces, and infrastructure to application and to interfaces.
`no-relative-database.ts`, which `architecture-enforcer.yml:23` runs, joins its patterns by
`|` for a grep that takes them literally, and is not allowed to start it (`--allow-run`).
`rules-engine.ts` imports RULES_V1, which is exported under another name, and
`ci/gate.ts` and `arch-check.ts` import absent files: none can load. `engine.ts` prints
"ARCHITECTURE CLEAN" without applying rules, and `canOnlyImportFrom` is enforced by
nothing. An edge's `to` is resolved from the working directory and never equals a
node's id.

## 6. Not modelled

* server.ts lines 14–564 are HTML and a browser script, which keeps no state the
  API does not have.
* Analytics, portfolio, summary and dashboard are single queries over one state, and their
  figures are sums of the rows of `LendingTables`; no property of theirs takes more than
  one step to break. `/customers/portfolio` reads the view `customer_portfolio_summary`
  (customers.ts:13; `backups/selfni_core_v0.9.3_20260611.sql:183` defines it), and only
  when that fails the query of lines 14 to 26, which multiplies the principal by the
  installments; the dashboard's lists have LIMITs and tenant filters of their own.
* Authentication: formatting and lookups without state of their own. UI, telemetry,
  operations, payment gateways: rendering, counters, logs and stubs.
* Proof, audit and snapshot libraries, contracts validator: they import modules that are
  absent.
* Notifications and scheduling: `NotificationWorker` sends before it marks SENT, but
  nothing enqueues; the overdue scheduler and engine are stubs.
* Event buses and caches: in-memory lists and maps that no modelled operation goes through.
* `core/Money.ts` beyond the conversion of cents: nothing imports it. `RetryPolicy` and
  `RecoveryStrategy`: nothing calls them. `packages/kernel`: another projection, of its own.

## 7. What is left

1. Both front ends over the same tables in one composed module.
2. `packages/kernel` as a second projection beside `GenesisSync`, and larger instances of
   the genesis run with three nodes.
