SPECIFICATION ServiceSpec
CONSTANTS
  t1 = t1
  t2 = t2
  ana = ana
  bob = bob
  q1 = q1
  AR = AR
  Revenue = Revenue
  Undefined = Undefined
  Tenants = {t1, t2}
  Accounts = {AR, Revenue, Undefined}
  Periods = {q1}
  Posters = {p1, p2, p3}
  Calls <- MCCalls
  Direct <- MCDirect
  CustomersOf <- MCCustomersOf
  ChartOf <- MCChartOf
  Journals <- MCJournals
  NoJournal = NoJournal
  NoEntry = NoEntry
  Unposted = Unposted
  NoCall = NoCall
  NoDebt = NoDebt
INVARIANTS
  LedgerBalanced
  EntryNumbers
  EventMeansBooked
  BookBackedByDebts
PROPERTIES
  ClosedPeriodDrains
  ImplementsBook
CHECK_DEADLOCK FALSE
