SPECIFICATION RouteStatementSpec
CONSTANTS
  c1 = c1
  Debts = {d1}
  Customers = {c1}
  Requests = {r1, r2, r3}
  NoLoan = NoLoan
  NoDebt = NoDebt
  NoPayment = NoPayment
  NoEntry = NoEntry
  NoCustomer = NoCustomer
  Owners <- MCOwners
  Loans <- MCLoans
  Bodies <- MCBodies
SYMMETRY MCSymmetry
INVARIANTS
  ScheduleRepaysPrincipal
  CreditCoversPaid
  LeftoverCoversNothing
  ShownPaidIsCovered
CHECK_DEADLOCK FALSE
