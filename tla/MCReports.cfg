SPECIFICATION ReportsSpec
CONSTANTS
  d1 = d1
  d2 = d2
  c1 = c1
  Debts = {d1, d2}
  Customers = {c1}
  Requests = {r1, r2, r3}
  NoLoan = NoLoan
  NoDebt = NoDebt
  NoPayment = NoPayment
  NoCustomer = NoCustomer
  Owners <- MCOwners
  Loans <- MCLoans
  Amounts <- MCAmounts
SYMMETRY Symmetry
INVARIANTS
  NoGapBeforePaid
  StatementNotAhead
  StatementAddsUp
CHECK_DEADLOCK FALSE
