SPECIFICATION Spec
CONSTANTS
  Debts = {d1}
  Requests = {r1, r2, r3}
  NoLoan = NoLoan
  NoDebt = NoDebt
  NoPayment = NoPayment
  Loans <- MCLoans
  Amounts = {0, 4, 9}
INVARIANT
  CreditedOnce
CHECK_DEADLOCK FALSE
