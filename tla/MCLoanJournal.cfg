SPECIFICATION LoanSpec
CONSTANTS
  Demands <- MCDemands
  Principals = {0, 100}
  Amounts = {1, 40, 102}
  DayCounts = {1, 3}
  Rate = 18250
  DailyPenalty = 50
  MaxCalls = 6
INVARIANTS
  SettledExactlyWhenCovered
  TrialBalanceOffByChange
  ReceivablesFollowLoan
  ReversalsCancel
CHECK_DEADLOCK FALSE
