SPECIFICATION SavedSpec
CONSTANTS
  Inputs <- MCInputs
  Originals <- MCOriginals
  NoOriginal = NoOriginal
  NoRow = NoRow
  NoDebt = NoDebt
  MaxSaves = 3
INVARIANTS
  RepaysPrincipalExactly
  InterestAtMostFlat
  ScheduleReadsTrue
CHECK_DEADLOCK FALSE
