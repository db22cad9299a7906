SPECIFICATION BreakersSpec
CONSTANTS
  Callers = {c1, c2, c3}
  Threshold = 2
  Attempts = 3
  ResetTimeout = 2
  UnhealthyAt = 3
INVARIANTS
  CountMatchesState
PROPERTIES
  FollowsService
