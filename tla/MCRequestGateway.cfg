SPECIFICATION Spec
CONSTANTS
  a1 = a1
  a2 = a2
  t1 = t1
  t2 = t2
  Requests = {r1, r2, r3, r4}
  Addresses = {a1, a2}
  Tenants = {t1, t2}
  Inputs <- MCInputs
  Limit = 2
  Window = 1
  MaxTime = 2
  MaxHandled = 3
  PLANS <- MCPLANS
  PlanOf <- MCPlanOf
  Nobody = Nobody
  NoTrace = NoTrace
  NoEntry = NoEntry
  NoTime = NoTime
SYMMETRY Symmetry
INVARIANTS
  AdmissionsBounded
  AuditedUnlessOverlapped
  AnswersFollowOneIdentity
  UsageCountsCharges
CHECK_DEADLOCK FALSE
