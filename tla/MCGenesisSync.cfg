SPECIFICATION Spec
CONSTANTS
  Node = {1, 2}
  MaxEvents = 3
  Snapshotters = {1}
  Crashing = {1, 2}
  Accounts = {"x", "y"}
  Payload <- MCPayload
  None = None
INVARIANTS
  LogRebuildsGraph
  EveryRoundAdvances
  SupplyConserved
  SnapshotDescribesRoot
CHECK_DEADLOCK FALSE
