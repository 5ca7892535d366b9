CONSTANTS
  r1 = r1
  f1 = f1
  Requests = {r1}
  Foreign = {f1}
  NoTurn = NoTurn
  Text <- SharedText
  Outcomes = {"complete", "error", "cancelled"}
  MaxGatewayRuns = 1
  MaxConnections = 1
  Prompters = {p1}
  Waiters = {w1}
  Reconcilers = {c1}
  MaxCrashes = 1
  MaxPrompts = 1
  NoRequest = NoRequest
SPECIFICATION Spec
INVARIANT
  ReconciledIsDurable
PROPERTIES
  StatusOnlyAdvances
  
CHECK_DEADLOCK FALSE
