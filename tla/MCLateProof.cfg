CONSTANTS
  r1 = r1
  f1 = f1
  Requests = {r1}
  Foreign = {f1}
  NoTurn = NoTurn
  Text <- DistinctText
  Outcomes = {"complete"}
  MaxGatewayRuns = 1
  MaxConnections = 1
  Prompters = {p1}
  Waiters = {w1}
  Reconcilers = {}
  MaxCrashes = 0
  MaxPrompts = 1
  NoRequest = NoRequest
SPECIFICATION Spec
INVARIANT
  OnlyOwnOutcome
CHECK_DEADLOCK FALSE
