CONSTANTS
  r1 = r1
  f1 = f1
  Requests = {r1}
  Foreign = {}
  NoTurn = NoTurn
  Text <- DistinctText
  Outcomes = {"complete"}
  MaxGatewayRuns = 1
  MaxConnections = 2
  Prompters = {p1}
  Waiters = {w1}
  Reconcilers = {}
  MaxCrashes = 1
  MaxPrompts = 1
  NoRequest = NoRequest
SPECIFICATION Spec
INVARIANT
  OldProofIsReproven
CHECK_DEADLOCK FALSE
