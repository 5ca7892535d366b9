CONSTANTS
  r1 = r1
  f1 = f1
  Requests = {r1}
  Foreign = {}
  NoTurn = NoTurn
  Text <- DistinctText
  Outcomes = {"complete"}
  MaxGatewayRuns = 1
  MaxConnections = 1
  Prompters = {p1, p2}
  Waiters = {w1}
  Reconcilers = {}
  MaxCrashes = 1
  MaxPrompts = 2
  NoRequest = NoRequest
SPECIFICATION FairSpec
INVARIANT
  AtMostOneSubmit

  
CHECK_DEADLOCK FALSE
