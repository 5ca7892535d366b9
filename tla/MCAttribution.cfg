CONSTANTS
  r1 = r1
  f1 = f1
  Requests = {r1}
  Foreign = {f1}
  NoTurn = NoTurn
  Text <- DistinctText
  Outcomes = {"complete"}
  MaxGatewayRuns = 2
  MaxConnections = 2
  Prompters = {p1}
  Waiters = {w1}
  Reconcilers = {}
  MaxCrashes = 1
  MaxPrompts = 1
  NoRequest = NoRequest
SPECIFICATION Spec
INVARIANTS
  TypeOK
  

  
CHECK_DEADLOCK FALSE
