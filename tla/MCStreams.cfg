CONSTANTS
  Sessions = {s1, s2, s3}
  Connectors = {c1}
  MaxEvents = 3
  Size <- MixedSizes
  BufferMax = 2
  BufferBytes = 3
  TotalBytes = 4
  MaxSlots = 2
  GatewayRing = 2
  MaxEmitted = 4
  MaxEpochs = 2
  MaxConnections = 2
  MaxTimeouts = 1
  MaxWire = 2
SPECIFICATION FairSpec
INVARIANTS
  TypeOK
  BudgetsHold
  LossIsKnown
  LossIsDegraded
PROPERTIES
  StreamCatchesUp
  ConnectReturns
CHECK_DEADLOCK FALSE
