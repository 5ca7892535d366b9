CONSTANTS
  Sessions = {s1}
  Connectors = {c1, c2}
  MaxEvents = 3
  Size <- AllSmall
  BufferMax = 3
  BufferBytes = 3
  TotalBytes = 3
  MaxSlots = 1
  GatewayRing = 3
  MaxEmitted = 3
  MaxEpochs = 1
  MaxConnections = 2
  MaxTimeouts = 0
  MaxWire = 2
SPECIFICATION Spec
INVARIANT
  ReplayLossIsDegraded
CHECK_DEADLOCK FALSE
