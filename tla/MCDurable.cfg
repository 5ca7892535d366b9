CONSTANTS
  a = a
  b = b
  s1 = s1
  lane = lane
  Requests = {r1, r2}
  Keys = {k1, k2}
  Payloads = {a, b}
  Lanes = {lane}
  LaneOf <- OneLane
  Sessions = {s1}
  SessionOf <- OneSession
  Callers = {c1, c2}
  NoRequest = NoRequest
  NoRun = NoRun
  NoPayload = NoPayload
  NoSession = NoSession
  NoLane = NoLane
  MaxStarts = 2
  MaxCrashes = 1
SPECIFICATION Spec
SYMMETRY Symmetric
INVARIANTS
  TypeOK
  OneIdentity
  RunIsOwn
CHECK_DEADLOCK FALSE
