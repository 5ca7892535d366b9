CONSTANTS
  a = a
  b = b
  s1 = s1
  lane = lane
  Requests = {r1}
  Keys = {k1, k2}
  Payloads = {a}
  Lanes = {lane}
  LaneOf <- OneLane
  Sessions = {s1}
  SessionOf <- NoSessions
  Callers = {c1, c2}
  NoRequest = NoRequest
  NoRun = NoRun
  NoPayload = NoPayload
  NoSession = NoSession
  NoLane = NoLane
  MaxStarts = 2
  MaxCrashes = 0
SPECIFICATION Spec
INVARIANT
  OneIdempotencyIdentity
CHECK_DEADLOCK FALSE
