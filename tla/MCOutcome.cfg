CONSTANTS
  a = a
  b = b
  s1 = s1
  lane = lane
  Requests = {r1}
  Keys = {k1}
  Payloads = {a}
  Lanes = {lane}
  LaneOf <- OneLane
  Sessions = {s1}
  SessionOf <- NoSessions
  Callers = {c1, c2}
  NoRequest = NoRequest
  NoRun = NoRun
  NoPayload = NoPayload
  NoSession = NoSession
  NoLane = NoLane
  MaxStarts = 3
  MaxCrashes = 1
SPECIFICATION FairSpec
INVARIANT
  RecordedOutcomeIsTrue

  
CHECK_DEADLOCK FALSE
