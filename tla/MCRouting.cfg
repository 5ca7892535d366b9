CONSTANTS
  lane = lane
  r1 = r1
  s1 = s1
  Profiles = {default, coder}
  Default = default
  Lanes = {lane}
  Requests = {r1, r2}
  Prompts = {v1}
  LaneOf <- OneLane
  SessionOf <- FirstNamed
  Named = {s1}
  Runtimes = {x1, x2}
  Callers = {c1, c2}
  None = None
  MaxCalls = 4
SPECIFICATION Spec
SYMMETRY Symmetric
INVARIANTS
  TypeOK
  RequestStaysInProfile
  RunStaysInProfile
  LaneBoundInProfile
  LiveStaysInProfile
CHECK_DEADLOCK FALSE
