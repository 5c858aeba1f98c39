SPECIFICATION Spec
CONSTANTS
  w1 = w1  w2 = w2  r1 = r1  r2 = r2  r3 = r3
  None = None
  Worker = {w1, w2}
  Req = {r1, r2}
  Token = {"t1", "t2"}
  Config <- Configs
  Query <- Queries
  MaxRetries = 2
  Established = TRUE
  MaxTime = 2
  MaxLoads = 1
INVARIANTS OneWayOn NoWastedCallout
PROPERTY NeverParked
