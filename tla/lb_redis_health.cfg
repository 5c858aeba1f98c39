SPECIFICATION FairSpec
CONSTANTS
  r1 = r1  r2 = r2  r3 = r3  a = a  b = b  c1 = c1
  Req = {r1, r2, r3}
  Target = {a, b}
  Cluster = {c1}
  NoTarget = NoTarget
  ClusterOf <- OneBackend
  MaxRun <- OneEach
  Provider = {}
  HasWeight = {a, b}
  PositiveWeight = {a}
  FailOpen = FALSE
  MaxAge = 9000
  Threshold = 2
  Cooldown = 1000
  Ramp = 1000
  MinInflightTTL = 60
  MinHealthTTL = 1
  TickMs = 1000
  MaxTime = 1000
  Endings <- OneMayRecover
INVARIANTS TypeOK EjectionSound
PROPERTIES EjectionOutlived NeverParked
