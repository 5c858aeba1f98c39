SPECIFICATION HealthSpec
CONSTANTS
  r1 = r1  r2 = r2  r3 = r3  r4 = r4  c1 = c1
  Req = {r1, r2, r3, r4}
  Cluster = {c1}
  Threshold = 2
  Cooldown = 1
  Ramp = 2
  CasMaxRetries = 2
  Primed = {c1}
  Refusing = {c1}
  MaxTime = 2
SYMMETRY Symmetry
INVARIANT HealthExact
