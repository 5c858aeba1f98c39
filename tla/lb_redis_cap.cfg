SPECIFICATION Spec
CONSTANTS
  r1 = r1  r2 = r2  r3 = r3  a = a  b = b  c1 = c1
  Req = {r1, r2, r3}
  Target = {a, b}
  Cluster = {c1}
  NoTarget = NoTarget
  ClusterOf <- OneBackend
  MaxRun <- OneEach
  Provider = {a, b}
  HasWeight = {}
  PositiveWeight = {}
  FailOpen = TRUE
  MaxAge = 1000
  Threshold = 2
  Cooldown = 1000
  Ramp = 1000
  MinInflightTTL = 1
  MinHealthTTL = 1
  TickMs = 1000
  MaxTime = 2000
  Endings <- AllWell
SYMMETRY Symmetry
INVARIANTS HardCap SlotHeld Accounted
PROPERTY BudgetSpec
