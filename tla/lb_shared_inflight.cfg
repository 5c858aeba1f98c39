SPECIFICATION Spec
CONSTANTS
  r1 = r1  r2 = r2  r3 = r3  a = a  b = b
  Req = {r1, r2, r3}
  Key = {a, b}
  NoKey = NoKey
  MaxRun <- Two
  MaxAge = 2
  CasMaxRetries = 2
  Established = {a}
  Faulty = {b}
  MaxTime = 3
SYMMETRY Symmetry
INVARIANTS HardCap EntriesExact
PROPERTY FullMeansBusy
