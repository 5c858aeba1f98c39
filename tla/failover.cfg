SPECIFICATION Spec
CONSTANTS
  w1 = w1  w2 = w2  w3 = w3  t1 = t1  t2 = t2
  NoToken = NoToken
  r1 = r1  r2 = r2  r3 = r3  r4 = r4
  Worker = {w1, w2}
  Token = {t1, t2}
  Setups <- Failover
  LeaseTime = 2
  CasMaxRetries = 2
  Req = {r1, r2, r3}
SYMMETRY Symmetry
INVARIANTS NoTokenLost LeaseExclusive
PROPERTIES FailuresNeeded EarnedReturn
