SPECIFICATION FairSpec
CONSTANTS
  r1 = r1  r2 = r2  w1 = w1  w2 = w2  kA = kA  kB = kB  kR = kR
  User = User  Nobody = Nobody  Anon = Anon  Unknown = Unknown
  Req = {r1, r2}
  Worker = {w1, w2}
  Key = {kA, kR}
  Digest = {kA}
  Granted = {kA}
  Expiry <- ExpiryDef
  Plans <- OneOrTwo
  CanSign = TRUE
  MarkerTTL = 1
  MaxChanges = 1
  MaxTime = 1
INVARIANTS ConsumerExact RevokedStaysOut
PROPERTIES LocalVerdictExact FallbackSurvives NeverParked
