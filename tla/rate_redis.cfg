SPECIFICATION FairSpec
CONSTANTS
  r1 = r1  r2 = r2
  Req = {r1, r2}
  Arrivals <- Mixed
  Config <- Plans
  MaxTokens = 1
  MaxTime = 3
  Grace = 1
INVARIANTS WindowExact RefusedUncharged
PROPERTY NeverParked
