SPECIFICATION Spec
CONSTANTS
  w1 = w1  w2 = w2  w3 = w3
  Worker = {w1, w2, w3}
  Turns = 2
  Caller <- Ann
  Config <- WithTokens
  MaxTokens = 1
  MaxRetries = 2
  Established <- Requests
  Faulty <- Tokens
  MaxTime = 2
  Grace = 1
SYMMETRY Symmetry
INVARIANT QuotaHeld
PROPERTY NeverStarved
