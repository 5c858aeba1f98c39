SPECIFICATION RetrySpec
CONSTANTS
  t1 = t1  t2 = t2  t3 = t3  t4 = t4
  NoToken = NoToken
  Token = {t1, t2, t3, t4}
  Failover = TRUE
  MaxRetries = 2
  MaxCallouts = 3
  Changes = {"claude"}
INVARIANT SentSoundly
PROPERTY NeverParked
