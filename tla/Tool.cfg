\* Two calls of two tools over one Redis.
CONSTANTS
  c1 = c1
  c2 = c2
  t1 = t1
  t2 = t2
  short = short
  long = long
  None = None
  Calls = {c1, c2}
  Requests <- MCRequests
  Trimmed <- MCTrimmed
  CacheOutside = {t1}
  Ttl = 1
  RedisTimeout = 1
  RedisDelay = 1
  MaxLate = 1
  FailureThreshold = 2
  RecoveryTimeout = 1
SPECIFICATION Spec
SYMMETRY CallSymmetry
INVARIANT TypeOK
INVARIANT ResultsAuthorized
INVARIANT ErrorsHaveCause
INVARIANT StaleBounded
