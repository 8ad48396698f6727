CONSTANTS
  c1 = c1
  c2 = c2
  Calls <- MCCalls
  MaxRetries = 2
  FailureThreshold = 2
  RecoveryTimeout = 2
SPECIFICATION Spec
INVARIANT SingleProbe
