\* Fair scheduling of one lookup and the refresh task, two versions of the service.
CONSTANTS
  i1 = i1
  i2 = i2
  n1 = n1
  v1 = v1
  v2 = v2
  Names = {n1}
  Versions = {v1, v2}
  Lookups = {i1}
  Refresh = 1
  StaleMax = 2
  RequestTimeout = 1
  FailureThreshold = 1
  RecoveryTimeout = 1
  NoEntry = NoEntry
  Gone = Gone
  Garbled = Garbled
SPECIFICATION FairSpec
PROPERTY LookupsEnd
PROPERTY CacheConverges
