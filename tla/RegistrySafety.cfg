\* Two concurrent lookups and the refresh task.
CONSTANTS
  i1 = i1
  i2 = i2
  n1 = n1
  v1 = v1
  v2 = v2
  Names = {n1}
  Versions = {v1}
  Lookups = {i1, i2}
  Refresh = 1
  StaleMax = 2
  RequestTimeout = 1
  FailureThreshold = 2
  RecoveryTimeout = 1
  NoEntry = NoEntry
  Gone = Gone
  Garbled = Garbled
SPECIFICATION Spec
SYMMETRY RegistrySymmetry
INVARIANT TypeOK
INVARIANT BoundedStaleness
PROPERTY StaleOnlyInOutage
