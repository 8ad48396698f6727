\* Two concurrent calls with two attempts each; two failures open the breaker
\* for two units of time; the server fails and recovers at will.
CONSTANTS
  c1 = c1
  c2 = c2
  Calls <- MCCalls
  MaxRetries = 2
  FailureThreshold = 2
  RecoveryTimeout = 2
SPECIFICATION FairSpec
INVARIANT TypeOK
INVARIANT FailClosed
INVARIANT DenialJustified
INVARIANT BreakerTracksOutcomes
INVARIANT TrickleBounded
PROPERTY CallsReturn
PROPERTY BreakerRecovers
