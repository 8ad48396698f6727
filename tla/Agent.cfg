\* An agent with two servers it may depend on.
CONSTANTS
  n1 = n1
  n2 = n2
  NoName = NoName
  Names = {n1, n2}
SPECIFICATION FairSpec
INVARIANT ReportedTruthfully
INVARIANT LeavesNothing
INVARIANT UnlistedFirst
PROPERTY LifespanMoves
CHECK_DEADLOCK FALSE
