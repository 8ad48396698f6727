\* One bridge connected, disconnected and connected again by two tasks, with
\* one tool task; the delays are capped at 2 slices instead of 60.
CONSTANTS
  l1 = l1
  l2 = l2
  a1 = a1
  a2 = a2
  t1 = t1
  Loops = {l1, l2}
  Callers = {a1, a2}
  Tools = {t1}
  NoLoop = NoLoop
  Closed = Closed
  MaxDelay = 2
  Overlap = FALSE
SPECIFICATION FairSpec
INVARIANT TypeOK
INVARIANT SessionHasOwner
INVARIANT NoOrphanLoop
INVARIANT CallsUsePublishedSession
PROPERTY DisconnectStops
PROPERTY NoAttemptAfterStop
PROPERTY DisconnectEnds
PROPERTY Reconnects
PROPERTY InvocationsReturn
PROPERTY ImplementsContract
