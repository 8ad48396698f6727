\* One task calls connect() while another is inside disconnect().
CONSTANTS
  l1 = l1
  l2 = l2
  a1 = a1
  a2 = a2
  t1 = t1
  Loops = {l1, l2}
  Callers = {a1, a2}
  Tools = {t1}
  NoLoop = NoLoop
  Closed = Closed
  MaxDelay = 1
  Overlap = TRUE
SPECIFICATION FairSpec
PROPERTY DisconnectEndsUnlessCancelled
