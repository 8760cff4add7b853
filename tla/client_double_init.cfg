SPECIFICATION Spec
CONSTANTS
  p1 = p1
  p2 = p2
  t1 = t1
  t2 = t2
  l1 = l1
  l2 = l2
  Thread = {t1, t2}
  Lfd = {l1, l2}
  Path = {p1, p2}
  NoPath = NoPath
  DataDir = {p1}
  Fd = {1, 2}
  FileLen = 2
  MaxOpens = 3
  None = None
  WarmStart = FALSE
  Faults = {}
  Bypass = {}
INVARIANTS
  MercuryInitialisedOnce
\* Once MaxOpens files have been opened and closed the application is done.
CHECK_DEADLOCK FALSE
