SPECIFICATION FairSpec
CONSTANTS
  p1 = p1
  p2 = p2
  t1 = t1
  t2 = t2
  l1 = l1
  l2 = l2
  Thread = {t1, t2}
  Lfd = {l1, l2}
  Path = {p1}
  NoPath = NoPath
  DataDir = {p1}
  Fd = {1}
  FileLen = 1
  MaxOpens = 2
  None = None
  WarmStart = TRUE
  Faults = {"forward", "race"}
  Bypass = {"lseek", "fclose"}
INVARIANTS
  CallbackTargetsLive
  RemoteDescriptorsOwned
PROPERTIES
  EveryCallReturns
\* Once MaxOpens files have been opened and closed the application is done.
CHECK_DEADLOCK FALSE
