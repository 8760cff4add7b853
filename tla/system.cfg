SPECIFICATION FairSpec
CONSTANTS
  t1 = t1
  t2 = t2
  l1 = l1
  l2 = l2
  p1 = p1
  d1 = d1
  Thread = {t1, t2}
  Lfd = {l1, l2}
  Path = {p1}
  NoPath = NoPath
  DataDir = {p1}
  Fd = {1, 2}
  FileLen = 1
  MaxOpens = 2
  None = None
  WarmStart = TRUE
  Faults = {}
  Bypass = {}
  Dir = {d1}
  Absent = Absent
  Torn = Torn
  ReadFaults = FALSE
INVARIANTS
  ReadsReturnTheFile
  DescriptorsAccounted
  NoDescriptorAbort
PROPERTIES
  LibrarySeesFileService
  ServerSeesCallers
  EveryCallReturns
  MoverSettles
