SPECIFICATION FairSpec
CONSTANTS
  c1 = c1
  c2 = c2
  p1 = p1
  p2 = p2
  d1 = d1
  d2 = d2
  Caller = {c1, c2}
  Path = {p1}
  NoPath = NoPath
  Fd = {1, 2}
  Dir = {d1, d2}
  Absent = Absent
  Torn = Torn
  FileLen = 1
  MaxOpens = 2
  ReadFaults = FALSE
PROPERTIES
  SignalReachesMover
