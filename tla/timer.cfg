SPECIFICATION Spec
CONSTANTS
  t1 = t1
  t2 = t2
  k1 = k1
  k2 = k2
  Thread = {t1, t2}
  Tag = {k1, k2}
  Duration = {1, 3}
  None = None
  MaxCalls = 2
SYMMETRY Symmetry
INVARIANTS
  TypeOK
  SummaryIsSnapshot
  HistoryMatchesCalls
