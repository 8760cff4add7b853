SPECIFICATION Spec
CONSTANTS
  a1 = a1
  a2 = a2
  g1 = g1
  App = {a1, a2}
  Progress = {g1}
  Fd = {4, 5}
  Shards = 2
  MaxOpens = 2
  Clock <- ClockReadings
  Timeouts = {1500, 5000}
  None = None
INVARIANTS
  MapExclusion
CHECK_DEADLOCK FALSE
