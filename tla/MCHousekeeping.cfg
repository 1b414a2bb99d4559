CONSTANTS
  s1 = s1
  s2 = s2
  Sid = {s1, s2}
  MaxDefinitions <- MCMaxDefinitions
  ElementSizes <- MCElementSizes
  NElements <- MCNElements
  HK_INTERV_FACTOR = 2
  Interval = {3}
  Predefined = s1
  PredefinedInterval = 2
  GapBound = 4
  Free = Free
SPECIFICATION Spec
INVARIANTS TypeOK PoolMatchesMaps NotLate
PROPERTIES ReportsApart
CHECK_DEADLOCK FALSE
