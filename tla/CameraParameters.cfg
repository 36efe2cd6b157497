SPECIFICATION FairSpec
\* The process may end, or nothing may be left to set.
CHECK_DEADLOCK FALSE
CONSTANTS
  w1 = w1
  w2 = w2
  Workers <- MCWorkers
  Starts <- MCStarts
  MaxSets = 2
INVARIANTS
  NeverBothExposures
  CameraGetsValidValues
PROPERTIES
  SetAsideIsKept
