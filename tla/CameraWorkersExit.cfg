SPECIFICATION FairSpec
\* The node is gone and nothing is left to do.
CHECK_DEADLOCK FALSE
CONSTANTS
  r1 = r1
  r2 = r2
  Requests = {r1, r2}
  MaxSettings = 0
  Prompt = TRUE
  SpuriousWakeup = FALSE
  MaxQueue = 2
PROPERTIES
  DestructorReturns
