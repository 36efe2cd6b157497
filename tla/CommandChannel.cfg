SPECIFICATION FairSpec
\* The client may make no more operations when MaxOps are made.
CHECK_DEADLOCK FALSE
CONSTANTS
  MaxOps = 3
  MaxWire = 1
  SpuriousWakeup = FALSE
INVARIANTS
  NoLockCycle
  AnswerMatchesQuery
  AnsweredRequestSucceeds
PROPERTIES
  OperationReturns
