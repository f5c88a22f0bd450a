SPECIFICATION FairSpec
CONSTANTS
  r1 = r1
  r2 = r2
  r3 = r3
  r4 = r4
  Requests <- Four
  Kind <- Mixed
  IdCount = 5
  RequestSize = 2
  ResponseSize = 1
  QueueMax = 1
  MaxTrials = 1
  MaxFound = 1
  SendsInTurn = TRUE
  InOrder = FALSE
INVARIANTS
  
  AnsweredAtMostOnce
PROPERTIES
  EveryQueryReturns
\* Once every request has returned nothing is left to do.
CHECK_DEADLOCK FALSE
