SPECIFICATION Spec
CONSTANTS
  r1 = r1
  r2 = r2
  r3 = r3
  r4 = r4
  Requests <- Three
  Kind <- AllRpc
  IdCount = 5
  RequestSize = 3
  ResponseSize = 3
  QueueMax = 3
  MaxTrials = 3
  MaxFound = 0
  SendsInTurn = TRUE
  InOrder = TRUE
SYMMETRY Alike
INVARIANTS
  TypeOK
  AnswersMatch
  
  ReadyAnswerIsRead
\* Once every request has returned nothing is left to do.
CHECK_DEADLOCK FALSE
