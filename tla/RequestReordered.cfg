SPECIFICATION Spec
CONSTANTS
  r1 = r1
  r2 = r2
  r3 = r3
  r4 = r4
  Requests <- Two
  Kind <- AllRpc
  IdCount = 5
  RequestSize = 5
  ResponseSize = 5
  QueueMax = 3
  MaxTrials = 1
  MaxFound = 0
  SendsInTurn = TRUE
  InOrder = FALSE
SYMMETRY Alike
INVARIANTS
  AnswersMatch
\* Once every request has returned nothing is left to do.
CHECK_DEADLOCK FALSE
