SPECIFICATION FairSpec
CONSTANTS
  a = a
  b = b
  c = c
  Nodes = {a, b, c}
  MsgIds = {1, 2}
  Source <- OnePublisher
  QueueLength = 1
  Expiry = FALSE
  MaxPops = 1
  MaxFailures = 1
PROPERTIES
  BecomesConsistent
\* A node may have nothing left to synchronize.
CHECK_DEADLOCK FALSE
