SPECIFICATION FairSpec
CONSTANTS
  a = a
  b = b
  c = c
  Nodes = {a, b, c}
  MsgIds = {1, 2}
  Source <- TwoPublishers
  QueueLength = 1
  Expiry = TRUE
  MaxPops = 2
  MaxFailures = 1
INVARIANTS
  OwnDataStaysOut
  CausalClocks
PROPERTIES
  EventuallyReplicated
\* A node may have nothing left to synchronize.
CHECK_DEADLOCK FALSE
