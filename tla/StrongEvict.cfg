SPECIFICATION Spec
CONSTANTS
  a = a
  b = b
  c = c
  d = d
  Nodes <- ThreeNodes
  MsgIds <- TwoMessages
  Source <- OnePublisher
  ConsensusAll = FALSE
  MinPeers = 2
  QueueLength = 1
  MaxCapacity = 2
  Expiry = TRUE
  QueriesMayFail = FALSE
  Cloning = FALSE
  MaxClock = 2
  MaxChurn = 0
SYMMETRY Receivers3
INVARIANTS
  QueueBounded

  
\* Once every message has been handled nothing is left to do.
CHECK_DEADLOCK FALSE
