SPECIFICATION FairSpec
CONSTANTS
  a = a
  b = b
  c = c
  d = d
  Nodes <- ThreeNodes
  MsgIds <- OneMessage
  Source <- OnePublisher
  ConsensusAll = TRUE
  MinPeers = 2
  QueueLength = 1
  MaxCapacity = 1
  Expiry = FALSE
  QueriesMayFail = FALSE
  Cloning = FALSE
  MaxClock = 1
  MaxChurn = 0
PROPERTIES
  ReceivedEventuallyReleased
\* Once every message has been handled nothing is left to do.
CHECK_DEADLOCK FALSE
