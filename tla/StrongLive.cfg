SPECIFICATION FairSpec
CONSTANTS
  a = a
  b = b
  c = c
  d = d
  Nodes <- FourNodes
  MsgIds <- OneMessage
  Source <- OnePublisher
  ConsensusAll = TRUE
  MinPeers = 2
  QueueLength = 1
  MaxCapacity = 2
  Expiry = FALSE
  QueriesMayFail = FALSE
  Cloning = FALSE
  MaxClock = 1
  MaxChurn = 0
INVARIANTS
  QuorumHolds
  
PROPERTIES
  PromiseSpec
  UncountedEventuallyReleased
\* Once every message has been handled nothing is left to do.
CHECK_DEADLOCK FALSE
