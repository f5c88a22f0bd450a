SPECIFICATION Spec
CONSTANTS
  a = a
  b = b
  c = c
  d = d
  Nodes <- ThreeNodes
  MsgIds <- OneMessage
  Source <- OnePublisher
  ConsensusAll = TRUE
  MinPeers = 2
  QueueLength = 1
  MaxCapacity = 1
  Expiry = FALSE
  QueriesMayFail = TRUE
  Cloning = TRUE
  MaxClock = 1
  MaxChurn = 2
SYMMETRY Receivers3
INVARIANTS
  TypeOK
  ConfirmationsAreReal
\* Once every message has been handled nothing is left to do.
CHECK_DEADLOCK FALSE
