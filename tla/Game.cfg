SPECIFICATION Spec
CONSTANTS
  a = a
  b = b
  Nodes = {a, b}
  Given <- MCGiven
  Files <- MCFiles
  FileUsers <- MCFileUsers
  MinPort = 1000
  MaxPort = 65535
  MaxStarts = 2
  DefaultNetworkId = "default"
  NetworkIds <- MCNetworkIds
  PingPolicies <- MCPingPolicies
  Allows <- GossipFilter
  MaxQueue = 3
  MaxNoise = 2
  GameNoise = 0
  HighScore = 1
  Guesses = {1, 2}
  FilterLimit = 1
  MaxRounds = 2
INVARIANTS
  TypeOK
  NewerThanHandled
  ConnectionEventsTell
  
  ScoreEarned
  LoserHasWinner
  ToldHasLost
PROPERTIES IdentityKept
\* A game ends, and its nodes start no other.
CHECK_DEADLOCK FALSE
