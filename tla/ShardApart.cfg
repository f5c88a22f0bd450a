SPECIFICATION NetworkSpec
CONSTANTS
  Nodes = {a, b, c}
  Shards <- Shard5
  MaxCalls = 3
  ExitsApart = TRUE
  Data = {1, 2}
  OneWord = {1}
  Key <- OneKey
  Policy = "hash"
  HashWidth = 100
  Ranges <- ThreeRanges
  StoresReplicas = TRUE
  MaxLost = 1
  MaxFetches = 1
  DataApart = TRUE
SYMMETRY NodesAlike
INVARIANTS
  
  QuietViewsAgree
  
  RetriesExplainCopies
  TakenByMembers
  
\* Once the calls are used up and all messages handled nothing is left to do.
CHECK_DEADLOCK FALSE
