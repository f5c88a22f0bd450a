SPECIFICATION Spec
CONSTANTS
  Nodes = {a, b, c}
  Shards = {s, t}
  MaxCalls = 3
  ExitsApart = FALSE
SYMMETRY Alike
INVARIANTS
  QuietViewsAgree
\* Once the calls are used up and all messages handled nothing is left to do.
CHECK_DEADLOCK FALSE
