\* Three keys on up to three nodes, two tasks on a pool of two threads, both of which
\* tasks of scans or queries ahead of them in its queue can hold at first.
CONSTANTS
  Keys = {k1, k2, k3}
  Present = {k1, k2}
  Nodes = {n1, n2, n3}
  Workers = {w1, w2}
  Others = 2
  Concurrency <- TwoThreads
  NoLimit = NoLimit
  Policies <- MCPolicies
  NoNode = NoNode
SPECIFICATION LiveSpec
INVARIANTS ResultsTrue ErrorReported NoMemberShared
PROPERTY BatchReturns
CHECK_DEADLOCK FALSE
