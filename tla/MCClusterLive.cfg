SPECIFICATION LiveSpec
CONSTANTS
  a1 = a1
  a2 = a2
  a3 = a3
  A = A
  B = B
  C = C
  D = D
  Addrs = {a1, a2, a3}
  Names = {A, B, C, D}
  NamesAt <- OneReplaced
  Seeds <- SeedTwo
  Partitions = {p1}
  Objs <- SixObjs
  Callers = {}
  MaxChanges = 2
  MaxIndex = 0
  FailIfNotConnected = TRUE
  MayClose = TRUE
  NoNode = NoNode
  Down = Down
PROPERTIES MappedNodeKept   
CHECK_DEADLOCK FALSE
