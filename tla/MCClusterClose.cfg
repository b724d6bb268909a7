SPECIFICATION LiveSpec
CONSTANTS
  a1 = a1
  a2 = a2
  a3 = a3
  A = A
  B = B
  C = C
  D = D
  Addrs = {a1, a2}
  Names = {A, B}
  NamesAt <- OneEach
  Seeds <- SeedFirst
  Partitions = {p1}
  Objs <- SixObjs
  Callers = {}
  MaxChanges = 0
  MaxIndex = 0
  FailIfNotConnected = TRUE
  MayClose = TRUE
  NoNode = NoNode
  Down = Down
PROPERTIES TendStops
CHECK_DEADLOCK FALSE
