\* Two callers; a server with two addresses, and one that may be replaced.
SPECIFICATION Spec
CONSTANTS
  a1 = a1
  a2 = a2
  a3 = a3
  A = A
  B = B
  C = C
  D = D
  Addrs = {a1, a2, a3}
  Names = {A, B, C}
  NamesAt <- TwoHomed
  Seeds <- SeedFirst
  Partitions = {p1}
  Objs <- SixObjs
  Callers = {c1, c2}
  MaxChanges = 2
  MaxIndex = 5
  FailIfNotConnected = FALSE
  MayClose = FALSE
  NoNode = NoNode
  Down = Down
INVARIANTS UniqueNames AliasesKnown RandomFindsActive
SYMMETRY Interchangeable
