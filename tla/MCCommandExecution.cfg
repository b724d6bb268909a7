\* One command of each kind; two sockets; one retry, or no limit and a timeout.
CONSTANTS
  t1 = t1
  t2 = t2
  t3 = t3
  Threads = {t1, t2, t3}
  Kind <- MCKind
  Conns = {c1, c2}
  NoConn = NoConn
  Limit = 2
  NoLimit = NoLimit
  MaxRetries <- MCMaxRetries
  Timed = {t1, t2}
SPECIFICATION LiveSpec
INVARIANTS
  AppliedAtMostOnce
  OutcomeTellsApplied
  OwnReply
  PooledInStep
PROPERTY Returns
CHECK_DEADLOCK FALSE
