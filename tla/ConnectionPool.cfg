\* Shares of 3 and 2.  put_back keeps a connection only while the queue has room beyond
\* it, so two connections can wait in the first queue, where the order in which they
\* are taken matters, and one in the second, which two threads can fill up for the
\* third.  Three sockets: what fills the second queue, and one more.
CONSTANTS
  Threads = {t1, t2, t3}
  TendThread = t1
  Conns = {c1, c2, c3}
  NoConn = NoConn
  MaxConnsPerNode = 5
  ConnPoolsPerNode = 2
SPECIFICATION LiveSpec
INVARIANTS
  TypeOK
  Accounting
  WithinCapacity
  OneOwner
  NoSocketLeak
  SocketsBounded
PROPERTIES
  ImplementsBoundedPool
  ExpiredConnsGo
  GetReturns
CHECK_DEADLOCK FALSE
