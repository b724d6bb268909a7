\* The consumer closes the recordset in the middle of the replies.
CONSTANTS
  n1 = n1
  n2 = n2
  Nodes = {n1, n2}
  Consumers = {c1}
  Stream <- PlainStream
  RecordQueueSize = 2
  Faults = {}
  UserMayClose = TRUE
  None = None
SPECIFICATION Spec
INVARIANTS ClosedStreamNotPooled
CHECK_DEADLOCK FALSE
