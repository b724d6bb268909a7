\* Two workers and two consumers, with as many places in the queue as workers.
CONSTANTS
  n1 = n1
  n2 = n2
  Nodes = {n1, n2}
  Consumers = {c1, c2}
  Stream <- MixedStream
  RecordQueueSize = 2
  Faults = {"send", "header", "body"}
  UserMayClose = TRUE
  None = None
SPECIFICATION LiveSpec
INVARIANTS
  TypeOK
  CountExact
  QueueBounded
  AtMostOnce
  NothingLost
PROPERTIES
  StreamEnds
  PushEventuallySucceeds
CHECK_DEADLOCK FALSE
