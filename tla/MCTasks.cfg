\* Two nodes known at first and one that may join.  A sleep takes two ticks and an answer up
\* to one; the timeouts are shorter than a sleep, between two and three sleeps, and none.
CONSTANTS
  Nodes = {n1, n2, n3}
  FirstNodes = {n1, n2}
  Timeouts = {0, 5, NoTimeout}
  NoTimeout = NoTimeout
  POLL_INTERVAL = 2
  MaxAnswer = 1
  MaxTime = 7
SPECIFICATION LiveSpec
INVARIANTS OutcomeJustified
PROPERTY WaitEnds
CHECK_DEADLOCK FALSE
