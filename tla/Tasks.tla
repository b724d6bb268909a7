-------------------------------- MODULE Tasks --------------------------------
(***************************************************************************)
(* Waiting for a task that the servers carry out on their own              *)
(* (task/task.rs, task/index_task.rs, task/register_task.rs): the client   *)
(* sleeps, asks the nodes it knows one after the other, and sleeps again,  *)
(* while the servers go on and the tend thread changes the list of nodes.  *)
(***************************************************************************)
EXTENDS Integers, FiniteSets, FiniteSetsExt

CONSTANTS
  Nodes,            \* the servers
  FirstNodes,       \* those that the client knows at first
  Timeouts,         \* the timeouts that a caller may give; NoTimeout is one of none
  NoTimeout,
  POLL_INTERVAL,    \* the length of a sleep, in the ticks of the clock
  MaxAnswer,        \* the longest that an answer takes, and the thread until it runs again
  MaxTime           \* where the clock stops counting

ASSUME TasksAssumption ==
  /\ FirstNodes \subseteq Nodes
  /\ POLL_INTERVAL \in Nat \ {0} /\ MaxAnswer \in Nat /\ MaxTime \in Nat
  /\ Timeouts \subseteq 0 .. MaxTime - 1 \cup {NoTimeout}

VARIABLES
  kind,             \* "index" or "register"
  timeout,          \* the argument of wait_till_complete
  work,             \* how far the task is on each server
  lookalike,        \* servers with a package whose name only begins with the one registered
  nodes,            \* Cluster::nodes
  pc, elapsed, asking, left, outcome,
  lastPoll          \* when the last poll began and who had finished then; the code keeps neither

vars == <<kind, timeout, work, lookalike, nodes, pc, elapsed, asking, left, outcome, lastPoll>>
caller == <<kind, timeout, pc, elapsed, asking, left, outcome, lastPoll>>

Finished == {n \in Nodes : work[n] = "ready"}

Later(t, d) == Min({t + d, MaxTime})
-----------------------------------------------------------------------------
Init ==
  /\ kind \in {"index", "register"}
  /\ timeout \in Timeouts
  /\ work \in [Nodes -> {"absent", "building"}]
  /\ lookalike \in {{}} \cup {{n} : n \in Nodes}
  /\ nodes = FirstNodes
  /\ pc = "sleep"
  /\ elapsed = 0
  /\ asking = {}
  /\ left = {}
  /\ outcome = "none"
  /\ lastPoll = [at |-> 0, finished |-> {}]

Return(o) == pc' = "done" /\ outcome' = o

QueryStatus_ResetsClock ==
  /\ pc = "sleep"
  /\ elapsed' = POLL_INTERVAL
  /\ asking' = nodes
  /\ left' = nodes
  /\ lastPoll' = [at |-> elapsed', finished |-> Finished]
  /\ IF nodes = {} THEN Return("Error") ELSE pc' = "ask" /\ UNCHANGED outcome
  /\ UNCHANGED <<kind, timeout, work, lookalike, nodes>>

\* The end of the sleep, and the beginning of query_status.
QueryStatus ==
  /\ pc = "sleep"
  /\ elapsed' = Later(elapsed, POLL_INTERVAL)
  /\ asking' = nodes
  /\ left' = nodes
  /\ lastPoll' = [at |-> elapsed', finished |-> Finished]
  /\ IF nodes = {} THEN Return("Error") ELSE pc' = "ask" /\ UNCHANGED outcome
  /\ UNCHANGED <<kind, timeout, work, lookalike, nodes>>

\* What a server's answer is taken for.  "sindex/<namespace>/<index>" is answered with an
\* error code or with load_pct; in "udf-list" the name is looked for as a text.
parse_response(n) ==
  CASE work[n] = "absent" -> "NotFound"
    [] work[n] = "building" -> "InProgress"
    [] work[n] = "ready" -> "Complete"

FindsPackage(n) == IF work[n] = "ready" \/ n \in lookalike THEN "Complete" ELSE "InProgress"

Status(n) == IF kind = "index" THEN parse_response(n) ELSE FindsPackage(n)

timeout_elapsed_Late(now) == timeout # NoTimeout /\ now > timeout
timeout_elapsed(now) == timeout # NoTimeout /\ now + POLL_INTERVAL > timeout

\* An answer of node n, which takes d.  The first node that is not done ends the poll.
AskNode(n, d) ==
  /\ pc = "ask"
  /\ n \in left
  /\ elapsed' = Later(elapsed, d)
  /\ LET rest == left \ {n} IN
     CASE Status(n) = "Complete" /\ rest # {} -> left' = rest /\ UNCHANGED <<pc, outcome>>
       [] Status(n) = "Complete" /\ rest = {} -> left' = rest /\ Return("Complete")
       [] Status(n) = "NotFound" -> Return("Error") /\ UNCHANGED left
       [] Status(n) = "InProgress" ->
            /\ IF timeout_elapsed(elapsed') THEN Return("Timeout") ELSE pc' = "sleep" /\ UNCHANGED outcome
            /\ UNCHANGED left
  /\ UNCHANGED <<kind, timeout, work, lookalike, nodes, asking, lastPoll>>

\* No connection, no answer, an answer without the command or with something else in it.
InfoFails ==
  /\ pc = "ask"
  /\ Return("Error")
  /\ UNCHANGED <<kind, timeout, work, lookalike, nodes, elapsed, asking, left, lastPoll>>
-----------------------------------------------------------------------------
(* The servers, and the tend thread. *)

Progress(n) ==
  /\ work[n] # "ready"
  /\ work' = [work EXCEPT ![n] = IF @ = "absent" THEN "building" ELSE "ready"]
  /\ UNCHANGED <<caller, lookalike, nodes>>

Tend(n) ==
  /\ nodes' = IF n \in nodes THEN nodes \ {n} ELSE nodes \cup {n}
  /\ UNCHANGED <<caller, work, lookalike>>

Next ==
  \/ QueryStatus
  \/ \E n \in Nodes : \E d \in 0 .. MaxAnswer : AskNode(n, d)
  \/ InfoFails
  \/ \E n \in Nodes : Progress(n)
  \/ \E n \in Nodes : Tend(n)

Spec == Init /\ [][Next]_vars

Waits == QueryStatus \/ InfoFails \/ \E n \in Nodes : \E d \in 0 .. MaxAnswer : AskNode(n, d)

\* The waiting thread runs.  Only a caller without a timeout relies on the servers.
Fairness ==
  /\ WF_vars(Waits)
  /\ timeout = NoTimeout => \A n \in Nodes : WF_vars(Progress(n))

LiveSpec == Spec /\ Fairness
-----------------------------------------------------------------------------
\* What wait_till_complete returns is so.  Complete: all the nodes it asked have finished,
\* unless a package with a longer name was taken for the one registered (udf-list is searched
\* for a text).  Timeout: a node it asked had not finished when the last poll began, and
\* another poll would begin after the timeout; so it gives up before the timeout, but by less
\* than a sleep.  And every poll but the first one begins within the timeout.
\* (Task::wait_till_complete; its documentation says that the timeout has elapsed.)
OutcomeJustified ==
  /\ outcome = "Complete" => \A n \in asking : work[n] = "ready" \/ (kind = "register" /\ n \in lookalike)
  /\ outcome = "Timeout" =>
       /\ ~(asking \subseteq lastPoll.finished)
       /\ elapsed > timeout - POLL_INTERVAL
  /\ timeout # NoTimeout => lastPoll.at <= Max({timeout, POLL_INTERVAL})

\* A wait ends: by the timeout, however slow the servers are, or without one because they
\* finish, although nodes come and go meanwhile (Task::wait_till_complete).
WaitEnds == <>(pc = "done")
=============================================================================
