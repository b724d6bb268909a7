----------------------------- MODULE TasksProofs -----------------------------
(***************************************************************************)
(* Proofs about Tasks, for any servers, any list of nodes that the tend    *)
(* thread makes and any timeouts.                                          *)
(***************************************************************************)
EXTENDS Tasks, TLAPS

-----------------------------------------------------------------------------
(* The inductive invariant, part by part. *)

TasksTypeOK ==
  /\ kind \in {"index", "register"}
  /\ timeout \in Timeouts
  /\ work \in [Nodes -> {"absent", "building", "ready"}]
  /\ nodes \subseteq Nodes
  /\ pc \in {"sleep", "ask", "done"}
  /\ elapsed \in 0 .. MaxTime
  /\ asking \subseteq Nodes /\ left \subseteq asking
  /\ outcome \in {"none", "Complete", "Timeout", "Error"}
  /\ lastPoll.at \in 0 .. MaxTime

\* A server that has answered "Complete": it has finished, or lists a package with a
\* longer name.
SaidComplete(n) == work[n] = "ready" \/ (kind = "register" /\ n \in lookalike)

\* The nodes that a poll has behind it have all said so, and do not take it back.
Behind == \A n \in asking \ left : SaidComplete(n)

\* After the first poll there is a sleep only when it ends within the timeout, so that a
\* poll begins within it.
PollInTime ==
  timeout # NoTimeout =>
    /\ pc = "sleep" => elapsed = 0 \/ elapsed + POLL_INTERVAL <= timeout
    /\ lastPoll.at <= timeout \/ lastPoll.at <= POLL_INTERVAL

\* Who had finished when the last poll began has finished.
Recorded == \A n \in Nodes : n \in lastPoll.finished => work[n] = "ready"

\* Why the wait has ended.
Ended ==
  /\ pc # "done" => outcome = "none"
  /\ outcome = "Complete" => left = {}
  /\ outcome = "Timeout" =>
       /\ timeout # NoTimeout /\ elapsed + POLL_INTERVAL > timeout
       /\ ~(asking \subseteq lastPoll.finished)

TasksInv == TasksTypeOK /\ Behind /\ PollInTime /\ Recorded /\ Ended

-----------------------------------------------------------------------------
LEMMA MinPair ==
  ASSUME NEW a \in Int, NEW b \in Int
  PROVE  Min({a, b}) = IF a <= b THEN a ELSE b
  <1>1. \E x \in {a, b} : \A y \in {a, b} : x <= y
    <2>1. CASE a <= b
      BY <2>1
    <2>2. CASE b <= a
      BY <2>2
    <2> QED
      BY <2>1, <2>2
  <1>2. Min({a, b}) \in {a, b} /\ \A y \in {a, b} : Min({a, b}) <= y
    BY <1>1 DEF Min
  <1> QED
    BY <1>2

LEMMA MaxPair ==
  ASSUME NEW a \in Int, NEW b \in Int
  PROVE  Max({a, b}) = IF a >= b THEN a ELSE b
  <1>1. \E x \in {a, b} : \A y \in {a, b} : x >= y
    <2>1. CASE a >= b
      BY <2>1
    <2>2. CASE b >= a
      BY <2>2
    <2> QED
      BY <2>1, <2>2
  <1>2. Max({a, b}) \in {a, b} /\ \A y \in {a, b} : Max({a, b}) >= y
    BY <1>1 DEF Max
  <1> QED
    BY <1>2

\* Time goes on, as far as the clock counts.
LEMMA LaterFacts ==
  ASSUME NEW t \in 0 .. MaxTime, NEW d \in Nat
  PROVE  Later(t, d) \in 0 .. MaxTime /\ Later(t, d) <= t + d
  <1>1. t + d \in Int /\ MaxTime \in Int
    BY TasksAssumption
  <1> QED
    BY <1>1, MinPair, TasksAssumption DEF Later

LEMMA TimeoutType ==
  ASSUME timeout \in Timeouts, timeout # NoTimeout
  PROVE  timeout \in Nat
  BY TasksAssumption

-----------------------------------------------------------------------------
LEMMA InitTasksInv == Init => TasksInv
  BY TasksAssumption DEF Init, TasksInv, TasksTypeOK, Behind, PollInTime, Recorded, Ended

\* A poll begins.
LEMMA QueryStep ==
  ASSUME TasksInv, QueryStatus
  PROVE  TasksInv'
  <1>1. /\ pc = "sleep" /\ elapsed' = Later(elapsed, POLL_INTERVAL) /\ asking' = nodes /\ left' = nodes
        /\ lastPoll' = [at |-> elapsed', finished |-> Finished]
        /\ UNCHANGED <<kind, timeout, work, lookalike, nodes>>
        /\ \/ pc' = "done" /\ outcome' = "Error"
           \/ pc' = "ask" /\ outcome' = outcome
    BY DEF QueryStatus, Return
  <1>2. /\ elapsed \in 0 .. MaxTime /\ elapsed' \in 0 .. MaxTime
        /\ elapsed' <= elapsed + POLL_INTERVAL
    BY <1>1, LaterFacts, TasksAssumption DEF TasksInv, TasksTypeOK
  <1>3. lastPoll'.at = elapsed' /\ lastPoll'.finished = Finished
    BY <1>1
  <1>4. TasksTypeOK'
    BY <1>1, <1>2, <1>3 DEF TasksInv, TasksTypeOK
  <1>5. Behind' /\ Ended'
    BY <1>1 DEF TasksInv, Behind, Ended
  <1>6. Recorded'
    BY <1>1, <1>3 DEF Recorded, Finished
  <1>7. PollInTime'
    <2> SUFFICES ASSUME timeout # NoTimeout PROVE elapsed' <= timeout \/ elapsed' <= POLL_INTERVAL
      BY <1>1, <1>3 DEF PollInTime
    <2>1. timeout \in Nat /\ POLL_INTERVAL \in Nat
      BY TimeoutType, TasksAssumption DEF TasksInv, TasksTypeOK
    <2>2. elapsed = 0 \/ elapsed + POLL_INTERVAL <= timeout
      BY <1>1 DEF TasksInv, PollInTime
    <2> QED
      BY <2>1, <2>2, <1>2
  <1> QED
    BY <1>4, <1>5, <1>6, <1>7 DEF TasksInv

\* A node answers.
LEMMA AskStep ==
  ASSUME TasksInv, NEW n \in Nodes, NEW d \in 0 .. MaxAnswer, AskNode(n, d)
  PROVE  TasksInv'
  <1>1. /\ pc = "ask" /\ n \in left /\ elapsed' = Later(elapsed, d)
        /\ UNCHANGED <<kind, timeout, work, lookalike, nodes, asking, lastPoll>>
    BY DEF AskNode
  <1>2. elapsed' \in 0 .. MaxTime
    BY <1>1, LaterFacts, TasksAssumption DEF TasksInv, TasksTypeOK
  <1>3. Status(n) \in {"Complete", "NotFound", "InProgress"}
    BY DEF Status, parse_response, FindsPackage, TasksInv, TasksTypeOK
  <1>4. \/ /\ Status(n) = "Complete" /\ left \ {n} # {} /\ left' = left \ {n}
           /\ UNCHANGED <<pc, outcome>>
        \/ /\ Status(n) = "Complete" /\ left' = {} /\ left \ {n} = {}
           /\ pc' = "done" /\ outcome' = "Complete"
        \/ left' = left /\ pc' = "done" /\ outcome' = "Error"
        \/ /\ Status(n) = "InProgress" /\ left' = left /\ timeout_elapsed(elapsed')
           /\ pc' = "done" /\ outcome' = "Timeout"
        \/ left' = left /\ ~timeout_elapsed(elapsed') /\ pc' = "sleep" /\ outcome' = outcome
    BY <1>3 DEF AskNode, Return
  <1>5. outcome = "none"
    BY <1>1 DEF TasksInv, Ended
  <1>6. TasksTypeOK'
    BY <1>1, <1>2, <1>4 DEF TasksInv, TasksTypeOK
  <1>7. Behind'
    <2>1. Status(n) = "Complete" => SaidComplete(n)
      BY DEF Status, parse_response, FindsPackage, SaidComplete, TasksInv, TasksTypeOK
    <2>2. \A m \in Nodes : SaidComplete(m)' <=> SaidComplete(m)
      BY <1>1 DEF SaidComplete
    <2>3. left' = left \/ (Status(n) = "Complete" /\ left' = left \ {n})
      BY <1>4
    <2> QED
      BY <2>1, <2>2, <2>3, <1>1 DEF TasksInv, TasksTypeOK, Behind
  <1>8. Ended'
    <2>1. Status(n) = "InProgress" => ~(asking \subseteq lastPoll.finished)
      <3>1. Status(n) = "InProgress" => work[n] # "ready"
        BY DEF Status, parse_response, FindsPackage, TasksInv, TasksTypeOK
      <3> QED
        BY <3>1, <1>1 DEF TasksInv, TasksTypeOK, Recorded
    <2> QED
      BY <2>1, <1>1, <1>4, <1>5 DEF TasksInv, Ended, timeout_elapsed
  <1>9. PollInTime'
    <2> SUFFICES ASSUME timeout # NoTimeout, pc' = "sleep" PROVE elapsed' + POLL_INTERVAL <= timeout
      BY <1>1 DEF TasksInv, PollInTime
    <2>1. timeout \in Nat /\ POLL_INTERVAL \in Nat
      BY TimeoutType, TasksAssumption DEF TasksInv, TasksTypeOK
    <2>2. ~(elapsed' + POLL_INTERVAL > timeout)
      BY <1>1, <1>4 DEF timeout_elapsed
    <2>3. elapsed' \in Int
      BY <1>2, TasksAssumption
    <2>4. \A e \in Int, p \in Nat, t \in Nat : ~(e + p > t) => e + p <= t
      OBVIOUS
    <2> QED
      BY <2>1, <2>2, <2>3, <2>4, Zenon
  <1>10. Recorded'
    BY <1>1 DEF TasksInv, Recorded
  <1> QED
    BY <1>6, <1>7, <1>8, <1>9, <1>10 DEF TasksInv

\* What does not concern the clock: a poll that fails, the servers and the tend thread.
LEMMA OtherStep ==
  ASSUME TasksInv, \/ InfoFails \/ (\E n \in Nodes : Progress(n) \/ Tend(n))
                   \/ UNCHANGED vars
  PROVE  TasksInv'
  <1>1. /\ UNCHANGED <<kind, timeout, lookalike, elapsed, asking, left, lastPoll>>
        /\ \/ UNCHANGED <<pc, outcome>>
           \/ pc' = "done" /\ outcome' = "Error"
    BY DEF InfoFails, Progress, Tend, Return, caller, vars
  <1>2. /\ nodes' \subseteq Nodes /\ work' \in [Nodes -> {"absent", "building", "ready"}]
        /\ \A m \in Nodes : work[m] = "ready" => work'[m] = "ready"
    BY DEF InfoFails, Progress, Tend, vars, TasksInv, TasksTypeOK
  <1>3. TasksTypeOK'
    BY <1>1, <1>2 DEF TasksInv, TasksTypeOK
  <1>4. Behind'
    BY <1>1, <1>2 DEF TasksInv, TasksTypeOK, Behind, SaidComplete
  <1>5. PollInTime' /\ Ended'
    BY <1>1 DEF TasksInv, PollInTime, Ended
  <1>6. Recorded'
    BY <1>1, <1>2 DEF TasksInv, Recorded
  <1> QED
    BY <1>3, <1>4, <1>5, <1>6 DEF TasksInv

LEMMA NextTasksInv == TasksInv /\ [Next]_vars => TasksInv'
  BY QueryStep, AskStep, OtherStep, Zenon DEF Next

\* What wait_till_complete returns is so, for any servers, timeouts and length of a sleep:
\* Complete after all the nodes it asked have finished, or name a longer package; Timeout only
\* when a node had not finished at the last poll and less than a sleep is left of the timeout;
\* and every poll but the first begins within the timeout.
THEOREM TasksOutcomeJustified == Spec => []OutcomeJustified
  <1>1. TasksInv => OutcomeJustified
    <2> SUFFICES ASSUME TasksInv PROVE OutcomeJustified
      OBVIOUS
    <2>1. outcome = "Complete" =>
            \A n \in asking : work[n] = "ready" \/ (kind = "register" /\ n \in lookalike)
      BY DEF TasksInv, Behind, SaidComplete, Ended
    <2>2. timeout # NoTimeout => timeout \in Nat /\ POLL_INTERVAL \in Nat
      BY TimeoutType, TasksAssumption DEF TasksInv, TasksTypeOK
    <2>3. elapsed \in Nat /\ lastPoll.at \in Nat
      BY TasksAssumption DEF TasksInv, TasksTypeOK
    <2>4. timeout # NoTimeout => lastPoll.at <= Max({timeout, POLL_INTERVAL})
      <3> SUFFICES ASSUME timeout # NoTimeout PROVE lastPoll.at <= Max({timeout, POLL_INTERVAL})
        OBVIOUS
      <3>1. lastPoll.at <= timeout \/ lastPoll.at <= POLL_INTERVAL
        BY DEF TasksInv, PollInTime
      <3>2. Max({timeout, POLL_INTERVAL}) = IF timeout >= POLL_INTERVAL THEN timeout ELSE POLL_INTERVAL
        BY <2>2, MaxPair
      <3> QED
        BY <2>2, <2>3, <3>1, <3>2
    <2>5. ASSUME outcome = "Timeout"
          PROVE  ~(asking \subseteq lastPoll.finished) /\ elapsed > timeout - POLL_INTERVAL
      <3>1. timeout # NoTimeout /\ elapsed + POLL_INTERVAL > timeout /\ ~(asking \subseteq lastPoll.finished)
        BY <2>5 DEF TasksInv, Ended
      <3> QED
        BY <3>1, <2>2, <2>3
    <2> QED
      BY <2>1, <2>4, <2>5 DEF OutcomeJustified
  <1> QED
    BY <1>1, InitTasksInv, NextTasksInv, PTL DEF Spec
=============================================================================
