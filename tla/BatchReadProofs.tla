--------------------------- MODULE BatchReadProofs ---------------------------
(***************************************************************************)
(* Proofs about BatchRead, for any keys, nodes, pool and concurrency.      *)
(***************************************************************************)
EXTENDS BatchRead, FiniteSetTheorems, FunctionTheorems, SequenceTheorems, TLAPS

-----------------------------------------------------------------------------
(* The inductive invariant, part by part. *)

Trying == {"try", "connect"}
Executing == {"try", "connect", "read"}

BatchTypeOK ==
  /\ caller \in {"start", "waiting", "returned"} /\ result \in {"none", "ok", "error"}
  /\ offsets \in [Nodes -> SUBSET Keys]
  /\ jobs \in Seq(Nodes)
  /\ tasks \in Nat
  /\ wpc \in [Workers -> {"free", "other", "next", "try", "connect", "read", "drain"}]
  /\ cmd \in [Workers -> Nodes \cup {NoNode}]
  /\ toRead \in [Workers -> SUBSET Keys]
  /\ failed \subseteq Nodes /\ lastErr \in BOOLEAN
  /\ record \in [Keys -> {"unread", "found", "absent"}]

\* The commands that nobody has taken.
Queued == {jobs[i] : i \in DOMAIN jobs}

\* A thread has a command while it executes it; a command is on the list once, or with
\* one thread.
OneTaker ==
  /\ \A w \in Workers : cmd[w] # NoNode <=> wpc[w] \in Executing
  /\ \A i, j \in DOMAIN jobs : jobs[i] = jobs[j] => i = j
  /\ \A w \in Workers : cmd[w] \notin Queued
  /\ \A w, x \in Workers : w # x /\ cmd[w] # NoNode => cmd[w] # cmd[x]

\* A key belongs to one command.
OneCommand == \A m, n \in Nodes : m # n => offsets[m] \cap offsets[n] = {}

\* The pool works for the batch only while the caller waits.
ScopeHolds == caller # "waiting" => tasks = 0 /\ InBatch = {}

\* A failure is remembered until batch_get returns, and decides what it returns.
ErrorKept ==
  /\ failed # {} => lastErr = TRUE
  /\ \A w \in Workers : wpc[w] = "drain" => lastErr = TRUE
  /\ caller = "start" => lastErr = FALSE /\ result = "none"
  /\ caller = "waiting" => result = "none"
  /\ caller = "returned" => result \in {"ok", "error"} /\ (result = "ok" => lastErr = FALSE)

Answered(k) == record[k] = IF k \in Present THEN "found" ELSE "absent"

\* While nothing has failed, a key without an answer is in a command on the list or
\* is still to be read by a thread.
NotForgotten ==
  caller = "waiting" /\ lastErr = FALSE =>
    \A k \in Keys : \/ Answered(k)
                    \/ \E n \in Queued : k \in offsets[n]
                    \/ \E w \in Workers : wpc[w] \in Trying /\ k \in offsets[cmd[w]]
                    \/ \E w \in Workers : wpc[w] = "read" /\ k \in toRead[w]

\* While there are commands on the list, somebody will come for them.
SomebodyComes ==
  caller = "waiting" /\ lastErr = FALSE /\ jobs # << >> => tasks > 0 \/ InBatch # {}

\* BatchInv holds whatever the concurrency; AnswerInv as soon as a task is started at all.
BatchInv == BatchTypeOK /\ OneTaker /\ OneCommand /\ ScopeHolds /\ ErrorKept
AnswerInv == NotForgotten /\ SomebodyComes /\ ResultsTrue

\* execute_batch_jobs starts at least one task for any jobs, that is, the policy is
\* not Concurrency::MaxThreads(0).
HasTask == Concurrency.mode = "MaxThreads" => Concurrency.max > 0

-----------------------------------------------------------------------------
(* The list of commands *)

\* The order in which the hash map gives up its entries has every node once.
LEMMA OrderFacts ==
  ASSUME NEW nodeFor \in [Keys -> Nodes], NEW order \in SetToSeqs(Range(nodeFor))
  PROVE  /\ order \in Seq(Nodes) /\ Len(order) \in Nat
         /\ \A i, j \in DOMAIN order : order[i] = order[j] => i = j
         /\ \A k \in Keys : \E i \in DOMAIN order : order[i] = nodeFor[k]
  <1> DEFINE S == Range(nodeFor)
             n == Cardinality(S)
  <1>1. nodeFor \in Surjection(Keys, S) /\ S \subseteq Nodes
    BY Fun_RangeProperties
  <1>2. \A k \in Keys : nodeFor[k] \in S
    BY DEF Range
  <1>3. IsFiniteSet(S)
    BY <1>1, BatchAssumption, FS_Surjection
  <1>4. n \in Nat
    BY <1>3, FS_CardinalityType
  <1>5. order \in [1 .. n -> S] /\ \A i, j \in 1 .. n : i # j => order[i] # order[j]
    BY DEF SetToSeqs
  <1> HIDE DEF S, n
  <1>6. order \in Injection(1 .. n, S)
    BY <1>5, Fun_IsInj
  <1>7. IsFiniteSet(1 .. n) /\ Cardinality(1 .. n) = n
    <2>1. IsFiniteSet(1 .. n) /\ Cardinality(1 .. n) = IF 1 > n THEN 0 ELSE n - 1 + 1
      <3>1. 1 \in Int /\ n \in Int
        BY <1>4
      <3> QED
        BY <3>1, FS_Interval
    <2> QED
      BY <2>1, <1>4
  <1>8. order \in Surjection(1 .. n, S)
    BY <1>3, <1>6, <1>7, FS_Injection DEF n
  <1>9. order \in Seq(Nodes) /\ Len(order) = n /\ DOMAIN order = 1 .. n
    BY <1>1, <1>4, <1>5
  <1>10. \A k \in Keys : \E i \in 1 .. n : order[i] = nodeFor[k]
    BY <1>2, <1>8 DEF Surjection
  <1> QED
    BY <1>4, <1>5, <1>9, <1>10

\* The next command is taken off the list.
LEMMA TakeHead ==
  ASSUME jobs \in Seq(Nodes), \A i, j \in DOMAIN jobs : jobs[i] = jobs[j] => i = j,
         jobs # << >>, jobs' = Tail(jobs)
  PROVE  /\ Head(jobs) \in Nodes /\ jobs' \in Seq(Nodes)
         /\ \A i, j \in DOMAIN jobs' : jobs'[i] = jobs'[j] => i = j
         /\ Head(jobs) \in Queued /\ Queued' = Queued \ {Head(jobs)}
  <1>1. /\ Head(jobs) \in Nodes /\ jobs' \in Seq(Nodes) /\ Len(jobs') = Len(jobs) - 1
        /\ \A i \in 1 .. Len(jobs') : jobs'[i] = jobs[i + 1]
    BY HeadTailProperties
  <1>2. /\ Len(jobs) \in Nat \ {0} /\ DOMAIN jobs = 1 .. Len(jobs)
        /\ DOMAIN jobs' = 1 .. Len(jobs') /\ Head(jobs) = jobs[1]
    BY <1>1
  <1>3. \A i, j \in DOMAIN jobs' : jobs'[i] = jobs'[j] => i = j
    <2> SUFFICES ASSUME NEW i \in DOMAIN jobs', NEW j \in DOMAIN jobs', jobs'[i] = jobs'[j]
                 PROVE  i = j
      OBVIOUS
    <2>1. /\ i + 1 \in DOMAIN jobs /\ j + 1 \in DOMAIN jobs
          /\ jobs[i + 1] = jobs[j + 1] /\ i \in Int /\ j \in Int
      BY <1>1, <1>2
    <2>2. i + 1 = j + 1
      BY <2>1
    <2> QED
      BY <2>1, <2>2
  <1>4. Head(jobs) \in Queued
    BY <1>2 DEF Queued
  <1>5. ASSUME NEW m \in Queued' PROVE m \in Queued \ {Head(jobs)}
    <2>1. PICK i \in DOMAIN jobs' : m = jobs'[i]
      BY DEF Queued
    <2>2. i + 1 \in DOMAIN jobs /\ m = jobs[i + 1] /\ i + 1 # 1 /\ 1 \in DOMAIN jobs
      BY <2>1, <1>1, <1>2
    <2> QED
      BY <2>2, <1>2 DEF Queued
  <1>6. ASSUME NEW m \in Queued, m # Head(jobs) PROVE m \in Queued'
    <2>1. PICK i \in DOMAIN jobs : m = jobs[i]
      BY DEF Queued
    <2>2. i # 1 /\ i - 1 \in DOMAIN jobs' /\ (i - 1) + 1 = i
      BY <2>1, <1>6, <1>1, <1>2
    <2>3. m = jobs'[i - 1]
      BY <2>1, <2>2, <1>1, <1>2
    <2> QED
      BY <2>2, <2>3 DEF Queued
  <1> QED
    BY <1>1, <1>3, <1>4, <1>5, <1>6

-----------------------------------------------------------------------------
USE DEF Trying, Executing

LEMMA InitBatchInv == Init => BatchInv /\ AnswerInv
  <1> SUFFICES ASSUME Init PROVE BatchInv /\ AnswerInv
    OBVIOUS
  <1>1. BatchTypeOK
    <2>1. lastErr \in BOOLEAN
      BY Zenon DEF Init
    <2> QED
      BY <2>1 DEF Init, BatchTypeOK
  <1>2. OneTaker
    BY BatchAssumption DEF Init, OneTaker, Queued
  <1>3. OneCommand /\ ScopeHolds /\ ErrorKept
    BY DEF Init, OneCommand, ScopeHolds, InBatch, ErrorKept
  <1>4. AnswerInv
    BY DEF Init, AnswerInv, NotForgotten, SomebodyComes, ResultsTrue
  <1> QED
    BY <1>1, <1>2, <1>3, <1>4 DEF BatchInv

\* The keys are distributed: every key is in one command, and every command on the
\* list.
LEMMA DistributeStep ==
  ASSUME BatchInv, Distribute
  PROVE  BatchInv' /\ (HasTask => AnswerInv')
  <1>0. PICK nodeFor \in [Keys -> Nodes] :
          /\ offsets' = [n \in Nodes |-> {k \in Keys : nodeFor[k] = n}]
          /\ \E order \in SetToSeqs(Range(nodeFor)) :
               jobs' = order /\ tasks' = TaskCount(Len(order))
    BY Zenon DEF Distribute
  <1>1. PICK order \in SetToSeqs(Range(nodeFor)) :
          /\ caller = "start" /\ caller' = "waiting"
          /\ offsets' = [n \in Nodes |-> {k \in Keys : nodeFor[k] = n}]
          /\ jobs' = order /\ tasks' = TaskCount(Len(order))
          /\ UNCHANGED <<result, wpc, cmd, toRead, lastErr, failed, record>>
    BY <1>0, Zenon DEF Distribute, execVars
  <1>2. /\ order \in Seq(Nodes) /\ Len(order) \in Nat
        /\ \A i, j \in DOMAIN order : order[i] = order[j] => i = j
        /\ \A k \in Keys : \E i \in DOMAIN order : order[i] = nodeFor[k]
    BY OrderFacts
  <1>3. tasks' \in Nat /\ (HasTask /\ jobs' # << >> => tasks' > 0)
    <2>1. jobs' # << >> => Len(order) > 0
      BY <1>1, <1>2
    <2> QED
      BY <2>1, <1>1, <1>2, BatchAssumption DEF TaskCount, HasTask
  <1>4. BatchTypeOK'
    <2>1. lastErr' \in BOOLEAN
      BY <1>1, Zenon DEF BatchInv, BatchTypeOK
    <2> QED
      BY <2>1, <1>1, <1>2, <1>3 DEF BatchInv, BatchTypeOK
  <1>5. \A w \in Workers : cmd[w] = NoNode /\ wpc[w] \in {"free", "other"}
    BY <1>1 DEF BatchInv, ScopeHolds, InBatch, OneTaker
  <1>6. OneTaker'
    <2>1. \A w \in Workers : cmd'[w] \notin Queued'
      BY <1>1, <1>2, <1>5, BatchAssumption DEF Queued
    <2> QED
      BY <2>1, <1>1, <1>2, <1>5 DEF OneTaker
  <1>7. OneCommand' /\ ScopeHolds' /\ ErrorKept'
    BY <1>1, <1>5 DEF BatchInv, OneCommand, ScopeHolds, ErrorKept
  <1>8. \A k \in Keys : \E n \in Queued' : k \in offsets'[n]
    BY <1>1, <1>2 DEF Queued
  <1>9. HasTask => AnswerInv'
    BY <1>1, <1>3, <1>8 DEF AnswerInv, NotForgotten, SomebodyComes, ResultsTrue, BatchInv, ErrorKept
  <1> QED
    BY <1>4, <1>6, <1>7, <1>9 DEF BatchInv

\* batch_get returns: at once when a key has no node, or when the pool is done.
LEMMA ReturnStep ==
  ASSUME BatchInv, NoNodeForKey \/ Return
  PROVE  BatchInv' /\ (AnswerInv => AnswerInv')
  <1>1. /\ caller' = "returned" /\ caller # "returned"
        /\ UNCHANGED <<offsets, jobs, tasks, wpc, cmd, toRead, lastErr, failed, record>>
        /\ tasks = 0 /\ InBatch = {}
        /\ \/ result' = "error"
           \/ result' = "ok" /\ lastErr = FALSE /\ caller = "waiting"
    BY Zenon DEF NoNodeForKey, Return, BatchInv, BatchTypeOK, ScopeHolds, poolVars, execVars
  <1>2. BatchTypeOK'
    <2>1. lastErr' \in BOOLEAN
      BY <1>1, Zenon DEF BatchInv, BatchTypeOK
    <2> QED
      BY <2>1, <1>1 DEF BatchInv, BatchTypeOK
  <1>3. OneTaker' /\ OneCommand'
    BY <1>1 DEF BatchInv, OneTaker, Queued, OneCommand
  <1>4. ScopeHolds' /\ ErrorKept'
    BY <1>1 DEF BatchInv, ScopeHolds, InBatch, ErrorKept
  <1>5. AnswerInv => AnswerInv'
    <2> SUFFICES ASSUME AnswerInv, result' = "ok" PROVE \A k \in Keys : Answered(k)
      BY <1>1 DEF AnswerInv, NotForgotten, SomebodyComes, ResultsTrue, Answered
    <2>1. caller = "waiting" /\ lastErr = FALSE /\ jobs = << >>
      BY <1>1 DEF AnswerInv, SomebodyComes
    <2>2. Queued = {} /\ \A w \in Workers : wpc[w] \notin Executing
      BY <2>1, <1>1 DEF Queued, InBatch
    <2> QED
      BY <2>1, <2>2 DEF AnswerInv, NotForgotten
  <1> QED
    BY <1>2, <1>3, <1>4, <1>5 DEF BatchInv

\* Steps in which a thread comes, goes, or empties the list, and executes no command.
LEMMA IdleStep ==
  ASSUME BatchInv, NEW w \in Workers,
         \/ TakeOther(w) \/ EndOther(w) \/ TakeTask(w) \/ Drain(w)
         \/ NextJob(w) /\ jobs = << >>
  PROVE  BatchInv' /\ (AnswerInv => AnswerInv')
  <1>1. /\ wpc[w] \in {"free", "other", "next", "drain"}
        /\ wpc'[w] \in {"free", "other", "next"} /\ wpc' = [wpc EXCEPT ![w] = wpc'[w]]
        /\ UNCHANGED <<caller, result, offsets, cmd, toRead, lastErr, failed, record>>
    BY DEF TakeOther, EndOther, TakeTask, Drain, NextJob, Goto, callVars, execVars, BatchInv,
       BatchTypeOK
  <1>2. /\ \/ jobs' = jobs
           \/ jobs' = << >> /\ wpc[w] = "drain"
        /\ \/ tasks' = tasks
           \/ tasks > 0 /\ tasks' = tasks - 1 /\ wpc'[w] = "next"
        /\ wpc'[w] = "next" => tasks > 0 \/ wpc[w] = "drain"
        /\ wpc[w] = "next" => jobs = << >>
    BY DEF TakeOther, EndOther, TakeTask, Drain, NextJob, Goto, poolVars, BatchInv, BatchTypeOK
  <1>3. BatchTypeOK'
    <2>1. lastErr' \in BOOLEAN
      BY <1>1, Zenon DEF BatchInv, BatchTypeOK
    <2>2. wpc' \in [Workers -> {"free", "other", "next", "try", "connect", "read", "drain"}]
      BY <1>1 DEF BatchInv, BatchTypeOK
    <2>3. jobs' \in Seq(Nodes)
      <3>1. << >> \in Seq(Nodes)
        OBVIOUS
      <3> QED
        BY <3>1, <1>2, Zenon DEF BatchInv, BatchTypeOK
    <2>4. tasks' \in Nat
      <3>1. tasks \in Nat /\ (tasks' = tasks \/ (tasks > 0 /\ tasks' = tasks - 1))
        BY <1>2, Zenon DEF BatchInv, BatchTypeOK
      <3> QED
        BY <3>1
    <2> QED
      BY <2>1, <2>2, <2>3, <2>4, <1>1 DEF BatchInv, BatchTypeOK
  <1>4. \A x \in Workers : wpc'[x] = IF x = w THEN wpc'[w] ELSE wpc[x]
    BY <1>1 DEF BatchInv, BatchTypeOK
  <1>5. OneTaker'
    <2>1. \A x \in Workers : cmd[x] # NoNode <=> wpc'[x] \in Executing
      BY <1>1, <1>4 DEF BatchInv, OneTaker
    <2>2. CASE jobs' = jobs
      BY <2>1, <2>2, <1>1 DEF BatchInv, OneTaker, Queued
    <2>3. CASE jobs' = << >>
      BY <2>1, <2>3, <1>1 DEF BatchInv, OneTaker, Queued
    <2> QED
      BY <2>2, <2>3, <1>2
  <1>6. OneCommand' /\ ErrorKept'
    BY <1>1, <1>4 DEF BatchInv, OneCommand, ErrorKept
  <1>7. ScopeHolds'
    <2> SUFFICES ASSUME caller # "waiting" PROVE tasks' = 0 /\ InBatch' = {}
      BY <1>1 DEF ScopeHolds
    <2>1. tasks = 0 /\ \A x \in Workers : wpc[x] \in {"free", "other"}
      BY DEF BatchInv, ScopeHolds, InBatch
    <2> QED
      BY <2>1, <1>1, <1>2, <1>4 DEF InBatch
  <1>8. AnswerInv => AnswerInv'
    <2> SUFFICES ASSUME AnswerInv PROVE AnswerInv'
      OBVIOUS
    <2>1. NotForgotten'
      <3> SUFFICES ASSUME caller = "waiting", lastErr = FALSE, NEW k \in Keys, ~Answered(k)
                   PROVE  \/ \E n \in Queued' : k \in offsets[n]
                          \/ \E x \in Workers : wpc'[x] \in Trying /\ k \in offsets[cmd[x]]
                          \/ \E x \in Workers : wpc'[x] = "read" /\ k \in toRead[x]
        BY <1>1 DEF NotForgotten, Answered
      <3>1. Queued' = Queued
        BY <1>2 DEF Queued, BatchInv, ErrorKept
      <3>2. \A x \in Workers : wpc[x] \in Executing => wpc'[x] = wpc[x]
        BY <1>1, <1>4
      <3> QED
        BY <3>1, <3>2 DEF AnswerInv, NotForgotten
    <2>2. SomebodyComes'
      <3> SUFFICES ASSUME caller = "waiting", lastErr = FALSE, jobs' # << >>
                   PROVE  tasks' > 0 \/ InBatch' # {}
        BY <1>1 DEF SomebodyComes
      <3>1. tasks > 0 \/ InBatch # {}
        BY <1>2 DEF AnswerInv, SomebodyComes
      <3>2. CASE tasks' = tasks
        <4>1. wpc[w] \in {"free", "other"}
          BY <1>1, <1>2 DEF BatchInv, ErrorKept
        <4> QED
          BY <4>1, <3>1, <3>2, <1>4 DEF InBatch
      <3>3. CASE wpc'[w] = "next"
        BY <3>3 DEF InBatch
      <3> QED
        BY <3>2, <3>3, <1>2
    <2>3. ResultsTrue'
      BY <1>1 DEF AnswerInv, ResultsTrue
    <2> QED
      BY <2>1, <2>2, <2>3 DEF AnswerInv
  <1> QED
    BY <1>3, <1>5, <1>6, <1>7, <1>8 DEF BatchInv

\* A thread takes the next command.
LEMMA TakeJobStep ==
  ASSUME BatchInv, NEW w \in Workers, NextJob(w), jobs # << >>
  PROVE  BatchInv' /\ (AnswerInv => AnswerInv')
  <1> DEFINE n == Head(jobs)
  <1>1. /\ wpc[w] = "next" /\ wpc' = [wpc EXCEPT ![w] = "try"]
        /\ jobs' = Tail(jobs) /\ cmd' = [cmd EXCEPT ![w] = n]
        /\ UNCHANGED <<caller, result, offsets, tasks, toRead, lastErr, failed, record>>
    BY DEF NextJob, Take, Goto, callVars, poolVars, execVars
  <1>2. /\ n \in Nodes /\ n # NoNode /\ jobs' \in Seq(Nodes)
        /\ \A i, j \in DOMAIN jobs' : jobs'[i] = jobs'[j] => i = j
        /\ n \in Queued /\ Queued' = Queued \ {n}
    BY <1>1, TakeHead, BatchAssumption DEF BatchInv, BatchTypeOK, OneTaker
  <1> HIDE DEF n
  <1>3. \A x \in Workers : /\ wpc'[x] = IF x = w THEN "try" ELSE wpc[x]
                           /\ cmd'[x] = IF x = w THEN n ELSE cmd[x]
    BY <1>1 DEF BatchInv, BatchTypeOK
  <1>4. BatchTypeOK'
    <2>1. lastErr' \in BOOLEAN
      BY <1>1, Zenon DEF BatchInv, BatchTypeOK
    <2> QED
      BY <2>1, <1>1, <1>2 DEF BatchInv, BatchTypeOK
  <1>5. OneTaker'
    BY <1>2, <1>3 DEF BatchInv, OneTaker
  <1>6. OneCommand' /\ ErrorKept'
    BY <1>1, <1>3 DEF BatchInv, OneCommand, ErrorKept
  <1>7. InBatch' = InBatch /\ w \in InBatch
    BY <1>1, <1>3 DEF InBatch
  <1>8. ScopeHolds'
    BY <1>1, <1>7 DEF BatchInv, ScopeHolds
  <1>9. AnswerInv => AnswerInv'
    <2> SUFFICES ASSUME AnswerInv PROVE AnswerInv'
      OBVIOUS
    <2>1. NotForgotten'
      <3> SUFFICES ASSUME caller = "waiting", lastErr = FALSE, NEW k \in Keys, ~Answered(k)
                   PROVE  \/ \E m \in Queued' : k \in offsets[m]
                          \/ \E x \in Workers : wpc'[x] \in Trying /\ k \in offsets[cmd'[x]]
                          \/ \E x \in Workers : wpc'[x] = "read" /\ k \in toRead[x]
        BY <1>1 DEF NotForgotten, Answered
      <3>1. CASE \E m \in Queued : k \in offsets[m]
        BY <3>1, <1>2, <1>3
      <3>2. CASE \/ \E x \in Workers : wpc[x] \in Trying /\ k \in offsets[cmd[x]]
                 \/ \E x \in Workers : wpc[x] = "read" /\ k \in toRead[x]
        BY <3>2, <1>1, <1>3
      <3> QED
        BY <3>1, <3>2 DEF AnswerInv, NotForgotten
    <2>2. SomebodyComes' /\ ResultsTrue'
      BY <1>1, <1>7 DEF AnswerInv, SomebodyComes, ResultsTrue
    <2> QED
      BY <2>1, <2>2 DEF AnswerInv
  <1> QED
    BY <1>4, <1>5, <1>6, <1>8, <1>9 DEF BatchInv

\* A command fails.
LEMMA FailStep ==
  ASSUME BatchInv, NEW w \in Workers, wpc[w] \in Executing, Fail(w),
         UNCHANGED <<caller, result, offsets, jobs, tasks, record>>
  PROVE  BatchInv' /\ (AnswerInv => AnswerInv')
  <1>1. /\ wpc' = [wpc EXCEPT ![w] = "drain"] /\ cmd' = [cmd EXCEPT ![w] = NoNode]
        /\ lastErr' = TRUE /\ failed' = failed \cup {cmd[w]} /\ cmd[w] \in Nodes
        /\ toRead' \in [Workers -> SUBSET Keys]
    BY DEF Fail, Executed, Goto, BatchInv, BatchTypeOK, OneTaker
  <1>2. \A x \in Workers : /\ wpc'[x] = IF x = w THEN "drain" ELSE wpc[x]
                           /\ cmd'[x] = IF x = w THEN NoNode ELSE cmd[x]
    BY <1>1 DEF BatchInv, BatchTypeOK
  <1>3. BatchTypeOK'
    BY <1>1 DEF BatchInv, BatchTypeOK
  <1>4. OneTaker'
    <2>1. Queued' = Queued /\ NoNode \notin Queued
      BY BatchAssumption DEF Queued, BatchInv, BatchTypeOK
    <2> QED
      BY <2>1, <1>2 DEF BatchInv, OneTaker
  <1>5. caller = "waiting" /\ InBatch' = InBatch
    BY <1>1, <1>2 DEF BatchInv, ScopeHolds, InBatch
  <1>6. OneCommand' /\ ScopeHolds' /\ ErrorKept'
    BY <1>1, <1>5 DEF BatchInv, OneCommand, ScopeHolds, ErrorKept
  <1>7. AnswerInv => AnswerInv'
    BY <1>1 DEF AnswerInv, NotForgotten, SomebodyComes, ResultsTrue
  <1> QED
    BY <1>3, <1>4, <1>6, <1>7 DEF BatchInv

LEMMA FailingStep ==
  ASSUME BatchInv, NEW w \in Workers, GiveUp(w) \/ NotPrepared(w) \/ ReadFails(w)
  PROVE  BatchInv' /\ (AnswerInv => AnswerInv')
  <1>1. /\ wpc[w] \in Executing /\ Fail(w)
        /\ UNCHANGED <<caller, result, offsets, jobs, tasks, record>>
    BY DEF GiveUp, NotPrepared, ReadFails, callVars, poolVars
  <1> QED
    BY <1>1, FailStep

\* A try that comes to nothing, and the passing of time.
LEMMA LoopStep ==
  ASSUME BatchInv, NEW w \in Workers, Iterate(w) \/ TryFails(w) \/ DeadlinePasses(w)
  PROVE  BatchInv' /\ (AnswerInv => AnswerInv')
  <1>1. UNCHANGED <<caller, result, offsets, jobs, tasks, cmd, toRead, lastErr, failed, record>>
    BY DEF Iterate, TryFails, DeadlinePasses, callVars, poolVars, execVars
  <1>2. wpc' \in [Workers -> {"free", "other", "next", "try", "connect", "read", "drain"}]
    BY DEF Iterate, TryFails, DeadlinePasses, Goto, BatchInv, BatchTypeOK
  <1>9. \A x \in Workers : wpc'[x] = wpc[x] \/ (wpc[x] \in Trying /\ wpc'[x] \in Trying)
    BY DEF Iterate, TryFails, DeadlinePasses, Goto, Trying, BatchInv, BatchTypeOK
  <1>3. InBatch' = InBatch /\ Queued' = Queued
    BY <1>1, <1>2, <1>9 DEF InBatch, Queued, Trying
  <1>4. BatchTypeOK'
    <2>1. lastErr' \in BOOLEAN
      BY <1>1, Zenon DEF BatchInv, BatchTypeOK
    <2> QED
      BY <2>1, <1>1, <1>2, <1>9 DEF BatchInv, BatchTypeOK
  <1>5. OneTaker' /\ OneCommand' /\ ScopeHolds' /\ ErrorKept'
    BY <1>1, <1>2, <1>9, <1>3 DEF BatchInv, OneTaker, OneCommand, ScopeHolds, ErrorKept, Trying, Executing
  <1>6. AnswerInv => AnswerInv'
    <2> SUFFICES ASSUME AnswerInv PROVE AnswerInv'
      OBVIOUS
    <2>1. NotForgotten'
      BY <1>1, <1>2, <1>9, <1>3 DEF AnswerInv, NotForgotten, Answered, Trying
    <2> QED
      BY <2>1, <1>1, <1>3 DEF AnswerInv, SomebodyComes, ResultsTrue
  <1> QED
    BY <1>4, <1>5, <1>6 DEF BatchInv

\* The request is sent, a record is read into its place, or the reply ends.
LEMMA ReadStep ==
  ASSUME BatchInv, NEW w \in Workers, Send(w) \/ ReadRecord(w) \/ ReadLast(w)
  PROVE  BatchInv' /\ (AnswerInv => AnswerInv')
  <1>1. /\ wpc[w] \in Executing /\ wpc'[w] \in {"read", "next"}
        /\ wpc' = [wpc EXCEPT ![w] = wpc'[w]]
        /\ toRead' = [toRead EXCEPT ![w] = toRead'[w]]
        /\ UNCHANGED <<caller, result, offsets, jobs, tasks, lastErr, failed>>
    BY DEF Send, ReadRecord, ReadLast, Executed, Goto, callVars, poolVars, BatchInv, BatchTypeOK
  <1>2. \/ /\ wpc[w] = "connect" /\ wpc'[w] = "read" /\ toRead'[w] = offsets[cmd[w]]
           /\ UNCHANGED <<cmd, record>>
        \/ /\ wpc[w] = "read" /\ wpc'[w] = "read" /\ cmd' = cmd
           /\ \E k \in toRead[w] :
                /\ record' = [record EXCEPT ![k] = IF k \in Present THEN "found" ELSE "absent"]
                /\ toRead'[w] = toRead[w] \ {k}
        \/ /\ wpc[w] = "read" /\ wpc'[w] = "next" /\ toRead[w] = {} /\ toRead'[w] = {}
           /\ cmd' = [cmd EXCEPT ![w] = NoNode] /\ record' = record
    BY DEF Send, ReadRecord, ReadLast, Executed, Goto, BatchInv, BatchTypeOK
  <1>3. /\ cmd[w] \in Nodes /\ offsets[cmd[w]] \subseteq Keys /\ toRead[w] \subseteq Keys
        /\ caller = "waiting"
    BY <1>1 DEF BatchInv, BatchTypeOK, OneTaker, ScopeHolds, InBatch
  <1>4. \A x \in Workers : /\ wpc'[x] = IF x = w THEN wpc'[w] ELSE wpc[x]
                           /\ toRead'[x] = IF x = w THEN toRead'[w] ELSE toRead[x]
                           /\ cmd'[x] = IF x = w THEN cmd'[w] ELSE cmd[x]
    BY <1>1, <1>2 DEF BatchInv, BatchTypeOK
  <1>5. BatchTypeOK'
    <2>1. lastErr' \in BOOLEAN
      BY <1>1, Zenon DEF BatchInv, BatchTypeOK
    <2>2. toRead' \in [Workers -> SUBSET Keys]
      BY <1>1, <1>2, <1>3 DEF BatchInv, BatchTypeOK
    <2>3. record' \in [Keys -> {"unread", "found", "absent"}]
      BY <1>2, <1>3 DEF BatchInv, BatchTypeOK
    <2>4. cmd' \in [Workers -> Nodes \cup {NoNode}]
      BY <1>2 DEF BatchInv, BatchTypeOK
    <2> QED
      BY <2>1, <2>2, <2>3, <2>4, <1>1 DEF BatchInv, BatchTypeOK
  <1>6. OneTaker'
    <2>1. Queued' = Queued /\ NoNode \notin Queued
      BY <1>1, BatchAssumption DEF Queued, BatchInv, BatchTypeOK
    <2>2. \/ cmd'[w] = cmd[w] /\ wpc'[w] = "read"
          \/ cmd'[w] = NoNode /\ wpc'[w] = "next"
      BY <1>2 DEF BatchInv, BatchTypeOK
    <2> QED
      BY <2>1, <2>2, <1>1, <1>3, <1>4, BatchAssumption DEF BatchInv, OneTaker
  <1>7. InBatch' = InBatch /\ w \in InBatch
    BY <1>1, <1>4 DEF InBatch
  <1>8. OneCommand' /\ ScopeHolds' /\ ErrorKept'
    BY <1>1, <1>4, <1>7 DEF BatchInv, OneCommand, ScopeHolds, ErrorKept
  <1>9. AnswerInv => AnswerInv'
    <2> SUFFICES ASSUME AnswerInv PROVE AnswerInv'
      OBVIOUS
    <2>1. NotForgotten'
      <3> SUFFICES ASSUME caller = "waiting", lastErr = FALSE, NEW k \in Keys, ~Answered(k)'
                   PROVE  \/ \E n \in Queued' : k \in offsets[n]
                          \/ \E x \in Workers : wpc'[x] \in Trying /\ k \in offsets[cmd'[x]]
                          \/ \E x \in Workers : wpc'[x] = "read" /\ k \in toRead'[x]
        BY <1>1 DEF NotForgotten
      <3>1. ~Answered(k)
        BY <1>2 DEF Answered, BatchInv, BatchTypeOK
      <3>2. Queued' = Queued
        BY <1>1 DEF Queued
      <3>3. CASE \E n \in Queued : k \in offsets[n]
        BY <3>2, <3>3
      <3>4. ASSUME NEW x \in Workers, wpc[x] \in Trying /\ k \in offsets[cmd[x]]
            PROVE  \E y \in Workers : \/ wpc'[y] \in Trying /\ k \in offsets[cmd'[y]]
                                      \/ wpc'[y] = "read" /\ k \in toRead'[y]
        BY <3>4, <1>2, <1>4
      <3>5. ASSUME NEW x \in Workers, wpc[x] = "read" /\ k \in toRead[x]
            PROVE  wpc'[x] = "read" /\ k \in toRead'[x]
        <4>1. CASE x # w
          BY <3>5, <4>1, <1>4
        <4>2. CASE x = w
          BY <3>5, <4>2, <1>2 DEF Answered, BatchInv, BatchTypeOK
        <4> QED
          BY <4>1, <4>2
      <3> QED
        BY <3>1, <3>3, <3>4, <3>5 DEF AnswerInv, NotForgotten
    <2>2. SomebodyComes' /\ ResultsTrue'
      BY <1>1, <1>3, <1>7 DEF AnswerInv, SomebodyComes, ResultsTrue, BatchInv, ErrorKept
    <2> QED
      BY <2>1, <2>2 DEF AnswerInv
  <1> QED
    BY <1>5, <1>6, <1>8, <1>9 DEF BatchInv

LEMMA StutterBatch ==
  ASSUME BatchInv, UNCHANGED vars
  PROVE  BatchInv' /\ (AnswerInv => AnswerInv')
  BY DEF vars, BatchInv, BatchTypeOK, OneTaker, Queued, OneCommand, ScopeHolds, InBatch,
         ErrorKept, AnswerInv, NotForgotten, Answered, SomebodyComes, ResultsTrue

\* Every step of the caller and of the pool.
LEMMA NextBatchInv ==
  ASSUME BatchInv, [Next]_vars
  PROVE  BatchInv' /\ (HasTask /\ AnswerInv => AnswerInv')
  <1>1. CASE Distribute
    BY <1>1, DistributeStep
  <1>2. CASE NoNodeForKey \/ Return
    BY <1>2, ReturnStep
  <1>3. ASSUME NEW w \in Workers, WorkerStep(w) \/ EndOther(w) \/ DeadlinePasses(w)
        PROVE  BatchInv' /\ (AnswerInv => AnswerInv')
    <2>1. CASE \/ TakeOther(w) \/ EndOther(w) \/ TakeTask(w) \/ Drain(w)
               \/ NextJob(w) /\ jobs = << >>
      BY <2>1, IdleStep
    <2>2. CASE NextJob(w) /\ jobs # << >>
      BY <2>2, TakeJobStep
    <2>3. CASE GiveUp(w) \/ NotPrepared(w) \/ ReadFails(w)
      BY <2>3, FailingStep
    <2>5. CASE Iterate(w) \/ TryFails(w) \/ DeadlinePasses(w)
      BY <2>5, LoopStep
    <2>4. CASE Send(w) \/ ReadRecord(w) \/ ReadLast(w)
      BY <2>4, ReadStep
    <2> QED
      BY <1>3, <2>1, <2>2, <2>3, <2>4, <2>5, Zenon DEF WorkerStep
  <1>4. CASE UNCHANGED vars
    BY <1>4, StutterBatch
  <1> QED
    BY <1>1, <1>2, <1>3, <1>4, Zenon DEF Next

-----------------------------------------------------------------------------
LEMMA BatchInvariant == Spec => []BatchInv
  <1>1. Init => BatchInv
    BY InitBatchInv
  <1>2. BatchInv /\ [Next]_vars => BatchInv'
    BY NextBatchInv
  <1> QED
    BY <1>1, <1>2, PTL DEF Spec

\* When any command of a batch has failed, batch_get returns an error, whatever the
\* other threads read after it and however the tasks of the pool are interleaved.
THEOREM BatchErrorReported == Spec => []ErrorReported
  <1>1. BatchInv => ErrorReported
    BY DEF BatchInv, ErrorKept, ErrorReported
  <1> QED
    BY <1>1, BatchInvariant, PTL

\* The use of SharedSlice is sound: two commands under way at the same time have no
\* member of the shared vector in common, for any number of threads, keys and nodes.
THEOREM BatchNoMemberShared == Spec => []NoMemberShared
  <1>1. BatchInv => NoMemberShared
    BY DEF BatchInv, BatchTypeOK, OneTaker, OneCommand, NoMemberShared
  <1> QED
    BY <1>1, BatchInvariant, PTL

\* A batch that succeeds has the true answer for every key, provided that at least one
\* task is started, which is so for every policy but Concurrency::MaxThreads(0).
THEOREM BatchResultsTrue ==
  ASSUME HasTask
  PROVE  Spec => []ResultsTrue
  <1>1. Init => BatchInv /\ AnswerInv
    BY InitBatchInv
  <1>2. BatchInv /\ AnswerInv /\ [Next]_vars => (BatchInv /\ AnswerInv)'
    BY NextBatchInv, HasTask
  <1>3. BatchInv /\ AnswerInv => ResultsTrue
    BY DEF AnswerInv
  <1> QED
    BY <1>1, <1>2, <1>3, PTL DEF Spec
=============================================================================
