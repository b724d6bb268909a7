------------------------------ MODULE BatchRead ------------------------------
(***************************************************************************)
(* Client::batch_get (batch/batch_executor.rs, batch_read_command.rs): the *)
(* keys are grouped by node, one command per node goes on a shared list of *)
(* jobs, and tasks on the client's thread pool take jobs off that list     *)
(* until it is empty.  All commands write the records they read into one   *)
(* vector, SharedSlice, which has no lock: it relies on every member being *)
(* touched by one thread only.                                             *)
(*                                                                         *)
(* The job list and last_err are behind mutexes; a step is one critical    *)
(* section, or one exchange with a server.  The pool is shared with the    *)
(* scans and queries of the client.                                        *)
(***************************************************************************)
EXTENDS Integers, Sequences, FiniteSets, SequencesExt

CONSTANTS
  Keys,         \* indexes of the batch reads
  Present,      \* the keys that have a record on the server
  Nodes,        \* the nodes the keys may be mapped to
  Workers,      \* threads of the pool
  Others,       \* tasks of scans and queries ahead in the pool's queue
  Concurrency,  \* [mode |-> "Sequential"], "Parallel", or "MaxThreads" with a max
  NoLimit,      \* max_retries of None
  Policies,     \* [retries |-> max_retries, timed |-> there is a timeout]
  NoNode        \* no command

ASSUME BatchAssumption ==
  /\ IsFiniteSet(Keys) /\ IsFiniteSet(Nodes) /\ IsFiniteSet(Workers)
  /\ Present \subseteq Keys /\ Others \in Nat
  /\ Policies \subseteq [retries : Nat \cup {NoLimit}, timed : BOOLEAN] /\ NoLimit \notin Nat
  /\ Concurrency.mode \in {"Sequential", "Parallel", "MaxThreads"}
  /\ Concurrency.mode = "MaxThreads" => Concurrency.max \in Nat
  /\ NoNode \notin Nodes

VARIABLES
  policy,    \* the BatchPolicy of the call
  caller,    \* "start", "waiting" or "returned"
  result,    \* what batch_get returns
  offsets,   \* offsets[n]: the keys of the command for node n
  jobs,      \* the commands not yet taken
  tasks,     \* batch tasks in the queue of the pool
  others,    \* other tasks in the queue of the pool
  wpc,       \* where each pool thread is
  cmd,       \* the command a thread executes, named by its node
  tries,     \* iterations of that execute
  late,      \* the threads for whose command the deadline has passed
  toRead,    \* the records the reply will still bring
  lastErr,   \* last_err is set
  failed,    \* the commands that have failed
  record     \* record[k]: batch_reads[k].record, "unread" before it is written

callVars == <<policy, caller, result, offsets>>
execVars == <<tries, late, toRead>>
poolVars == <<tasks, others>>
vars == <<policy, caller, result, offsets, jobs, tasks, others, wpc, cmd, tries, late,
          toRead, lastErr, failed, record>>

Init ==
  /\ policy \in Policies
  /\ caller = "start" /\ result = "none"
  /\ offsets = [n \in Nodes |-> {}]
  /\ jobs = << >> /\ tasks = 0 /\ others = Others
  /\ wpc = [w \in Workers |-> "free"]
  /\ cmd = [w \in Workers |-> NoNode]
  /\ tries = [w \in Workers |-> 0] /\ late = {}
  /\ toRead = [w \in Workers |-> {}]
  /\ lastErr = FALSE /\ failed = {}
  /\ record = [k \in Keys |-> "unread"]
-----------------------------------------------------------------------------
(* The caller *)

\* How many tasks execute_batch_jobs puts on the pool for n jobs.
TaskCount(n) ==
  CASE Concurrency.mode = "Sequential" -> 1
    [] Concurrency.mode = "Parallel"   -> n
    [] Concurrency.mode = "MaxThreads" -> IF Concurrency.max < n THEN Concurrency.max ELSE n

Distribute_KeyTwice ==
  /\ caller = "start" /\ caller' = "waiting"
  /\ \E nodeFor \in [Keys -> Nodes], again \in Nodes :
       /\ offsets' = [n \in Nodes |-> {k \in Keys : nodeFor[k] = n \/ again = n}]
       /\ \E order \in SetToSeqs(Range(nodeFor)) :
            jobs' = order /\ tasks' = TaskCount(Len(order))
  /\ UNCHANGED <<policy, result, others, wpc, cmd, execVars, lastErr, failed, record>>

\* get_batch_nodes maps every key to a node, and the jobs are made in the order in
\* which the hash map gives up its entries; then the tasks are queued.
Distribute ==
  /\ caller = "start" /\ caller' = "waiting"
  /\ \E nodeFor \in [Keys -> Nodes] :
       /\ offsets' = [n \in Nodes |-> {k \in Keys : nodeFor[k] = n}]
       /\ \E order \in SetToSeqs(Range(nodeFor)) :
            jobs' = order /\ tasks' = TaskCount(Len(order))
  /\ UNCHANGED <<policy, result, others, wpc, cmd, execVars, lastErr, failed, record>>

\* There is no node for some key.
NoNodeForKey ==
  /\ caller = "start"
  /\ caller' = "returned" /\ result' = "error"
  /\ UNCHANGED <<policy, offsets, jobs, poolVars, wpc, cmd, execVars, lastErr, failed, record>>

InBatch == {w \in Workers : wpc[w] \notin {"free", "other"}}

\* The scope of the pool ends when all its tasks have ended.
Return ==
  /\ caller = "waiting" /\ tasks = 0 /\ InBatch = {}
  /\ caller' = "returned"
  /\ result' = IF lastErr THEN "error" ELSE "ok"
  /\ UNCHANGED <<policy, offsets, jobs, poolVars, wpc, cmd, execVars, lastErr, failed, record>>
-----------------------------------------------------------------------------
(* The threads of the pool *)

Goto(w, label) == wpc' = [wpc EXCEPT ![w] = label]

\* The queue of the pool is a FIFO, so the tasks that were there before go first.
TakeOther(w) ==
  /\ wpc[w] = "free" /\ others > 0
  /\ others' = others - 1
  /\ Goto(w, "other")
  /\ UNCHANGED <<callVars, jobs, tasks, cmd, execVars, lastErr, failed, record>>

EndOther(w) ==
  /\ wpc[w] = "other"
  /\ Goto(w, "free")
  /\ UNCHANGED <<callVars, jobs, poolVars, cmd, execVars, lastErr, failed, record>>

TakeTask(w) ==
  /\ wpc[w] = "free" /\ others = 0 /\ tasks > 0
  /\ tasks' = tasks - 1
  /\ Goto(w, "next")
  /\ UNCHANGED <<callVars, jobs, others, cmd, execVars, lastErr, failed, record>>

Take(w) ==
  /\ Goto(w, "try")
  /\ jobs' = Tail(jobs)
  /\ cmd' = [cmd EXCEPT ![w] = Head(jobs)]

NextJob_EndsEarly(w) ==
  /\ wpc[w] = "next"
  /\ \/ Len(jobs) <= 1 /\ Goto(w, "free") /\ UNCHANGED <<jobs, cmd>>
     \/ Len(jobs) > 1 /\ Take(w)
  /\ UNCHANGED <<callVars, poolVars, execVars, lastErr, failed, record>>

\* jobs.lock().next(): the next command; the task ends when there is none.
NextJob(w) ==
  /\ wpc[w] = "next"
  /\ \/ jobs = << >> /\ Goto(w, "free") /\ UNCHANGED <<jobs, cmd>>
     \/ jobs # << >> /\ Take(w)
  /\ UNCHANGED <<callVars, poolVars, execVars, lastErr, failed, record>>

\* The execute of w's command returns, and its locals are gone.
Executed(w) ==
  /\ cmd' = [cmd EXCEPT ![w] = NoNode]
  /\ tries' = [tries EXCEPT ![w] = 0]
  /\ late' = late \ {w}
  /\ toRead' = [toRead EXCEPT ![w] = {}]

\* It returns an error, which is stored in last_err.
Fail(w) ==
  /\ Executed(w)
  /\ Goto(w, "drain")
  /\ lastErr' = TRUE
  /\ failed' = failed \cup {cmd[w]}

MayTry_NoDeadline(w) == policy.retries # NoLimit => tries[w] + 1 <= policy.retries + 1

\* The top of the loop of BatchReadCommand::execute: there have not been too many
\* iterations, where that is limited, and the deadline has not passed.
MayTry(w) ==
  /\ policy.retries # NoLimit => tries[w] + 1 <= policy.retries + 1
  /\ w \notin late

GiveUp(w) ==
  /\ wpc[w] = "try" /\ ~MayTry(w)
  /\ Fail(w)
  /\ UNCHANGED <<callVars, jobs, poolVars, record>>

\* One more iteration.  Without a limit nobody looks at their number, which then
\* stays at the first one.
Iterate(w) ==
  /\ wpc[w] = "try" /\ MayTry(w)
  /\ tries' = [tries EXCEPT ![w] = IF policy.retries = NoLimit THEN 1 ELSE @ + 1]
  /\ Goto(w, "connect")
  /\ UNCHANGED <<callVars, jobs, poolVars, cmd, late, toRead, lastErr, failed, record>>

\* There is no connection, or the send fails: the next iteration.
TryFails(w) ==
  /\ wpc[w] = "connect"
  /\ Goto(w, "try")
  /\ UNCHANGED <<callVars, jobs, poolVars, cmd, execVars, lastErr, failed, record>>

\* The request cannot be prepared.
NotPrepared(w) ==
  /\ wpc[w] = "connect"
  /\ Fail(w)
  /\ UNCHANGED <<callVars, jobs, poolVars, record>>

\* The request has been sent.
Send(w) ==
  /\ wpc[w] = "connect"
  /\ toRead' = [toRead EXCEPT ![w] = offsets[cmd[w]]]
  /\ Goto(w, "read")
  /\ UNCHANGED <<callVars, jobs, poolVars, cmd, tries, late, lastErr, failed, record>>

\* parse_group: a record, or word that there is none, and where it belongs.  The
\* server answers in any order.
ReadRecord(w) ==
  /\ wpc[w] = "read"
  /\ \E k \in toRead[w] :
       /\ record' = [record EXCEPT ![k] = IF k \in Present THEN "found" ELSE "absent"]
       /\ toRead' = [toRead EXCEPT ![w] = @ \ {k}]
  /\ UNCHANGED <<callVars, jobs, poolVars, wpc, cmd, tries, late, lastErr, failed>>

\* parse_record: the end marker of the reply; execute returns.
ReadLast(w) ==
  /\ wpc[w] = "read" /\ toRead[w] = {}
  /\ Executed(w)
  /\ Goto(w, "next")
  /\ UNCHANGED <<callVars, jobs, poolVars, lastErr, failed, record>>

ReadFails_Ignored(w) ==
  /\ wpc[w] = "read"
  /\ Executed(w)
  /\ failed' = failed \cup {cmd[w]}
  /\ Goto(w, "drain")
  /\ UNCHANGED <<callVars, jobs, poolVars, lastErr, record>>

\* The reply breaks off or carries an error of the server: execute returns it.
ReadFails(w) ==
  /\ wpc[w] = "read"
  /\ Fail(w)
  /\ UNCHANGED <<callVars, jobs, poolVars, record>>

\* "consume the remaining jobs".
Drain(w) ==
  /\ wpc[w] = "drain"
  /\ jobs' = << >>
  /\ Goto(w, "next")
  /\ UNCHANGED <<callVars, poolVars, cmd, execVars, lastErr, failed, record>>

\* The deadline, which execute has set before its loop, passes.
DeadlinePasses(w) ==
  /\ policy.timed /\ wpc[w] \in {"try", "connect", "read"} /\ w \notin late
  /\ late' = late \cup {w}
  /\ UNCHANGED <<callVars, jobs, poolVars, wpc, cmd, tries, toRead, lastErr, failed, record>>

WorkerStep(w) ==
  \/ TakeOther(w) \/ TakeTask(w) \/ NextJob(w) \/ GiveUp(w) \/ Iterate(w)
  \/ TryFails(w) \/ NotPrepared(w) \/ Send(w) \/ ReadRecord(w) \/ ReadLast(w) \/ ReadFails(w) \/ Drain(w)

Next == \/ Distribute \/ NoNodeForKey \/ Return
        \/ \E w \in Workers : WorkerStep(w) \/ EndOther(w) \/ DeadlinePasses(w)

Spec == Init /\ [][Next]_vars

\* Threads are scheduled and time passes.  A read ends at the latest with the socket
\* timeout, which is that of the policy; without one it may wait for ever.  What scans
\* and queries have on the pool may never end, as when nobody reads their records.
LiveSpec ==
  /\ Spec /\ WF_vars(Distribute \/ NoNodeForKey) /\ WF_vars(Return)
  /\ \A w \in Workers : /\ WF_vars((policy.timed \/ wpc[w] # "read") /\ WorkerStep(w))
                        /\ WF_vars(DeadlinePasses(w))
-----------------------------------------------------------------------------
(* Properties *)

\* A batch that succeeds has an answer for every key: a missing record means "No
\* such record" (Client::batch_get), never that the key was not asked for.
ResultsTrue ==
  result = "ok" => \A k \in Keys : record[k] = IF k \in Present THEN "found" ELSE "absent"

\* When a command has failed the caller is told, and what other threads go on
\* reading after the error does not hide it.
ErrorReported == caller = "returned" /\ failed # {} => result = "error"

\* "The threads are required to ensure that no member of the slice is accessed by
\* more than one thread": two commands under way have no key in common.
NoMemberShared ==
  \A w, x \in Workers : w # x /\ cmd[w] # NoNode /\ cmd[x] # NoNode =>
                          offsets[cmd[w]] \cap offsets[cmd[x]] = {}

\* batch_get returns, also when the pool has fewer threads than there are tasks and
\* all of them are taken at first: as soon as one thread of the pool is left to it,
\* with a timeout always, be it that only the deadline ends the loop (max_retries of
\* None), and without one when the retries are limited and the servers answer.
BatchReturns ==
  \/ <>(caller = "returned")
  \/ <>[](\A w \in Workers : wpc[w] = "other")
  \/ ~policy.timed /\ (policy.retries = NoLimit \/ <>[](\E w \in Workers : wpc[w] = "read"))
==============================================================================
