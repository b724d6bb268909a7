-------------------------- MODULE CommandExecution --------------------------
(***************************************************************************)
(* The execution of single-record commands (commands/single_command.rs):   *)
(* threads that each run one command against a node through its connection *)
(* pool, with the retry loop, the deadline, the ways in which sending and  *)
(* receiving fail, and what becomes of the connection in each case.        *)
(*                                                                         *)
(* The pool is the one BoundedPool promises.  The server is external: it   *)
(* executes each complete request it finds on a connection, in order, and  *)
(* answers with a header and, for some replies, a body; a request that was *)
(* sent is executed even if the client has given the connection up since.  *)
(***************************************************************************)
EXTENDS Integers, Sequences, FiniteSets

CONSTANTS
  Threads,      \* each executes one command
  Kind,         \* Kind[t]: "write" (put, add, touch), "delete" (delete, exists)
                \* or "read" (get, operate, execute_udf)
  Conns,        \* identities of sockets, never used twice
  NoConn,
  Limit,        \* max_conns_per_node
  NoLimit,      \* max_retries of None
  MaxRetries,   \* MaxRetries[t]: policy.max_retries(), a number or NoLimit
  Timed         \* the threads whose policy has a timeout

ASSUME CommandAssumption ==
  /\ Kind \in [Threads -> {"write", "delete", "read"}]
  /\ MaxRetries \in [Threads -> Nat \cup {NoLimit}] /\ NoLimit \notin Nat
  /\ Timed \subseteq Threads
  /\ Limit \in Nat
  /\ NoConn \notin Conns

VARIABLES
  pc,          \* where each thread is in execute
  iterations,  \* the local of execute
  late,        \* the threads whose deadline has passed
  conn,        \* the connection a thread has
  idle,        \* the connections in the pool
  used,        \* sockets that have been opened
  wire,        \* wire[c]: complete requests on their way to the server
  inbox,       \* inbox[c]: parts of replies the client has not read
  reply,       \* the reply header a thread has read
  outcome,     \* how the command ended
  applied      \* how often the server has executed the command

loopVars == <<pc, iterations, late>>
netVars  == <<used, wire, inbox>>
vars == <<pc, iterations, late, conn, idle, used, wire, inbox, reply, outcome, applied>>

Pool == INSTANCE BoundedPool WITH lease <- conn, spare <- idle

Codes == {"ok", "not_found", "other"}

\* The parts of a reply: a header with the result code, and for data a body.
Header(t, code, more) == [of |-> t, part |-> "header", code |-> code, more |-> more]
Body(t) == [of |-> t, part |-> "body"]
NoReply == [of |-> NoConn, part |-> "none"]

Init ==
  /\ pc = [t \in Threads |-> "try"]
  /\ iterations = [t \in Threads |-> 0]
  /\ late = {}
  /\ Pool!BPInit
  /\ used = {}
  /\ wire = [c \in Conns |-> << >>]
  /\ inbox = [c \in Conns |-> << >>]
  /\ reply = [t \in Threads |-> NoReply]
  /\ outcome = [t \in Threads |-> "running"]
  /\ applied = [t \in Threads |-> 0]
-----------------------------------------------------------------------------
(* SingleCommand::execute *)

Goto(t, label) == pc' = [pc EXCEPT ![t] = label]

\* execute returns, and its locals are gone.
Finish(t, how) ==
  /\ Goto(t, "done")
  /\ outcome' = [outcome EXCEPT ![t] = how]
  /\ iterations' = [iterations EXCEPT ![t] = 0]
  /\ late' = late \ {t}
  /\ reply' = [reply EXCEPT ![t] = NoReply]

\* execute goes on.
Again(t, label) == Goto(t, label) /\ UNCHANGED <<late, reply, outcome>>

\* The PooledConnection is dropped: the pool keeps it, or closes it when full.
PutBack(t) == Pool!GiveUp(t)

\* The PooledConnection is invalidated: it never returns to the pool.
Invalidate(t) == /\ conn' = [conn EXCEPT ![t] = NoConn]
                 /\ UNCHANGED idle

\* The top of the loop: one more iteration, or too many.  Without a limit nobody
\* looks at the number, which then stays at the first one.
Iterate(t) ==
  /\ pc[t] = "try"
  /\ \/ /\ MaxRetries[t] = NoLimit
        /\ iterations' = [iterations EXCEPT ![t] = 1]
        /\ Again(t, "deadline")
     \/ /\ MaxRetries[t] # NoLimit /\ iterations[t] + 1 <= MaxRetries[t] + 1
        /\ iterations' = [iterations EXCEPT ![t] = @ + 1]
        /\ Again(t, "deadline")
     \/ /\ MaxRetries[t] # NoLimit /\ iterations[t] + 1 > MaxRetries[t] + 1
        /\ Finish(t, "gave_up")
  /\ UNCHANGED <<conn, idle, netVars, applied>>

\* After the sleep between two tries: the check for the command timeout, the only
\* place where execute looks at the clock.  Without a timeout there is no deadline.
DeadlinePassed(t) ==
  /\ pc[t] = "deadline" /\ t \in late
  /\ Finish(t, "gave_up")
  /\ UNCHANGED <<conn, idle, netVars, applied>>

InTime_NeverLooks(t) ==
  /\ pc[t] = "deadline"
  /\ Goto(t, "connect")
  /\ UNCHANGED <<iterations, late, conn, idle, netVars, reply, outcome, applied>>

InTime(t) ==
  /\ pc[t] = "deadline" /\ t \notin late
  /\ Goto(t, "connect")
  /\ UNCHANGED <<iterations, late, conn, idle, netVars, reply, outcome, applied>>

\* get_node or get_connection fails: the next iteration.
Unavailable(t) ==
  /\ pc[t] = "connect"
  /\ Goto(t, "try")
  /\ UNCHANGED <<iterations, late, conn, idle, netVars, reply, outcome, applied>>

\* get_node and get_connection succeed.
GetConnection(t) ==
  /\ pc[t] = "connect"
  /\ Pool!Acquire(t)
  /\ conn'[t] \in idle \/ conn'[t] \notin used
  /\ used' = used \cup {conn'[t]}
  /\ Goto(t, "prepare")
  /\ UNCHANGED <<iterations, late, wire, inbox, reply, outcome, applied>>

\* prepare_buffer fails: nothing has been sent and the connection is dropped.
PrepareFails(t) ==
  /\ pc[t] = "prepare"
  /\ PutBack(t)
  /\ Finish(t, "not_sent")
  /\ UNCHANGED <<netVars, applied>>

\* write_buffer succeeds: the whole request has been handed to the socket.
SendOk(t) ==
  /\ pc[t] = "prepare"
  /\ wire' = [wire EXCEPT ![conn[t]] = Append(@, t)]
  /\ Goto(t, "receive")
  /\ UNCHANGED <<iterations, late, conn, idle, used, inbox, reply, outcome, applied>>

\* write_buffer fails: the request is incomplete, so the server cannot execute it.
\* The connection is invalidated and the command tried again.
SendFails(t) ==
  /\ pc[t] = "prepare"
  /\ Invalidate(t)
  /\ Goto(t, "try")
  /\ UNCHANGED <<iterations, late, netVars, reply, outcome, applied>>

\* parse_result: the header of the reply.
ReadHeader(t) ==
  /\ pc[t] = "receive"
  /\ inbox[conn[t]] # << >>
  /\ reply' = [reply EXCEPT ![t] = Head(inbox[conn[t]])]
  /\ inbox' = [inbox EXCEPT ![conn[t]] = Tail(@)]
  /\ Goto(t, "decide")
  /\ UNCHANGED <<iterations, late, conn, idle, used, wire, outcome, applied>>

ReceiveFails_Retried(t) ==
  /\ pc[t] \in {"receive", "body"}
  /\ Invalidate(t)
  /\ Goto(t, "try")
  /\ UNCHANGED <<iterations, late, netVars, reply, outcome, applied>>
ReceiveFails_KeepsConn(t) ==
  /\ pc[t] \in {"receive", "body"}
  /\ PutBack(t)
  /\ Finish(t, "network_error") \/ Finish(t, "bad_reply")
  /\ UNCHANGED <<netVars, applied>>

\* parse_result: a read fails with a network error, or it times out or the reply
\* cannot be decoded.  The connection is invalidated; nothing is tried again.
ReceiveFails(t) ==
  /\ pc[t] \in {"receive", "body"}
  /\ Invalidate(t)
  /\ Finish(t, "network_error") \/ Finish(t, "bad_reply")
  /\ UNCHANGED <<netVars, applied>>

\* The replies parse_result of each kind of command takes for success.
Accepts(t, code) == code = "ok" \/ (Kind[t] = "delete" /\ code = "not_found")

\* Whether parse_result reads the rest of the reply: a read does before it looks
\* at the code, the others (empty_socket) only after an accepted code.
ReadsBody(t) == reply[t].more /\ (Kind[t] = "read" \/ Accepts(t, reply[t].code))

\* There is more to read of the reply.
WantBody(t) ==
  /\ pc[t] = "decide" /\ reply[t].part = "header" /\ ReadsBody(t)
  /\ Goto(t, "body")
  /\ UNCHANGED <<iterations, late, conn, idle, netVars, reply, outcome, applied>>

KeepConnection_AnyServerError(code) == code \in Codes

\* commands::keep_connection: only this server error leaves the connection usable.
KeepConnection(code) == code = "not_found"

\* parse_result returns, and with it execute.
Conclude(t) ==
  IF reply[t].part = "header" /\ Accepts(t, reply[t].code)
  THEN PutBack(t) /\ Finish(t, "ok")
  ELSE /\ IF reply[t].part = "header" /\ KeepConnection(reply[t].code)
          THEN PutBack(t) ELSE Invalidate(t)
       /\ Finish(t, "server_error")

\* The reply ends with its header, or its body is left unread.
HeaderOnly(t) ==
  /\ pc[t] = "decide" /\ ~(reply[t].part = "header" /\ ReadsBody(t))
  /\ Conclude(t)
  /\ UNCHANGED <<netVars, applied>>

\* The rest of the reply is read.
ReadBody(t) ==
  /\ pc[t] = "body"
  /\ inbox[conn[t]] # << >>
  /\ inbox' = [inbox EXCEPT ![conn[t]] = Tail(@)]
  /\ Conclude(t)
  /\ UNCHANGED <<used, wire, applied>>

ThreadStep(t) ==
  \/ Iterate(t) \/ DeadlinePassed(t) \/ InTime(t) \/ Unavailable(t) \/ GetConnection(t)
  \/ PrepareFails(t) \/ SendOk(t) \/ SendFails(t)
  \/ ReadHeader(t) \/ ReceiveFails(t) \/ WantBody(t) \/ HeaderOnly(t) \/ ReadBody(t)
-----------------------------------------------------------------------------
(* The environment *)

\* The deadline of t, which execute has set before its loop, passes.
DeadlinePasses(t) ==
  /\ t \in Timed \ late /\ pc[t] # "done"
  /\ late' = late \cup {t}
  /\ UNCHANGED <<pc, iterations, conn, idle, netVars, reply, outcome, applied>>

\* Any reply may have a body, but one: for a record that it does not find, the server
\* sends a header alone to a command that writes.  (Such a command would leave the
\* body unread on a connection that keep_connection has it keep.)
MayHaveBody(t, code) == code = "not_found" => Kind[t] # "write"

\* The server executes the next request and answers.
ServerExecutes(c) ==
  /\ wire[c] # << >>
  /\ LET t == Head(wire[c]) IN
       /\ applied' = [applied EXCEPT ![t] = @ + 1]
       /\ \E code \in Codes, more \in BOOLEAN :
            /\ more => MayHaveBody(t, code)
            /\ inbox' = [inbox EXCEPT ![c] =
                           IF more THEN @ \o <<Header(t, code, TRUE), Body(t)>>
                                   ELSE Append(@, Header(t, code, FALSE))]
  /\ wire' = [wire EXCEPT ![c] = Tail(@)]
  /\ UNCHANGED <<loopVars, conn, idle, used, reply, outcome>>

Next == \/ \E t \in Threads : ThreadStep(t) \/ DeadlinePasses(t)
        \/ \E c \in Conns : ServerExecutes(c)

Spec == Init /\ [][Next]_vars

\* A read that waits for the server.
Blocked(t) == pc[t] \in {"receive", "body"} /\ inbox[conn[t]] = << >>

\* Threads are scheduled and time passes.  A read that waits ends when the socket
\* timeout fires, which is policy.timeout; without one it may wait for ever.
LiveSpec ==
  /\ Spec
  /\ \A t \in Threads : /\ WF_vars((t \in Timed \/ ~Blocked(t)) /\ ThreadStep(t))
                        /\ WF_vars(DeadlinePasses(t))
-----------------------------------------------------------------------------
\* A command is executed by the server at most once: the loop tries again only
\* what the server cannot have executed.  (A repeated add or append would be
\* applied twice.)
AppliedAtMostOnce == \A t \in Threads : applied[t] <= 1

\* Requests of t the server may still execute.
Pending(t) == {c \in Conns : \E i \in DOMAIN wire[c] : wire[c][i] = t}

\* The errors of the loop itself ("Timeout", "Timeout after n tries") and of a
\* failed preparation mean that the command has not been executed and never
\* will be; a reply means that it has been.
OutcomeTellsApplied ==
  \A t \in Threads :
    /\ outcome[t] \in {"gave_up", "not_sent"} => applied[t] = 0 /\ Pending(t) = {}
    /\ outcome[t] \in {"ok", "server_error"} => applied[t] = 1

\* A thread never reads the reply to another thread's command, however late
\* replies are and however often connections are handed on.
OwnReply == \A t \in Threads : reply[t] # NoReply => reply[t].of = t

\* A connection in the pool is in step with the server: no request of an earlier
\* user is under way on it and none of its replies is waiting to be read.
PooledInStep == \A c \in idle : wire[c] = << >> /\ inbox[c] = << >>

\* execute returns, whatever fails: with a timeout always, be it that only the
\* deadline ends the loop (max_retries of None); with a limit on the retries and no
\* timeout, unless the server leaves it waiting for a reply for ever.
Returns ==
  \A t \in Threads :
    /\ t \in Timed => <>(pc[t] = "done")
    /\ MaxRetries[t] # NoLimit => <>(pc[t] = "done") \/ <>[]Blocked(t)
=============================================================================
