----------------------------- MODULE StreamQuery -----------------------------
(***************************************************************************)
(* A scan or query: one worker thread per node runs a StreamCommand        *)
(* (commands/stream_command.rs) that reads the node's reply and pushes its *)
(* records on the queue of the shared Recordset (query/recordset.rs);      *)
(* consumer threads iterate over the Recordset, and one of them may close  *)
(* it.                                                                     *)
(*                                                                         *)
(* All of it is lock-free: a step is one atomic operation on the           *)
(* Recordset or one blocking read of the socket, and the steps of          *)
(* different threads interleave.                                           *)
(***************************************************************************)
EXTENDS Integers, Sequences, FiniteSets

CONSTANTS
  Nodes,              \* one worker per node
  Consumers,          \* threads that iterate over the Recordset
  Stream,             \* Stream[n]: n's reply, a sequence of messages, each a
                      \* sequence of items "record", "partition_done", "last" or
                      \* "server_error"
  RecordQueueSize,    \* record_queue_size of the policy
  Faults,             \* the faults that happen: "send", "header", "body"
  UserMayClose,       \* whether a consumer may call Recordset::close
  None                \* no item

ASSUME StreamAssumption ==
  /\ IsFiniteSet(Nodes) /\ IsFiniteSet(Consumers)
  /\ RecordQueueSize \in Nat
  /\ Stream \in [Nodes -> Seq(Seq({"record", "partition_done", "last", "server_error"}))]

\* A server marks the end of its reply with the last item.
ASSUME LastAssumption ==
  \A n \in Nodes : \A g \in DOMAIN Stream[n] : \A i \in DOMAIN Stream[n][g] :
    Stream[n][g][i] = "last" => g = Len(Stream[n]) /\ i = Len(Stream[n][g])

VARIABLES
  active,      \* Recordset.active
  instances,   \* Recordset.instances
  queue,       \* Recordset.record_queue
  count,       \* Recordset.record_queue_count
  wpc,         \* where each worker is
  msg, pos,    \* messages whose header a worker has read; items read of the last
  item,        \* the record or error a worker is about to push
  conn,        \* what has become of the worker's connection
  fate,        \* what happened to a node's stream: "ok", or how it was cut short
  cpc,         \* where each consumer is in Recordset::next
  got,         \* what a consumer has popped and not yet returned
  delivered,   \* delivered[r]: how often record r has been returned to a consumer
  userClosed   \* a consumer has called close

recordset == <<active, instances, queue, count>>
workers   == <<wpc, msg, pos, item, conn, fate>>
consumers == <<cpc, got, delivered, userClosed>>
vars == <<active, instances, queue, count, wpc, msg, pos, item, conn, fate,
          cpc, got, delivered, userClosed>>

\* A record is named by its node, its message and its place in the message.
Records == UNION {UNION {{<<n, g, i>> : i \in {j \in DOMAIN Stream[n][g] :
                                                 Stream[n][g][j] = "record"}} :
                         g \in DOMAIN Stream[n]} : n \in Nodes}
Errors == {<<n, "error">> : n \in Nodes}

ASSUME NoneAssumption == None \notin Records \cup Errors

\* Client::scan and Client::query: the Recordset is created for all the nodes and
\* every worker is spawned at once.
Init ==
  /\ active = TRUE
  /\ instances = Cardinality(Nodes)
  /\ queue = << >>
  /\ count = 0
  /\ wpc = [n \in Nodes |-> "spawned"]
  /\ msg = [n \in Nodes |-> 0]
  /\ pos = [n \in Nodes |-> 0]
  /\ item = [n \in Nodes |-> None]
  /\ conn = [n \in Nodes |-> "none"]
  /\ fate = [n \in Nodes |-> "ok"]
  /\ cpc = [c \in Consumers |-> "look"]
  /\ got = [c \in Consumers |-> None]
  /\ delivered = [r \in Records |-> 0]
  /\ userClosed = FALSE
-----------------------------------------------------------------------------
(* The worker: SingleCommand::execute of a StreamCommand *)

Goto(n, label) == wpc' = [wpc EXCEPT ![n] = label]

\* The command obtains a connection and sends the request.
Send(n) ==
  /\ wpc[n] = "spawned"
  /\ Goto(n, "header")
  /\ conn' = [conn EXCEPT ![n] = "in_use"]
  /\ UNCHANGED <<recordset, consumers, msg, pos, item, fate>>

\* All tries of the command have failed: execute returns an error, the unwrap in
\* the worker panics, and unwinding drops the command.
SendFails(n) ==
  /\ wpc[n] = "spawned" /\ "send" \in Faults
  /\ Goto(n, "ending")
  /\ fate' = [fate EXCEPT ![n] = "failed"]
  /\ UNCHANGED <<recordset, consumers, msg, pos, item, conn>>

\* The current message has been read to its end.
AtMessageEnd(n) == msg[n] > 0 => pos[n] = Len(Stream[n][msg[n]])

\* parse_result reads the eight bytes of a message header.
ReadHeader(n) ==
  /\ wpc[n] = "header" /\ AtMessageEnd(n) /\ msg[n] < Len(Stream[n])
  /\ msg' = [msg EXCEPT ![n] = @ + 1]
  /\ pos' = [pos EXCEPT ![n] = 0]
  /\ Goto(n, "check")
  /\ UNCHANGED <<recordset, consumers, item, conn, fate>>

\* After the recordset was closed parse_stream leaves the rest of the message
\* unread, and parse_result takes the next eight bytes of it for a header.  When
\* their size field is zero, as it is in the first bytes of an ordinary record,
\* the command ends well and its connection goes back to the pool.  (With any
\* other size the next eight bytes are taken the same way.)
ReadGarbageSizeZero(n) ==
  /\ wpc[n] = "header" /\ ~AtMessageEnd(n)
  /\ Goto(n, "ending")
  /\ conn' = [conn EXCEPT ![n] = "dirty"]
  /\ fate' = [fate EXCEPT ![n] = "cut"]
  /\ UNCHANGED <<recordset, consumers, msg, pos, item>>

\* A read of a header fails (reset, timeout, or nothing more to read): execute
\* returns the error and the connection is invalidated.
HeaderFails(n) ==
  /\ wpc[n] \in {"header", "read"}
  /\ "header" \in Faults
  /\ Goto(n, "ending")
  /\ conn' = [conn EXCEPT ![n] = "closed"]
  /\ fate' = [fate EXCEPT ![n] = "failed"]
  /\ UNCHANGED <<recordset, consumers, msg, pos, item>>

\* The condition of the loop of parse_stream.
CheckActive(n) ==
  /\ wpc[n] = "check"
  /\ Goto(n, IF active /\ ~AtMessageEnd(n) THEN "read" ELSE "header")
  /\ UNCHANGED <<recordset, consumers, msg, pos, item, conn, fate>>

\* parse_record: a record is to be pushed; a finished partition is skipped; the
\* last item ends the command, whose connection is put back; a server error is
\* to be pushed, and then ends the command the same way.
ReadItem(n) ==
  /\ wpc[n] = "read"
  /\ pos' = [pos EXCEPT ![n] = @ + 1]
  /\ LET kind == Stream[n][msg[n]][pos[n] + 1] IN
     \/ /\ kind = "record"
        /\ item' = [item EXCEPT ![n] = <<n, msg[n], pos[n] + 1>>]
        /\ Goto(n, "push")
        /\ UNCHANGED <<conn, fate>>
     \/ /\ kind = "partition_done"
        /\ Goto(n, "check")
        /\ UNCHANGED <<item, conn, fate>>
     \/ /\ kind = "last"
        /\ conn' = [conn EXCEPT ![n] = "pooled"]
        /\ Goto(n, "ending")
        /\ UNCHANGED <<item, fate>>
     \/ /\ kind = "server_error"
        /\ item' = [item EXCEPT ![n] = <<n, "error">>]
        /\ fate' = [fate EXCEPT ![n] = "error"]
        /\ Goto(n, "push")
        /\ UNCHANGED conn
  /\ UNCHANGED <<recordset, consumers, msg>>

\* The rest of a record cannot be read or decoded: the error is to be pushed.
BodyFails(n) ==
  /\ wpc[n] = "read" /\ "body" \in Faults
  /\ item' = [item EXCEPT ![n] = <<n, "error">>]
  /\ fate' = [fate EXCEPT ![n] = "broken"]
  /\ Goto(n, "push")
  /\ UNCHANGED <<recordset, consumers, msg, pos, conn>>

PushClaim_LateCount(n) ==
  /\ wpc[n] = "push"
  /\ count < RecordQueueSize
  /\ Goto(n, "enqueue")
  /\ UNCHANGED <<recordset, consumers, msg, pos, item, conn, fate>>

PushClaim_OneMore(n) ==
  /\ wpc[n] = "push"
  /\ count' = count + 1
  /\ Goto(n, IF count <= RecordQueueSize THEN "enqueue" ELSE "undo")
  /\ UNCHANGED <<active, instances, queue, consumers, msg, pos, item, conn, fate>>

\* Recordset::push: the claim of a place ...
PushClaim(n) ==
  /\ wpc[n] = "push"
  /\ count' = count + 1
  /\ Goto(n, IF count < RecordQueueSize THEN "enqueue" ELSE "undo")
  /\ UNCHANGED <<active, instances, queue, consumers, msg, pos, item, conn, fate>>

\* After an error has been pushed, or dropped, parse_stream and parse_result
\* return Ok, so the connection goes back to the pool, read to the end or not.
AfterPush(n, again) ==
  IF item[n] \in Errors
  THEN /\ Goto(n, "ending")
       /\ conn' = [conn EXCEPT ![n] = IF fate[n] = "broken" THEN "dirty" ELSE "pooled"]
  ELSE Goto(n, again) /\ UNCHANGED conn

\* ... the push itself ...
Enqueue(n) ==
  /\ wpc[n] = "enqueue"
  /\ queue' = Append(queue, item[n])
  /\ item' = [item EXCEPT ![n] = None]
  /\ AfterPush(n, "check")
  /\ UNCHANGED <<active, instances, count, consumers, msg, pos, fate>>

UndoClaim_Twice(n) ==
  /\ wpc[n] = "undo"
  /\ count' = count - 2
  /\ AfterPush(n, "push")
  /\ UNCHANGED <<active, instances, queue, consumers, msg, pos, item, fate>>

\* ... or the return of the place.  A record is tried again at once, whether the
\* recordset is still active or not; an error is tried only once.
UndoClaim(n) ==
  /\ wpc[n] = "undo"
  /\ count' = count - 1
  /\ AfterPush(n, "push")
  /\ UNCHANGED <<active, instances, queue, consumers, msg, pos, item, fate>>

SignalEnd_NeverLast(n) ==
  /\ wpc[n] = "ending"
  /\ instances' = instances - 1
  /\ Goto(n, IF instances = 0 THEN "closing" ELSE "done")
  /\ UNCHANGED <<active, queue, count, consumers, msg, pos, item, conn, fate>>

\* Drop of the StreamCommand: Recordset::signal_end counts the worker out ...
SignalEnd(n) ==
  /\ wpc[n] = "ending"
  /\ instances' = instances - 1
  /\ Goto(n, IF instances = 1 THEN "closing" ELSE "done")
  /\ UNCHANGED <<active, queue, count, consumers, msg, pos, item, conn, fate>>

\* ... and the last one closes the recordset.
CloseByLast(n) ==
  /\ wpc[n] = "closing"
  /\ active' = FALSE
  /\ Goto(n, "done")
  /\ UNCHANGED <<instances, queue, count, consumers, msg, pos, item, conn, fate>>

WorkerStep(n) ==
  \/ Send(n) \/ ReadHeader(n) \/ ReadGarbageSizeZero(n) \/ CheckActive(n) \/ ReadItem(n)
  \/ PushClaim(n) \/ Enqueue(n) \/ UndoClaim(n) \/ SignalEnd(n) \/ CloseByLast(n)

WorkerFault(n) == SendFails(n) \/ HeaderFails(n) \/ BodyFails(n)
-----------------------------------------------------------------------------
(* The consumer: Recordset::next *)

Look_ActiveOnly(c) ==
  /\ cpc[c] = "look"
  /\ cpc' = [cpc EXCEPT ![c] = IF active THEN "pop" ELSE "ended"]
  /\ UNCHANGED <<recordset, workers, got, delivered, userClosed>>

\* is_active() ...
Look(c) ==
  /\ cpc[c] = "look"
  /\ cpc' = [cpc EXCEPT ![c] = IF active THEN "pop" ELSE "peek"]
  /\ UNCHANGED <<recordset, workers, got, delivered, userClosed>>

\* ... || !record_queue.is_empty()
Peek(c) ==
  /\ cpc[c] = "peek"
  /\ cpc' = [cpc EXCEPT ![c] = IF queue # << >> THEN "pop" ELSE "ended"]
  /\ UNCHANGED <<recordset, workers, got, delivered, userClosed>>

Pop_NotRemoved(c) ==
  /\ cpc[c] = "pop"
  /\ IF queue # << >>
     THEN /\ got' = [got EXCEPT ![c] = Head(queue)]
          /\ cpc' = [cpc EXCEPT ![c] = "settle"]
     ELSE /\ cpc' = [cpc EXCEPT ![c] = "look"]
          /\ UNCHANGED got
  /\ UNCHANGED <<recordset, workers, delivered, userClosed>>

\* record_queue.pop(); when there is nothing, yield and look again.
Pop(c) ==
  /\ cpc[c] = "pop"
  /\ IF queue # << >>
     THEN /\ got' = [got EXCEPT ![c] = Head(queue)]
          /\ queue' = Tail(queue)
          /\ cpc' = [cpc EXCEPT ![c] = "settle"]
     ELSE /\ cpc' = [cpc EXCEPT ![c] = "look"]
          /\ UNCHANGED <<got, queue>>
  /\ UNCHANGED <<active, instances, count, workers, delivered, userClosed>>

Settle_NotCounted(c) ==
  /\ cpc[c] = "settle"
  /\ delivered' = [r \in Records |-> delivered[r] + IF r = got[c] THEN 1 ELSE 0]
  /\ got' = [got EXCEPT ![c] = None]
  /\ cpc' = [cpc EXCEPT ![c] = "look"]
  /\ UNCHANGED <<recordset, workers, userClosed>>

\* The place in the queue is given back and the record returned to the caller.
Settle(c) ==
  /\ cpc[c] = "settle"
  /\ count' = count - 1
  /\ delivered' = [r \in Records |-> delivered[r] + IF r = got[c] THEN 1 ELSE 0]
  /\ got' = [got EXCEPT ![c] = None]
  /\ cpc' = [cpc EXCEPT ![c] = "look"]
  /\ UNCHANGED <<active, instances, queue, workers, userClosed>>

ConsumerStep(c) == Look(c) \/ Peek(c) \/ Pop(c) \/ Settle(c)

\* Recordset::close, between two records.
UserClose(c) ==
  /\ UserMayClose /\ cpc[c] = "look"
  /\ active' = FALSE
  /\ userClosed' = TRUE
  /\ UNCHANGED <<instances, queue, count, workers, cpc, got, delivered>>

\* A consumer that has closed the recordset need not read on.
StopReading(c) ==
  /\ userClosed /\ cpc[c] = "look"
  /\ cpc' = [cpc EXCEPT ![c] = "ended"]
  /\ UNCHANGED <<recordset, workers, got, delivered, userClosed>>

Next ==
  \/ \E n \in Nodes : WorkerStep(n) \/ WorkerFault(n)
  \/ \E c \in Consumers : ConsumerStep(c) \/ UserClose(c) \/ StopReading(c)

Spec == Init /\ [][Next]_vars

\* Every thread is scheduled again and again, and the server sends the whole
\* reply; nobody is obliged to close the recordset or to run into a fault.
Fairness == /\ \A n \in Nodes : WF_vars(WorkerStep(n))
            /\ \A c \in Consumers : WF_vars(ConsumerStep(c))

LiveSpec == Spec /\ Fairness
-----------------------------------------------------------------------------
TypeOK ==
  /\ active \in BOOLEAN /\ userClosed \in BOOLEAN
  /\ instances \in 0 .. Cardinality(Nodes)
  /\ count \in Nat
  /\ queue \in Seq(Records \cup Errors)
  /\ wpc \in [Nodes -> {"spawned", "header", "check", "read", "push", "enqueue",
                        "undo", "ending", "closing", "done"}]
  /\ item \in [Nodes -> Records \cup Errors \cup {None}]
  /\ conn \in [Nodes -> {"none", "in_use", "pooled", "dirty", "closed"}]
  /\ fate \in [Nodes -> {"ok", "error", "broken", "failed", "cut"}]
  /\ cpc \in [Consumers -> {"look", "peek", "pop", "settle", "ended"}]
  /\ got \in [Consumers -> Records \cup Errors \cup {None}]
  /\ delivered \in [Records -> Nat]

\* record_queue_count counts every place that is taken or about to be decided on:
\* queued records, claims in flight, and records popped but not yet counted out.
\* A leak here would shrink the queue for the rest of the query.
CountExact ==
  count = Len(queue)
          + Cardinality({n \in Nodes : wpc[n] \in {"enqueue", "undo"}})
          + Cardinality({c \in Consumers : cpc[c] = "settle"})

\* The queue never holds more than record_queue_size records, however many
\* workers push at the same time.
QueueBounded ==
  Len(queue) + Cardinality({n \in Nodes : wpc[n] = "enqueue"}) <= RecordQueueSize

\* Where record r is: with a worker, in the queue, with a consumer, or delivered.
Copies(r) == delivered[r]
             + Cardinality({i \in DOMAIN queue : queue[i] = r})
             + Cardinality({c \in Consumers : got[c] = r})
             + Cardinality({n \in Nodes : item[n] = r})

\* No record reaches the consumers twice, with any number of concurrent consumers.
AtMostOnce == \A r \in Records : Copies(r) <= 1

\* The iteration ends only when it has returned everything: once a consumer has
\* seen the end of a recordset nobody closed, every record of every node whose
\* stream was not cut short has been returned or is in the hands of another
\* consumer.
NothingLost ==
  (\E c \in Consumers : cpc[c] = "ended") /\ ~userClosed =>
    \A r \in Records : fate[r[1]] = "ok" =>
      delivered[r] = 1 \/ \E c \in Consumers : got[c] = r

\* Every scan and query nobody closes ends for its consumers, and all its workers
\* finish, whatever fails.
StreamEnds == <>(\/ userClosed
                 \/ /\ \A c \in Consumers : cpc[c] = "ended"
                    /\ \A n \in Nodes : wpc[n] = "done")

\* "If the queue is full, the producer threads will block until records are
\* consumed": with consumers that go on consuming, a worker that wants to push a
\* record gets to push it.
PushEventuallySucceeds ==
  \A n \in Nodes : wpc[n] = "push" ~> userClosed \/ wpc[n] \in {"enqueue", "done"}

\* "We will not put back the connection in the buffer": a command whose recordset
\* was closed before the reply was read does not return its connection to the pool.
ClosedStreamNotPooled == \A n \in Nodes : conn[n] # "dirty"
=============================================================================
