--------------------------- MODULE ConnectionPool ---------------------------
(***************************************************************************)
(* The connection pool a Node keeps (net/connection_pool.rs): mini pools   *)
(* ("queues"), each a mutex around a FIFO of idle connections and a count  *)
(* of the connections it answers for, and the round-robin get that probes  *)
(* them through an atomic counter shared by all threads.                   *)
(*                                                                         *)
(* A step is a critical section of one queue's mutex, one atomic           *)
(* operation, or the close of a socket that drop_conn does after it has    *)
(* released the mutex.  Opening a socket and setting its timeouts happen   *)
(* under the mutex, so they belong to the step of Queue::get.              *)
(***************************************************************************)
EXTENDS Integers, Sequences, FiniteSets

CONSTANTS
  Threads,           \* threads that use the node: callers and the tend thread
  TendThread,        \* the one among them that runs the cluster tend
  Conns,             \* identities of sockets
  NoConn,            \* the None of PooledConnection.conn
  MaxConnsPerNode,   \* ClientPolicy.max_conns_per_node
  ConnPoolsPerNode   \* ClientPolicy.conn_pools_per_node

ASSUME PoolAssumption ==
  /\ MaxConnsPerNode \in Nat
  /\ ConnPoolsPerNode \in Nat \ {0}
  /\ IsFiniteSet(Threads)
  /\ TendThread \in Threads
  /\ NoConn \notin Conns

VARIABLES
  idle,           \* idle[q]: QueueInternals.connections, next to be used first
  num_conns,      \* num_conns[q]: QueueInternals.num_conns
  queue_counter,  \* ConnectionPool.queue_counter, modulo the number of queues
  pc,             \* where each thread is in its use of the pool
  slot,           \* slot[t]: the queue t probes, or that its connection is from
  attempts,       \* attempts[t]: the local of ConnectionPool::get; 0 outside of it
  held,           \* held[t]: the connection of t's PooledConnection
  open,           \* sockets that have been opened and not yet shut down
  expired,        \* idle connections whose idle_deadline has passed
  closed          \* ConnectionPool::close has run

callVars  == <<pc, slot, attempts>>
queueVars == <<idle, num_conns>>
vars == <<idle, num_conns, queue_counter, pc, slot, attempts, held,
          open, expired, closed>>

Queues == 0 .. ConnPoolsPerNode - 1

\* The share of queue q in max_conns_per_node: the first queues take one more
\* until the remainder is used up.
Capacity(q) == (MaxConnsPerNode \div ConnPoolsPerNode)
               + (IF q < MaxConnsPerNode % ConnPoolsPerNode THEN 1 ELSE 0)

Init ==
  /\ idle = [q \in Queues |-> << >>]
  /\ num_conns = [q \in Queues |-> 0]
  /\ queue_counter = 0
  /\ pc = [t \in Threads |-> "out"]
  /\ slot = [t \in Threads |-> 0]
  /\ attempts = [t \in Threads |-> 0]
  /\ held = [t \in Threads |-> NoConn]
  /\ open = {}
  /\ expired = {}
  /\ closed = FALSE
-----------------------------------------------------------------------------
(* ConnectionPool::get *)

\* A thread enters get.  With a single queue it goes straight to its mutex.
StartGet(t) ==
  /\ pc[t] = "out" /\ ~closed
  /\ attempts' = [attempts EXCEPT ![t] = ConnPoolsPerNode]
  /\ pc' = [pc EXCEPT ![t] = IF ConnPoolsPerNode = 1 THEN "lock" ELSE "pick"]
  /\ slot' = [slot EXCEPT ![t] = 0]
  /\ UNCHANGED <<queueVars, queue_counter, held, open, expired, closed>>

\* queue_counter.fetch_add(1): the ticket names the queue to probe.
PickQueue(t) ==
  /\ pc[t] = "pick"
  /\ slot' = [slot EXCEPT ![t] = queue_counter]
  /\ queue_counter' = (queue_counter + 1) % ConnPoolsPerNode
  /\ pc' = [pc EXCEPT ![t] = "lock"]
  /\ UNCHANGED <<queueVars, attempts, held, open, expired, closed>>

\* The loop of Queue::get pops idle connections and closes them while they have
\* expired: it stops after k of them, at a usable one or at the end.
ExpiredPrefix(q, k) ==
  /\ \A j \in 1 .. k : idle[q][j] \in expired
  /\ k < Len(idle[q]) => idle[q][k + 1] \notin expired

Front(q, k) == {idle[q][j] : j \in 1 .. k}
Beyond_KeepsTaken(q, k) == SubSeq(idle[q], k, Len(idle[q]))
Beyond(q, k) == SubSeq(idle[q], k + 1, Len(idle[q]))

\* The queue has room for one more once k idle connections are gone.
HasRoom_OffByOne(q, k) == num_conns[q] - k <= Capacity(q)
HasRoom(q, k) == num_conns[q] - k < Capacity(q)

Shut_Forgotten(gone) == UNCHANGED <<open, expired>>

\* Close the sockets in gone: they are no longer open, and expire no more.
Shut(gone) == /\ open' = open \ gone
              /\ expired' = expired \ gone

\* ConnectionPool::get returns c; its count of attempts is gone.
Obtain(t, c) ==
  /\ held' = [held EXCEPT ![t] = c]
  /\ pc' = [pc EXCEPT ![t] = "holding"]
  /\ attempts' = [attempts EXCEPT ![t] = 0]
  /\ UNCHANGED slot

\* The thread is done with the pool: get has failed, or its connection is gone.
Leave(t) ==
  /\ pc' = [pc EXCEPT ![t] = "out"]
  /\ slot' = [slot EXCEPT ![t] = 0]
  /\ attempts' = [attempts EXCEPT ![t] = 0]

\* Queue::get hands out the oldest idle connection that has not expired.
TakeIdle(t) ==
  \E k \in 0 .. Len(idle[slot[t]]) - 1 :
    LET q == slot[t] IN
    /\ ExpiredPrefix(q, k)
    /\ idle' = [idle EXCEPT ![q] = Beyond(q, k + 1)]
    /\ num_conns' = [num_conns EXCEPT ![q] = @ - k]
    /\ Obtain(t, idle[q][k + 1])
    /\ Shut(Front(q, k))
    /\ UNCHANGED <<queue_counter, closed>>

\* The queue has no usable idle connection left and there is room: a socket is
\* opened and authenticated.
OpenNew(t) ==
  LET q == slot[t]
      k == Len(idle[q]) IN
  /\ ExpiredPrefix(q, k)
  /\ HasRoom(q, k)
  /\ \E c \in Conns \ open :
       /\ Obtain(t, c)
       /\ open' = (open \ Front(q, k)) \cup {c}
  /\ expired' = expired \ Front(q, k)
  /\ idle' = [idle EXCEPT ![q] = << >>]
  /\ num_conns' = [num_conns EXCEPT ![q] = (@ - k) + 1]
  /\ UNCHANGED <<queue_counter, closed>>

\* Connection::new fails (connect or authenticate), or it succeeds and
\* set_timeout fails, which takes the new connection out of the count again.
OpenFails(t) ==
  LET q == slot[t]
      k == Len(idle[q]) IN
  /\ ExpiredPrefix(q, k)
  /\ HasRoom(q, k)
  /\ idle' = [idle EXCEPT ![q] = << >>]
  /\ num_conns' = [num_conns EXCEPT ![q] = @ - k]
  /\ Leave(t)
  /\ Shut(Front(q, k))
  /\ UNCHANGED <<queue_counter, held, closed>>

\* set_timeout fails on a connection taken from the idle ones: the connection is
\* dropped, which closes its socket, and leaves the count.
TimeoutFails(t) ==
  \E k \in 0 .. Len(idle[slot[t]]) - 1 :
    LET q == slot[t] IN
    /\ ExpiredPrefix(q, k)
    /\ idle' = [idle EXCEPT ![q] = Beyond(q, k + 1)]
    /\ num_conns' = [num_conns EXCEPT ![q] = (@ - k) - 1]
    /\ Leave(t)
    /\ Shut(Front(q, k + 1))
    /\ UNCHANGED <<queue_counter, held, closed>>

QueueFull_NoLimit(t) ==
  LET q == slot[t]
      k == Len(idle[q]) IN
  /\ ExpiredPrefix(q, k)
  /\ ~HasRoom(q, k)
  /\ idle' = [idle EXCEPT ![q] = << >>]
  /\ num_conns' = [num_conns EXCEPT ![q] = @ - k]
  /\ Shut(Front(q, k))
  /\ pc' = [pc EXCEPT ![t] = "pick"]
  /\ UNCHANGED <<queue_counter, slot, attempts, held, closed>>

\* NoMoreConnections: get tries the next queue while it has attempts left, and
\* only this error makes it try again.
QueueFull(t) ==
  LET q == slot[t]
      k == Len(idle[q]) IN
  /\ ExpiredPrefix(q, k)
  /\ ~HasRoom(q, k)
  /\ idle' = [idle EXCEPT ![q] = << >>]
  /\ num_conns' = [num_conns EXCEPT ![q] = @ - k]
  /\ Shut(Front(q, k))
  /\ \/ /\ attempts[t] - 1 > 0
        /\ attempts' = [attempts EXCEPT ![t] = @ - 1]
        /\ pc' = [pc EXCEPT ![t] = "pick"]
        /\ UNCHANGED slot
     \/ attempts[t] - 1 = 0 /\ Leave(t)
  /\ UNCHANGED <<queue_counter, held, closed>>

\* One critical section of Queue::get.
QueueGet(t) ==
  /\ pc[t] = "lock"
  /\ TakeIdle(t) \/ OpenNew(t) \/ OpenFails(t) \/ TimeoutFails(t) \/ QueueFull(t)
-----------------------------------------------------------------------------
(* PooledConnection *)

PutBack_InFront(t) ==
  /\ pc[t] = "holding"
  /\ LET q == slot[t] IN
       IF num_conns[q] < Capacity(q)
       THEN /\ idle' = [idle EXCEPT ![q] = <<held[t]>> \o @]
            /\ UNCHANGED <<num_conns, open, expired>>
       ELSE /\ num_conns' = [num_conns EXCEPT ![q] = @ - 1]
            /\ Shut({held[t]})
            /\ UNCHANGED idle
  /\ held' = [held EXCEPT ![t] = NoConn]
  /\ Leave(t)
  /\ UNCHANGED <<queue_counter, closed>>

\* Drop of the PooledConnection: Queue::put_back keeps the connection only while
\* the queue answers for fewer connections than its capacity, this one included.
PutBack(t) ==
  /\ pc[t] = "holding"
  /\ LET q == slot[t] IN
       IF num_conns[q] < Capacity(q)
       THEN /\ idle' = [idle EXCEPT ![q] = Append(@, held[t])]
            /\ UNCHANGED <<num_conns, open, expired>>
       ELSE /\ num_conns' = [num_conns EXCEPT ![q] = @ - 1]
            /\ Shut({held[t]})
            /\ UNCHANGED idle
  /\ held' = [held EXCEPT ![t] = NoConn]
  /\ Leave(t)
  /\ UNCHANGED <<queue_counter, closed>>

DropConn_KeepsPlace(t) ==
  /\ pc[t] = "holding"
  /\ pc' = [pc EXCEPT ![t] = "closing"]
  /\ UNCHANGED <<queueVars, queue_counter, slot, attempts, held, open, expired, closed>>

\* invalidate: Queue::drop_conn first gives the place in the queue away ...
DropConn(t) ==
  /\ pc[t] = "holding"
  /\ num_conns' = [num_conns EXCEPT ![slot[t]] = @ - 1]
  /\ pc' = [pc EXCEPT ![t] = "closing"]
  /\ UNCHANGED <<idle, queue_counter, slot, attempts, held, open, expired, closed>>

CloseDropped_PlaceTwice(t) ==
  /\ pc[t] = "closing"
  /\ num_conns' = [num_conns EXCEPT ![slot[t]] = @ - 1]
  /\ Shut({held[t]})
  /\ held' = [held EXCEPT ![t] = NoConn]
  /\ Leave(t)
  /\ UNCHANGED <<idle, queue_counter, closed>>

\* ... and closes the socket once the mutex is free again.
CloseDropped(t) ==
  /\ pc[t] = "closing"
  /\ Shut({held[t]})
  /\ held' = [held EXCEPT ![t] = NoConn]
  /\ Leave(t)
  /\ UNCHANGED <<queueVars, queue_counter, closed>>
-----------------------------------------------------------------------------
\* The idle_deadline of a connection passes while it waits.  Every send or receive
\* moves the deadline on, and only Queue::get looks at it: whether it passes while a
\* thread has the connection shows once the connection waits again.
Expire(c) ==
  /\ \E q \in Queues : c \in Front(q, Len(idle[q]))
  /\ c \notin expired
  /\ expired' = expired \cup {c}
  /\ UNCHANGED <<queueVars, queue_counter, callVars, held, open, closed>>

\* Node::close, through ConnectionPool::close and Queue::clear.  It needs the
\* Node for itself (Arc::get_mut), and a thread keeps its Arc<Node> from before
\* get until its PooledConnection is gone.
ClosePool ==
  /\ ~closed
  /\ \A t \in Threads : pc[t] = "out"
  /\ closed' = TRUE
  /\ Shut(UNION {Front(q, Len(idle[q])) : q \in Queues})
  /\ idle' = [q \in Queues |-> << >>]
  /\ num_conns' = [q \in Queues |-> 0]
  /\ UNCHANGED <<queue_counter, callVars, held>>

\* What a thread does without anything from outside: one step of its call.
Step(t) == PickQueue(t) \/ QueueGet(t) \/ PutBack(t) \/ DropConn(t) \/ CloseDropped(t)

Next ==
  \/ \E t \in Threads : StartGet(t) \/ Step(t)
  \/ \E c \in Conns : Expire(c)
  \/ ClosePool

Spec == Init /\ [][Next]_vars

\* Scheduling: a thread inside a call gets on with it (the mutexes are held for
\* a bounded time and parking_lot hands them over fairly), and the tend thread
\* uses the node again and again: it sends an info request in every round.
Fairness == /\ WF_vars(StartGet(TendThread))
            /\ \A t \in Threads : WF_vars(Step(t))

LiveSpec == Spec /\ Fairness
-----------------------------------------------------------------------------
\* Both counters are usize in the code: neither goes below zero.
TypeOK ==
  /\ idle \in [Queues -> Seq(Conns)]
  /\ num_conns \in [Queues -> Nat]
  /\ queue_counter \in Queues
  /\ pc \in [Threads -> {"out", "pick", "lock", "holding", "closing"}]
  /\ slot \in [Threads -> Queues]
  /\ attempts \in [Threads -> Nat]
  /\ held \in [Threads -> Conns \cup {NoConn}]
  /\ open \subseteq Conns
  /\ expired \subseteq Conns
  /\ closed \in BOOLEAN

\* The threads with a PooledConnection that queue q answers for.
Holders(q) == {t \in Threads : pc[t] = "holding" /\ slot[t] = q}

\* Queue::num_conns is exactly the idle connections plus the ones in use, through
\* every interleaving of get, put_back, drop_conn and their failures: a place
\* that leaked would be lost to the node for good, and one given back twice would
\* let the usize count wrap below zero.
Accounting == \A q \in Queues : num_conns[q] = Len(idle[q]) + Cardinality(Holders(q))

\* No queue ever answers for more connections than its share.
WithinCapacity == \A q \in Queues : num_conns[q] <= Capacity(q)

\* A connection has one owner: it waits at one place in one queue, or one thread
\* has it, and it is open.  Two owners would mix the replies of two commands.
OneOwner ==
  /\ \A t \in Threads : held[t] # NoConn <=> pc[t] \in {"holding", "closing"}
  /\ \A t, u \in Threads : t # u /\ held[t] # NoConn => held[t] # held[u]
  /\ \A q, r \in Queues : \A i \in DOMAIN idle[q], j \in DOMAIN idle[r] :
       idle[q][i] = idle[r][j] => q = r /\ i = j
  /\ \A q \in Queues, t \in Threads : \A i \in DOMAIN idle[q] : idle[q][i] # held[t]

\* No socket is lost: whatever is open is in a queue or with a thread.
NoSocketLeak ==
  open = (UNION {Front(q, Len(idle[q])) : q \in Queues})
         \cup ({held[t] : t \in Threads} \ {NoConn})

Closing(q) == {t \in Threads : pc[t] = "closing" /\ slot[t] = q}

\* The sockets queue q has opened that are not closed yet.
Sockets(q) == Front(q, Len(idle[q])) \cup {held[t] : t \in Holders(q) \cup Closing(q)}

\* drop_conn frees the place before it closes the socket, so the node may see more
\* sockets than a queue's share, and more than max_conns_per_node, but only by
\* those that are being closed.
SocketsBounded ==
  /\ \A q \in Queues :
       Cardinality(Sockets(q)) <= Capacity(q) + Cardinality(Closing(q))
  /\ Cardinality(open) <=
       MaxConnsPerNode + Cardinality({t \in Threads : pc[t] = "closing"})

\* The pool implements the bounded pool its callers rely on.  A connection that
\* drop_conn has taken out of the count is no longer on lease.
Pool == INSTANCE BoundedPool WITH
          lease <- [t \in Threads |-> IF pc[t] = "holding" THEN held[t] ELSE NoConn],
          spare <- UNION {Front(q, Len(idle[q])) : q \in Queues},
          Limit <- MaxConnsPerNode

ImplementsBoundedPool == Pool!BPSpec

\* get always returns, with a connection or an error: the probing of full queues
\* ends however the threads interleave.
GetReturns ==
  \A t \in Threads : pc[t] \in {"pick", "lock"} ~> pc[t] \in {"out", "holding"}

\* An idle connection that has passed its deadline does not stay in the pool while
\* the node is in use: the queues are served in turn and oldest first.
ExpiredConnsGo == \A c \in Conns : c \in expired ~> c \notin expired
=============================================================================
