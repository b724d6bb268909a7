----------------------------- MODULE BoundedPool -----------------------------
(***************************************************************************)
(* What the connection pool of a node promises its callers: every leased   *)
(* connection belongs to one caller, and no more than Limit connections    *)
(* are leased or spare at any time.  How the pool is split into queues,    *)
(* which queue is asked and which spare connections have expired is the    *)
(* business of the module ConnectionPool, which implements this one.       *)
(***************************************************************************)
EXTENDS Naturals, FiniteSets

CONSTANTS Threads,   \* the callers
          Conns,     \* connection identities
          NoConn,    \* "no connection"
          Limit      \* max_conns_per_node

VARIABLES lease,     \* lease[t]: the connection caller t holds, or NoConn
          spare      \* the connections waiting in the pool

bpVars == <<lease, spare>>

Leased == {lease[t] : t \in Threads} \ {NoConn}

BPInit == /\ lease = [t \in Threads |-> NoConn]
          /\ spare = {}

\* A caller obtains a spare connection, or a new one while there is room; the
\* pool may throw spare connections away on the same occasion.
Acquire(t) ==
  /\ lease[t] = NoConn
  /\ \E gone \in SUBSET spare, c \in Conns :
       /\ \/ c \in spare \ gone
          \/ /\ c \notin spare \cup Leased
             /\ Cardinality(spare \ gone) + Cardinality(Leased) < Limit
       /\ lease' = [lease EXCEPT ![t] = c]
       /\ spare' = spare \ (gone \cup {c})

\* A caller gives its connection up: it becomes spare or is closed.
GiveUp(t) ==
  /\ lease[t] # NoConn
  /\ lease' = [lease EXCEPT ![t] = NoConn]
  /\ spare' \in {spare, spare \cup {lease[t]}}

\* Spare connections are closed.
Reap == /\ \E gone \in SUBSET spare : spare' = spare \ gone
        /\ UNCHANGED lease

BPNext == \/ \E t \in Threads : Acquire(t) \/ GiveUp(t)
          \/ Reap

BPSpec == BPInit /\ [][BPNext]_bpVars
=============================================================================
